---------------------------- MODULE Probe_proofs ----------------------------
(***************************************************************************)
(* For every page and every command line, however long and in whatever     *)
(* order a person, the guest, fetches and ticks come: the console and the  *)
(* input keep their order, and a halted page stays as it is.               *)
(***************************************************************************)
EXTENDS Probe, SequenceTheorems, TLAPS

Texts == Seq(Tokens)
Uarts == [ier : SUBSET {Rdi, Thri}, dlab : BOOLEAN, rx : Texts, tx : Texts]
Guests == [kind : {"smoke", "linux"}, stage : {"echo", "reset", "firmware", "shell", "trapped"},
           out : Texts, line : Texts, ran : BOOLEAN]
Pictures == [console : Texts, initrd : BOOLEAN]

StreamTypes ==
  /\ u \in Uarts /\ u.dlab = FALSE
  /\ guest \in Guests
  /\ console \in Texts /\ said \in Texts /\ typed \in Texts /\ got \in Texts

PageTypes ==
  /\ query.input \in Texts /\ query.syncEvery \in Nat \ {0} /\ query.autoRun \in BOOLEAN
  /\ dom \in Pictures
  /\ running \in BOOLEAN /\ sent \in BOOLEAN /\ expected \in BOOLEAN /\ open \in BOOLEAN
  /\ has \subseteq 1 .. 4 /\ loads \in [Loaders -> 0 .. NoLoad]
  /\ ticks \in 0 .. query.syncEvery - 1
  /\ job \in {"none", "tick", "step", "flush"} /\ left \in {"none", "one", "many"}

\* What was transmitted and what was read, against what reached the other end.
Streams ==
  /\ console \o u.tx = said
  /\ got \o u.rx = typed

StreamInv == StreamTypes /\ PageTypes /\ Streams

-----------------------------------------------------------------------------
\* Texts and the UART.

\* Concatenation of texts is associative.
LEMMA Associates ==
  ASSUME NEW s \in Texts, NEW t \in Texts, NEW r \in Texts
  PROVE  (s \o t) \o r = s \o (t \o r)
  BY ConcatAssociative DEF Texts

\* Sequences of tokens under the operators the model builds them with.
LEMMA TextFacts ==
  /\ <<>> \in Texts
  /\ \A t \in Tokens : <<t>> \in Texts
  /\ \A s \in Texts : s \o <<>> = s /\ <<>> \o s = s
  /\ \A s, t \in Texts : s \o t \in Texts
  /\ \A s, t, r \in Texts : (s \o t) \o r = s \o (t \o r)
  /\ \A s \in Texts, t \in Tokens : Append(s, t) \in Texts /\ Append(s, t) = s \o <<t>>
  /\ \A s \in Texts : s # <<>> => /\ Head(s) \in Tokens /\ Tail(s) \in Texts
                                  /\ <<Head(s)>> \o Tail(s) = s
<1>1. <<>> \in Texts /\ \A t \in Tokens : <<t>> \in Texts
  BY DEF Texts
<1>2. \A s \in Texts : s \o <<>> = s /\ <<>> \o s = s
  BY ConcatEmptySeq DEF Texts
<1>3. \A s, t \in Texts : s \o t \in Texts
  BY ConcatProperties DEF Texts
<1>4. \A s, t, r \in Texts : (s \o t) \o r = s \o (t \o r)
  BY ConcatAssociative DEF Texts
<1>5. \A s \in Texts, t \in Tokens : Append(s, t) \in Texts /\ Append(s, t) = s \o <<t>>
  BY AppendProperties, AppendIsConcat DEF Texts
<1>6. ASSUME NEW s \in Texts, s # <<>>
      PROVE  Head(s) \in Tokens /\ Tail(s) \in Texts /\ <<Head(s)>> \o Tail(s) = s
  <2> USE <1>6 DEF Texts
  <2>1. Head(s) \in Tokens /\ Tail(s) \in Texts /\ Len(Tail(s)) = Len(s) - 1
        /\ \A i \in 1 .. Len(Tail(s)) : Tail(s)[i] = s[i + 1]
    BY HeadTailProperties
  <2>2. <<Head(s)>> \in Texts /\ Len(<<Head(s)>>) = 1 /\ <<Head(s)>>[1] = s[1]
    BY <2>1
  <2>3. Len(s) \in Nat /\ Len(s) > 0
    BY EmptySeq
  <2> DEFINE r == <<Head(s)>> \o Tail(s)
  <2>4. r \in Texts /\ Len(r) = Len(s)
        /\ \A i \in 1 .. Len(s) : r[i] = IF i <= 1 THEN s[1] ELSE Tail(s)[i - 1]
    <3> HIDE DEF Texts
    <3>1. /\ r \in Texts /\ Len(r) = 1 + Len(Tail(s))
          /\ \A i \in 1 .. 1 + Len(Tail(s)) : r[i] = IF i <= 1 THEN <<Head(s)>>[1] ELSE Tail(s)[i - 1]
      BY <2>1, <2>2, ConcatProperties DEF Texts
    <3> QED
      BY <2>1, <2>2, <2>3, <3>1
  <2>5. \A i \in 1 .. Len(s) : r[i] = s[i]
    BY <2>1, <2>3, <2>4
  <2> QED
    BY <2>1, <2>4, <2>5, SeqEqual
<1> QED
  BY <1>1, <1>2, <1>3, <1>4, <1>5, <1>6

\* What each operation on the UART does to its two queues: THR,
LEMMA WriteThrFacts ==
  ASSUME NEW c \in Uarts, NEW b \in Tokens
  PROVE  /\ WriteThr(c, b) \in Uarts /\ WriteThr(c, b).dlab = c.dlab /\ WriteThr(c, b).rx = c.rx
         /\ WriteThr(c, b).tx = IF c.dlab THEN c.tx ELSE Append(c.tx, b)
  BY TextFacts DEF Uarts, WriteThr

\* RBR,
LEMMA AfterRbrFacts ==
  ASSUME NEW c \in Uarts
  PROVE  /\ AfterRbr(c) \in Uarts /\ AfterRbr(c).dlab = c.dlab /\ AfterRbr(c).tx = c.tx
         /\ AfterRbr(c).rx = IF RbrRead(c) THEN Tail(c.rx) ELSE c.rx
  BY TextFacts DEF Uarts, AfterRbr, RbrRead

\* IER,
LEMMA WriteIerFacts ==
  ASSUME NEW c \in Uarts, NEW ier \in SUBSET {Rdi, Thri}
  PROVE  /\ WriteIer(c, ier) \in Uarts /\ WriteIer(c, ier).dlab = c.dlab
         /\ WriteIer(c, ier).rx = c.rx /\ WriteIer(c, ier).tx = c.tx
  BY DEF Uarts, WriteIer

\* LCR,
LEMMA WriteLcrFacts ==
  ASSUME NEW c \in Uarts, NEW d \in BOOLEAN
  PROVE  /\ WriteLcr(c, d) \in Uarts /\ WriteLcr(c, d).dlab = d
         /\ WriteLcr(c, d).rx = c.rx /\ WriteLcr(c, d).tx = c.tx
  BY DEF Uarts, WriteLcr

\* and the host.
LEMMA HostFacts ==
  ASSUME NEW c \in Uarts
  PROVE  /\ \A t \in Texts : /\ PushInput(c, t) \in Uarts /\ PushInput(c, t).dlab = c.dlab
                             /\ PushInput(c, t).rx = c.rx \o t /\ PushInput(c, t).tx = c.tx
         /\ ClearOutput(c) \in Uarts /\ ClearOutput(c).dlab = c.dlab
         /\ ClearOutput(c).rx = c.rx /\ ClearOutput(c).tx = <<>>
<1>1. ASSUME NEW t \in Texts
      PROVE  /\ PushInput(c, t) \in Uarts /\ PushInput(c, t).dlab = c.dlab
             /\ PushInput(c, t).rx = c.rx \o t /\ PushInput(c, t).tx = c.tx
  BY TextFacts DEF Uarts, PushInput
<1>2. /\ ClearOutput(c) \in Uarts /\ ClearOutput(c).dlab = c.dlab
      /\ ClearOutput(c).rx = c.rx /\ ClearOutput(c).tx = <<>>
  BY TextFacts DEF Uarts, ClearOutput
<1> QED
  BY <1>1, <1>2

-----------------------------------------------------------------------------
\* The guest.

\* A token transmitted extends both sides of the output.
LEMMA OneWritten ==
  ASSUME StreamTypes, Streams, NEW b \in Tokens
  PROVE  /\ said \o <<b>> \in Texts
         /\ console \o Append(u.tx, b) = said \o <<b>>
<1> PICK t : t = u.tx
  OBVIOUS
<1>1. t \in Texts /\ console \in Texts /\ said \in Texts /\ console \o t = said /\ <<b>> \in Texts
  BY TextFacts DEF StreamTypes, Streams, Uarts
<1>2. said \o <<b>> \in Texts /\ Append(t, b) = t \o <<b>>
  BY <1>1, TextFacts
<1>3. (console \o t) \o <<b>> = console \o (t \o <<b>>)
  <2> PICK w : w = <<b>>
    OBVIOUS
  <2>1. (console \o t) \o w = console \o (t \o w)
    <3>1. console \in Texts /\ t \in Texts /\ w \in Texts
      BY <1>1
    <3> QED
      BY <3>1, Associates, Zenon
  <2> QED
    BY <2>1
<1> QED
  BY <1>1, <1>2, <1>3

\* A token read leaves the queue for what was read.
LEMMA OneRead ==
  ASSUME StreamTypes, Streams, RbrRead(u)
  PROVE  /\ Head(u.rx) \in Tokens /\ Append(got, Head(u.rx)) \in Texts
         /\ Append(got, Head(u.rx)) \o AfterRbr(u).rx = typed
<1>1. u \in Uarts /\ u.rx \in Texts /\ u.rx # <<>> /\ got \in Texts /\ got \o u.rx = typed
  BY DEF StreamTypes, Streams, RbrRead, Uarts
<1> PICK r : r = u.rx
  OBVIOUS
<1>2. AfterRbr(u).rx = Tail(r)
  BY <1>1, AfterRbrFacts
<1>3. /\ Head(r) \in Tokens /\ Tail(r) \in Texts /\ <<Head(r)>> \o Tail(r) = r
      /\ <<Head(r)>> \in Texts
  BY <1>1, TextFacts
<1>4. Append(got, Head(r)) \in Texts /\ Append(got, Head(r)) = got \o <<Head(r)>>
  BY <1>1, <1>3, TextFacts
<1>5. (got \o <<Head(r)>>) \o Tail(r) = got \o (<<Head(r)>> \o Tail(r))
  <2> PICK w : w = <<Head(r)>>
    OBVIOUS
  <2>1. (got \o w) \o Tail(r) = got \o (w \o Tail(r))
    <3>1. got \in Texts /\ w \in Texts /\ Tail(r) \in Texts
      BY <1>1, <1>3
    <3> QED
      BY <3>1, Associates, ZenonT(30)
  <2> QED
    BY <2>1
<1> QED
  BY <1>1, <1>2, <1>3, <1>4, <1>5

\* The tokens the model writes are tokens.
LEMMA TokenFacts ==
  {"echo ready", "firmware", "ready", "divisor", "prompt", "error", "[trap]",
   "marker", "octal", "file-ok", "pipe-ok", "uname", "riscv64", "cr", "lf"} = Tokens
  BY DEF Tokens

\* A line of the shell: the command and the rest are texts, and so is what it prints.
LEMMA CommandFacts ==
  ASSUME NEW s \in Texts, NEW end \in DOMAIN s
  PROVE  /\ SubSeq(s, 1, end - 1) \in Texts /\ SubSeq(s, end + 1, Len(s)) \in Texts
         /\ Printed(SubSeq(s, 1, end - 1)) \in Texts
<1>1. Len(s) \in Nat /\ DOMAIN s = 1 .. Len(s) /\ end \in 1 .. Len(s)
      /\ \A i \in 1 .. Len(s) : s[i] \in Tokens
  BY LenProperties, ElementOfSeq DEF Texts
<1>2. SubSeq(s, 1, end - 1) \in Texts
  <2>1. \A i \in 1 .. end - 1 : s[i] \in Tokens
    BY <1>1
  <2>2. 1 \in Int /\ end - 1 \in Int
    BY <1>1
  <2> QED
    BY <2>1, <2>2, SubSeqProperties DEF Texts
<1>3. SubSeq(s, end + 1, Len(s)) \in Texts
  <2>1. \A i \in end + 1 .. Len(s) : s[i] \in Tokens
    BY <1>1
  <2>2. end + 1 \in Int /\ Len(s) \in Int
    BY <1>1
  <2> QED
    BY <2>1, <2>2, SubSeqProperties DEF Texts
<1>4. ASSUME NEW c \in Texts PROVE Printed(c) \in Texts
  <2>1. Len(c) \in Nat /\ DOMAIN c = 1 .. Len(c) /\ \A i \in 1 .. Len(c) : c[i] \in Tokens
    BY LenProperties, ElementOfSeq DEF Texts
  <2>2. "marker" \in Tokens /\ "riscv64" \in Tokens
    BY DEF Tokens
  <2>3. Printed(c) \in [1 .. Len(c) -> Tokens]
    BY <2>1, <2>2 DEF Printed, Output
  <2> QED
    BY <2>1, <2>3, SeqDef DEF Texts
<1> QED
  BY <1>2, <1>3, <1>4

\* Every step of the guest keeps the streams.
LEMMA GuestKeeps ==
  ASSUME StreamInv, GuestStep
  PROVE  StreamInv'
<1> USE DEF StreamInv
<1>0. u \in Uarts /\ u.dlab = FALSE /\ guest \in Guests /\ u.rx \in Texts /\ u.tx \in Texts
      /\ guest.out \in Texts /\ guest.line \in Texts
      /\ console \in Texts /\ said \in Texts /\ typed \in Texts /\ got \in Texts
      /\ console \o u.tx = said /\ got \o u.rx = typed
  BY DEF StreamTypes, Streams, Uarts, Guests
<1>1. UNCHANGED <<query, open, runtimeVars, pageVars, job, clicks, typed>> /\ PageTypes'
  BY DEF GuestStep, PageTypes, runtimeVars, pageVars
<1> DEFINE Good ==
      /\ u' \in Uarts /\ u'.dlab = FALSE /\ guest' \in Guests
      /\ said' \in Texts /\ got' \in Texts
      /\ console \o u'.tx = said' /\ got' \o u'.rx = typed
<1> SUFFICES Good
  BY <1>0, <1>1 DEF StreamTypes, Streams, runtimeVars
<1>2. CASE SmokeEcho
  <2>1. RbrRead(u) /\ u' = WriteThr(AfterRbr(u), Head(u.rx)) /\ UNCHANGED guest
        /\ got' = Append(got, Head(u.rx)) /\ said' = said \o <<Head(u.rx)>>
    BY <1>2 DEF SmokeEcho, Gets, Says
  <2>2. AfterRbr(u) \in Uarts /\ AfterRbr(u).dlab = FALSE /\ AfterRbr(u).tx = u.tx
    BY <1>0, AfterRbrFacts
  <2>3. Head(u.rx) \in Tokens /\ got' \in Texts /\ got' \o AfterRbr(u).rx = typed
    BY <2>1, OneRead
  <2>4. said' \in Texts /\ console \o Append(u.tx, Head(u.rx)) = said'
    BY <2>1, <2>3, OneWritten
  <2>5. u' \in Uarts /\ u'.dlab = FALSE /\ u'.rx = AfterRbr(u).rx /\ u'.tx = Append(u.tx, Head(u.rx))
    BY <2>1, <2>2, <2>3, WriteThrFacts
  <2> QED
    BY <1>0, <2>1, <2>3, <2>4, <2>5
<1>3. CASE Firmware
  <2>1. PICK text \in {"firmware", "riscv64"} :
          /\ u' = WriteThr(u, text) /\ said' = said \o <<text>> /\ UNCHANGED got
          /\ guest' = [guest EXCEPT !.stage = "firmware"]
    BY <1>3 DEF Firmware, Says
  <2>2. guest' \in Guests
    BY <1>0, <2>1 DEF Guests
  <2>3. text \in Tokens
    BY DEF Tokens
  <2>4. u' \in Uarts /\ u'.dlab = FALSE /\ u'.rx = u.rx /\ u'.tx = Append(u.tx, text)
    BY <1>0, <2>1, <2>3, WriteThrFacts
  <2>5. said' \in Texts /\ console \o u'.tx = said'
    BY <2>1, <2>3, <2>4, OneWritten
  <2> QED
    BY <1>0, <2>1, <2>2, <2>4, <2>5
<1>4. CASE EarlyTrap
  <2>1. guest' \in Guests
    BY <1>0, <1>4 DEF EarlyTrap, Guests
  <2> QED
    BY <1>0, <1>4, <2>1 DEF EarlyTrap
<1>5. CASE OpenTerminal
  <2> "ready" \in Tokens /\ "divisor" \in Tokens
    BY DEF Tokens
  <2> PICK a : a = WriteThr(u, "ready")
    OBVIOUS
  <2> PICK b : b = WriteLcr(a, TRUE)
    OBVIOUS
  <2> PICK c : c = WriteIer(WriteThr(b, "divisor"), {})
    OBVIOUS
  <2> PICK d : d = WriteLcr(c, FALSE)
    OBVIOUS
  <2>1. a \in Uarts /\ a.rx = u.rx /\ a.tx = Append(u.tx, "ready")
    BY <1>0, WriteThrFacts
  <2>2. b \in Uarts /\ b.dlab = TRUE /\ b.rx = a.rx /\ b.tx = a.tx
    BY <2>1, WriteLcrFacts
  <2>3. WriteThr(b, "divisor") \in Uarts /\ WriteThr(b, "divisor").rx = b.rx /\ WriteThr(b, "divisor").tx = b.tx
    BY <2>2, WriteThrFacts
  <2>4. c \in Uarts /\ c.rx = b.rx /\ c.tx = b.tx
    BY <2>3, WriteIerFacts
  <2>5. d \in Uarts /\ d.dlab = FALSE /\ d.rx = c.rx /\ d.tx = c.tx
    BY <2>4, WriteLcrFacts
  <2>6. /\ u' = WriteIer(AfterRbr(d), {Rdi, Thri})
        /\ got' = IF RbrRead(u) THEN Append(got, Head(u.rx)) ELSE got
        /\ said' = said \o <<"ready">>
        /\ guest' = [guest EXCEPT !.stage = "shell", !.out = <<"prompt">>]
    BY <1>5 DEF OpenTerminal, Gets, Says
  <2>7. AfterRbr(d) \in Uarts /\ AfterRbr(d).dlab = FALSE /\ AfterRbr(d).tx = d.tx
        /\ AfterRbr(d).rx = IF RbrRead(d) THEN Tail(d.rx) ELSE d.rx
    BY <2>5, AfterRbrFacts
  <2>8. u' \in Uarts /\ u'.dlab = FALSE /\ u'.rx = AfterRbr(d).rx /\ u'.tx = Append(u.tx, "ready")
    <3>1. {Rdi, Thri} \in SUBSET {Rdi, Thri}
      OBVIOUS
    <3>2. u' \in Uarts /\ u'.dlab = FALSE /\ u'.rx = AfterRbr(d).rx /\ u'.tx = AfterRbr(d).tx
      BY <2>6, <2>7, <3>1, WriteIerFacts
    <3>3. d.tx = a.tx
      BY <2>2, <2>4, <2>5
    <3> QED
      BY <2>1, <2>7, <3>2, <3>3
  <2>9. (RbrRead(d) <=> RbrRead(u)) /\ AfterRbr(d).rx = AfterRbr(u).rx
    <3>1. RbrRead(d) <=> RbrRead(u)
      BY <1>0, <2>1, <2>2, <2>4, <2>5 DEF RbrRead
    <3>2. AfterRbr(u).rx = IF RbrRead(u) THEN Tail(u.rx) ELSE u.rx
      BY <1>0, AfterRbrFacts
    <3>3. d.rx = u.rx
      BY <2>1, <2>2, <2>4, <2>5
    <3> QED
      BY <2>7, <3>1, <3>2, <3>3, Zenon
  <2>10. got' \in Texts /\ got' \o AfterRbr(u).rx = typed
    <3>1. CASE RbrRead(u)
      BY <2>6, <3>1, OneRead
    <3>2. CASE ~RbrRead(u)
      BY <1>0, <2>6, <3>2, AfterRbrFacts
    <3> QED
      BY <3>1, <3>2
  <2>11. said' \in Texts /\ console \o u'.tx = said'
    BY <2>6, <2>8, OneWritten
  <2>12. guest' \in Guests
    <3>1. <<"prompt">> \in Texts
      BY TextFacts, TokenFacts
    <3> QED
      BY <1>0, <2>6, <3>1 DEF Guests
  <2> QED
    BY <2>8, <2>9, <2>10, <2>11, <2>12
<1>6. CASE Receive
  <2>1. /\ u' = WriteIer(AfterRbr(u), {Rdi, Thri}) /\ Iir(u) = Rdi /\ UNCHANGED said
        /\ got' = IF RbrRead(u) THEN Append(got, Head(u.rx)) ELSE got
        /\ guest' = [guest EXCEPT !.out = Append(@, Head(u.rx)), !.line = Append(@, Head(u.rx))]
    BY <1>6 DEF Receive, Gets
  <2>2. RbrRead(u)
    BY <1>0, <2>1 DEF Iir, RdiPending, ThrePending, RbrRead, Rdi, Thri
  <2>3. AfterRbr(u) \in Uarts /\ AfterRbr(u).dlab = FALSE /\ AfterRbr(u).tx = u.tx
    BY <1>0, AfterRbrFacts
  <2>4. u' \in Uarts /\ u'.dlab = FALSE /\ u'.rx = AfterRbr(u).rx /\ u'.tx = u.tx
    BY <2>1, <2>3, WriteIerFacts
  <2>5. Head(u.rx) \in Tokens /\ got' \in Texts /\ got' \o AfterRbr(u).rx = typed
    BY <2>1, <2>2, OneRead
  <2>6. guest' \in Guests
    <3>1. Append(guest.out, Head(u.rx)) \in Texts /\ Append(guest.line, Head(u.rx)) \in Texts
      BY <1>0, <2>5, TextFacts
    <3> QED
      BY <1>0, <2>1, <3>1 DEF Guests
  <2> QED
    BY <1>0, <2>1, <2>4, <2>5, <2>6
<1>7. CASE Transmit
  <2>1. UNCHANGED got
    BY <1>7 DEF Transmit
  <2>2. CASE guest.out = <<>>
    <3>1. u' = WriteIer(u, {Rdi}) /\ UNCHANGED <<guest, said>>
      BY <1>7, <2>2 DEF Transmit
    <3>2. {Rdi} \in SUBSET {Rdi, Thri}
      OBVIOUS
    <3>3. u' \in Uarts /\ u'.dlab = u.dlab /\ u'.rx = u.rx /\ u'.tx = u.tx
      BY <1>0, <3>1, <3>2, WriteIerFacts
    <3> QED
      BY <1>0, <2>1, <3>1, <3>3
  <2>3. CASE guest.out # <<>>
    <3>1. u' = WriteThr(u, Head(guest.out)) /\ said' = said \o <<Head(guest.out)>>
          /\ guest' = [guest EXCEPT !.out = Tail(@)]
      BY <1>7, <2>3 DEF Transmit, Says
    <3>2. Head(guest.out) \in Tokens /\ Tail(guest.out) \in Texts
      BY <1>0, <2>3, TextFacts
    <3>3. guest' \in Guests
      BY <1>0, <3>1, <3>2 DEF Guests
    <3>4. said' \in Texts /\ console \o Append(u.tx, Head(guest.out)) = said'
      BY <3>1, <3>2, OneWritten
    <3>5. u' \in Uarts /\ u'.dlab = FALSE /\ u'.rx = u.rx /\ u'.tx = Append(u.tx, Head(guest.out))
      BY <1>0, <3>1, <3>2, WriteThrFacts
    <3> QED
      BY <1>0, <2>1, <3>3, <3>4, <3>5
  <2> QED
    BY <2>2, <2>3
<1>8. CASE Shell
  <2>1. u' = WriteIer(u, {Rdi, Thri}) /\ UNCHANGED <<said, got>>
    BY <1>8 DEF Shell
  <2>2. PICK end \in DOMAIN guest.line, texts \in Texts, ran \in BOOLEAN :
          guest' = [guest EXCEPT !.out = @ \o texts \o <<"prompt">>, !.ran = @ \/ ran,
                                 !.line = SubSeq(@, end + 1, Len(@))]
    <3>1. PICK end \in DOMAIN guest.line :
            LET command == SubSeq(guest.line, 1, end - 1)
                Prompt(texts, ran) ==
                  guest' = [guest EXCEPT !.out = @ \o texts \o <<"prompt">>, !.ran = @ \/ ran,
                                         !.line = SubSeq(@, end + 1, Len(@))]
            IN \/ Prompt(Printed(command), TRUE)
               \/ Prompt(<<"error">>, FALSE)
               \/ Prompt(<<>>, FALSE)
      BY <1>8 DEF Shell
    <3>2. <<"error">> \in Texts /\ <<>> \in Texts
      BY TextFacts, TokenFacts
    <3>3. Printed(SubSeq(guest.line, 1, end - 1)) \in Texts
      BY <1>0, CommandFacts
    <3> QED
      BY <3>1, <3>2, <3>3
  <2>3. SubSeq(guest.line, end + 1, Len(guest.line)) \in Texts
    BY <1>0, CommandFacts
  <2>4. guest.out \o texts \o <<"prompt">> \in Texts
    BY <1>0, TextFacts, TokenFacts
  <2>5. guest' \in Guests
    BY <1>0, <2>2, <2>3, <2>4 DEF Guests
  <2>6. u' \in Uarts /\ u'.dlab = u.dlab /\ u'.rx = u.rx /\ u'.tx = u.tx
    BY <1>0, <2>1, WriteIerFacts
  <2> QED
    BY <1>0, <2>1, <2>5, <2>6
<1> QED
  BY <1>2, <1>3, <1>4, <1>5, <1>6, <1>7, <1>8 DEF GuestStep

-----------------------------------------------------------------------------
\* The runtime and the page.

\* Fetching the output moves it to the console, with the mark of a trap.
LEMMA HandledFacts ==
  ASSUME StreamInv, Handled
  PROVE  Drained \in Texts /\ console' = Drained /\ said' = Drained
<1>1. console \in Texts /\ said \in Texts /\ u.tx \in Texts /\ console \o u.tx = said
  BY DEF StreamInv, StreamTypes, Streams, Uarts
<1>2. "[trap]" \in Tokens /\ Append(said, "[trap]") = said \o <<"[trap]">> /\ said \o <<>> = said
      /\ <<"[trap]">> \in Texts
  BY <1>1, TextFacts DEF Tokens
<1>3. Drained = said \o (IF Trapped THEN <<"[trap]">> ELSE <<>>)
  BY <1>1 DEF Drained
<1>4. said' = Drained
  BY <1>2, <1>3 DEF Handled
<1>5. Drained \in Texts
  BY <1>1, <1>2, <1>3, TextFacts
<1> QED
  BY <1>4, <1>5 DEF Handled

\* A line is a text.
LEMMA LineFacts ==
  ASSUME NEW text \in Texts
  PROVE  Line(text) \in Texts
<1>1. <<"cr", "lf">> \in Texts
  <2> PICK cr \in Tokens, lf \in Tokens : cr = "cr" /\ lf = "lf"
    BY DEF Tokens
  <2>1. <<cr, lf>> \in Texts
    BY DEF Texts
  <2> QED
    BY <2>1
<1> QED
  BY <1>1, TextFacts DEF Line

\* What the host pushes is behind what waits already.
LEMMA PushedFacts ==
  ASSUME StreamInv, NEW c \in Uarts, c.rx = u.rx, NEW text \in Texts
  PROVE  PushInput(c, text) \in Uarts /\ PushInput(c, text).tx = c.tx
         /\ PushInput(c, text).dlab = c.dlab
         /\ typed \o text \in Texts /\ got \o PushInput(c, text).rx = typed \o text
<1>1. got \in Texts /\ typed \in Texts /\ u.rx \in Texts /\ got \o u.rx = typed
  BY DEF StreamInv, StreamTypes, Streams, Uarts
<1>2. (got \o u.rx) \o text = got \o (u.rx \o text)
  BY <1>1, Associates, ZenonT(30)
<1>3. /\ PushInput(c, text) \in Uarts /\ PushInput(c, text).dlab = c.dlab
      /\ PushInput(c, text).rx = c.rx \o text /\ PushInput(c, text).tx = c.tx
  BY HostFacts
<1>4. typed \o text \in Texts
  BY <1>1, TextFacts
<1>5. got \o PushInput(c, text).rx = typed \o text
  <2>1. PushInput(c, text).rx = u.rx \o text
    BY <1>3
  <2> QED
    BY <1>1, <1>2, <2>1, Zenon
<1> QED
  BY <1>3, <1>4, <1>5

\* What syncUi shows is a picture.
LEMMA ShownFacts ==
  ASSUME NEW text \in Texts, NEW artifacts, Shown(text, artifacts)
  PROVE  dom' \in Pictures /\ dom'.console = text
<1>1. CASE 4 \in artifacts
  <2>1. (4 \in artifacts) = TRUE
    BY <1>1
  <2>2. dom' = [console |-> text, initrd |-> TRUE]
    BY <2>1, Zenon DEF Shown
  <2> QED
    BY <2>2 DEF Pictures
<1>2. CASE ~(4 \in artifacts)
  <2>1. (4 \in artifacts) = FALSE
    BY <1>2
  <2>2. dom' = [console |-> text, initrd |-> FALSE]
    BY <2>1, Zenon DEF Shown
  <2> QED
    BY <2>2 DEF Pictures
<1> QED
  BY <1>1, <1>2

\* The end of a tick.
LEMMA EndTickKeeps ==
  ASSUME StreamInv, EndTick
  PROVE  StreamInv'
<1> DEFINE text == IF SendsInput THEN Line(query.input) ELSE <<>>
<1>1. Drained \in Texts /\ console' = Drained /\ said' = Drained
  BY HandledFacts DEF EndTick
<1>2. text \in Texts
  BY LineFacts, TextFacts DEF StreamInv, PageTypes
<1>3. u \in Uarts /\ u.dlab = FALSE /\ guest \in Guests /\ got \in Texts
  BY DEF StreamInv, StreamTypes
<1>4. ClearOutput(u) \in Uarts /\ ClearOutput(u).rx = u.rx /\ ClearOutput(u).tx = <<>>
      /\ ClearOutput(u).dlab = FALSE
  BY <1>3, HostFacts
<1>5. u' = PushInput(ClearOutput(u), text) /\ typed' = typed \o text /\ UNCHANGED <<guest, got>>
  BY DEF EndTick
<1> HIDE DEF text
<1>6. u' \in Uarts /\ u'.tx = <<>> /\ u'.dlab = FALSE /\ typed' \in Texts /\ got \o u'.rx = typed'
  BY <1>2, <1>4, <1>5, PushedFacts
<1>7. StreamTypes' /\ Streams'
  <2>1. console' \o <<>> = console'
    BY <1>1, TextFacts
  <2> QED
    BY <1>1, <1>3, <1>5, <1>6, <2>1 DEF StreamTypes, Streams
<1>8. PageTypes'
  <2>1. dom' \in Pictures
    BY <1>1, ShownFacts DEF EndTick, StreamInv, PageTypes
  <2>2. ticks' \in 0 .. query.syncEvery - 1
    BY DEF EndTick, TicksAfter, Sync, StreamInv, PageTypes
  <2>3. sent' \in BOOLEAN /\ expected' \in BOOLEAN /\ running' \in BOOLEAN
    BY DEF EndTick, StreamInv, PageTypes
  <2>4. job' \in {"none", "tick", "step", "flush"} /\ left' \in {"none", "one", "many"}
    BY DEF EndTick
  <2>5. UNCHANGED <<query, open, has, loads>>
    BY DEF EndTick
  <2> QED
    BY <2>1, <2>2, <2>3, <2>4, <2>5 DEF StreamInv, PageTypes
<1> QED
  BY <1>7, <1>8 DEF StreamInv

\* The end of a step or of a run while paused.
LEMMA EndRunKeeps ==
  ASSUME StreamInv, EndRun
  PROVE  StreamInv'
<1>1. Drained \in Texts /\ console' = Drained /\ said' = Drained
  BY HandledFacts DEF EndRun
<1>2. u \in Uarts /\ u.dlab = FALSE /\ guest \in Guests /\ got \in Texts /\ typed \in Texts
      /\ got \o u.rx = typed
  BY DEF StreamInv, StreamTypes, Streams
<1>3. u' \in Uarts /\ u'.rx = u.rx /\ u'.tx = <<>> /\ u'.dlab = FALSE /\ UNCHANGED <<guest, got, typed>>
  BY <1>2, HostFacts DEF EndRun
<1>4. StreamTypes' /\ Streams'
  <2>1. console' \o <<>> = console'
    BY <1>1, TextFacts
  <2> QED
    BY <1>1, <1>2, <1>3, <2>1 DEF StreamTypes, Streams
<1>5. PageTypes'
  <2>1. dom' \in Pictures
    BY <1>1, ShownFacts DEF EndRun
  <2>2. running' \in BOOLEAN
    BY DEF EndRun, StreamInv, PageTypes
  <2> QED
    BY <2>1, <2>2 DEF EndRun, StreamInv, PageTypes
<1> QED
  BY <1>4, <1>5 DEF StreamInv

\* A new runner starts with empty streams.
LEMMA FreshFacts ==
  ASSUME NEW g \in Guests, NEW text \in Texts, Fresh(UartReset, g, text)
  PROVE  StreamTypes' /\ Streams'
<1>1. UartReset \in Uarts /\ UartReset.dlab = FALSE /\ UartReset.rx = <<>> /\ UartReset.tx = <<>>
  BY TextFacts DEF UartReset, Uarts
<1>2. <<>> \in Texts /\ <<>> \o <<>> = <<>> /\ text \o <<>> = text
  BY TextFacts
<1> QED
  BY <1>1, <1>2 DEF Fresh, StreamTypes, Streams

\* The two guests a runner is given.
LEMMA GuestFacts == SmokeGuest \in Guests /\ LinuxGuest \in Guests /\ <<"echo ready">> \in Texts
<1>1. "echo ready" \in Tokens
  BY DEF Tokens
<1> QED
  BY <1>1, TextFacts DEF SmokeGuest, LinuxGuest, Guests

\* An artifact, and the boot after the last.
LEMMA FetchedKeeps ==
  ASSUME StreamInv, NEW l \in Loaders, Fetched(l)
  PROVE  StreamInv'
<1> DEFINE k == loads[l]
           now == IF k = 0 THEN has ELSE has \cup {k}
           after == IF k = 3 /\ ~query.initrd THEN NoLoad ELSE k + 1
<1>1. k \in 0 .. 4 /\ after \in 0 .. NoLoad /\ now \subseteq 1 .. 4
  <2>1. k \in 0 .. NoLoad /\ k # NoLoad /\ has \subseteq 1 .. 4
    BY DEF Fetched, StreamInv, PageTypes
  <2>2. k \in 0 .. 4
    BY <2>1 DEF NoLoad
  <2> HIDE DEF k
  <2>3. after \in 0 .. NoLoad
    BY <2>2 DEF NoLoad
  <2>4. now \subseteq 1 .. 4
    BY <2>1, <2>2
  <2> QED
    BY <2>2, <2>3, <2>4
<1>2. loads' = [loads EXCEPT ![l] = after] /\ has' = now
      /\ UNCHANGED <<query, open, sent, expected, ticks, job, left, clicks>>
  BY DEF Fetched
<1>3. CASE after = NoLoad /\ Ready(now)
  <2>1. Fresh(UartReset, LinuxGuest, <<>>) /\ running' = query.autoRun /\ Shown(<<>>, now)
    BY <1>3 DEF Fetched
  <2>2. StreamTypes' /\ Streams'
    BY <2>1, FreshFacts, GuestFacts, TextFacts
  <2>3. dom' \in Pictures
    BY <2>1, TextFacts, ShownFacts
  <2>4. running' \in BOOLEAN
    BY <2>1 DEF StreamInv, PageTypes
  <2> QED
    BY <1>1, <1>2, <2>2, <2>3, <2>4 DEF StreamInv, PageTypes
<1>4. CASE ~(after = NoLoad /\ Ready(now))
  <2>1. UNCHANGED <<guestVars, console, running, typed>>
        /\ IF k = 0 THEN UNCHANGED dom ELSE Shown(console, IF after = NoLoad THEN {} ELSE now)
    BY <1>4 DEF Fetched
  <2>2. dom' \in Pictures
    BY <2>1, ShownFacts DEF StreamInv, StreamTypes, PageTypes
  <2> QED
    BY <1>1, <1>2, <2>1, <2>2 DEF StreamInv, StreamTypes, Streams, PageTypes, guestVars
<1> QED
  BY <1>3, <1>4

\* What a person does.
LEMMA PersonKeeps ==
  ASSUME StreamInv, Person
  PROVE  StreamInv'
<1> USE DEF StreamInv, Click
<1>1. CASE Step
  BY <1>1 DEF Step, StreamTypes, Streams, PageTypes, guestVars, runtimeVars, pageVars
<1>2. CASE ToggleRun
  <2>1. dom' \in Pictures
    BY <1>2, ShownFacts DEF ToggleRun, StreamTypes
  <2> QED
    BY <1>2, <2>1 DEF ToggleRun, StreamTypes, Streams, PageTypes, guestVars
<1>3. CASE Reset
  <2>1. StreamTypes' /\ Streams'
    BY <1>3, FreshFacts, GuestFacts DEF Reset, Smoke
  <2>2. dom' \in Pictures
    BY <1>3, GuestFacts, ShownFacts DEF Reset
  <2> QED
    BY <1>3, <2>1, <2>2 DEF Reset, PageTypes
<1>4. CASE LoadLinux
  <2>1. loads' \in [Loaders -> 0 .. NoLoad]
    <3>1. loads \in [Loaders -> 0 .. NoLoad] /\ loads' = [loads EXCEPT !["button"] = 0]
      BY <1>4 DEF LoadLinux, PageTypes
    <3>2. 0 \in 0 .. NoLoad
      BY DEF NoLoad
    <3> QED
      BY <3>1, <3>2
  <2>2. dom' \in Pictures
    BY <1>4 DEF LoadLinux, PageTypes, Pictures
  <2> QED
    BY <1>4, <2>1, <2>2 DEF LoadLinux, StreamTypes, Streams, PageTypes, guestVars, runtimeVars
<1>5. ASSUME NEW text \in Lines, Submit(text) PROVE StreamInv'
  <2>1. Line(text) \in Texts
    BY PersonAssumption, LineFacts DEF Texts
  <2>2. u' = PushInput(u, Line(text)) /\ typed' = typed \o Line(text)
        /\ UNCHANGED <<guest, said, got, runtimeVars, loads, sent, expected, ticks, query, open>>
    BY <1>5 DEF Submit, Push
  <2>3. u \in Uarts /\ u.dlab = FALSE /\ console \o u.tx = said
    BY DEF StreamTypes, Streams
  <2>4. u' \in Uarts /\ u'.tx = u.tx /\ u'.dlab = FALSE /\ typed' \in Texts /\ got \o u'.rx = typed'
    BY <2>1, <2>2, <2>3, PushedFacts
  <2>5. StreamTypes' /\ Streams'
    BY <2>2, <2>3, <2>4 DEF StreamTypes, Streams, runtimeVars
  <2>6. dom' \in Pictures
    BY <1>5, ShownFacts DEF Submit, StreamTypes, PageTypes
  <2>7. job' \in {"none", "tick", "step", "flush"} /\ left' \in {"none", "one", "many"}
    BY <1>5 DEF Submit, PageTypes
  <2> QED
    BY <2>2, <2>5, <2>6, <2>7 DEF PageTypes, runtimeVars
<1> QED
  BY <1>1, <1>2, <1>3, <1>4, <1>5 DEF Person

\* A tick that begins, a fetch that fails, a page that opens.
LEMMA OtherPageKeeps ==
  ASSUME StreamInv
  PROVE  /\ BeginTick => StreamInv'
         /\ \A l \in Loaders : FetchFailed(l) => StreamInv'
         /\ OpenPage => StreamInv'
<1> USE DEF StreamInv
<1>1. ASSUME BeginTick PROVE StreamInv'
  BY <1>1 DEF BeginTick, StreamTypes, Streams, PageTypes, guestVars, runtimeVars, pageVars
<1>2. ASSUME NEW l \in Loaders, FetchFailed(l) PROVE StreamInv'
  <2>1. loads' \in [Loaders -> 0 .. NoLoad]
    BY <1>2 DEF FetchFailed, PageTypes, NoLoad
  <2>2. dom' \in Pictures
    BY <1>2 DEF FetchFailed, PageTypes, Pictures
  <2> QED
    BY <1>2, <2>1, <2>2 DEF FetchFailed, StreamTypes, Streams, PageTypes, guestVars, runtimeVars
<1>3. ASSUME OpenPage PROVE StreamInv'
  <2>1. loads' \in [Loaders -> 0 .. NoLoad] /\ query' = query /\ open' = TRUE
    <3>1. loads \in [Loaders -> 0 .. NoLoad] /\ query' = query /\ open' = TRUE
          /\ loads' = [loads EXCEPT !["boot"] = IF query.linux THEN 0 ELSE NoLoad]
      BY <1>3 DEF OpenPage, Opened, PageTypes
    <3>2. (IF query.linux THEN 0 ELSE NoLoad) \in 0 .. NoLoad
      BY DEF NoLoad
    <3> QED
      BY <3>1, <3>2
  <2> QED
    BY <1>3, <2>1 DEF OpenPage, Opened, StreamTypes, Streams, PageTypes, guestVars, runtimeVars
<1> QED
  BY <1>1, <1>2, <1>3

-----------------------------------------------------------------------------
\* The page together with the probe.

ProbeTypes ==
  /\ capture \in Pictures
  /\ stage \in {"absent", "parse", "wait", "options", "browse", "cleanup", "reap", "verdict", "exited"}
  /\ server \in {"none", "starting", "up", "terminated", "killed", "dead"}

\* Every step of the page keeps the streams.
LEMMA PageKeeps ==
  ASSUME StreamInv, Page
  PROVE  StreamInv'
  BY GuestKeeps, EndTickKeeps, EndRunKeeps, FetchedKeeps, PersonKeeps, OtherPageKeeps DEF Page

\* So does every other process, which leaves the page alone or closes it.
LEMMA ProbeKeeps ==
  ASSUME StreamInv, [Next]_vars
  PROVE  StreamInv'
<1>1. ASSUME UNCHANGED browserVars PROVE StreamInv'
  BY <1>1 DEF browserVars, guestVars, runtimeVars, pageVars, StreamInv, StreamTypes, Streams, PageTypes
<1>2. ASSUME Leave PROVE StreamInv'
  BY <1>2 DEF Leave, guestVars, runtimeVars, pageVars, StreamInv, StreamTypes, Streams, PageTypes
<1>3. UNCHANGED vars => UNCHANGED browserVars
  BY DEF vars
<1> QED
  BY <1>1, <1>2, <1>3, PageKeeps DEF Next

\* The processes of the probe keep its own state well typed.
LEMMA ProbeTypesKeep ==
  ASSUME StreamInv, ProbeTypes, [Next]_vars
  PROVE  ProbeTypes'
<1>1. ASSUME UNCHANGED probeVars PROVE ProbeTypes'
  BY <1>1 DEF probeVars, ProbeTypes
<1>2. ASSUME Leave PROVE ProbeTypes'
  <2>1. NoPage \in Pictures /\ dom \in Pictures
    BY TextFacts DEF NoPage, Pictures, StreamInv, PageTypes
  <2>2. CASE BudgetEnds
    BY <2>1, <2>2 DEF BudgetEnds, ProbeTypes
  <2>3. ASSUME NEW why, BrowserLost(why) PROVE ProbeTypes'
    BY <2>3 DEF BrowserLost, ProbeTypes
  <2> QED
    BY <1>2, <2>2, <2>3 DEF Leave
<1>3. ASSUME Main PROVE ProbeTypes'
  BY <1>3 DEF Main, Parse, Connect, Deadline, CheckOptions, Cleanup, AfterCleanup, Reaped, ReapTimeout,
              Verdict, Terminated, ProbeTypes
<1>4. ASSUME Server \/ Stranger PROVE ProbeTypes'
  BY <1>4 DEF Server, Serve, Die, Stranger, ProbeTypes
<1>5. UNCHANGED vars => UNCHANGED probeVars
  BY DEF vars
<1> QED
  BY <1>1, <1>2, <1>3, <1>4, <1>5 DEF Next

\* The initial states.
LEMMA InitGood ==
  ASSUME Init
  PROVE  StreamInv /\ ProbeTypes
<1>1. /\ u = UartReset /\ guest = SmokeGuest
      /\ console = <<"echo ready">> /\ said = <<"echo ready">> /\ typed = <<>> /\ got = <<>>
  BY DEF Init, BrowserInit
<1>2. UartReset \in Uarts /\ UartReset.dlab = FALSE /\ UartReset.rx = <<>> /\ UartReset.tx = <<>>
  BY TextFacts DEF UartReset, Uarts
<1>3. StreamTypes /\ Streams
  BY <1>1, <1>2, GuestFacts, TextFacts DEF StreamTypes, Streams
<1>4. /\ query.input \in Texts /\ query.syncEvery \in Nat \ {0} /\ query.autoRun \in BOOLEAN
  <2>1. CASE query \in Queries
    BY <2>1, PersonAssumption DEF Texts
  <2>2. CASE query = QueryOf(opts)
    <3>1. opts.command \in Texts /\ opts.syncEvery \in Nat \ {0}
      BY OptionsAssumption DEF Init, Texts
    <3>2. Functional \in Texts
      <4> PICK f \in Tokens, p \in Tokens, n \in Tokens, m \in Tokens :
            f = "file-ok" /\ p = "pipe-ok" /\ n = "uname" /\ m = "marker"
        BY DEF Tokens
      <4>1. <<f, p, n, m>> \in Texts
        BY DEF Texts
      <4> QED
        BY <4>1 DEF Functional
    <3>3. query.input = CASE opts.mode = "plain" -> <<>> [] opts.mode = "functional" -> Functional
                          [] OTHER -> opts.command
      BY <2>2 DEF QueryOf
    <3>4. query.syncEvery = opts.syncEvery /\ query.autoRun = TRUE
      BY <2>2 DEF QueryOf
    <3> QED
      BY <3>1, <3>2, <3>3, <3>4, TextFacts
  <2> QED
    BY <2>1, <2>2 DEF Init
<1>5. dom \in Pictures /\ capture \in Pictures
  BY GuestFacts, TextFacts DEF Init, BrowserInit, NoPage, Pictures
<1>6. PageTypes
  <2>1. loads \in [Loaders -> 0 .. NoLoad]
    <3>1. NoLoad \in 0 .. NoLoad
      BY DEF NoLoad
    <3>2. loads = [l \in Loaders |-> NoLoad]
      BY DEF Init, BrowserInit
    <3> QED
      BY <3>1, <3>2
  <2>2. ticks \in 0 .. query.syncEvery - 1
    <3>1. ticks = 0
      BY DEF Init, BrowserInit
    <3>2. query.syncEvery \in Nat \ {0}
      BY <1>4
    <3> QED
      BY <3>1, <3>2
  <2>3. has \subseteq 1 .. 4 /\ running = FALSE /\ sent = FALSE /\ expected = FALSE /\ open = FALSE
        /\ job = "none" /\ left = "none"
    BY DEF Init, BrowserInit
  <2> QED
    BY <1>4, <1>5, <2>1, <2>2, <2>3 DEF PageTypes
<1>7. ProbeTypes
  BY <1>5 DEF Init, ProbeTypes
<1> QED
  BY <1>3, <1>6, <1>7 DEF StreamInv

\* The invariant of the page and its probe.
THEOREM StreamsKept == Spec => [](StreamInv /\ ProbeTypes)
<1>1. Init => StreamInv /\ ProbeTypes
  BY InitGood
<1>2. (StreamInv /\ ProbeTypes) /\ [Next]_vars => (StreamInv /\ ProbeTypes)'
  BY ProbeKeeps, ProbeTypesKeep
<1> QED
  BY <1>1, <1>2, PTL DEF Spec

\* OutputInOrder of the console run: what the guest transmits reaches the
\* console once and in order, whatever the page does (runtime.mbt).
THEOREM OutputKept == Spec => []OutputInOrder
<1>1. StreamInv => OutputInOrder
  BY DEF StreamInv, Streams, OutputInOrder
<1> QED
  BY <1>1, StreamsKept, PTL

\* TypeOK of the console run: every variable of the page and the probe keeps its type.
THEOREM Typing == Spec => []TypeOK
<1>1. StreamInv /\ ProbeTypes => TypeOK
  <2> SUFFICES ASSUME StreamInv, ProbeTypes PROVE TypeOK
    OBVIOUS
  <2>1. \A t \in Texts : ToSet(t) \subseteq Tokens
    BY DEF Texts, ToSet
  <2>2. /\ u.rx \in Texts /\ u.tx \in Texts /\ console \in Texts /\ said \in Texts /\ typed \in Texts
        /\ got \in Texts /\ dom.console \in Texts /\ capture.console \in Texts
        /\ guest.line \in Texts /\ guest.out \in Texts
    BY DEF StreamInv, StreamTypes, PageTypes, ProbeTypes, Uarts, Guests, Pictures
  <2>3. \A texts \in {u.rx, u.tx, console, said, typed, got, dom.console, capture.console, guest.line, guest.out} :
          ToSet(texts) \subseteq Tokens
    BY <2>1, <2>2
  <2>4. u.ier \subseteq {Rdi, Thri} /\ u.dlab \in BOOLEAN
    BY DEF StreamInv, StreamTypes, Uarts
  <2>5. guest.kind \in {"smoke", "linux"} /\ guest.stage \in {"echo", "reset", "firmware", "shell", "trapped"}
    BY DEF StreamInv, StreamTypes, Guests
  <2>6. dom.initrd \in BOOLEAN /\ capture.initrd \in BOOLEAN
    BY DEF StreamInv, PageTypes, ProbeTypes, Pictures
  <2> QED
    BY <2>3, <2>4, <2>5, <2>6 DEF TypeOK, StreamInv, PageTypes, ProbeTypes
<1> QED
  BY <1>1, StreamsKept, PTL

-----------------------------------------------------------------------------
\* A page that only its url drives.

Early == {"parse", "wait", "options"}

\* Until Linux boots, the smoke guest waits for an input that does not come; a
\* boot is never repeated; the input is pushed once, to Linux; and a page that
\* met its expectation shows all there is.
Alone ==
  stage # "absent" =>
    /\ query = QueryOf(opts)
    /\ loads["button"] = NoLoad
    /\ guest.kind = "linux" => loads["boot"] = NoLoad
    /\ guest.kind = "smoke" => guest.stage = "echo" /\ typed = <<>> /\ said = <<"echo ready">>
    /\ stage \in Early => ~open
    /\ stage \in Early \cup {"browse"} /\ ~open => guest.kind = "smoke"
    /\ typed # <<>> => sent /\ typed = Line(query.input) /\ "prompt" \in ToSet(said)
    /\ job = "none" => left = "none"
    /\ expected => guest.kind = "linux"
    /\ expected /\ query.halt => ~running /\ job \in {"none", "flush"}
    /\ expected /\ query.halt /\ job = "none" => dom.console = said

PageInv == StreamInv /\ ProbeTypes /\ Alone

\* A token of a text stays when the text grows.
LEMMA StillThere ==
  ASSUME NEW s \in Texts, NEW t \in Texts, NEW x \in ToSet(s)
  PROVE  x \in ToSet(s \o t)
<1>1. Len(s) \in Nat /\ Len(t) \in Nat /\ DOMAIN s = 1 .. Len(s)
  BY LenProperties DEF Texts
<1>2. PICK i \in 1 .. Len(s) : x = s[i]
  BY <1>1 DEF ToSet
<1>3. Len(s \o t) = Len(s) + Len(t) /\ s \o t \in Texts
      /\ \A j \in 1 .. Len(s) + Len(t) : (s \o t)[j] = IF j <= Len(s) THEN s[j] ELSE t[j - Len(s)]
  BY ConcatProperties DEF Texts
<1>4. i \in 1 .. Len(s) + Len(t) /\ (s \o t)[i] = x
  BY <1>1, <1>2, <1>3
<1>5. DOMAIN (s \o t) = 1 .. Len(s) + Len(t)
  BY <1>3, LenProperties DEF Texts
<1> QED
  BY <1>4, <1>5 DEF ToSet

\* Nothing is read from a queue into which nothing was pushed.
LEMMA NothingWaits ==
  ASSUME StreamInv, typed = <<>>
  PROVE  u.rx = <<>>
<1>1. got \in Texts /\ u.rx \in Texts /\ got \o u.rx = typed
  BY DEF StreamInv, StreamTypes, Streams, Uarts
<1>2. Len(got \o u.rx) = Len(got) + Len(u.rx) /\ Len(got) \in Nat /\ Len(u.rx) \in Nat
  BY <1>1, ConcatProperties, LenProperties DEF Texts
<1>3. Len(typed) = 0
  OBVIOUS
<1>4. Len(u.rx) = 0
  BY <1>1, <1>2, <1>3
<1> QED
  BY <1>1, <1>4, EmptySeq DEF Texts

\* The guest keeps its kind and takes nothing back; a smoke guest without input waits.
LEMMA GuestFollows ==
  ASSUME StreamInv, GuestStep
  PROVE  /\ guest'.kind = guest.kind
         /\ \E t \in Texts : said' = said \o t
         /\ ~(guest.kind = "smoke" /\ guest.stage = "echo" /\ typed = <<>>)
<1>0. guest \in Guests /\ said \in Texts /\ u \in Uarts /\ u.rx \in Texts
  BY DEF StreamInv, StreamTypes, Uarts
<1>1. /\ guest'.kind = guest.kind
      /\ \/ UNCHANGED said
         \/ \E b \in Tokens : said' = said \o <<b>>
      /\ guest.stage # "echo" \/ RbrRead(u)
  <2>1. CASE SmokeEcho
    <3>1. Head(u.rx) \in Tokens
      BY <1>0, <2>1, TextFacts DEF SmokeEcho, RbrRead
    <3> QED
      BY <2>1, <3>1 DEF SmokeEcho, Says
  <2>2. CASE Firmware \/ OpenTerminal
    <3>1. "firmware" \in Tokens /\ "riscv64" \in Tokens /\ "ready" \in Tokens
      BY DEF Tokens
    <3> QED
      BY <1>0, <2>2, <3>1 DEF Firmware, OpenTerminal, Says, Guests
  <2>3. CASE EarlyTrap \/ Receive \/ Shell
    BY <1>0, <2>3 DEF EarlyTrap, Receive, Shell, Guests
  <2>4. CASE Transmit
    <3>1. guest.out # <<>> => Head(guest.out) \in Tokens
      BY <1>0, TextFacts DEF Guests
    <3> QED
      BY <1>0, <2>4, <3>1 DEF Transmit, Says, Guests
  <2> QED
    BY <2>1, <2>2, <2>3, <2>4 DEF GuestStep
<1>2. \E t \in Texts : said' = said \o t
  BY <1>0, <1>1, TextFacts
<1>3. typed = <<>> => ~RbrRead(u)
  BY NothingWaits DEF RbrRead
<1> QED
  BY <1>1, <1>2, <1>3

\* Steps of the guest.
LEMMA GuestAlone ==
  ASSUME PageInv, GuestStep, UNCHANGED probeVars
  PROVE  Alone'
<1> SUFFICES ASSUME stage # "absent" PROVE Alone'
  BY DEF Alone, probeVars
<1> USE DEF PageInv
<1>1. /\ UNCHANGED <<stage, opts, query, open, loads, sent, expected, dom, running, job, typed>>
      /\ left' \in {"none", left} /\ left # "none"
  BY DEF GuestStep, probeVars, runtimeVars, pageVars
<1>2. guest'.kind = guest.kind /\ guest.kind # "smoke" /\ job # "none"
  BY <1>1, GuestFollows DEF Alone
<1>3. "prompt" \in ToSet(said) => "prompt" \in ToSet(said')
  <2>1. PICK t \in Texts : said' = said \o t
    BY GuestFollows
  <2> QED
    BY <2>1, StillThere DEF StreamInv, StreamTypes
<1> QED
  BY <1>1, <1>2, <1>3 DEF Alone

\* A tick.
LEMMA TickAlone ==
  ASSUME PageInv, EndTick, UNCHANGED probeVars
  PROVE  Alone'
<1> SUFFICES ASSUME stage # "absent" PROVE Alone'
  BY DEF Alone, probeVars
<1> USE DEF PageInv
<1> DEFINE text == IF SendsInput THEN Line(query.input) ELSE <<>>
<1>1. /\ UNCHANGED <<stage, opts, query, open, loads, guest>> /\ job = "tick"
      /\ sent' = (sent \/ SendsInput) /\ typed' = typed \o text
      /\ expected' = (expected \/ MeetsExpectation)
      /\ running' = ((running /\ ~Trapped) /\ ~(MeetsExpectation /\ query.halt))
      /\ job' \in {"none", "flush"} /\ (job' = "none" => left' = "none")
      /\ Sync => dom'.console = Drained
  <2>1. Sync => dom'.console = Drained
    BY HandledFacts, ShownFacts DEF EndTick
  <2> QED
    BY <2>1 DEF EndTick, probeVars
<1>2. Drained \in Texts /\ said' = Drained /\ said \in Texts /\ typed \in Texts
      /\ \E t \in Texts : said' = said \o t /\ (~Trapped => said' = said)
  <2>1. Drained \in Texts /\ said' = Drained /\ said \in Texts /\ typed \in Texts
    BY HandledFacts DEF EndTick, StreamInv, StreamTypes
  <2>2. said' = IF Trapped THEN Append(said, "[trap]") ELSE said
    BY DEF EndTick, Handled
  <2>3. "[trap]" \in Tokens
    BY DEF Tokens
  <2>4. /\ Append(said, "[trap]") = said \o <<"[trap]">> /\ <<"[trap]">> \in Texts
        /\ said \o <<>> = said /\ <<>> \in Texts
    BY <2>1, <2>3, TextFacts
  <2> QED
    BY <2>1, <2>2, <2>4
<1>3. guest.kind = "smoke" => said' = said /\ ~SendsInput /\ ~MeetsExpectation
  <2> SUFFICES ASSUME guest.kind = "smoke"
               PROVE  said' = said /\ ~SendsInput /\ ~MeetsExpectation
    OBVIOUS
  <2>1. said = <<"echo ready">> /\ guest.stage = "echo" /\ query = QueryOf(opts)
    BY DEF Alone
  <2>2. said' = said /\ Drained = said
    BY <1>2, <2>1 DEF Trapped
  <2>3. ToSet(Drained) = {"echo ready"}
    <3>1. Drained = <<"echo ready">>
      BY <2>1, <2>2
    <3>2. DOMAIN <<"echo ready">> = {1} /\ <<"echo ready">>[1] = "echo ready"
      OBVIOUS
    <3> QED
      BY <3>1, <3>2 DEF ToSet
  <2>4. query.expect \in {"", "ready", "marker"}
    BY <2>1 DEF QueryOf, Marker
  <2> QED
    BY <2>2, <2>3, <2>4 DEF SendsInput, MeetsExpectation
<1>4. typed' # <<>> => sent' /\ typed' = Line(query.input) /\ "prompt" \in ToSet(said')
  <2>1. CASE SendsInput
    <3>1. ~sent /\ "prompt" \in ToSet(said')
      BY <1>2, <2>1 DEF SendsInput
    <3>2. typed = <<>>
      BY <3>1 DEF Alone
    <3>3. Line(query.input) \in Texts
      BY LineFacts DEF StreamInv, PageTypes
    <3>4. typed' = Line(query.input)
      BY <1>1, <2>1, <3>2, <3>3, TextFacts
    <3> QED
      BY <1>1, <2>1, <3>1, <3>4
  <2>2. CASE ~SendsInput
    <3>1. typed' = typed
      BY <1>1, <1>2, <2>2, TextFacts
    <3>2. "prompt" \in ToSet(said) => "prompt" \in ToSet(said')
      BY <1>2, StillThere
    <3> QED
      BY <1>1, <3>1, <3>2 DEF Alone
  <2> QED
    BY <2>1, <2>2
<1>5. guest.kind = "smoke" => typed' = <<>>
  <2>1. <<>> \o <<>> = <<>>
    BY TextFacts
  <2> QED
    BY <1>1, <1>3, <2>1 DEF Alone
<1>6. expected' /\ query.halt => ~running' /\ dom'.console = said'
  <2>1. ~(expected /\ query.halt)
    BY <1>1 DEF Alone
  <2>2. MeetsExpectation => Sync
    BY DEF MeetsExpectation
  <2> QED
    BY <1>1, <1>2, <2>1, <2>2
<1>7. expected' => guest.kind = "linux"
  <2>1. guest.kind \in {"smoke", "linux"}
    BY DEF StreamInv, StreamTypes, Guests
  <2> QED
    BY <1>1, <1>3, <2>1 DEF Alone
<1> HIDE DEF text
<1> QED
  BY <1>1, <1>3, <1>4, <1>5, <1>6, <1>7 DEF Alone

\* A run while paused: the rest of the one in which the expectation was met.
LEMMA RunAlone ==
  ASSUME PageInv, EndRun, UNCHANGED probeVars
  PROVE  Alone'
<1> SUFFICES ASSUME stage # "absent" PROVE Alone'
  BY DEF Alone, probeVars
<1> USE DEF PageInv
<1>1. /\ UNCHANGED <<stage, opts, query, open, loads, guest, typed, sent, expected>>
      /\ running' = (running /\ ~Trapped) /\ job' = "none" /\ left' = "none"
      /\ said' = Drained /\ dom'.console = Drained
      /\ said' = IF Trapped THEN Append(said, "[trap]") ELSE said
  <2>1. said' = Drained /\ dom'.console = Drained
    BY HandledFacts, ShownFacts DEF EndRun
  <2> QED
    BY <2>1 DEF EndRun, Handled, probeVars
<1>2. "prompt" \in ToSet(said) => "prompt" \in ToSet(said')
  <2>1. said \in Texts /\ "[trap]" \in Tokens
    BY DEF StreamInv, StreamTypes, Tokens
  <2>2. Append(said, "[trap]") = said \o <<"[trap]">> /\ <<"[trap]">> \in Texts
    BY <2>1, TextFacts
  <2> QED
    BY <1>1, <2>1, <2>2, StillThere
<1>3. guest.kind = "smoke" => said' = said
  BY <1>1 DEF Alone, Trapped
<1> QED
  BY <1>1, <1>2, <1>3 DEF Alone

\* An artifact and the boot, which comes once.
LEMMA FetchedAlone ==
  ASSUME PageInv, NEW l \in Loaders, Fetched(l) \/ FetchFailed(l), UNCHANGED probeVars
  PROVE  Alone'
<1> SUFFICES ASSUME stage # "absent" PROVE Alone'
  BY DEF Alone, probeVars
<1> USE DEF PageInv
<1>0. l = "boot" /\ loads["boot"] # NoLoad /\ guest.kind = "smoke" /\ ~expected
      /\ loads \in [Loaders -> 0 .. NoLoad] /\ open /\ job = "none"
      /\ UNCHANGED <<stage, opts, query, open, sent, expected, job, left>>
  <2>1. l \in {"boot", "button"} /\ loads[l] # NoLoad /\ loads["button"] = NoLoad
    BY DEF Fetched, FetchFailed, Alone, Loaders
  <2>2. guest.kind \in {"smoke", "linux"} /\ loads \in [Loaders -> 0 .. NoLoad]
    BY DEF StreamInv, StreamTypes, PageTypes, Guests
  <2> QED
    BY <2>1, <2>2 DEF Alone, Fetched, FetchFailed, Idle, probeVars
<1>1. loads'["button"] = NoLoad
  BY <1>0 DEF Fetched, FetchFailed, Alone, Loaders
<1>2. CASE UNCHANGED <<guest, typed, said>>
  BY <1>0, <1>1, <1>2 DEF Alone
<1>3. CASE guest' = LinuxGuest /\ typed' = <<>> /\ loads'["boot"] = NoLoad
  BY <1>0, <1>1, <1>3 DEF Alone, LinuxGuest
<1>4. \/ UNCHANGED <<guest, typed, said>>
      \/ guest' = LinuxGuest /\ typed' = <<>> /\ loads'["boot"] = NoLoad
  <2>1. CASE FetchFailed(l)
    BY <2>1 DEF FetchFailed, guestVars
  <2>2. CASE Fetched(l)
    BY <1>0, <2>2 DEF Fetched, Fresh, guestVars, Loaders
  <2> QED
    BY <2>1, <2>2
<1> QED
  BY <1>2, <1>3, <1>4

\* The rest of the page.
LEMMA PageAlone ==
  ASSUME PageInv, Page, UNCHANGED probeVars
  PROVE  Alone'
<1> SUFFICES ASSUME stage # "absent" PROVE Alone'
  BY DEF Alone, probeVars
<1>1. CASE OpenPage
  <2>1. guest.kind = "smoke" /\ ~open /\ stage = "browse" /\ loads \in [Loaders -> 0 .. NoLoad]
    BY <1>1 DEF OpenPage, PageInv, StreamInv, PageTypes, Alone
  <2>2. /\ loads'["button"] = NoLoad /\ open' = TRUE
        /\ UNCHANGED <<stage, opts, query, guest, said, typed, sent, expected, running, job, left, dom>>
    BY <1>1, <2>1 DEF OpenPage, Opened, Alone, PageInv, probeVars, guestVars, runtimeVars, Loaders
  <2> QED
    BY <2>1, <2>2 DEF Alone, PageInv, Early
<1>2. CASE BeginTick
  <2>1. /\ UNCHANGED <<stage, opts, query, open, loads, guest, said, typed, sent, expected, running, dom>>
        /\ running /\ job' = "tick" /\ left' = "many"
    BY <1>2 DEF BeginTick, probeVars, guestVars, runtimeVars, pageVars
  <2> QED
    BY <2>1 DEF Alone, PageInv
<1> QED
  BY <1>1, <1>2, GuestAlone, TickAlone, RunAlone, FetchedAlone DEF Page

\* The probe, its server and the strangers; main leaves "browse" when the page goes.
LEMMA ProbeAlone ==
  ASSUME PageInv, [Next]_vars
  PROVE  Alone'
<1>1. CASE Page /\ UNCHANGED probeVars
  BY <1>1, PageAlone
<1>2. CASE Leave
  <2>1. /\ open' = FALSE /\ stage = "browse" /\ stage' = "cleanup"
        /\ UNCHANGED <<opts, query, loads, guest, said, typed, sent, expected, running, dom, job, left>>
    BY <1>2 DEF Leave, BudgetEnds, BrowserLost, guestVars, runtimeVars, pageVars
  <2> QED
    BY <2>1 DEF Alone, PageInv, Early
<1>3. CASE UNCHANGED browserVars /\ (Main \/ Server \/ Stranger \/ UNCHANGED probeVars)
  <2>1. UNCHANGED <<query, open, loads, guest, said, typed, sent, expected, running, dom, job, left>>
    BY <1>3 DEF browserVars, guestVars, runtimeVars, pageVars
  <2>2. /\ UNCHANGED opts
        /\ stage = "absent" => stage' = "absent"
        /\ stage' \in Early => stage \in Early
        /\ stage' = "browse" => stage \in Early \cup {"browse"}
    BY <1>3 DEF Main, Parse, Connect, Deadline, CheckOptions, Cleanup, AfterCleanup, Reaped, ReapTimeout,
                Verdict, Server, Serve, Die, Stranger, probeVars, Early
  <2> QED
    BY <2>1, <2>2 DEF Alone, PageInv
<1>4. UNCHANGED vars => UNCHANGED browserVars /\ UNCHANGED probeVars
  BY DEF vars
<1> QED
  BY <1>1, <1>2, <1>3, <1>4 DEF Next

\* The invariant of a page that nobody but its url drives: it holds at first,
LEMMA InitPage ==
  ASSUME Init
  PROVE  PageInv
<1> SUFFICES Alone
  BY InitGood DEF PageInv
<1>1. stage # "absent" => stage = "parse" /\ query = QueryOf(opts)
  BY DEF Init
<1>2. loads["button"] = NoLoad /\ guest = SmokeGuest /\ typed = <<>> /\ said = <<"echo ready">>
      /\ open = FALSE /\ sent = FALSE /\ expected = FALSE /\ job = "none" /\ left = "none"
  <2>1. loads = [l \in Loaders |-> NoLoad] /\ "button" \in Loaders
    BY DEF Init, BrowserInit, Loaders
  <2>2. loads["button"] = NoLoad
    BY <2>1, Zenon
  <2> QED
    BY <2>2 DEF Init, BrowserInit
<1> QED
  BY <1>1, <1>2 DEF Alone, SmokeGuest

\* and every step keeps it.
LEMMA PageStep ==
  ASSUME PageInv, [Next]_vars
  PROVE  PageInv'
  BY ProbeKeeps, ProbeTypesKeep, ProbeAlone DEF PageInv

\* So it always holds.
THEOREM PageKept == Spec => []PageInv
<1>1. Init => PageInv
  BY InitPage
<1>2. PageInv /\ [Next]_vars => PageInv'
  BY PageStep
<1> QED
  BY <1>1, <1>2, PTL DEF Spec

\* InputInOrder of the console run: what is pushed is read once and in order,
\* and a probe's page pushes its line at most once, after the prompt was shown
\* (browser.js syncUi).
THEOREM InputKept == Spec => []InputInOrder
<1>1. PageInv => InputInOrder
  BY DEF PageInv, StreamInv, Streams, Alone, InputInOrder
<1> QED
  BY <1>1, PageKept, PTL

\* HaltStopsGuest of the console run: a page that halts when its expectation is
\* met shows all the guest has written, and stays as it is until it is closed.
THEOREM HaltHolds == Spec => HaltStopsGuest
<1>1. PageInv /\ [Next]_vars =>
        (Halted => dom.console = said /\ (open' => UNCHANGED <<u, guest, console, dom>>))
  <2> SUFFICES ASSUME PageInv, [Next]_vars, Halted, open'
               PROVE  UNCHANGED <<u, guest, console, dom>>
    BY DEF Halted, PageInv, Alone
  <2>1. stage # "absent" /\ open /\ ~running /\ job = "none" /\ left = "none"
        /\ loads["button"] = NoLoad /\ loads["boot"] = NoLoad
    BY DEF Halted, PageInv, Alone
  <2>2. \A l \in Loaders : loads[l] = NoLoad
    BY <2>1 DEF Loaders
  <2>3. ~Leave
    BY DEF Leave
  <2>4. ~(OpenPage \/ GuestStep \/ BeginTick \/ EndTick \/ EndRun)
    BY <2>1 DEF OpenPage, GuestStep, BeginTick, EndTick, EndRun
  <2>5. \A l \in Loaders : ~Fetched(l) /\ ~FetchFailed(l)
    BY <2>2 DEF Fetched, FetchFailed
  <2>6. ~Page
    BY <2>1, <2>4, <2>5 DEF Page
  <2>7. UNCHANGED browserVars
    BY <2>3, <2>6 DEF Next, vars
  <2> QED
    BY <2>7 DEF browserVars, guestVars, runtimeVars, pageVars
<1> QED
  BY <1>1, PageKept, PTL DEF Spec, HaltStopsGuest

-----------------------------------------------------------------------------
\* What the verdict rests on.

\* A marker among the tokens of text was read with the whole input, and was
\* printed by the shell if the input does not hold it; a trap happened.
Founded(text, input, g, heard) ==
  /\ "marker" \in ToSet(text) => /\ Len(input) <= Len(heard)
                                 /\ "marker" \notin ToSet(input) => g.ran
  /\ "[trap]" \in ToSet(text) => g.stage = "trapped"

\* The shell's line is all it has read, until the input's end of line came.
LineInv(input, g, heard) ==
  \/ g.line = heard
  \/ g.line = <<>> /\ Len(heard) \in {Len(input) + 1, Len(input) + 2}
  \/ g.line = <<"lf">> /\ Len(heard) = Len(input) + 2

\* The guest's part,
HeardInv ==
  /\ Founded(said, query.input, guest, got)
  /\ Founded(guest.out, query.input, guest, got)
  /\ guest.kind = "linux" => LineInv(query.input, guest, got)
  /\ guest.stage # "shell" => typed = <<>> /\ "prompt" \notin ToSet(said)

\* the page's,
SeenInv ==
  /\ ToSet(dom.console) \subseteq ToSet(said)
  /\ ToSet(capture.console) \subseteq ToSet(said)
  /\ dom.initrd => 4 \in has
  /\ capture.initrd => 4 \in has

\* and main's: it takes one picture, of a page that is gone then.
MainInv ==
  /\ opts \in Options
  /\ stage # "browse" => ~open
  /\ stage \in Early \cup {"browse"} => capture = NoPage
  /\ (stage \in {"browse", "verdict"} \/ (stage \in {"cleanup", "reap"} /\ outcome = "none")) =>
       opts.mode # "both"

Judging == stage = "exited" \/ outcome \notin {"found", "trap"}
VerdictInv ==
  /\ PageInv /\ Judging /\ VerdictSound
  /\ stage # "absent" => HeardInv /\ SeenInv /\ MainInv

\* The tokens of a text, piece by piece.
LEMMA TokensOf ==
  /\ ToSet(<<>>) = {}
  /\ \A x : ToSet(<<x>>) = {x}
  /\ \A s, t \in Texts : ToSet(s \o t) = ToSet(s) \cup ToSet(t)
<1>1. ToSet(<<>>) = {}
  BY DEF ToSet
<1>2. ASSUME NEW x PROVE ToSet(<<x>>) = {x}
  <2>1. DOMAIN <<x>> = {1} /\ <<x>>[1] = x
    OBVIOUS
  <2> QED
    BY <2>1 DEF ToSet
<1>3. ASSUME NEW s \in Texts, NEW t \in Texts
      PROVE  ToSet(s \o t) = ToSet(s) \cup ToSet(t)
  <2>1. /\ Len(s) \in Nat /\ Len(t) \in Nat /\ DOMAIN s = 1 .. Len(s) /\ DOMAIN t = 1 .. Len(t)
        /\ DOMAIN (s \o t) = 1 .. Len(s) + Len(t)
    BY LenProperties, ConcatProperties DEF Texts
  <2>2. \A i \in 1 .. Len(s) + Len(t) : (s \o t)[i] = IF i <= Len(s) THEN s[i] ELSE t[i - Len(s)]
    BY ConcatProperties DEF Texts
  <2>3. ASSUME NEW x \in ToSet(s \o t) PROVE x \in ToSet(s) \cup ToSet(t)
    <3>1. PICK i \in 1 .. Len(s) + Len(t) : x = (s \o t)[i]
      BY <2>1 DEF ToSet
    <3>2. CASE i <= Len(s)
      BY <2>1, <2>2, <3>1, <3>2 DEF ToSet
    <3>3. CASE i > Len(s)
      <4>1. i - Len(s) \in DOMAIN t /\ x = t[i - Len(s)]
        BY <2>1, <2>2, <3>1, <3>3
      <4> QED
        BY <4>1 DEF ToSet
    <3> QED
      BY <2>1, <3>2, <3>3
  <2>4. ASSUME NEW x \in ToSet(s) PROVE x \in ToSet(s \o t)
    BY StillThere
  <2>5. ASSUME NEW x \in ToSet(t) PROVE x \in ToSet(s \o t)
    <3>1. PICK j \in 1 .. Len(t) : x = t[j]
      BY <2>1 DEF ToSet
    <3>2. Len(s) + j \in DOMAIN (s \o t) /\ (s \o t)[Len(s) + j] = x
      BY <2>1, <2>2, <3>1
    <3> QED
      BY <3>2 DEF ToSet
  <2> QED
    BY <2>3, <2>4, <2>5
<1> QED
  BY <1>1, <1>2, <1>3

\* A claim about two texts together is founded if both are.
LEMMA FoundedTogether ==
  ASSUME NEW s \in Texts, NEW t \in Texts, NEW input, NEW g, NEW heard,
         Founded(s, input, g, heard), Founded(t, input, g, heard)
  PROVE  Founded(s \o t, input, g, heard)
<1>1. ToSet(s \o t) = ToSet(s) \cup ToSet(t)
  BY TokensOf
<1> QED
  BY <1>1 DEF Founded

\* A line: the command, then its end.
LEMMA LineIs ==
  ASSUME NEW c \in Texts
  PROVE  /\ Len(c) \in Nat /\ Line(c) \in Texts /\ Len(Line(c)) = Len(c) + 2
         /\ \A i \in 1 .. Len(c) : Line(c)[i] = c[i] /\ c[i] \in ToSet(c)
         /\ Line(c)[Len(c) + 1] = "cr" /\ Line(c)[Len(c) + 2] = "lf"
<1>1. <<"cr", "lf">> \in Texts
  <2>1. "cr" \in Tokens /\ "lf" \in Tokens
    BY DEF Tokens
  <2> PICK cr \in Tokens, lf \in Tokens : cr = "cr" /\ lf = "lf"
    BY <2>1
  <2>2. <<cr, lf>> \in Texts
    BY DEF Texts
  <2> QED
    BY <2>2
<1>2. PICK e : e = <<"cr", "lf">>
  OBVIOUS
<1>3. e \in Texts /\ Len(e) = 2 /\ e[1] = "cr" /\ e[2] = "lf"
  BY <1>1, <1>2
<1>4. Len(c) \in Nat /\ DOMAIN c = 1 .. Len(c)
  BY LenProperties DEF Texts
<1>5. /\ c \o e \in Texts /\ Len(c \o e) = Len(c) + 2
      /\ \A i \in 1 .. Len(c) + 2 : (c \o e)[i] = IF i <= Len(c) THEN c[i] ELSE e[i - Len(c)]
  <2>1. /\ c \o e \in Texts /\ Len(c \o e) = Len(c) + Len(e)
        /\ \A i \in 1 .. Len(c) + Len(e) : (c \o e)[i] = IF i <= Len(c) THEN c[i] ELSE e[i - Len(c)]
    <3>1. c \in Seq(Tokens) /\ e \in Seq(Tokens)
      BY <1>3 DEF Texts
    <3> QED
      BY <3>1, ConcatProperties DEF Texts
  <2> QED
    BY <1>3, <2>1
<1>6. Line(c) = c \o e
  BY <1>2 DEF Line
<1>7. \A i \in 1 .. Len(c) : c[i] \in ToSet(c)
  BY <1>4 DEF ToSet
<1> QED
  BY <1>3, <1>4, <1>5, <1>6, <1>7

\* What was read of the input so far.
LEMMA GotIs ==
  ASSUME StreamInv, Alone, stage # "absent"
  PROVE  /\ Len(got) \in Nat /\ Len(query.input) \in Nat /\ Len(got) <= Len(query.input) + 2
         /\ \A i \in 1 .. Len(got) : got[i] = Line(query.input)[i]
         /\ u.rx # <<>> => /\ Len(got) + 1 <= Len(query.input) + 2
                           /\ Head(u.rx) = Line(query.input)[Len(got) + 1]
<1>1. got \in Texts /\ u.rx \in Texts /\ typed \in Texts /\ got \o u.rx = typed /\ query.input \in Texts
  BY DEF StreamInv, StreamTypes, Streams, PageTypes, Uarts
<1>2. /\ Len(query.input) \in Nat /\ Len(Line(query.input)) = Len(query.input) + 2
  BY <1>1, LineIs
<1>3. /\ Len(got) \in Nat /\ Len(u.rx) \in Nat /\ Len(typed) = Len(got) + Len(u.rx)
      /\ \A i \in 1 .. Len(got) + Len(u.rx) : typed[i] = IF i <= Len(got) THEN got[i] ELSE u.rx[i - Len(got)]
  BY <1>1, ConcatProperties, LenProperties DEF Texts
<1>4. CASE typed = <<>>
  <2>1. Len(got) = 0 /\ Len(u.rx) = 0
    BY <1>3, <1>4
  <2>2. u.rx = <<>>
    BY <1>1, <2>1, EmptySeq DEF Texts
  <2> QED
    BY <1>2, <2>1, <2>2
<1>5. CASE typed # <<>>
  <2>1. typed = Line(query.input)
    BY <1>5, Zenon DEF Alone
  <2>2. Len(got) + Len(u.rx) = Len(query.input) + 2
    BY <1>2, <1>3, <2>1
  <2>3. \A i \in 1 .. Len(got) : got[i] = Line(query.input)[i]
    BY <1>3, <2>1
  <2>4. ASSUME u.rx # <<>>
        PROVE  /\ Len(got) + 1 <= Len(query.input) + 2
               /\ Head(u.rx) = Line(query.input)[Len(got) + 1]
    <3>1. Len(u.rx) # 0
      BY <1>1, <2>4, EmptySeq DEF Texts
    <3>2. Len(got) + 1 \in 1 .. Len(got) + Len(u.rx) /\ Len(got) + 1 - Len(got) = 1 /\ ~(Len(got) + 1 <= Len(got))
      BY <1>3, <3>1
    <3>3. typed[Len(got) + 1] = u.rx[1]
      BY <1>3, <3>2
    <3>4. Head(u.rx) = u.rx[1]
      BY <1>1, <2>4, HeadTailProperties DEF Texts
    <3> QED
      BY <1>2, <1>3, <2>1, <2>2, <3>1, <3>3, <3>4
  <2> QED
    BY <1>2, <1>3, <2>2, <2>3, <2>4
<1> QED
  BY <1>4, <1>5

\* The command of a probe that is used as meant.
LEMMA CommandIs ==
  ASSUME MarkerLast, opts \in Options, query = QueryOf(opts), query.input \in Texts
  PROVE  \A i \in 1 .. Len(query.input) :
           /\ query.input[i] \notin EndOfLine \cup {"[trap]"}
           /\ query.input[i] = "marker" => i = Len(query.input)
<1>1. \A i \in 1 .. Len(query.input) : query.input[i] \in ToSet(query.input)
  BY LineIs
<1> QED
  BY <1>1 DEF MarkerLast

\* A character the terminal echoes was read.
LEMMA ReceiveHeard ==
  ASSUME MarkerLast, PageInv, HeardInv, opts \in Options, stage # "absent", Receive
  PROVE  /\ Founded(<<Head(u.rx)>>, query.input, guest', got')
         /\ LineInv(query.input, guest, got) => LineInv(query.input, guest', got')
         /\ Len(got') = Len(got) + 1 /\ typed # <<>>
<1> USE DEF PageInv
<1>1. /\ u \in Uarts /\ u.dlab = FALSE /\ guest \in Guests /\ got \in Texts /\ query.input \in Texts
      /\ query = QueryOf(opts)
  <2>1. query = QueryOf(opts)
    BY Zenon DEF Alone
  <2> QED
    BY <2>1 DEF StreamInv, StreamTypes, PageTypes
<1>2. /\ Iir(u) = Rdi /\ got' = IF RbrRead(u) THEN Append(got, Head(u.rx)) ELSE got
      /\ guest' = [guest EXCEPT !.out = Append(@, Head(u.rx)), !.line = Append(@, Head(u.rx))]
  BY DEF Receive, Gets
<1>3. u.rx # <<>> /\ RbrRead(u)
  BY <1>1, <1>2 DEF Iir, RdiPending, ThrePending, RbrRead, Rdi, Thri
<1>4. typed # <<>>
  BY <1>3, NothingWaits
<1> PICK h : h = Head(u.rx)
  OBVIOUS
<1> PICK n : n = Len(query.input)
  OBVIOUS
<1>5. /\ Len(got) \in Nat /\ n \in Nat /\ Len(got) + 1 <= n + 2 /\ h = Line(query.input)[Len(got) + 1]
  BY <1>3, GotIs
<1>6. h \in Tokens /\ got' = Append(got, h)
  <2>1. StreamTypes /\ Streams
    BY DEF StreamInv
  <2>2. h \in Tokens
    BY <1>3, <2>1, OneRead
  <2> QED
    BY <1>2, <1>3, <2>2
<1>7. Len(got') = Len(got) + 1
  BY <1>1, <1>6, AppendProperties DEF Texts
<1>8. /\ \A i \in 1 .. n : Line(query.input)[i] = query.input[i] /\ query.input[i] \in ToSet(query.input)
      /\ Line(query.input)[n + 1] = "cr" /\ Line(query.input)[n + 2] = "lf"
  BY <1>1, LineIs
<1>9. \A i \in 1 .. n : /\ query.input[i] \notin EndOfLine \cup {"[trap]"}
                        /\ query.input[i] = "marker" => i = n
  BY <1>1, CommandIs
<1>10. Founded(<<h>>, query.input, guest', got')
  <2>1. ToSet(<<h>>) = {h}
    BY TokensOf
  <2>2. CASE Len(got) + 1 <= n
    <3>1. /\ Len(got) + 1 \in 1 .. n
      BY <1>5, <2>2
    <3>2. h # "[trap]" /\ (h = "marker" => Len(got) + 1 = n /\ "marker" \in ToSet(query.input))
      BY <1>5, <1>8, <1>9, <3>1
    <3> QED
      BY <1>5, <1>7, <2>1, <3>2 DEF Founded
  <2>3. CASE ~(Len(got) + 1 <= n)
    <3>1. Len(got) + 1 = n + 1 \/ Len(got) + 1 = n + 2
      BY <1>5, <2>3
    <3>2. h \in {"cr", "lf"}
      BY <1>5, <1>8, <3>1
    <3> QED
      BY <2>1, <3>2 DEF Founded
  <2> QED
    BY <2>2, <2>3
<1>11. ASSUME LineInv(query.input, guest, got)
       PROVE  LineInv(query.input, guest', got')
  <2>1. guest'.line = Append(guest.line, h)
    BY <1>1, <1>2 DEF Guests
  <2>2. CASE guest.line = got
    BY <1>6, <2>1, <2>2 DEF LineInv
  <2>3. CASE guest.line = <<>> /\ Len(got) \in {n + 1, n + 2}
    <3>1. Len(got) = n + 1
      BY <1>5, <2>3
    <3>2. n + 1 + 1 = n + 2
      BY <1>5
    <3>3. h = "lf" /\ Len(got') = n + 2
      BY <1>5, <1>7, <1>8, <3>1, <3>2
    <3>4. guest'.line = <<"lf">>
      BY <2>1, <2>3, <3>3
    <3> QED
      BY <3>3, <3>4 DEF LineInv
  <2>4. CASE guest.line = <<"lf">> /\ Len(got) = n + 2
    BY <1>5, <2>4
  <2> QED
    BY <1>11, <2>2, <2>3, <2>4 DEF LineInv
<1> QED
  BY <1>4, <1>7, <1>10, <1>11

\* What the shell prints for a line, it has read.
LEMMA ShellHeard ==
  ASSUME MarkerLast, PageInv, HeardInv, opts \in Options, stage # "absent", Shell,
         LineInv(query.input, guest, got)
  PROVE  /\ LineInv(query.input, guest', got)
         /\ \E texts \in Texts :
              /\ guest'.out = guest.out \o texts \o <<"prompt">>
              /\ Founded(texts, query.input, guest', got)
         /\ guest'.stage = guest.stage /\ (guest.ran => guest'.ran)
<1> USE DEF PageInv
<1> PICK n : n = Len(query.input)
  OBVIOUS
<1> PICK line : line = guest.line
  OBVIOUS
<1>1. /\ guest \in Guests /\ line \in Texts /\ guest.out \in Texts /\ guest.ran \in BOOLEAN
      /\ got \in Texts /\ query.input \in Texts
      /\ query = QueryOf(opts)
  <2>1. query = QueryOf(opts)
    BY Zenon DEF Alone
  <2> QED
    BY <2>1 DEF StreamInv, StreamTypes, PageTypes, Guests
<1> DEFINE Runs(end, texts, ran) ==
             guest' = [guest EXCEPT !.out = @ \o texts \o <<"prompt">>, !.ran = @ \/ ran,
                                    !.line = SubSeq(@, end + 1, Len(@))]
           First(end) ==
             /\ guest.line[end] \in EndOfLine
             /\ \A j \in 1 .. end - 1 : guest.line[j] \notin EndOfLine
           Part(end) == SubSeq(guest.line, 1, end - 1)
<1>2a. PICK end \in DOMAIN guest.line :
         /\ First(end)
         /\ \/ Part(end) # <<>> /\ Runs(end, Printed(Part(end)), TRUE)
            \/ Part(end) # <<>> /\ Runs(end, <<"error">>, FALSE)
            \/ Part(end) = <<>> /\ Runs(end, <<>>, FALSE)
  BY Zenon DEF Shell
<1>2b. PICK texts, ran :
         /\ ran \in BOOLEAN /\ Runs(end, texts, ran)
         /\ \/ texts = Printed(Part(end)) /\ ran = TRUE /\ Part(end) # <<>>
            \/ texts = <<"error">> /\ ran = FALSE /\ Part(end) # <<>>
            \/ texts = <<>> /\ ran = FALSE
  <2> HIDE DEF Runs, Part, First
  <2>1. CASE Part(end) # <<>> /\ Runs(end, Printed(Part(end)), TRUE)
    BY <2>1
  <2>2. CASE Part(end) # <<>> /\ Runs(end, <<"error">>, FALSE)
    BY <2>2
  <2>3. CASE Runs(end, <<>>, FALSE)
    BY <2>3
  <2> QED
    BY <1>2a, <2>1, <2>2, <2>3
<1> PICK command : command = SubSeq(line, 1, end - 1)
  OBVIOUS
<1>2. /\ end \in DOMAIN line
      /\ line[end] \in EndOfLine /\ \A j \in 1 .. end - 1 : line[j] \notin EndOfLine
      /\ \/ texts = Printed(command) /\ ran = TRUE /\ command # <<>>
         \/ texts = <<"error">> /\ ran = FALSE /\ command # <<>>
         \/ texts = <<>> /\ ran = FALSE
  BY <1>2a, <1>2b
<1>3. /\ guest'.out = guest.out \o texts \o <<"prompt">> /\ guest'.stage = guest.stage
      /\ guest'.ran = (guest.ran \/ ran) /\ guest'.line = SubSeq(line, end + 1, Len(line))
  BY <1>1, <1>2b DEF Guests
<1> HIDE DEF Runs, Part, First
<1>4. texts \in Texts
  <2>1. Printed(command) \in Texts
    BY <1>1, CommandFacts
  <2>2. "error" \in Tokens
    BY DEF Tokens
  <2>3. <<"error">> \in Texts /\ <<>> \in Texts
    BY <2>2, TextFacts
  <2> QED
    BY <1>2, <2>1, <2>3
<1>5. /\ Len(got) \in Nat /\ n \in Nat /\ Len(got) <= n + 2
      /\ \A i \in 1 .. Len(got) : got[i] = Line(query.input)[i]
      /\ DOMAIN got = 1 .. Len(got)
  BY <1>1, GotIs, LenProperties DEF Texts
<1> PICK m : m = Len(got)
  OBVIOUS
<1>m. m \in Nat /\ n \in Nat /\ m <= n + 2
  BY <1>5
<1>6. /\ \A i \in 1 .. n : Line(query.input)[i] = query.input[i]
      /\ \A i \in 1 .. n : query.input[i] \in ToSet(query.input)
      /\ Line(query.input)[n + 1] = "cr" /\ Line(query.input)[n + 2] = "lf"
  BY <1>1, LineIs
<1>7. \A i \in 1 .. n : query.input[i] \notin EndOfLine \cup {"[trap]"}
  BY <1>1, CommandIs
<1>8. CASE line = got
  <2>1. end = n + 1
    <3>1. end \in 1 .. Len(got)
      BY <1>5, <1>8
    <3>2. ~(end \in 1 .. n)
      BY <1>2, <1>5, <1>6, <1>7, <1>8, <3>1
    <3>3. end >= n + 1
      BY <1>5, <3>1, <3>2
    <3>4. ASSUME end > n + 1 PROVE FALSE
      <4>1. n + 1 \in 1 .. end - 1 /\ n + 1 \in 1 .. Len(got)
        BY <1>5, <3>1, <3>4
      <4>2. line[n + 1] = "cr"
        BY <1>5, <1>6, <1>8, <4>1
      <4> QED
        BY <1>2, <4>1, <4>2 DEF EndOfLine
    <3> QED
      BY <1>5, <3>1, <3>3, <3>4
  <2>0. end \in 1 .. m
    BY <1>5, <1>8
  <2>2. m = n + 1 \/ m = n + 2
    BY <1>m, <2>0, <2>1
  <2>3. LineInv(query.input, guest', got)
    <3>1. CASE m = n + 1
      <4>1. guest'.line = SubSeq(got, n + 2, n + 1)
        BY <1>3, <1>5, <1>8, <2>1, <3>1
      <4>2. SubSeq(got, n + 2, n + 1) = <<>>
        BY <1>5, SubSeqEmpty
      <4> QED
        BY <3>1, <4>1, <4>2 DEF LineInv
    <3>2. CASE m = n + 2
      <4>1. guest'.line = SubSeq(got, n + 2, n + 2)
        BY <1>3, <1>5, <1>8, <2>1, <3>2
      <4>2. n + 2 \in 1 .. Len(got)
        BY <1>5, <3>2
      <4>3. got[n + 2] = "lf"
        BY <1>5, <1>6, <4>2
      <4>4. guest'.line \in Texts /\ Len(guest'.line) = 1 /\ guest'.line[1] = got[n + 2]
        <5>1. \A i \in n + 2 .. n + 2 : got[i] \in Tokens
          <6>1. got \in [1 .. Len(got) -> Tokens]
            BY <1>1, LenProperties DEF Texts
          <6> QED
            BY <1>5, <4>2, <6>1
        <5>2. n + 2 \in Int /\ n + 2 - (n + 2) + 1 = 1 /\ n + 2 + 1 - 1 = n + 2 /\ n + 2 <= n + 2
          BY <1>5
        <5>3. /\ SubSeq(got, n + 2, n + 2) \in Seq(Tokens)
              /\ Len(SubSeq(got, n + 2, n + 2)) = IF n + 2 <= n + 2 THEN n + 2 - (n + 2) + 1 ELSE 0
              /\ \A i \in 1 .. n + 2 - (n + 2) + 1 : SubSeq(got, n + 2, n + 2)[i] = got[n + 2 + i - 1]
          BY <5>1, <5>2, SubSeqProperties
        <5> QED
          BY <4>1, <5>2, <5>3 DEF Texts
      <4>5. guest'.line = <<"lf">>
        <5>0. "lf" \in Tokens
          BY DEF Tokens
        <5>1. <<"lf">> \in Texts /\ Len(<<"lf">>) = 1 /\ <<"lf">>[1] = "lf"
          BY <5>0, TextFacts
        <5>2. \A i \in 1 .. 1 : guest'.line[i] = <<"lf">>[i]
          BY <4>3, <4>4, <5>1
        <5> QED
          BY <4>4, <5>1, <5>2, SeqEqual DEF Texts
      <4> QED
        BY <3>2, <4>5 DEF LineInv
    <3> QED
      BY <2>2, <3>1, <3>2
  <2>4. Founded(texts, query.input, guest', got)
    <3>1. CASE texts = Printed(command) /\ ran = TRUE
      <4>1. /\ Len(command) \in Nat /\ \A i \in 1 .. Len(command) : i \in 1 .. n /\ command[i] = query.input[i]
        <5>0. \A i \in 1 .. n : i \in 1 .. m
          BY <1>m, <2>2
        <5>1. \A i \in 1 .. n : got[i] \in Tokens
          <6>1. got \in [1 .. m -> Tokens]
            BY <1>1, LenProperties DEF Texts
          <6> QED
            BY <5>0, <6>1
        <5>2. command = SubSeq(got, 1, n)
          BY <1>5, <1>8, <2>1
        <5>3. /\ 1 \in Int /\ n \in Int /\ n - 1 + 1 = n
          BY <1>m
        <5>4. /\ Len(command) = IF 1 <= n THEN n - 1 + 1 ELSE 0
              /\ \A i \in 1 .. n - 1 + 1 : command[i] = got[1 + i - 1]
          <6> PICK lo : lo = 1
            OBVIOUS
          <6>1. /\ Len(SubSeq(got, lo, n)) = IF lo <= n THEN n - lo + 1 ELSE 0
                /\ \A i \in 1 .. n - lo + 1 : SubSeq(got, lo, n)[i] = got[lo + i - 1]
            BY <5>1, <5>3, SubSeqProperties
          <6> QED
            BY <5>2, <6>1
        <5>5. Len(command) = n
          <6>1. Len(command) = IF 1 <= n THEN n - 1 + 1 ELSE 0
            BY <5>4
          <6>2. (IF 1 <= n THEN n - 1 + 1 ELSE 0) = n
            BY <1>m
          <6> QED
            BY <6>1, <6>2
        <5>6. ASSUME NEW i \in 1 .. n PROVE command[i] = query.input[i]
          <6>1. i \in 1 .. m /\ 1 + i - 1 = i
            BY <1>m, <2>2
          <6> QED
            BY <1>5, <1>6, <5>3, <5>4, <6>1
        <5> QED
          BY <1>m, <5>5, <5>6
      <4>2. command \in Texts /\ DOMAIN command = 1 .. Len(command)
        BY <1>1, CommandFacts, LenProperties DEF Texts
      <4>3. "[trap]" \notin ToSet(texts)
        <5>1. ASSUME NEW i \in DOMAIN texts PROVE texts[i] # "[trap]"
          <6>1. i \in 1 .. n /\ texts[i] = Output(command[i])
            BY <3>1, <4>1, <4>2, <5>1 DEF Printed
          <6> QED
            BY <1>7, <4>1, <4>2, <5>1, <3>1, <6>1 DEF Printed, Output
        <5> QED
          BY <5>1 DEF ToSet
      <4>4. guest'.ran = TRUE
        BY <1>3, <3>1
      <4> QED
        BY <1>m, <2>2, <4>3, <4>4 DEF Founded
    <3>2. CASE texts = <<"error">> \/ texts = <<>>
      <4>1. ToSet(<<"error">>) = {"error"} /\ ToSet(<<>>) = {}
        BY TokensOf
      <4> QED
        BY <3>2, <4>1 DEF Founded
    <3>3. command = SubSeq(line, 1, end - 1)
      OBVIOUS
    <3> QED
      BY <1>2, <3>1, <3>2, <3>3
  <2> QED
    BY <1>3, <1>4, <2>3, <2>4
<1>9. CASE line = <<"lf">> /\ Len(got) = n + 2
  <2>1. end = 1 /\ Len(line) = 1
    BY <1>2, <1>9
  <2>2. guest'.line = <<>> /\ command = <<>>
    <3>1. SubSeq(line, 2, 1) = <<>> /\ SubSeq(line, 1, 0) = <<>>
      BY SubSeqEmpty
    <3> QED
      BY <1>3, <2>1, <3>1
  <2>3. texts = <<>>
    BY <1>2, <2>2
  <2>4. Founded(texts, query.input, guest', got)
    BY <2>3, TokensOf DEF Founded
  <2>5. LineInv(query.input, guest', got)
    BY <1>9, <2>2 DEF LineInv
  <2> QED
    BY <1>3, <1>4, <2>4, <2>5
<1>10. CASE line = <<>>
  BY <1>2, <1>10
<1> QED
  BY <1>8, <1>9, <1>10 DEF LineInv

\* The guest's steps: what they say, queue and run is founded.
LEMMA GuestHeard ==
  ASSUME MarkerLast, PageInv, HeardInv, opts \in Options, stage # "absent", GuestStep
  PROVE  HeardInv' /\ ToSet(said) \subseteq ToSet(said')
<1> USE DEF PageInv
<1>1. /\ u \in Uarts /\ guest \in Guests /\ got \in Texts /\ query.input \in Texts /\ said \in Texts
      /\ guest.out \in Texts /\ guest.line \in Texts
      /\ Len(got) \in Nat /\ Len(query.input) \in Nat
  <2>1. /\ u \in Uarts /\ guest \in Guests /\ got \in Texts /\ query.input \in Texts /\ said \in Texts
        /\ guest.out \in Texts /\ guest.line \in Texts
    BY DEF StreamInv, StreamTypes, PageTypes, Guests
  <2> QED
    BY <2>1, LenProperties DEF Texts
<1>2. UNCHANGED <<query, typed>> /\ guest.kind = "linux" /\ guest'.kind = "linux"
  <2>1. /\ UNCHANGED <<query, typed>> /\ guest'.kind = guest.kind /\ guest.kind \in {"smoke", "linux"}
    BY <1>1, GuestFollows DEF GuestStep, Guests
  <2>2. guest.kind # "smoke"
    <3>1. guest.kind = "smoke" => guest.stage = "echo" /\ typed = <<>>
      BY Zenon DEF Alone
    <3> QED
      BY <3>1, GuestFollows
  <2> QED
    BY <2>1, <2>2
<1> PICK input : input = query.input
  OBVIOUS
<1>3. /\ Founded(said, input, guest, got) /\ Founded(guest.out, input, guest, got)
      /\ LineInv(input, guest, got) /\ input' = input
      /\ guest.stage # "shell" => typed = <<>> /\ "prompt" \notin ToSet(said)
  BY <1>2 DEF HeardInv
<1> DEFINE Goal ==
      /\ Founded(said', input, guest', got') /\ Founded(guest'.out, input, guest', got')
      /\ LineInv(input, guest', got')
      /\ guest'.stage # "shell" => typed = <<>> /\ "prompt" \notin ToSet(said')
      /\ ToSet(said) \subseteq ToSet(said')
<1> SUFFICES Goal
  BY <1>2 DEF HeardInv
<1>4. CASE SmokeEcho
  BY <1>2, <1>4 DEF SmokeEcho
<1>5. CASE Firmware
  <2>1. PICK text \in {"firmware", "riscv64"} :
          /\ guest.stage = "reset" /\ said' = said \o <<text>> /\ got' = got
          /\ guest'.stage = "firmware" /\ guest'.out = guest.out /\ guest'.line = guest.line
          /\ guest'.ran = guest.ran
    BY <1>1, <1>5 DEF Firmware, Says, Guests
  <2>2. text \in Tokens /\ <<text>> \in Texts
    <3>1. text \in Tokens
      BY DEF Tokens
    <3> QED
      BY <3>1, TextFacts
  <2>3. ToSet(said') = ToSet(said) \cup {text}
    BY <1>1, <2>1, <2>2, TokensOf
  <2>4. Founded(said', input, guest', got') /\ Founded(guest'.out, input, guest', got')
    BY <1>3, <2>1, <2>3 DEF Founded
  <2>5. LineInv(input, guest', got')
    BY <1>3, <2>1 DEF LineInv
  <2> QED
    BY <1>3, <2>1, <2>3, <2>4, <2>5
<1>6. CASE EarlyTrap
  <2>1. /\ guest.stage \in {"reset", "firmware"} /\ said' = said /\ got' = got
        /\ guest'.stage = "trapped" /\ guest'.out = guest.out /\ guest'.line = guest.line
        /\ guest'.ran = guest.ran
    BY <1>1, <1>6 DEF EarlyTrap, Guests
  <2>2. Founded(said', input, guest', got') /\ Founded(guest'.out, input, guest', got')
    BY <1>3, <2>1 DEF Founded
  <2>3. LineInv(input, guest', got')
    BY <1>3, <2>1 DEF LineInv
  <2> QED
    BY <1>3, <2>1, <2>2, <2>3
<1>7. CASE OpenTerminal
  <2>0. guest.stage = "firmware" /\ typed = <<>>
    BY <1>3, <1>7 DEF OpenTerminal
  <2>1. /\ said' = said \o <<"ready">> /\ got' = got
        /\ guest'.stage = "shell" /\ guest'.out = <<"prompt">> /\ guest'.line = guest.line
        /\ guest'.ran = guest.ran
    <3>1. u.rx = <<>>
      BY <2>0, NothingWaits
    <3> QED
      BY <1>1, <1>7, <3>1 DEF OpenTerminal, Says, Gets, Guests, RbrRead
  <2>2. "ready" \in Tokens /\ <<"ready">> \in Texts
    <3>1. "ready" \in Tokens
      BY DEF Tokens
    <3> QED
      BY <3>1, TextFacts
  <2>3. ToSet(said') = ToSet(said) \cup {"ready"} /\ ToSet(guest'.out) = {"prompt"}
    BY <1>1, <2>1, <2>2, TokensOf
  <2>4. Founded(said', input, guest', got') /\ Founded(guest'.out, input, guest', got')
    BY <1>3, <2>0, <2>1, <2>3 DEF Founded
  <2>5. LineInv(input, guest', got')
    BY <1>3, <2>1 DEF LineInv
  <2> QED
    BY <2>1, <2>3, <2>4, <2>5
<1>8. CASE Receive
  <2> PICK h : h = Head(u.rx)
    OBVIOUS
  <2>1. /\ guest.stage = "shell" /\ said' = said
        /\ guest'.stage = "shell" /\ guest'.out = Append(guest.out, h) /\ guest'.ran = guest.ran
    BY <1>1, <1>8 DEF Receive, Guests
  <2>2. /\ Founded(<<h>>, input, guest', got') /\ LineInv(input, guest', got')
        /\ Len(got') = Len(got) + 1
    BY <1>3, <1>8, ReceiveHeard
  <2>3. Founded(said, input, guest', got') /\ Founded(guest.out, input, guest', got')
    BY <1>1, <1>3, <2>1, <2>2 DEF Founded
  <2>4. Founded(guest'.out, input, guest', got')
    <3>1. h \in Tokens
      <4>1. RbrRead(u)
        BY <1>8 DEF StreamInv, StreamTypes, Receive, Iir, RdiPending, ThrePending, RbrRead, Rdi, Thri
      <4>2. StreamTypes /\ Streams
        BY DEF StreamInv
      <4> QED
        BY <4>1, <4>2, OneRead
    <3>2. guest'.out = guest.out \o <<h>> /\ <<h>> \in Texts
      BY <1>1, <2>1, <3>1, TextFacts
    <3>3. guest.out \in Texts
      BY <1>1
    <3>4. Founded(guest.out \o <<h>>, input, guest', got')
      BY <2>2, <2>3, <3>2, <3>3, FoundedTogether, Zenon
    <3> QED
      BY <3>2, <3>4
  <2> QED
    BY <2>1, <2>2, <2>3, <2>4
<1>9. CASE Transmit
  <2>1. guest.stage = "shell" /\ got' = got
    BY <1>9 DEF Transmit
  <2>2. CASE guest.out = <<>>
    BY <1>3, <1>9, <2>1, <2>2 DEF Transmit
  <2>3. CASE guest.out # <<>>
    <3> PICK h : h = Head(guest.out)
      OBVIOUS
    <3> PICK t : t = Tail(guest.out)
      OBVIOUS
    <3>1. /\ said' = said \o <<h>> /\ guest'.stage = "shell" /\ guest'.out = t
          /\ guest'.line = guest.line /\ guest'.ran = guest.ran
      BY <1>1, <1>9, <2>1, <2>3 DEF Transmit, Says, Guests
    <3>2. h \in Tokens /\ t \in Texts /\ <<h>> \o t = guest.out /\ <<h>> \in Texts
      BY <1>1, <2>3, TextFacts
    <3>3. ToSet(guest.out) = {h} \cup ToSet(t) /\ ToSet(said') = ToSet(said) \cup {h}
      <4>1. ToSet(<<h>>) = {h}
        BY TokensOf
      <4>2. ToSet(<<h>> \o t) = ToSet(<<h>>) \cup ToSet(t) /\ ToSet(said \o <<h>>) = ToSet(said) \cup ToSet(<<h>>)
        BY <1>1, <3>2, TokensOf
      <4> QED
        BY <3>1, <3>2, <4>1, <4>2
    <3>4. Founded(said', input, guest', got') /\ Founded(guest'.out, input, guest', got')
      BY <1>3, <2>1, <3>1, <3>3 DEF Founded
    <3>5. LineInv(input, guest', got')
      BY <1>3, <2>1, <3>1 DEF LineInv
    <3> QED
      BY <3>1, <3>3, <3>4, <3>5
  <2> QED
    BY <2>2, <2>3
<1>10. CASE Shell
  <2>1. guest.stage = "shell" /\ said' = said /\ got' = got
    BY <1>10 DEF Shell
  <2>2. PICK texts \in Texts :
          /\ guest'.out = guest.out \o texts \o <<"prompt">>
          /\ Founded(texts, input, guest', got)
    BY <1>3, <1>10, ShellHeard
  <2>3. LineInv(input, guest', got) /\ guest'.stage = "shell" /\ (guest.ran => guest'.ran)
    BY <1>3, <1>10, <2>1, ShellHeard
  <2>4. Founded(said, input, guest', got) /\ Founded(guest.out, input, guest', got)
    BY <1>1, <1>3, <2>1, <2>3 DEF Founded
  <2>5. Founded(guest'.out, input, guest', got)
    <3>1. Founded(guest.out \o texts, input, guest', got) /\ guest.out \o texts \in Texts
      BY <1>1, <2>2, <2>4, FoundedTogether, TextFacts
    <3>2. "prompt" \in Tokens
      BY DEF Tokens
    <3>3. <<"prompt">> \in Texts /\ Founded(<<"prompt">>, input, guest', got)
      <4>1. ToSet(<<"prompt">>) = {"prompt"}
        BY TokensOf
      <4> QED
        BY <3>2, <4>1, TextFacts DEF Founded
    <3> QED
      BY <2>2, <3>1, <3>3, FoundedTogether
  <2> QED
    BY <2>1, <2>3, <2>4, <2>5
<1> HIDE DEF Goal
<1> QED
  BY <1>4, <1>5, <1>6, <1>7, <1>8, <1>9, <1>10 DEF GuestStep

\* A picture is what it was made of.
LEMMA ShownIs ==
  ASSUME NEW text, NEW artifacts, Shown(text, artifacts)
  PROVE  dom'.console = text /\ (dom'.initrd => 4 \in artifacts)
  BY DEF Shown

\* What the page shows has been said, and only the probe's one picture of it stays.
LEMMA PageSeen ==
  ASSUME MarkerLast, PageInv, HeardInv, SeenInv, MainInv, Judging, stage # "absent",
         Page, UNCHANGED probeVars
  PROVE  HeardInv' /\ SeenInv' /\ MainInv'
<1> USE DEF PageInv
<1>1. UNCHANGED <<opts, stage, outcome, capture>> /\ opts \in Options
  BY DEF probeVars, MainInv
<1>2. /\ console \in Texts /\ said \in Texts /\ u.tx \in Texts /\ console \o u.tx = said
      /\ query.input \in Texts /\ got \in Texts
  BY DEF StreamInv, StreamTypes, Streams, PageTypes, Uarts
<1>3. ToSet(console) \subseteq ToSet(said)
  <2> PICK t : t = u.tx
    OBVIOUS
  <2>1. ToSet(console \o t) = ToSet(console) \cup ToSet(t)
    BY <1>2, TokensOf
  <2> QED
    BY <1>2, <2>1
<1>4. ASSUME Handled, UNCHANGED <<query, guest, got>>
      PROVE  /\ ToSet(Drained) = ToSet(said') /\ ToSet(said) \subseteq ToSet(said')
             /\ Founded(said', query.input, guest', got') /\ Founded(guest'.out, query.input, guest', got')
             /\ guest'.kind = "linux" => LineInv(query.input, guest', got')
             /\ "prompt" \in ToSet(said') => "prompt" \in ToSet(said)
  <2>1. said' = Drained
    BY <1>4, HandledFacts
  <2>2. said' = IF Trapped THEN Append(said, "[trap]") ELSE said
    BY <1>4 DEF Handled
  <2>3. ToSet(said') = IF Trapped THEN ToSet(said) \cup {"[trap]"} ELSE ToSet(said)
    <3>1. "[trap]" \in Tokens
      BY DEF Tokens
    <3>2. Append(said, "[trap]") = said \o <<"[trap]">> /\ <<"[trap]">> \in Texts
      BY <1>2, <3>1, TextFacts
    <3>3. ToSet(said \o <<"[trap]">>) = ToSet(said) \cup {"[trap]"}
      BY <1>2, <3>2, TokensOf
    <3> QED
      BY <2>2, <3>2, <3>3
  <2>4. Founded(said', query.input, guest', got')
    BY <1>4, <2>3 DEF HeardInv, Founded, Trapped
  <2>5. Founded(guest'.out, query.input, guest', got') /\ (guest'.kind = "linux" => LineInv(query.input, guest', got'))
    BY <1>4 DEF HeardInv
  <2> QED
    BY <2>1, <2>3, <2>4, <2>5
<1>5. CASE GuestStep
  <2>1. HeardInv' /\ ToSet(said) \subseteq ToSet(said')
    BY <1>1, <1>5, GuestHeard
  <2>2. UNCHANGED <<open, dom, has>>
    BY <1>5 DEF GuestStep, runtimeVars, pageVars
  <2> QED
    BY <1>1, <2>1, <2>2 DEF SeenInv, MainInv
<1>6. CASE EndTick
  <2>1. /\ Handled /\ UNCHANGED <<query, open, guest, got, has>>
        /\ IF Sync THEN Shown(Drained, has) ELSE UNCHANGED dom
        /\ typed' = typed \o (IF SendsInput THEN Line(query.input) ELSE <<>>)
    BY <1>6 DEF EndTick
  <2>2. /\ ToSet(Drained) = ToSet(said') /\ ToSet(said) \subseteq ToSet(said')
        /\ Founded(said', query.input, guest', got') /\ Founded(guest'.out, query.input, guest', got')
        /\ guest'.kind = "linux" => LineInv(query.input, guest', got')
        /\ "prompt" \in ToSet(said') => "prompt" \in ToSet(said)
    BY <1>4, <2>1
  <2>3. guest'.stage # "shell" => typed' = <<>> /\ "prompt" \notin ToSet(said')
    <3> SUFFICES ASSUME guest.stage # "shell" PROVE typed' = <<>> /\ "prompt" \notin ToSet(said')
      BY <2>1
    <3>1. typed = <<>> /\ "prompt" \notin ToSet(said)
      BY DEF HeardInv
    <3>2. ~SendsInput
      BY <2>2, <3>1 DEF SendsInput
    <3>3. <<>> \o <<>> = <<>>
      BY TextFacts
    <3> QED
      BY <2>1, <2>2, <3>1, <3>2, <3>3
  <2>4. HeardInv'
    BY <2>1, <2>2, <2>3 DEF HeardInv
  <2>5. ToSet(dom'.console) \subseteq ToSet(said') /\ (dom'.initrd => 4 \in has')
    <3>1. CASE Sync
      <4>1. dom'.console = Drained /\ (dom'.initrd => 4 \in has)
        BY <2>1, <3>1, ShownIs
      <4> QED
        BY <2>1, <2>2, <4>1
    <3>2. CASE ~Sync
      BY <2>1, <2>2, <3>2 DEF SeenInv
    <3> QED
      BY <3>1, <3>2
  <2> QED
    BY <1>1, <2>1, <2>2, <2>4, <2>5 DEF SeenInv, MainInv
<1>7. CASE EndRun
  <2>1. /\ Handled /\ UNCHANGED <<query, open, guest, got, has, typed>> /\ Shown(Drained, has)
    BY <1>7 DEF EndRun
  <2>2. /\ ToSet(Drained) = ToSet(said') /\ ToSet(said) \subseteq ToSet(said')
        /\ Founded(said', query.input, guest', got') /\ Founded(guest'.out, query.input, guest', got')
        /\ guest'.kind = "linux" => LineInv(query.input, guest', got')
        /\ "prompt" \in ToSet(said') => "prompt" \in ToSet(said)
    BY <1>4, <2>1
  <2>3. HeardInv'
    BY <2>1, <2>2 DEF HeardInv
  <2>4. ToSet(dom'.console) \subseteq ToSet(said') /\ (dom'.initrd => 4 \in has')
    BY <2>1, <2>2 DEF Shown
  <2> QED
    BY <1>1, <2>1, <2>2, <2>3, <2>4 DEF SeenInv, MainInv
<1>8. CASE BeginTick
  BY <1>1, <1>8 DEF BeginTick, guestVars, runtimeVars, pageVars, HeardInv, SeenInv, MainInv
<1>9. CASE OpenPage
  <2>1. /\ stage = "browse" /\ UNCHANGED <<query, guest, said, got, typed, dom, has>>
    BY <1>9 DEF OpenPage, Opened, guestVars, runtimeVars
  <2> QED
    BY <1>1, <2>1 DEF HeardInv, SeenInv, MainInv
<1>10. ASSUME NEW l \in Loaders, FetchFailed(l) PROVE HeardInv' /\ SeenInv' /\ MainInv'
  <2>1. /\ UNCHANGED <<query, open, guest, said, got, typed, has>>
        /\ dom' = [dom EXCEPT !.initrd = FALSE]
    BY <1>10 DEF FetchFailed, guestVars, runtimeVars
  <2>2. dom'.console = dom.console /\ dom'.initrd = FALSE
    BY <2>1 DEF StreamInv, PageTypes, Pictures
  <2> QED
    BY <1>1, <2>1, <2>2 DEF HeardInv, SeenInv, MainInv
<1>11. ASSUME NEW l \in Loaders, Fetched(l) PROVE HeardInv' /\ SeenInv' /\ MainInv'
  <2> DEFINE k == loads[l]
             now == IF k = 0 THEN has ELSE has \cup {k}
             after == IF k = 3 /\ ~query.initrd THEN NoLoad ELSE k + 1
  <2>1. /\ UNCHANGED <<query, open>> /\ has' = now /\ open /\ has \subseteq now
        /\ \/ /\ Fresh(UartReset, LinuxGuest, <<>>) /\ Shown(<<>>, now)
           \/ /\ UNCHANGED <<guest, said, got, typed>>
              /\ IF k = 0 THEN UNCHANGED dom ELSE Shown(console, IF after = NoLoad THEN {} ELSE now)
    BY <1>11 DEF Fetched, guestVars, Idle
  <2>2. stage = "browse" /\ capture = NoPage
    BY <2>1 DEF MainInv
  <2>3. ToSet(capture'.console) = {} /\ capture'.initrd = FALSE
    BY <1>1, <2>2, TokensOf DEF NoPage
  <2> HIDE DEF k, now, after
  <2>4. MainInv'
    BY <1>1, <2>1 DEF MainInv
  <2>5. CASE Fresh(UartReset, LinuxGuest, <<>>) /\ Shown(<<>>, now)
    <3>1. /\ said' = <<>> /\ guest' = LinuxGuest /\ typed' = <<>> /\ got' = <<>>
          /\ dom'.console = <<>> /\ dom'.initrd = (4 \in now)
      BY <2>5 DEF Fresh, Shown
    <3>2. guest'.out = <<>> /\ guest'.line = got' /\ ToSet(<<>>) = {}
      BY <3>1, TokensOf DEF LinuxGuest
    <3>3. HeardInv'
      BY <3>1, <3>2 DEF HeardInv, Founded, LineInv
    <3>4. SeenInv'
      BY <2>1, <2>3, <3>1, <3>2 DEF SeenInv
    <3> QED
      BY <2>4, <3>3, <3>4
  <2>6. CASE /\ UNCHANGED <<guest, said, got, typed>>
             /\ IF k = 0 THEN UNCHANGED dom ELSE Shown(console, IF after = NoLoad THEN {} ELSE now)
    <3>1. HeardInv'
      BY <2>1, <2>6 DEF HeardInv
    <3>2. ToSet(dom'.console) \subseteq ToSet(said') /\ (dom'.initrd => 4 \in has')
      <4>1. CASE k = 0
        BY <2>1, <2>6, <4>1 DEF SeenInv
      <4>2. CASE k # 0 /\ after = NoLoad
        <5>1. dom'.console = console /\ (dom'.initrd => 4 \in {})
          BY <2>6, <4>2, ShownIs
        <5> QED
          BY <1>3, <2>6, <5>1
      <4>3. CASE k # 0 /\ after # NoLoad
        <5>1. dom'.console = console /\ (dom'.initrd => 4 \in now)
          BY <2>6, <4>3, ShownIs
        <5> QED
          BY <1>3, <2>1, <2>6, <5>1
      <4> QED
        BY <4>1, <4>2, <4>3
    <3>3. SeenInv'
      BY <2>3, <3>2 DEF SeenInv
    <3> QED
      BY <2>4, <3>1, <3>3
  <2> QED
    BY <2>1, <2>5, <2>6
<1> QED
  BY <1>5, <1>6, <1>7, <1>8, <1>9, <1>10, <1>11 DEF Page

\* A text that agrees with another one as far as it goes is a prefix of it.
LEMMA PrefixOf ==
  ASSUME NEW s \in Texts, NEW t \in Texts, Len(s) <= Len(t), \A i \in 1 .. Len(s) : s[i] = t[i]
  PROVE  IsPrefix(s, t)
<1> DEFINE n == Len(s)
<1>1. n \in Nat /\ Len(t) \in Nat /\ n <= Len(t) /\ s \in [1 .. n -> Tokens] /\ t \in [1 .. Len(t) -> Tokens]
  BY LenProperties DEF Texts
<1> HIDE DEF n
<1>2. \A i \in 1 .. n : s[i] \in Tokens /\ t[i] \in Tokens /\ s[i] = t[i]
  BY <1>1
<1> PICK lo : lo = 1
  OBVIOUS
<1>3. lo \in Int /\ n \in Int /\ \A i \in lo .. n : s[i] \in Tokens /\ t[i] \in Tokens
  BY <1>1, <1>2
<1>4. /\ SubSeq(s, lo, n) \in Seq(Tokens)
      /\ Len(SubSeq(s, lo, n)) = IF lo <= n THEN n - lo + 1 ELSE 0
      /\ \A i \in 1 .. n - lo + 1 : SubSeq(s, lo, n)[i] = s[lo + i - 1]
  BY <1>3, SubSeqProperties
<1>5. /\ SubSeq(t, lo, n) \in Seq(Tokens)
      /\ Len(SubSeq(t, lo, n)) = IF lo <= n THEN n - lo + 1 ELSE 0
      /\ \A i \in 1 .. n - lo + 1 : SubSeq(t, lo, n)[i] = t[lo + i - 1]
  BY <1>3, SubSeqProperties
<1>6. (IF lo <= n THEN n - lo + 1 ELSE 0) = n /\ n - lo + 1 = n
      /\ \A i \in 1 .. n : lo + i - 1 = i
  BY <1>1
<1>7. Len(SubSeq(s, lo, n)) = n /\ Len(SubSeq(t, lo, n)) = n
  BY <1>4, <1>5, <1>6
<1>8. \A i \in 1 .. n : SubSeq(s, lo, n)[i] = SubSeq(t, lo, n)[i]
  BY <1>2, <1>4, <1>5, <1>6
<1>9. SubSeq(s, lo, n) = SubSeq(t, lo, n)
  BY <1>4, <1>5, <1>7, <1>8, SeqEqual
<1> QED
  BY <1>1, <1>9 DEF IsPrefix, n

\* What main judges after the page has gone.
LEMMA JudgedSoundly ==
  ASSUME MarkerLast, VerdictInv, stage # "absent", Verdict, UNCHANGED browserVars
  PROVE  VerdictSound'
<1> USE DEF VerdictInv, PageInv
<1>1. /\ UNCHANGED <<opts, query, has, said, got, guest>> /\ opts \in Options /\ opts.mode # "both"
      /\ opts.mode \in {"plain", "interactive", "functional", "both"}
  <2>1. UNCHANGED <<opts, query, has, said, got, guest>> /\ stage = "verdict"
    BY DEF Verdict, browserVars, guestVars, runtimeVars
  <2>2. opts \in Options /\ opts.mode # "both"
    BY <2>1 DEF MainInv
  <2> QED
    BY <2>1, <2>2, OptionsAssumption
<1>2. /\ said \in Texts /\ got \in Texts /\ query.input \in Texts
  BY DEF StreamInv, StreamTypes, PageTypes
<1>3. ToSet(capture.console) \subseteq ToSet(said) /\ (capture.initrd => 4 \in has)
      /\ Founded(said, query.input, guest, got)
  BY DEF HeardInv, SeenInv
<1>4. ASSUME outcome' = "found", opts.mode # "plain"
      PROVE  /\ 4 \in has /\ "prompt" \in ToSet(said)
             /\ IsPrefix(query.input, got) /\ IsPrefix(got, Line(query.input))
             /\ "marker" \notin ToSet(query.input) => guest.ran
  <2>1. ~Missing(opts) /\ InDom(Marker(opts))
    BY <1>4 DEF Verdict
  <2>2. {"initrd", "prompt"} \subseteq Expected(opts) /\ Marker(opts) = "marker"
    BY <1>1, <1>4 DEF Expected, Marker
  <2>3. InDom("initrd") /\ InDom("prompt") /\ InDom("marker")
    BY <2>1, <2>2 DEF Missing
  <2>4. 4 \in has /\ "prompt" \in ToSet(said) /\ "marker" \in ToSet(said)
    BY <1>3, <2>3 DEF InDom
  <2>5. Len(query.input) <= Len(got) /\ ("marker" \notin ToSet(query.input) => guest.ran)
    BY <1>3, <2>4 DEF Founded
  <2>6. /\ Len(got) \in Nat /\ Len(query.input) \in Nat /\ Len(got) <= Len(query.input) + 2
        /\ \A i \in 1 .. Len(got) : got[i] = Line(query.input)[i]
    BY GotIs
  <2>7. /\ Line(query.input) \in Texts /\ Len(Line(query.input)) = Len(query.input) + 2
        /\ \A i \in 1 .. Len(query.input) : Line(query.input)[i] = query.input[i]
    BY <1>2, LineIs
  <2>8. IsPrefix(query.input, got)
    <3>1. \A i \in 1 .. Len(query.input) : query.input[i] = got[i]
      BY <2>5, <2>6, <2>7
    <3>2. Len(query.input) <= Len(got)
      BY <2>5
    <3> QED
      BY <1>2, <3>1, <3>2, PrefixOf
  <2>9. IsPrefix(got, Line(query.input))
    <3>1. Len(got) <= Len(Line(query.input))
      BY <2>6, <2>7
    <3>2. \A i \in 1 .. Len(got) : got[i] = Line(query.input)[i]
      BY <2>6
    <3>3. Line(query.input) \in Texts
      BY <2>7
    <3> QED
      BY <1>2, <3>1, <3>2, <3>3, PrefixOf
  <2> QED
    BY <2>4, <2>5, <2>8, <2>9
<1>5. ASSUME outcome' = "trap" PROVE guest.stage = "trapped"
  <2>1. InDom("[trap]")
    BY <1>5 DEF Verdict
  <2> QED
    BY <1>3, <2>1 DEF InDom, Founded
<1>6. UNCHANGED <<opts, query, has, said, got, guest>>
  BY <1>1
<1> QED
  BY <1>4, <1>5, <1>6 DEF VerdictSound

\* Main's own steps, and those that leave the page.
LEMMA MainSeen ==
  ASSUME VerdictInv, (Main \/ Server \/ Stranger \/ UNCHANGED probeVars) /\ UNCHANGED browserVars
  PROVE  /\ Judging'
         /\ stage' # "absent" => stage # "absent" /\ HeardInv' /\ SeenInv' /\ MainInv'
         /\ Verdict \/ UNCHANGED outcome \/ outcome' \notin {"found", "trap"}
<1> USE DEF VerdictInv
<1>1. /\ UNCHANGED <<query, open, guest, said, got, typed, dom, has>>
  BY DEF browserVars, guestVars, runtimeVars, pageVars
<1>2. /\ UNCHANGED <<opts, capture>>
      /\ stage = "absent" => stage' = "absent"
      /\ Verdict \/ UNCHANGED outcome \/ outcome' \notin {"found", "trap"}
      /\ Verdict => stage = "verdict" /\ stage' = "exited"
      /\ stage = "exited" => stage' = "exited"
      /\ stage' \in Early => stage \in Early
      /\ stage' = "browse" => stage \in Early \cup {"browse"} /\ (stage # "browse" => opts.mode # "both")
      /\ stage' = "verdict" => (outcome = "none" /\ stage \in {"cleanup", "reap"}) \/ stage = "verdict"
      /\ stage' \in {"cleanup", "reap"} /\ outcome' = "none" => stage \in {"cleanup", "reap"} /\ outcome = "none"
  BY DEF Main, Parse, Connect, Deadline, CheckOptions, UsageError, Cleanup, AfterCleanup, Reaped, ReapTimeout,
         Verdict, Server, Serve, Die, Stranger, probeVars, Early
<1>3. Judging'
  BY <1>2 DEF Judging
<1>4. ASSUME stage' # "absent" PROVE stage # "absent" /\ HeardInv' /\ SeenInv' /\ MainInv'
  <2>1. stage # "absent"
    BY <1>2, <1>4
  <2>2. HeardInv' /\ SeenInv'
    BY <1>1, <1>2, <2>1 DEF HeardInv, SeenInv
  <2>3. /\ opts' \in Options
        /\ stage' # "browse" => ~open'
        /\ stage' \in Early \cup {"browse"} => capture' = NoPage
        /\ (stage' \in {"browse", "verdict"} \/ (stage' \in {"cleanup", "reap"} /\ outcome' = "none")) =>
             opts'.mode # "both"
    <3>1. stage' # "browse" => ~open
      <4>1. stage = "browse" => stage' = "browse"
        BY DEF Main, Parse, Connect, Deadline, CheckOptions, UsageError, Cleanup, AfterCleanup, Reaped, ReapTimeout,
               Verdict, Server, Serve, Die, Stranger, probeVars
      <4> QED
        BY <2>1, <4>1 DEF MainInv
    <3>2. stage' \in Early \cup {"browse"} => capture = NoPage
      BY <1>2, <2>1 DEF MainInv
    <3>3. (stage' \in {"browse", "verdict"} \/ (stage' \in {"cleanup", "reap"} /\ outcome' = "none")) =>
             opts.mode # "both"
      BY <1>2, <2>1 DEF MainInv
    <3> QED
      BY <1>1, <1>2, <2>1, <3>1, <3>2, <3>3 DEF MainInv
  <2> QED
    BY <2>1, <2>2, <2>3 DEF MainInv
<1> QED
  BY <1>2, <1>3, <1>4

\* The picture is taken of a page that goes.
LEMMA LeaveSeen ==
  ASSUME VerdictInv, Leave
  PROVE  /\ stage # "absent" /\ Judging' /\ HeardInv' /\ SeenInv' /\ MainInv'
         /\ outcome' \notin {"found", "trap"}
<1> USE DEF VerdictInv
<1>1. /\ stage = "browse" /\ stage' = "cleanup" /\ open' = FALSE
      /\ UNCHANGED <<query, guest, said, got, typed, dom, has, opts>>
      /\ outcome' \in {outcome, "timeout", "exception"}
      /\ capture' \in {capture, dom, NoPage}
  BY DEF Leave, BudgetEnds, BrowserLost, guestVars, runtimeVars, pageVars
<1>2. outcome' \notin {"found", "trap"}
  BY <1>1 DEF Judging
<1>3. HeardInv'
  BY <1>1 DEF HeardInv
<1>4. SeenInv'
  <2>1. ToSet(NoPage.console) = {} /\ NoPage.initrd = FALSE
    BY TokensOf DEF NoPage
  <2>2. /\ ToSet(capture'.console) \subseteq ToSet(said)
        /\ capture'.initrd => 4 \in has
    BY <1>1, <2>1 DEF SeenInv
  <2> QED
    BY <1>1, <2>2 DEF SeenInv
<1>5. MainInv'
  BY <1>1 DEF MainInv, Early
<1> QED
  BY <1>1, <1>2, <1>3, <1>4, <1>5 DEF Judging

\* VerdictSound of the console run: a marker the probe reports was read by this
\* guest after its prompt, with the whole command (browser_linux_probe.py main),
\* whatever the servers, the clocks and the fetches do.
THEOREM VerdictHolds ==
  ASSUME MarkerLast
  PROVE  Spec => []VerdictSound
<1>1. Init => VerdictInv
  <2> SUFFICES ASSUME Init, PageInv PROVE VerdictInv
    BY InitPage
  <2>1. outcome = "none"
    BY DEF Init
  <2>2. ASSUME stage # "absent" PROVE HeardInv /\ SeenInv /\ MainInv
    <3>1. /\ stage = "parse" /\ opts \in Options /\ open = FALSE /\ capture = NoPage
          /\ guest = SmokeGuest /\ said = <<"echo ready">> /\ typed = <<>> /\ got = <<>>
          /\ dom = [console |-> <<"echo ready">>, initrd |-> FALSE]
      BY <2>2 DEF Init, BrowserInit
    <3>2. ToSet(<<"echo ready">>) = {"echo ready"} /\ ToSet(<<>>) = {}
      BY TokensOf
    <3>3. HeardInv
      BY <3>1, <3>2 DEF HeardInv, Founded, SmokeGuest
    <3>4. SeenInv
      BY <3>1, <3>2 DEF SeenInv, NoPage
    <3>5. MainInv
      BY <3>1 DEF MainInv
    <3> QED
      BY <3>3, <3>4, <3>5
  <2> QED
    BY <2>1, <2>2 DEF VerdictInv, Judging, VerdictSound
<1>2. VerdictInv /\ [Next]_vars => VerdictInv'
  <2> SUFFICES ASSUME VerdictInv, [Next]_vars
               PROVE  Judging' /\ VerdictSound' /\ (stage' # "absent" => HeardInv' /\ SeenInv' /\ MainInv')
    BY PageStep DEF VerdictInv
  <2>1. CASE Page /\ UNCHANGED probeVars
    <3>1. UNCHANGED <<stage, outcome>>
      BY <2>1 DEF probeVars
    <3>2. stage' # "absent" => HeardInv' /\ SeenInv' /\ MainInv'
      BY <2>1, <3>1, PageSeen DEF VerdictInv
    <3>3. stage # "exited"
      <4> SUFFICES ASSUME stage = "exited" PROVE FALSE
        OBVIOUS
      <4>1. ~open
        BY DEF VerdictInv, MainInv
      <4> QED
        BY <2>1, <4>1 DEF Page, OpenPage, GuestStep, BeginTick, EndTick, EndRun, Fetched, FetchFailed, Idle
    <3>4. outcome' \notin {"found", "trap"}
      BY <3>1, <3>3 DEF VerdictInv, Judging
    <3> QED
      BY <3>2, <3>4 DEF Judging, VerdictSound
  <2>2. CASE Leave
    BY <2>2, LeaveSeen DEF VerdictSound
  <2>3. CASE (Main \/ Server \/ Stranger \/ UNCHANGED probeVars) /\ UNCHANGED browserVars
    <3>1. /\ Judging' /\ (stage' # "absent" => HeardInv' /\ SeenInv' /\ MainInv')
          /\ Verdict \/ UNCHANGED outcome \/ outcome' \notin {"found", "trap"}
      BY <2>3, MainSeen
    <3>2. CASE Verdict
      <4>1. stage # "absent"
        BY <3>2 DEF Verdict
      <4> QED
        BY <2>3, <3>1, <3>2, <4>1, JudgedSoundly
    <3>3. CASE UNCHANGED outcome /\ ~Verdict
      <4>1. UNCHANGED <<opts, query, guest, said, got, has>>
        BY <2>3 DEF Main, Parse, Connect, Deadline, CheckOptions, Cleanup, AfterCleanup, Reaped, ReapTimeout,
                    Verdict, Server, Serve, Die, Stranger, probeVars, browserVars, guestVars, runtimeVars
      <4> QED
        BY <3>1, <3>3, <4>1 DEF VerdictInv, VerdictSound
    <3>4. CASE outcome' \notin {"found", "trap"}
      BY <3>1, <3>4 DEF VerdictSound
    <3> QED
      BY <3>1, <3>2, <3>3, <3>4
  <2>4. UNCHANGED vars => UNCHANGED browserVars /\ UNCHANGED probeVars
    BY DEF vars
  <2> QED
    BY <2>1, <2>2, <2>3, <2>4 DEF Next
<1>3. VerdictInv => VerdictSound
  BY DEF VerdictInv
<1> QED
  BY <1>1, <1>2, <1>3, PTL DEF Spec

=============================================================================
