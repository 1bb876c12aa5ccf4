------------------------------- MODULE Browser -------------------------------
(***************************************************************************)
(* The browser demo: the runtime behind the Wasm exports                   *)
(* (cmd/browser/runtime.mbt), the page that drives it                      *)
(* (browser_demo/browser.js), and the guest at the other end of the UART.  *)
(*                                                                         *)
(* JavaScript callbacks never overlap.  One that runs the guest is several *)
(* steps here: it begins with a budget, the guest takes steps, it ends.    *)
(* Console text is a sequence of tokens, each standing for a text that     *)
(* somebody looks for.  The guest is external: the smoke guest echoes, a   *)
(* Linux guest drives the UART by interrupts like the 8250 driver, echoes  *)
(* what its terminal receives and runs the lines in a shell.               *)
(***************************************************************************)
EXTENDS Uart, Integers, FiniteSets, SequencesExt

CONSTANTS
  Queries,    \* what a person's page may be opened with: its URL parameters,
              \* and whether its manifest names an initrd
  Lines,      \* lines a person may submit
  MaxClicks   \* bound on what a person does

VARIABLES
  query,      \* this page's parameters
  open,       \* whether the page is there
  \* runner
  u, guest,
  \* BrowserRuntime
  console, running, has,
  \* browser.js
  loads,      \* loads[l]: the fetch loader l awaits: 0 the manifest, 1..4 an artifact
  sent, expected, ticks, dom,
  job, left,  \* the callback that is running the guest, and its budget
  clicks,
  \* histories of this runner: written to the console, pushed, and read
  said, typed, got

guestVars == <<u, guest, said, got>>
runtimeVars == <<console, running, has>>
pageVars == <<loads, sent, expected, ticks, dom>>
browserVars == <<query, open, guestVars, runtimeVars, pageVars, job, left, clicks, typed>>

Loaders == {"boot", "button"}
NoLoad == 5

Tokens == {"echo ready", "firmware", "ready", "divisor", "prompt", "error", "[trap]",
           "marker", "octal", "file-ok", "pipe-ok", "uname", "riscv64", "cr", "lf"}
ASSUME PersonAssumption ==
  /\ Lines \subseteq Seq(Tokens) /\ MaxClicks \in Nat
  /\ \A q \in Queries : q.input \in Seq(Tokens) /\ q.syncEvery \in Nat \ {0} /\ q.autoRun \in BOOLEAN

EndOfLine == {"cr", "lf"}
Line(text) == text \o <<"cr", "lf">>

SmokeGuest == [kind |-> "smoke", stage |-> "echo", out |-> <<>>, line |-> <<>>, ran |-> FALSE]
LinuxGuest == [kind |-> "linux", stage |-> "reset", out |-> <<>>, line |-> <<>>, ran |-> FALSE]

-----------------------------------------------------------------------------
\* The guest.

Says(texts) == said' = said \o texts
Gets == got' = IF RbrRead(u) THEN Append(got, Head(u.rx)) ELSE got

SmokeEcho ==
  /\ guest.kind = "smoke" /\ RbrRead(u)
  /\ u' = WriteThr(AfterRbr(u), Head(u.rx))
  /\ Gets /\ Says(<<Head(u.rx)>>)
  /\ UNCHANGED guest

\* The firmware and the kernel's boot log, whose banner may name the machine.
Firmware ==
  /\ guest.stage = "reset"
  /\ \E text \in {"firmware", "riscv64"} : u' = WriteThr(u, text) /\ Says(<<text>>)
  /\ guest' = [guest EXCEPT !.stage = "firmware"]
  /\ UNCHANGED got

\* Before a trap vector is set a trap ends the run.
EarlyTrap ==
  /\ guest.stage \in {"reset", "firmware"}
  /\ guest' = [guest EXCEPT !.stage = "trapped"]
  /\ UNCHANGED <<u, said, got>>

\* Init's message, then the terminal is opened: the driver writes the divisor
\* behind DLAB, empties RBR and enables its interrupts.
OpenTerminal ==
  LET quiet == WriteIer(WriteThr(WriteLcr(WriteThr(u, "ready"), TRUE), "divisor"), {})
  IN /\ guest.stage = "firmware"
     /\ u' = WriteIer(AfterRbr(WriteLcr(quiet, FALSE)), {Rdi, Thri})
     /\ Gets /\ Says(<<"ready">>)
     /\ guest' = [guest EXCEPT !.stage = "shell", !.out = <<"prompt">>]

Receive ==
  /\ guest.stage = "shell" /\ Iir(u) = Rdi
  /\ u' = WriteIer(AfterRbr(u), {Rdi, Thri})
  /\ guest' = [guest EXCEPT !.out = Append(@, Head(u.rx)), !.line = Append(@, Head(u.rx))]
  /\ Gets /\ UNCHANGED said

Transmit ==
  /\ guest.stage = "shell" /\ Iir(u) = Thri
  /\ IF guest.out = <<>>
       THEN /\ u' = WriteIer(u, {Rdi})
            /\ UNCHANGED <<guest, said>>
       ELSE /\ u' = WriteThr(u, Head(guest.out))
            /\ Says(<<Head(guest.out)>>)
            /\ guest' = [guest EXCEPT !.out = Tail(@)]
  /\ UNCHANGED got

\* The shell runs the line before the first end of line.  "octal" and "uname" are
\* commands whose text does not hold what they print.
Output(word) == CASE word = "octal" -> "marker" [] word = "uname" -> "riscv64" [] OTHER -> word
Printed(command) == [i \in DOMAIN command |-> Output(command[i])]

Shell ==
  /\ guest.stage = "shell"
  /\ \E end \in DOMAIN guest.line :
       LET command == SubSeq(guest.line, 1, end - 1)
           Prompt(texts, ran) ==
             guest' = [guest EXCEPT !.out = @ \o texts \o <<"prompt">>, !.ran = @ \/ ran,
                                    !.line = SubSeq(@, end + 1, Len(@))]
       IN /\ guest.line[end] \in EndOfLine
          /\ \A j \in 1 .. end - 1 : guest.line[j] \notin EndOfLine
          /\ \/ command # <<>> /\ Prompt(Printed(command), TRUE)
             \/ command # <<>> /\ Prompt(<<"error">>, FALSE)
             \/ command = <<>> /\ Prompt(<<>>, FALSE)
  /\ u' = WriteIer(u, {Rdi, Thri})
  /\ UNCHANGED <<said, got>>

GuestStep ==
  /\ open /\ left # "none"
  /\ SmokeEcho \/ Firmware \/ EarlyTrap \/ OpenTerminal \/ Receive \/ Transmit \/ Shell
  /\ left' = IF left = "one" THEN "none" ELSE left
  /\ UNCHANGED <<query, open, runtimeVars, pageVars, job, clicks, typed>>

-----------------------------------------------------------------------------
\* BrowserRuntime.

\* handle_result: fetch the output, note a trap and stop.
Trapped == guest.stage = "trapped"
Drained == console \o u.tx \o (IF Trapped THEN <<"[trap]">> ELSE <<>>)
Handled ==
  /\ console' = Drained
  /\ said' = IF Trapped THEN Append(said, "[trap]") ELSE said

Fresh(uart, g, text) ==
  /\ u' = uart /\ guest' = g
  /\ console' = text /\ said' = text
  /\ typed' = <<>> /\ got' = <<>>

\* browser_init: the smoke guest has already run up to its prompt.
Smoke == Fresh(UartReset, SmokeGuest, <<"echo ready">>)

Push(text) ==
  /\ u' = PushInput(u, Line(text))
  /\ typed' = typed \o Line(text)

-----------------------------------------------------------------------------
\* The page.  syncUi shows what it is given of the runtime.

Idle == open /\ job = "none"
Shown(text, artifacts) == dom' = [console |-> text, initrd |-> 4 \in artifacts]

\* setInterval: a tick of a running guest ...
BeginTick_Paused ==
  /\ Idle
  /\ job' = "tick" /\ left' = "many"
  /\ UNCHANGED <<query, open, guestVars, runtimeVars, pageVars, clicks, typed>>

BeginTick ==
  /\ Idle /\ running
  /\ job' = "tick" /\ left' = "many"
  /\ UNCHANGED <<query, open, guestVars, runtimeVars, pageVars, clicks, typed>>

\* ... and the rest of the callback.  Only every syncEvery-th tick looks at the
\* console; the text it read before it sends the input decides about the halt.
Sync == ticks + 1 >= query.syncEvery

TicksAfter_NoReset == ticks + 1
TicksAfter == IF Sync THEN 0 ELSE ticks + 1

SendsInput_Again == Sync /\ query.input # <<>> /\ "prompt" \in ToSet(Drained)
SendsInput == Sync /\ ~sent /\ query.input # <<>> /\ "prompt" \in ToSet(Drained)

MeetsExpectation == Sync /\ ~expected /\ query.expect \in ToSet(Drained)

EndTick ==
  LET goesOn == running /\ ~Trapped
      text == IF SendsInput THEN Line(query.input) ELSE <<>>
  IN /\ job = "tick" /\ open
     /\ Handled
     /\ ticks' = TicksAfter
     /\ IF Sync THEN Shown(Drained, has) ELSE UNCHANGED dom
     /\ sent' = (sent \/ SendsInput)
     /\ u' = PushInput(ClearOutput(u), text) /\ typed' = typed \o text
     /\ expected' = (expected \/ MeetsExpectation)
     /\ running' = (goesOn /\ ~(MeetsExpectation /\ query.halt))
     /\ IF SendsInput /\ ~goesOn THEN job' = "flush" /\ left' = "many" ELSE job' = "none" /\ left' = "none"
     /\ UNCHANGED <<query, open, guest, got, has, loads, clicks>>

\* The end of a single step or of a run while paused.
EndRun ==
  /\ job \in {"step", "flush"} /\ open
  /\ Handled
  /\ running' = (running /\ ~Trapped)
  /\ u' = ClearOutput(u)
  /\ Shown(Drained, has)
  /\ job' = "none" /\ left' = "none"
  /\ UNCHANGED <<query, open, guest, got, has, loads, sent, expected, ticks, clicks, typed>>

\* loadArtifact, from the answer to the next fetch.  After the last artifact
\* loadLinuxArtifacts boots Linux if none of the three it needs was lost to a
\* reset meanwhile, and its callers start it.
Ready(artifacts) == {1, 2, 3} \subseteq artifacts

Fetched(l) ==
  LET k == loads[l]
      now == IF k = 0 THEN has ELSE has \cup {k}
      after == IF k = 3 /\ ~query.initrd THEN NoLoad ELSE k + 1
  IN /\ Idle /\ k # NoLoad
     /\ loads' = [loads EXCEPT ![l] = after]
     /\ has' = now
     /\ IF after = NoLoad /\ Ready(now)
          THEN /\ Fresh(UartReset, LinuxGuest, <<>>)
               /\ running' = query.autoRun
               /\ Shown(<<>>, now)
          ELSE /\ IF k = 0 THEN UNCHANGED dom ELSE Shown(console, IF after = NoLoad THEN {} ELSE now)
               /\ UNCHANGED <<guestVars, console, running, typed>>
     /\ UNCHANGED <<query, open, sent, expected, ticks, job, left, clicks>>

\* An HTTP error or a connection that fails.
FetchFailed(l) ==
  /\ Idle /\ loads[l] # NoLoad
  /\ loads' = [loads EXCEPT ![l] = NoLoad]
  /\ dom' = [dom EXCEPT !.initrd = FALSE]
  /\ UNCHANGED <<query, open, guestVars, runtimeVars, sent, expected, ticks, job, left, clicks, typed>>

-----------------------------------------------------------------------------
\* A person at the page.

Click == Idle /\ clicks < MaxClicks /\ clicks' = clicks + 1 /\ UNCHANGED <<query, open>>

Step ==
  /\ Click /\ ~running
  /\ job' = "step" /\ left' = "one"
  /\ UNCHANGED <<guestVars, runtimeVars, pageVars, typed>>

ToggleRun ==
  /\ Click
  /\ running' = ~running
  /\ Shown(console, has)
  /\ UNCHANGED <<guestVars, console, has, loads, sent, expected, ticks, job, left, typed>>

Reset ==
  /\ Click
  /\ Smoke
  /\ running' = FALSE /\ has' = {}
  /\ expected' = FALSE
  /\ Shown(<<"echo ready">>, {})
  /\ UNCHANGED <<loads, sent, ticks, job, left>>

LoadLinux ==
  /\ Click /\ loads["button"] = NoLoad
  /\ loads' = [loads EXCEPT !["button"] = 0]
  /\ expected' = FALSE
  /\ dom' = [dom EXCEPT !.initrd = FALSE]
  /\ UNCHANGED <<guestVars, runtimeVars, sent, ticks, job, left, typed>>

Submit(text) ==
  /\ Click
  /\ Push(text)
  /\ IF running
       THEN Shown(console, has) /\ UNCHANGED <<job, left>>
       ELSE job' = "flush" /\ left' = "many" /\ UNCHANGED dom
  /\ UNCHANGED <<guest, said, got, runtimeVars, loads, sent, expected, ticks>>

Person == Step \/ ToggleRun \/ Reset \/ LoadLinux \/ \E text \in Lines : Submit(text)

-----------------------------------------------------------------------------
\* bootHost up to the first fetch of the artifacts.
Opened(q) ==
  /\ query' = q /\ open' = TRUE
  /\ loads' = [loads EXCEPT !["boot"] = IF q.linux THEN 0 ELSE NoLoad]
  /\ UNCHANGED <<guestVars, runtimeVars, sent, expected, ticks, dom, job, left, clicks, typed>>

BrowserInit ==
  /\ open = FALSE
  /\ u = UartReset /\ guest = SmokeGuest
  /\ console = <<"echo ready">> /\ said = <<"echo ready">> /\ typed = <<>> /\ got = <<>>
  /\ running = FALSE /\ has = {}
  /\ loads = [l \in Loaders |-> NoLoad]
  /\ sent = FALSE /\ expected = FALSE /\ ticks = 0
  /\ dom = [console |-> <<"echo ready">>, initrd |-> FALSE]
  /\ job = "none" /\ left = "none" /\ clicks = 0

=============================================================================
