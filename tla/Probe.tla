-------------------------------- MODULE Probe --------------------------------
(***************************************************************************)
(* The page of Browser and whoever opens it: a person, or                  *)
(* tools/browser_linux_probe.py, which may start an HTTP server, lets a    *)
(* headless Chromium run the page, and judges the DOM it dumps.            *)
(*                                                                         *)
(* The probe, its server, the browser and a stranger that takes the port   *)
(* (another probe, whose server serves the same demo) are processes.       *)
(* Outcomes have names here; several share an exit status of the program.  *)
(***************************************************************************)
EXTENDS Browser

CONSTANT Options  \* command lines of the probe

ASSUME OptionsAssumption ==
  \A o \in Options : /\ o.command \in Seq(Tokens) /\ o.syncEvery \in Nat \ {0}
                      /\ o.expect \subseteq Tokens
                      /\ o.mode \in {"plain", "interactive", "functional", "both"}

VARIABLES
  opts,
  stage,     \* where main stands; "absent" when a person opens the page
  outcome,   \* how it ends, once it is known
  server,    \* the HTTP server process
  stranger,  \* another server listens on the port
  capture    \* the DOM on Chromium's standard output

probeVars == <<opts, stage, outcome, server, stranger, capture>>
vars == <<browserVars, probeVars>>

NoPage == [console |-> <<>>, initrd |-> FALSE]

Functional == <<"file-ok", "pipe-ok", "uname", "marker">>

Marker(o) == IF o.mode = "plain" THEN "ready" ELSE "marker"

\* What the DOM must hold besides: the --expect texts and those of the smoke.
Expected(o) == o.expect \cup
  CASE o.mode = "interactive" -> {"initrd", "prompt"}
    [] o.mode = "functional" -> {"initrd", "prompt", "file-ok", "pipe-ok", "riscv64"}
    [] OTHER -> {}

\* alpine_interactive_url.  A plain url is of a page that boots Linux; the one
\* --serve-dir makes has no parameters.
QueryOf(o) ==
  [linux |-> o.mode # "plain" \/ o.url, autoRun |-> TRUE, initrd |-> o.initrd,
   input |-> CASE o.mode = "plain" -> <<>> [] o.mode = "functional" -> Functional [] OTHER -> o.command,
   expect |-> IF o.mode = "plain" THEN "" ELSE Marker(o), halt |-> o.mode # "plain",
   syncEvery |-> o.syncEvery]

-----------------------------------------------------------------------------
\* The server process, and the stranger, who may come between pick_free_port
\* and the server's bind.

Serve ==
  /\ server = "starting"
  /\ server' = IF stranger THEN "dead" ELSE "up"
  /\ UNCHANGED <<opts, stage, outcome, stranger, capture>>

Die ==
  /\ server \in {"terminated", "killed"}
  /\ server' = "dead"
  /\ UNCHANGED <<opts, stage, outcome, stranger, capture>>

Stranger ==
  /\ stranger \/ server = "starting"
  /\ stranger' = ~stranger
  /\ UNCHANGED <<opts, stage, outcome, server, capture>>

Answers == server = "up" \/ stranger

-----------------------------------------------------------------------------
\* main.

Parse ==
  /\ stage = "parse"
  /\ IF opts.serve THEN stage' = "wait" /\ server' = "starting"
                   ELSE stage' = "options" /\ UNCHANGED server
  /\ UNCHANGED <<opts, outcome, stranger, capture>>

\* wait_for_server: any listener on the port will do.
Connect ==
  /\ stage = "wait" /\ Answers
  /\ stage' = "options"
  /\ UNCHANGED <<opts, outcome, server, stranger, capture>>

Terminated(s) == IF s = "dead" THEN s ELSE "terminated"

Deadline ==
  /\ stage = "wait"
  /\ stage' = "reap" /\ outcome' = "exception"
  /\ server' = Terminated(server)
  /\ UNCHANGED <<opts, stranger, capture>>

\* parser.error leaves before the try statement that stops the server.
UsageError(o) == o.mode = "both" \/ ~(o.url \/ o.serve)
CheckOptions ==
  /\ stage = "options"
  /\ IF UsageError(opts) THEN stage' = "exited" /\ outcome' = "usage"
                         ELSE stage' = "browse" /\ UNCHANGED outcome
  /\ UNCHANGED <<opts, server, stranger, capture>>

\* chromium_dump_dom: the virtual time budget ends between two callbacks, the
\* wall clock anywhere; or Chromium fails.
BudgetEnds ==
  /\ stage = "browse" /\ job = "none"
  /\ capture' = IF open THEN dom ELSE NoPage
  /\ stage' = "cleanup"
  /\ UNCHANGED <<opts, outcome, server, stranger>>

BrowserLost(why) ==
  /\ stage = "browse"
  /\ outcome' = why /\ stage' = "cleanup"
  /\ UNCHANGED <<opts, server, stranger, capture>>

AfterCleanup == stage' = IF outcome = "none" THEN "verdict" ELSE "exited"

\* finally, and the except clause of start_http_server.
Cleanup ==
  /\ stage = "cleanup"
  /\ IF server = "none" THEN AfterCleanup /\ UNCHANGED server
                        ELSE stage' = "reap" /\ server' = Terminated(server)
  /\ UNCHANGED <<opts, outcome, stranger, capture>>

Reaped ==
  /\ stage = "reap" /\ server = "dead"
  /\ AfterCleanup
  /\ UNCHANGED <<opts, outcome, server, stranger, capture>>

ReapTimeout_NoKill ==
  /\ stage = "reap" /\ server # "dead"
  /\ AfterCleanup
  /\ UNCHANGED <<opts, outcome, server, stranger, capture>>

ReapTimeout ==
  /\ stage = "reap" /\ server # "dead"
  /\ server' = "killed"
  /\ AfterCleanup
  /\ UNCHANGED <<opts, outcome, stranger, capture>>

InDom(text) == IF text = "initrd" THEN capture.initrd ELSE text \in ToSet(capture.console)

Missing_All(o) == Expected(o) # {} /\ \A text \in Expected(o) : ~InDom(text)
Missing(o) == \E text \in Expected(o) : ~InDom(text)

Verdict ==
  /\ stage = "verdict"
  /\ outcome' = IF Missing(opts) THEN "missing expected"
                ELSE IF InDom(Marker(opts)) THEN "found"
                ELSE IF InDom("[trap]") THEN "trap" ELSE "missing marker"
  /\ stage' = "exited"
  /\ UNCHANGED <<opts, server, stranger, capture>>

Main ==
  \/ Parse
  \/ Connect
  \/ Deadline
  \/ CheckOptions
  \/ Cleanup
  \/ Reaped
  \/ ReapTimeout
  \/ Verdict

Leave ==
  /\ open' = FALSE
  /\ BudgetEnds \/ BrowserLost("timeout") \/ BrowserLost("exception")
  /\ UNCHANGED <<query, guestVars, runtimeVars, pageVars, job, left, clicks, typed>>

-----------------------------------------------------------------------------

\* The server of a url that was given is always there, as is a person's.
Reachable == stage = "absent" \/ opts.url \/ Answers

OpenPage ==
  /\ stage \in {"absent", "browse"} /\ ~open
  /\ Reachable /\ Opened(query)

Page ==
  \/ OpenPage
  \/ GuestStep
  \/ BeginTick
  \/ EndTick
  \/ EndRun
  \/ \E l \in Loaders : (Reachable /\ Fetched(l)) \/ FetchFailed(l)
  \/ stage = "absent" /\ Person

Server == Serve \/ Die

Init ==
  /\ BrowserInit
  /\ opts \in Options
  /\ \/ stage = "absent" /\ query \in Queries /\ opts = CHOOSE o \in Options : TRUE
     \/ stage = "parse" /\ query = QueryOf(opts)
  /\ outcome = "none" /\ server = "none" /\ stranger = FALSE /\ capture = NoPage

Next ==
  \/ Page /\ UNCHANGED probeVars
  \/ Leave
  \/ (Main \/ Server \/ Stranger) /\ UNCHANGED browserVars

\* main runs, and the clocks that bound what it waits for do: Chromium's two, the
\* five seconds for the server to answer, and those for it to end.  The server
\* need not start, nor end when it is terminated; killed, it ends.
Spec ==
  /\ Init /\ [][Next]_vars
  /\ WF_vars(Main /\ UNCHANGED browserVars) /\ WF_vars(Leave)
  /\ WF_vars(Die /\ server = "killed" /\ UNCHANGED browserVars)

-----------------------------------------------------------------------------

TypeOK ==
  /\ u.ier \subseteq {Rdi, Thri} /\ u.dlab \in BOOLEAN
  /\ \A texts \in {u.rx, u.tx, console, said, typed, got, dom.console, capture.console, guest.line, guest.out} :
       ToSet(texts) \subseteq Tokens
  /\ guest.kind \in {"smoke", "linux"} /\ guest.stage \in {"echo", "reset", "firmware", "shell", "trapped"}
  /\ dom.initrd \in BOOLEAN /\ capture.initrd \in BOOLEAN
  /\ running \in BOOLEAN /\ sent \in BOOLEAN /\ expected \in BOOLEAN
  /\ has \subseteq 1 .. 4 /\ loads \in [Loaders -> 0 .. NoLoad]
  /\ ticks \in 0 .. query.syncEvery - 1
  /\ job \in {"none", "tick", "step", "flush"} /\ left \in {"none", "one", "many"}
  /\ stage \in {"absent", "parse", "wait", "options", "browse", "cleanup", "reap", "verdict", "exited"}
  /\ server \in {"none", "starting", "up", "terminated", "killed", "dead"}

\* What the guest transmits reaches the console once and in its order, across
\* callbacks, pauses, resets and a boot that replaces the runner, and nothing
\* else does but what the runtime says itself.
OutputInOrder == console \o u.tx = said

\* What is pushed is read by the guest once and in order.  The page of a probe
\* pushes its line at most once, and only after the prompt has been shown.
InputInOrder ==
  /\ got \o u.rx = typed
  /\ (stage # "absent" /\ typed # <<>>) => typed = Line(query.input) /\ "prompt" \in ToSet(said)

\* A page told to halt when its expectation is met shows all the guest has
\* written by then, and without a person the guest never runs again: the DOM
\* Chromium dumps later is the one that met the expectation.
Halted == stage # "absent" /\ open /\ expected /\ query.halt /\ job = "none"
HaltStopsGuest ==
  [][Halted => /\ dom.console = said
               /\ open' => UNCHANGED <<u, guest, console, dom>>]_vars

\* The commands the probe is meant to be given: one line, which ends with its
\* marker if it holds it, and does not spell the runtime's own message.
MarkerLast ==
  \A o \in Options :
    LET command == QueryOf(o).input
    IN /\ ToSet(command) \cap (EndOfLine \cup {"[trap]"}) = {}
       /\ \A i \in 1 .. Len(command) : command[i] = "marker" => i = Len(command)

\* What docs/history/tasks/0058-alpine-rootfs-browser-boot.md:104 says of the smoke:
\* "inject `echo browser-input-ok` after the BusyBox `/ #` prompt, and require the
\* shell response".  A smoke that finds its marker has had its command run.
ResponseSeen == (outcome = "found" /\ opts.mode # "plain") => guest.ran

\* What a found marker means instead, the terminal's echo being as good as an
\* answer to `marker in dom`: the initrd was loaded, the guest printed its prompt
\* and has read the command, and nothing else, to its end; ResponseSeen holds only
\* if the command does not hold the marker it prints.  A trap reported is one.
VerdictSound ==
  /\ (outcome = "found" /\ opts.mode # "plain") =>
       /\ 4 \in has /\ "prompt" \in ToSet(said)
       /\ IsPrefix(query.input, got) /\ IsPrefix(got, Line(query.input))
       /\ "marker" \notin ToSet(query.input) => guest.ran
  /\ outcome = "trap" => guest.stage = "trapped"

\* Whatever fails, the probe ends, and the server it started ends; only usage
\* errors are found too late for that (browser_linux_probe.py:219).
ProbeEnds ==
  stage # "absent" =>
    /\ <>(stage = "exited")
    /\ <>[](outcome = "usage" \/ server \in {"none", "dead"})

=============================================================================
