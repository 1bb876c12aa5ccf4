------------------------------ MODULE MCProbe ------------------------------
(***************************************************************************)
(* A person with a few clicks at a page, or a probe: every smoke mode, a   *)
(* command that holds its marker and one that does not, ticks that look at *)
(* the console each time or every other time, with a server and a url or   *)
(* without, a manifest that names no initrd, and a text of the user's that *)
(* the page may not show.                                                  *)
(***************************************************************************)
EXTENDS Probe

Query(linux, initrd, input) ==
  [linux |-> linux, autoRun |-> TRUE, initrd |-> initrd, input |-> input,
   expect |-> "marker", halt |-> TRUE, syncEvery |-> 1]
MCQueries == {Query(FALSE, FALSE, <<>>), Query(TRUE, TRUE, <<>>)}

Option(serve, url, mode, command, syncEvery) ==
  [serve |-> serve, url |-> url, mode |-> mode, command |-> command,
   syncEvery |-> syncEvery, initrd |-> TRUE, expect |-> {}]
NoInitrd(option) == [option EXCEPT !.initrd = FALSE]
MCOptions ==
  {Option(s, u1, "interactive", <<"marker">>, 1) : s \in BOOLEAN, u1 \in BOOLEAN}
    \cup {Option(TRUE, FALSE, m, <<"marker">>, 2) : m \in {"plain", "both", "functional"}}
    \cup {Option(FALSE, TRUE, "interactive", <<"octal">>, 2), Option(FALSE, TRUE, "plain", <<>>, 1),
            [Option(FALSE, TRUE, "interactive", <<"octal">>, 1) EXCEPT !.expect = {"riscv64"}],
            NoInitrd(Option(FALSE, TRUE, "interactive", <<"marker">>, 1))}
MCLines == {<<"octal">>}

\* The command line the task's history quotes, with the default --input-command.
DocumentedOptions == {Option(TRUE, FALSE, "interactive", <<"marker">>, 1)}

ASSUME CommandsAsMeant == MarkerLast
=============================================================================
