---------------------------- MODULE CodexStream -----------------------------
(***************************************************************************)
(* One codex session: the events it writes, the figures kept of them as    *)
(* they pass, and what its end is returned as. Its usage is a running      *)
(* total, whose cached reads and reasoning are parts of its input and its  *)
(* output.                                                                 *)
(***************************************************************************)
EXTENDS Integers, Sequences

CONSTANTS
  Configs,   \* what may be asked of this model
  MaxLines   \* bound on the lines of a session

ConfigOK(c) == c.turns \subseteq Nat /\ c.faults \subseteq {"torn", "console", "spawn", "kill"}
ConfigsAssumption == MaxLines \in Nat /\ \A c \in Configs : ConfigOK(c)

VARIABLES
  conf,      \* the member of Configs this behaviour is about
  pc,        \* running, ended, returned
  spent,     \* what the session has spent so far, as codex counts it
  told,      \* what it has said of it
  kept,      \* what the parser keeps: the last figures, and whether there were any
  text,      \* the last message, by its number
  written,   \* the lines written
  run,       \* how the process ended
  out        \* what the call returned

vars == <<conf, pc, spent, told, kept, text, written, run, out>>

Figures == [in |-> 0, cached |-> 0, out |-> 0, reason |-> 0]
NothingKept == [saw |-> FALSE, of |-> Figures]
NoOut == [reported |-> FALSE, tokens |-> 0, input |-> 0, output |-> 0, reasoning |-> 0, cacheRead |-> 0, exit |-> 0, text |-> 0, err |-> FALSE]

----------------------------------------------------------------------------
(* The parser.                                                             *)

\* The last figures are the session's.
Keeps(k, figures) == [saw |-> TRUE, of |-> figures]
Max0(n) == IF n < 0 THEN 0 ELSE n
\* The parts are taken out of what they are part of.
Buckets(f) == [input |-> Max0(f.in - f.cached), output |-> Max0(f.out - f.reason), reasoning |-> f.reason, cacheRead |-> f.cached]

finish == IF kept.saw
          THEN LET b == Buckets(kept.of) IN
               [NoOut EXCEPT !.reported = TRUE, !.tokens = kept.of.in + kept.of.out + kept.of.reason, !.text = text,
                             !.input = b.input, !.output = b.output, !.reasoning = b.reasoning, !.cacheRead = b.cacheRead]
          ELSE [NoOut EXCEPT !.text = text]

----------------------------------------------------------------------------
(* The session.                                                            *)

Init == /\ conf \in Configs /\ pc = "running" /\ spent = Figures /\ told = Figures /\ kept = NothingKept /\ text = 0 /\ written = 0
        /\ run = "none" /\ out = NoOut

\* A turn spends, and its event states the total: whole, or torn, which
\* is skipped.
Turn == /\ pc = "running" /\ written < MaxLines
        /\ \E i \in conf.turns, o \in conf.turns : \E c \in 0 .. i, r \in 0 .. o :
             spent' = [in |-> spent.in + i, cached |-> spent.cached + c, out |-> spent.out + o, reason |-> spent.reason + r]
        /\ written' = written + 1
        /\ \/ kept' = Keeps(kept, spent') /\ told' = spent'
           \/ "torn" \in conf.faults /\ UNCHANGED <<kept, told>>
        /\ UNCHANGED <<conf, pc, text, run, out>>
Message == /\ pc = "running" /\ written < MaxLines /\ written' = written + 1 /\ text' = written'
           /\ UNCHANGED <<conf, pc, spent, told, kept, run, out>>

Exits == /\ pc = "running" /\ pc' = "ended" /\ run' \in {"clean", "failed"}
         /\ UNCHANGED <<conf, spent, told, kept, text, written, out>>
Killed == /\ pc = "running" /\ "kill" \in conf.faults /\ pc' = "ended" /\ run' = "signal"
          /\ UNCHANGED <<conf, spent, told, kept, text, written, out>>
\* The iteration log cannot be written: the copy ends the run.
ConsoleFails == /\ pc = "running" /\ "console" \in conf.faults /\ written > 0 /\ pc' = "ended" /\ run' = "error"
                /\ UNCHANGED <<conf, spent, told, kept, text, written, out>>
NotSpawned == /\ pc = "running" /\ "spawn" \in conf.faults /\ written = 0 /\ pc' = "ended" /\ run' = "error"
              /\ UNCHANGED <<conf, spent, told, kept, text, written, out>>

\* What arrived is parsed first, whatever the run then says.
Judged(r) == [finish EXCEPT !.exit = CASE r = "failed" -> 1 [] r = "signal" -> -1 [] OTHER -> 0, !.err = (r = "error")]
Returns == /\ pc = "ended" /\ pc' = "returned" /\ out' = Judged(run)
           /\ UNCHANGED <<conf, spent, told, kept, text, written, run>>

Next == Turn \/ Message \/ Exits \/ Killed \/ ConsoleFails \/ NotSpawned \/ Returns
Spec == Init /\ [][Next]_vars

----------------------------------------------------------------------------
(* Properties.                                                             *)

Total == out.input + out.output + out.reasoning + out.cacheRead

\* The buckets of a session sum to what codex says it spent, however many turns said so,
\* and no token is in two of them (harness.go:534-538, codex.go:246-250).
BucketsAreTheTotal == pc = "returned" => Total = told.in + told.out /\ out.cacheRead = told.cached /\ out.reasoning = told.reason

\* What was spent is accounted, however the process or its log ended (codex.go:128-132).
EndLosesNothing == pc = "returned" /\ told /= Figures => out.reported /\ out.tokens >= told.in + told.out

\* Cached input is excluded from what the budget is charged, however reasoning is counted
\* (codex.go:244).
CachedIsExcluded == pc = "returned" => out.tokens <= told.in - told.cached + told.out + told.reason
=============================================================================
