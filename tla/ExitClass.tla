----------------------------- MODULE ExitClass ------------------------------
(***************************************************************************)
(* What is made of a session that ended: each adapter reads the words its  *)
(* own program wrote, and only those, for a limit and for a blip, and the  *)
(* driver asks in an order. A text is the set of the patterns it matches.  *)
(***************************************************************************)
EXTENDS Integers, FiniteSets

CONSTANTS Sessions   \* the ends a session may have

Harnesses == {"claude", "codex", "opencode"}
Words == {"hard", "generic", "fiveHour", "minutes", "weekly", "daily", "plan", "resets", "fatal", "transient", "quota", "noRoute", "limit"}
\* What the provider's own body says, when the event carries one.
NoBody == [status |-> 0, code |-> "", window |-> ""]
NoEvent == [words |-> {}, status |-> 0, body |-> NoBody]

EndOK(e) ==
  /\ e.harness \in Harnesses /\ e.exit \in Nat /\ e.usage \in BOOLEAN /\ e.capped \in BOOLEAN
  /\ e.stderr \subseteq Words /\ e.bare \subseteq Words /\ e.narration \subseteq Words
  /\ e.errored \in BOOLEAN /\ e.event.words \subseteq Words
  /\ e.blips \in Nat /\ e.blipWords \subseteq Words
  /\ e.result \subseteq Words /\ e.failed \in BOOLEAN /\ e.reason \in {"", "usage_limit", "max_turns"}
SessionsAssumption == \A e \in Sessions : EndOK(e)

VARIABLES
  pc,        \* ended, judged
  seen,      \* how the session ended
  class      \* what the driver does about it

vars == <<pc, seen, class>>

NoLimit == [limited |-> FALSE, stop |-> FALSE, reset |-> FALSE, window |-> ""]

----------------------------------------------------------------------------
(* opencode.                                                               *)

Has(text, words) == text \cap words /= {}

\* The last typed event counts when it is an error; one the stream moved past does not.
TerminalEvent(e) == IF e.errored THEN e.event ELSE NoEvent
\* A status and a body's field names are words of the event's line too.
StatusWords(s) == CASE s = 402 -> {"hard"} [] s \in {401, 403} -> {"fatal"} [] s \in {408, 429} \cup 500 .. 599 -> {"transient"} [] OTHER -> {}
BodyWords(b) == IF b.window /= "" THEN {"transient"} ELSE {}
opencodeErrorText(e) == LET v == TerminalEvent(e) IN e.stderr \cup v.words \cup StatusWords(v.status) \cup BodyWords(v.body)

Budget(text) == Has(text, {"hard"})
Generic(text) == Has(text, {"generic"})
Rolling(text) == Has(text, {"quota", "fiveHour", "minutes", "weekly", "daily"})
Fatal(text) == Has(text, {"fatal", "noRoute"})
TransientText(text) == Has(text, {"transient"})

\* Slip: the body's status first.
FactsBodyFirst(e) ==
  LET v == TerminalEvent(e) IN
  [status |-> IF v.body.status \in 100 .. 599 THEN v.body.status ELSE v.status,
   code |-> v.body.code, window |-> v.body.window]

\* The wrapper's status is the one the request failed with; the body's fills a hole.
Facts(e) ==
  LET v == TerminalEvent(e) IN
  [status |-> IF v.status /= 0 THEN v.status ELSE IF v.body.status \in 100 .. 599 THEN v.body.status ELSE 0,
   code |-> v.body.code, window |-> v.body.window]
NamedWindow(text) == IF "weekly" \in text THEN "weekly" ELSE IF "daily" \in text THEN "daily" ELSE IF "fiveHour" \in text THEN "5-hour" ELSE ""

\* The map of windows is closed: a token it does not know has no label.
Label(token) == CASE token = "fiveHour" -> "5-hour" [] token \in {"weekly", "daily"} -> token [] OTHER -> ""
RateLimited(f) == f.status = 429 \/ f.code = "RATE_LIMITED"
PlanLimit(e) == RateLimited(Facts(e)) /\ (Facts(e).window /= "" \/ "plan" \in opencodeErrorText(e))
PlanWindow(e) ==
  IF Facts(e).window /= "" THEN Label(Facts(e).window)
  ELSE IF NamedWindow(opencodeErrorText(e)) /= "" THEN NamedWindow(opencodeErrorText(e)) ELSE "5-hour"

Waits(text, window) == [limited |-> TRUE, stop |-> FALSE, reset |-> "resets" \in text, window |-> window]
Stops == [limited |-> TRUE, stop |-> TRUE, reset |-> FALSE, window |-> ""]

opencodeLimit(e) ==
  LET text == opencodeErrorText(e) IN
  IF Budget(text) THEN Stops
  ELSE IF PlanLimit(e) THEN Waits(text, PlanWindow(e))
  ELSE IF Rolling(text) THEN Waits(text, NamedWindow(text))
  ELSE IF ~Generic(text) THEN NoLimit
  ELSE IF "resets" \in text THEN Waits(text, "") ELSE Stops
RecoveredErrors(e) == IF e.errored THEN 0 ELSE e.blips

\* A named stop, a limit or a refusal is not a blip, and nor is what was recovered from.
Vetoed(e) == LET text == opencodeErrorText(e) IN Budget(text) \/ Rolling(text) \/ Generic(text) \/ Fatal(text) \/ PlanLimit(e)

\* A failure no pattern names, after paid work.
opencodeGuess(e) ==
  /\ e.exit = 1 /\ e.usage
  /\ ~Vetoed(e) /\ RecoveredErrors(e) = 0 /\ ~TransientText(opencodeErrorText(e))
opencodeTransient(e) ==
  /\ ~Vetoed(e) /\ RecoveredErrors(e) = 0
  /\ TransientText(opencodeErrorText(e)) \/ opencodeGuess(e)

----------------------------------------------------------------------------
(* claude and codex.                                                       *)

\* The narrow width, and with the words of a session the program says ended badly.
claudeTyped(e) == e.stderr \cup e.bare
Failed(e) == e.failed \/ e.reason /= ""

claudeDiagnostic(e) == claudeTyped(e) \cup e.event.words \cup IF Failed(e) THEN e.result ELSE {}

claudeReset(e) == "resets" \in claudeTyped(e)
claudeLimit(e) == IF e.reason = "usage_limit" \/ "limit" \in claudeDiagnostic(e)
                  THEN [limited |-> TRUE, stop |-> FALSE, reset |-> claudeReset(e), window |-> ""] ELSE NoLimit
claudeTransient(e) == "transient" \in claudeDiagnostic(e)

codexErrorText(e) == e.stderr \cup e.bare \cup e.event.words
codexLimit(e) == IF "limit" \in codexErrorText(e) THEN [NoLimit EXCEPT !.limited = TRUE] ELSE NoLimit
codexTransient(e) == "transient" \in codexErrorText(e)

----------------------------------------------------------------------------
(* The driver.                                                             *)

DetectLimit(e) == CASE e.harness = "opencode" -> opencodeLimit(e) [] e.harness = "claude" -> claudeLimit(e) [] OTHER -> codexLimit(e)
IsTransient(e) == CASE e.harness = "opencode" -> opencodeTransient(e) [] e.harness = "claude" -> claudeTransient(e) [] OTHER -> codexTransient(e)
IsUnclassifiedTransient(e) == e.harness = "opencode" /\ opencodeGuess(e)
Capped(e) == CASE e.harness = "claude" -> e.reason = "max_turns" [] e.harness = "opencode" -> e.capped [] OTHER -> FALSE
RecoveredExit(e) == e.harness = "opencode" /\ e.exit /= 0 /\ ~Capped(e) /\ RecoveredErrors(e) > 0

Class(e) ==
  LET limit == DetectLimit(e) IN
  IF limit.limited THEN (IF limit.stop THEN "stop" ELSE "wait")
  ELSE IF e.exit = 0 THEN "done"
  ELSE IF RecoveredExit(e) THEN "delivery"
  ELSE IF Capped(e) THEN "capped"
  ELSE IF ~IsTransient(e) THEN "fatal"
  ELSE IF IsUnclassifiedTransient(e) THEN "guess" ELSE "retry"
Init == pc = "ended" /\ seen \in Sessions /\ class = "none"
Judges == pc = "ended" /\ pc' = "judged" /\ class' = Class(seen) /\ UNCHANGED seen
Next == Judges
Spec == Init /\ [][Next]_vars

----------------------------------------------------------------------------
(* Properties.                                                             *)

Judged == pc = "judged"

\* A guess is a retry: what asks for one and says it guessed is bounded apart
\* (harness.go:40-45).
GuessIsARetry == IsUnclassifiedTransient(seen) => IsTransient(seen)

\* opencode's classifiers agree, so that no order of asking retries a limit
\* (opencode.go:2358-2365, 2374-2381).
LimitIsNoBlip == seen.harness = "opencode" /\ DetectLimit(seen).limited => ~IsTransient(seen)

\* A limit is never retried, whichever adapter says both (harness.go:28-31, codex.go:329-332).
LimitIsWaited == Judged /\ DetectLimit(seen).limited => class \in {"stop", "wait"}

\* A limit that says when it lifts is a wait, unless money itself ran out; and what it
\* said is kept (opencode.go:1855-1862).
StatedResetIsAWait == seen.harness = "opencode" /\ DetectLimit(seen).limited /\ "resets" \in opencodeErrorText(seen) =>
  \/ Budget(opencodeErrorText(seen))
  \/ ~DetectLimit(seen).stop /\ DetectLimit(seen).reset

\* A window the provider named is not relabelled by anything (opencode.go:1899-1905).
WindowIsTheProviders ==
  LET f == Facts(seen) IN
  seen.harness = "opencode" /\ RateLimited(f) /\ f.window /= "" /\ ~Budget(opencodeErrorText(seen)) =>
    DetectLimit(seen).window = CASE f.window = "fiveHour" -> "5-hour" [] f.window = "weekly" -> "weekly" [] OTHER -> ""

\* The request's own failure is not masked by its body's envelope (opencode.go:1997-2002).
BodyMasksNothing == seen.harness = "opencode" /\ seen.errored /\ seen.event.status = 429 /\ seen.event.body.window /= ""
                    => DetectLimit(seen).limited

\* A refusal stops the run at the first attempt (opencode.go:2167-2172).
RefusalStops == Judged /\ seen.harness = "opencode" /\ Fatal(opencodeErrorText(seen)) => class \notin {"retry", "guess"}

\* An error the session moved past says nothing about how it ended
\* (opencode.go:2097-2107, 2382-2391).
RecoveredSaysNothing == seen.harness = "opencode" /\ ~seen.errored => Class(seen) = Class([seen EXCEPT !.blipWords = {}])

\* What the agent said decides nothing (claude.go:1008-1016, codex.go:271-281,
\* opencode.go:1827-1831).
NarrationSaysNothing == Class(seen) = Class([seen EXCEPT !.narration = {}, !.result = IF seen.failed \/ seen.reason /= "" THEN @ ELSE {}])

\* A reset read out of free text could end the run (claude.go:1126-1131).
ResetIsTyped == seen.harness = "claude" => (DetectLimit(seen).reset => "resets" \in seen.stderr \cup seen.bare)

\* A cap is the end of a phase, whatever else the text says (loop.go:5812-5816,
\* 5840-5843).
CapEndsThePhase == Judged /\ Capped(seen) => class \notin {"retry", "guess", "fatal"}
=============================================================================
