--------------------------- MODULE OpenCodeStream ---------------------------
(***************************************************************************)
(* What one opencode process said, and what is made of it: the parser that *)
(* reads its events as they arrive, the guard that kills it for repeating  *)
(* a failing call, the export read afterwards, and the retrospective scan  *)
(* that reads the same events back from the iteration log.                 *)
(***************************************************************************)
EXTENDS Integers, Sequences, FiniteSets

CONSTANTS Configs   \* the events that may come, how many, the guard's bound, the exports

ConfigOK(c) == /\ c.length \in Nat /\ c.max \in Nat /\ c.seeded \in BOOLEAN
               /\ c.exits \subseteq Int /\ c.stepsFinish \in BOOLEAN
ConfigsAssumption == \A c \in Configs : ConfigOK(c)

VARIABLES
  conf,       \* the member of Configs this behaviour is about
  pc,         \* streaming, exited, settled
  stream,     \* the events so far
  messages,   \* the assistant messages opencode keeps: finish, output, total
  p,          \* the parser's state
  guard,      \* the repeated-failure guard
  scan,       \* the scan's state over the same lines
  exit,       \* the exit code
  verdict     \* the Result: finish reason, terminal reason, recovered, usage

vars == <<conf, pc, stream, messages, p, guard, scan, exit, verdict>>

NoClaim == [held |-> FALSE, settled |-> FALSE, wip |-> FALSE]
Seeded == [held |-> TRUE, settled |-> FALSE, wip |-> FALSE]

Init ==
  /\ conf \in Configs
  /\ pc = "streaming" /\ stream = <<>> /\ messages = <<>>
  /\ p = [reason |-> "", zero |-> FALSE, out |-> 0, tokens |-> 0, usage |-> FALSE, recovered |-> 0, wasError |-> FALSE,
          claim |-> IF conf.seeded THEN Seeded ELSE NoClaim, acted |-> {}]
  /\ guard = [tool |-> "", err |-> "", count |-> 0, tripped |-> FALSE]
  /\ scan = [past |-> FALSE, branch |-> FALSE, reason |-> "", out |-> 0]
  /\ exit = 0
  /\ verdict = [reason |-> "", term |-> "none", recovered |-> 0, reported |-> FALSE, tokens |-> 0]

Typed(e) == e.kind \notin {"untyped", "noise"}
\* An event the decoder refuses whole: only its type can still be read.
Decodes(e) == e.kind /= "odd"

----------------------------------------------------------------------------
(* The parser.                                                             *)

\* Every typed event after an error is one the session recovered to.
NoteError(s, e) == [s EXCEPT !.recovered = IF s.wasError THEN @ + 1 ELSE @, !.wasError = e.kind = "error"]
\* The previous step is no longer the final one.
NoteStepStart(s) == [s EXCEPT !.reason = "", !.out = 0, !.zero = FALSE]
\* Slip: the output of a step without a reason is paired with the reason before it.
NoteStepFinishUnpaired(s, e) ==
  [s EXCEPT !.reason = IF e.reason /= "" THEN e.reason ELSE @,
            !.out = e.out,
            !.zero = e.total = 0,
            !.tokens = @ + e.total,
            !.usage = TRUE]

\* The reason and the step's own output move together; silence is a report of nothing.
NoteStepFinish(s, e) ==
  [s EXCEPT !.reason = IF e.reason /= "" THEN e.reason ELSE @,
            !.out = IF e.reason /= "" THEN e.out ELSE @,
            !.zero = e.total = 0,
            !.tokens = @ + e.total,
            !.usage = TRUE]
Terminal(e) == e.status \in {"completed", "error"}

\* A part is acted on once, recognised by its own id.
Acts(s, e) == Terminal(e) /\ e.part \notin s.acted
\* What the shared observer makes of a call: a branch counts from the request on, a claim
\* and a settlement only when they were accepted.
ClaimAfter(c, e) ==
  CASE e.tool = "record_progress" -> [c EXCEPT !.wip = @ \/ (c.held /\ e.branch)]
    [] e.tool = "claim_task" /\ e.status = "completed" -> [held |-> TRUE, settled |-> FALSE, wip |-> e.branch]
    [] e.tool = "submit" /\ e.status = "completed" -> [c EXCEPT !.settled = @ \/ c.held]
    [] OTHER -> c

NoteTool(s, e) == IF ~Acts(s, e) THEN s
                  ELSE [s EXCEPT !.acted = @ \cup {e.part}, !.claim = ClaimAfter(@, e)]

ParseLine(s, e) ==
  IF ~Typed(e) \/ ~Decodes(e) THEN s
  ELSE LET n == NoteError(s, e) IN
       CASE e.kind = "step_start" -> NoteStepStart(n)
         [] e.kind = "step_finish" -> NoteStepFinish(n, e)
         [] e.kind = "tool_use" -> NoteTool(n, e)
         [] OTHER -> n

----------------------------------------------------------------------------
(* The guard.                                                              *)

Same(g, e) == g.count > 0 /\ g.tool = e.tool /\ g.err = e.err
\* Consecutive failures of one tool with one error; it trips once.
Observe(g, e) ==
  IF conf.max = 0 \/ g.tripped THEN g
  ELSE IF e.status /= "error" THEN [g EXCEPT !.tool = "", !.err = "", !.count = 0]
  ELSE LET count == IF Same(g, e) THEN g.count + 1 ELSE 1 IN
       [tool |-> e.tool, err |-> e.err, count |-> count, tripped |-> count >= conf.max]

Guards(g, s, e) == IF e.kind = "tool_use" /\ Acts(s, e) THEN Observe(g, e) ELSE g

----------------------------------------------------------------------------
(* The scan of the iteration log.                                          *)

\* A completed claim or heartbeat; a branch asked for or carried by the claim.
ScanTool(s, e) ==
  IF e.status /= "completed" THEN s
  ELSE CASE e.tool \in {"claim_task"} -> [s EXCEPT !.past = TRUE, !.branch = @ \/ e.branch]
       [] e.tool = "record_progress" -> [s EXCEPT !.branch = @ \/ e.branch]
       [] e.tool = "heartbeat" -> [s EXCEPT !.past = TRUE]
       [] OTHER -> s
ScanLine(s, e) ==
  CASE e.kind = "step_finish" /\ e.reason /= "" -> [s EXCEPT !.reason = e.reason, !.out = e.out]
    [] e.kind = "tool_use" -> ScanTool(s, e)
    [] OTHER -> s

\* The cap's own line in the log.
CapKilled == verdict.term = "wallclock"
ScanDead == scan.past /\ scan.reason = "unknown" /\ ~scan.branch /\ ~CapKilled

----------------------------------------------------------------------------
(* The process.                                                            *)

\* The plane accepts a progress write only from the holder.
Accepted(e) == e.kind = "tool_use" /\ e.tool \in {"record_progress", "submit"} /\ e.status = "completed"
               => p.claim.held /\ ~p.claim.settled

Streams(e) ==
  /\ Accepted(e)
  /\ pc = "streaming" /\ ~guard.tripped /\ Len(stream) < conf.length
  /\ stream' = Append(stream, e)
  /\ p' = ParseLine(p, e)
  /\ guard' = Guards(guard, p, e)
  /\ scan' = ScanLine(scan, e)
  /\ UNCHANGED <<conf, pc, exit, verdict>>

\* A step that is done is a message. The export tells how it ended; the stream does
\* only for a step that calls tools, or, in older versions, for every step.
Event ==
  \/ \E e \in conf.events : e.kind /= "step_finish" /\ Streams(e) /\ UNCHANGED messages
  \/ \E e \in conf.events : /\ e.kind = "step_finish" /\ Streams(e)
                            /\ messages' = Append(messages, [finish |-> e.reason, out |-> e.out, total |-> e.total])
SilentStep ==
  /\ ~conf.stepsFinish /\ pc = "streaming" /\ stream /= <<>> /\ stream[Len(stream)].kind = "step_start"
  /\ \E m \in conf.silent : messages' = Append(messages, m)
  /\ pc' = "winding"
  /\ UNCHANGED <<conf, stream, p, guard, scan, exit, verdict>>

FinalMark(reason, zero, out) ==
  CASE reason = "unknown" /\ zero -> "quiet" [] reason = "length" /\ out = 0 -> "stall" [] OTHER -> "none"

\* Recovered means the stream did not end on its error.
Recovered == IF p.recovered > 0 /\ ~p.wasError THEN p.recovered ELSE 0
\* The process ends, on its own or at the cap, and what the stream added up to is written down.
Exits ==
  /\ pc \in {"streaming", "winding"}
  /\ \E code \in conf.exits, capped \in (IF guard.tripped THEN {FALSE} ELSE conf.caps) :
       /\ exit' = code
       /\ verdict' = [reason |-> p.reason, recovered |-> Recovered, reported |-> p.usage, tokens |-> p.tokens,
                      term |-> IF capped THEN "wallclock" ELSE FinalMark(p.reason, p.zero, p.out)]
  /\ pc' = "exited"
  /\ UNCHANGED <<conf, stream, messages, p, guard, scan>>

Paid(m) == m.finish /= "" \/ m.total > 0

\* The verdict of the last message, which a run that made one was the one to end.
ExportMark(term) ==
  IF messages = <<>> \/ term = "wallclock" THEN term
  ELSE LET m == messages[Len(messages)] IN FinalMark(m.finish, m.total = 0, m.out)
Total == LET f[i \in 0 .. Len(messages)] == IF i = 0 THEN 0 ELSE messages[i].total + f[i - 1] IN f[Len(messages)]

SettleUsage ==
  /\ pc = "exited" /\ conf.exported
  /\ verdict' = [verdict EXCEPT
       !.reason = IF messages /= <<>> /\ messages[Len(messages)].finish /= "" THEN messages[Len(messages)].finish ELSE @,
       !.term = ExportMark(@),
       !.reported = @ \/ \E i \in 1 .. Len(messages) : Paid(messages[i]),
       !.tokens = Total]
  /\ pc' = "settled"
  /\ UNCHANGED <<conf, stream, messages, p, guard, scan, exit>>
NoExport ==
  /\ pc = "exited" /\ ~conf.exported
  /\ pc' = "settled"
  /\ UNCHANGED <<conf, stream, messages, p, guard, scan, exit, verdict>>

\* The live tally of the same session.
TallyRun == p.claim.held
deadPhase == verdict.reason = "unknown" /\ ~p.claim.wip
TallyDead == TallyRun /\ ~p.claim.settled /\ verdict.term /= "wallclock" /\ (deadPhase \/ guard.tripped)

Next == Event \/ SilentStep \/ Exits \/ SettleUsage \/ NoExport
Spec == Init /\ [][Next]_vars

TypeOK ==
  /\ pc \in {"streaming", "winding", "exited", "settled"}
  /\ Len(stream) <= conf.length /\ Len(messages) <= conf.length
  /\ p.tokens \in Nat /\ p.recovered \in 0 .. conf.length /\ p.wasError \in BOOLEAN /\ p.zero \in BOOLEAN
  /\ guard.count \in 0 .. conf.max /\ guard.tripped \in BOOLEAN
  /\ verdict.term \in {"none", "quiet", "stall", "wallclock"} /\ verdict.recovered \in Nat /\ verdict.tokens \in Nat

----------------------------------------------------------------------------
(* Properties. The stream as a whole is read again for each of them.       *)

Index == 1 .. Len(stream)
TypedIndex == {i \in Index : Typed(stream[i])}
EndsOnError == \E i \in TypedIndex : stream[i].kind \in {"error", "odd"} /\ \A j \in TypedIndex : j <= i

\* The last finished step with a reason, when no step has begun since.
FinalSteps == {i \in Index : /\ stream[i].kind = "step_finish" /\ stream[i].reason /= ""
                             /\ \A j \in Index : j > i => /\ stream[j].kind /= "step_start"
                                                        /\ ~(stream[j].kind = "step_finish" /\ stream[j].reason /= "")}
Uncapped == verdict.term /= "wallclock"

\* The first delivery of each settled tool part, in order.
Calls == LET first(i) == /\ stream[i].kind = "tool_use" /\ Terminal(stream[i])
                         /\ ~\E j \in 1 .. i - 1 : /\ stream[j].kind = "tool_use" /\ Terminal(stream[j])
                                                 /\ stream[j].part = stream[i].part
             f[i \in 0 .. Len(stream)] == IF i = 0 THEN <<>> ELSE IF first(i) THEN Append(f[i - 1], stream[i]) ELSE f[i - 1]
         IN f[Len(stream)]
Repeats(n) == \E i \in 1 .. Len(Calls) - n + 1 : \A j \in i .. i + n - 1 :
                 Calls[j].status = "error" /\ Calls[j].tool = Calls[i].tool /\ Calls[j].err = Calls[i].err

\* Errors the stream moved past are the ones counted, each once (opencode.go:1280-1290).
RecoveredIsCounted ==
  p.recovered = Cardinality({i \in Index : stream[i].kind = "error" /\ \E j \in TypedIndex : j > i})

\* A session is recovered from its errors only if its last word is not one; the count and
\* the text that is classified cannot disagree about that (opencode.go:1285-1290).
RecoveredEndedWell == verdict.recovered > 0 => ~EndsOnError

\* A stall is one step's: the final one's reason with its own output (opencode.go:1234-1243).
StallIsOneStep == pc = "exited" /\ Uncapped =>
  (verdict.term = "stall" <=> \E i \in FinalSteps : stream[i].reason = "length" /\ stream[i].out = 0)

\* A quiet death is one step's: the final one's reason with its own usage (opencode.go:1226-1233).
QuietIsOneStep == pc = "exited" /\ Uncapped =>
  (verdict.term = "quiet" <=> \E i \in FinalSteps : stream[i].reason = "unknown" /\ stream[i].total = 0)

\* The session is killed for exactly that: the same call failing the same way, so many
\* times with nothing else between (toolloop.go:12-34).
KilledForALoop == guard.tripped <=> conf.max > 0 /\ Repeats(conf.max)

\* A delivery that is repeated changes nothing: a settled claim stays settled
\* (opencode.go:1433-1437).
EachPartOnce ==
  LET f[i \in 0 .. Len(Calls)] == IF i = 0 THEN (IF conf.seeded THEN Seeded ELSE NoClaim) ELSE ClaimAfter(f[i - 1], Calls[i])
  IN  p.claim = f[Len(Calls)]

\* With an export, how the session ended is what its last message says, whatever the
\* stream left out (opencode_export.go:252-256).
MarkIsTheLastMessage == pc = "settled" /\ conf.exported /\ messages /= <<>> /\ Uncapped =>
  LET m == messages[Len(messages)] IN
  /\ verdict.term = "quiet" <=> m.finish = "unknown" /\ m.total = 0
  /\ verdict.term = "stall" <=> m.finish = "length" /\ m.out = 0

\* A session that died in the live tally's sense is dead in the scan's, where every step
\* says on the stream how it ended (deadscan.go:42-44).
ScanMissesNoDeath == pc = "settled" /\ TallyDead /\ ~guard.tripped => ScanDead

\* A refused claim counts toward neither (deadscan.go:16-20).
RefusalsCountNowhere == ~conf.seeded /\ scan.past => TallyRun

\* The live tally and the retrospective scan agree on what a dead session is
\* (deadtally.go:22-23).
ScanAgrees == pc = "settled" => (ScanDead <=> TallyDead)

=============================================================================
