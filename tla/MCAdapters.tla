----------------------------- MODULE MCAdapters -----------------------------
(***************************************************************************)
(* The harness adapters: the streams of claude, codex and opencode, an     *)
(* opencode call with its recoveries, the server of its preflight, and     *)
(* what is made of a session's end.  They share no state, so a behaviour   *)
(* is about one of them.                                                   *)
(***************************************************************************)
EXTENDS Integers, Sequences, FiniteSets

CONSTANTS
  Blank,   \* a variable of a component this behaviour is not about
  ClaudeConfigs, CodexConfigs, OpenCodeConfigs, StreamConfigs, ServerConfigs, EndConfigs, TailConfigs,
  Nows, Faces, Notes

VARIABLES
  part,   \* the component this behaviour is about
  \* those of the components, by their names there
  conf, pc, parser, guard, answer, written, run, out, cancelled, seen, lines,
  child, sent, pipe, read, killing,
  spent, told, kept, text,
  clock, log, res, next, current, falls, attempt, failed, task, other, memory, looped, missed,
  counts,
  stream, messages, scan, exit, verdict,
  names, server, said, heard, states, wall,
  class,
  tail, sink, flushed,
  now, face, note, claudeReset, opencodeReset

Claude == INSTANCE ClaudeStream WITH Configs <- ClaudeConfigs, p <- parser
Codex == INSTANCE CodexStream WITH Configs <- CodexConfigs, MaxLines <- 3
OpenCode == INSTANCE OpenCode WITH Configs <- OpenCodeConfigs
Stream == INSTANCE OpenCodeStream WITH Configs <- StreamConfigs, p <- parser
Server == INSTANCE OpenCodeServer WITH Configs <- ServerConfigs, Buffer <- 2, status <- states
Class == INSTANCE ExitClass WITH Sessions <- EndConfigs
Window == INSTANCE OutputTail WITH Configs <- TailConfigs, t <- tail, s <- sink
Clock == INSTANCE ResetClock

ASSUME AdaptersAssumption ==
  /\ Claude!ConfigsAssumption /\ Codex!ConfigsAssumption /\ OpenCode!ConfigsAssumption
  /\ Stream!ConfigsAssumption /\ Server!ConfigsAssumption /\ Class!SessionsAssumption
  /\ Window!ConfigsAssumption /\ Clock!InputsAssumption
  /\ \A c \in OpenCodeConfigs : OpenCode!Ordinary(c)

\* A behaviour is about one component: the variables of the others stay blank.
ClaudeOwn == <<child, sent, pipe, read, killing>>
CodexOwn == <<spent, told, kept, text>>
OpenCodeOwn == <<clock, log, res, next, current, falls, attempt, failed, task, other, memory,
                 looped, missed, counts>>
StreamOwn == <<stream, messages, scan, exit, verdict>>
ServerOwn == <<names, server, said, heard, states, wall>>
ClassOwn == <<class>>
TailOwn == <<tail, sink, flushed>>
ClockOwn == <<now, face, note, claudeReset, opencodeReset>>
vars == <<part, conf, pc, parser, guard, answer, written, run, out, cancelled, seen, lines,
          ClaudeOwn, CodexOwn, OpenCodeOwn, StreamOwn, ServerOwn, ClassOwn, TailOwn, ClockOwn>>

NoClaude == child = Blank /\ sent = Blank /\ pipe = Blank /\ read = Blank /\ killing = Blank
NoCodex == spent = Blank /\ told = Blank /\ kept = Blank /\ text = Blank
NoOpenCode == clock = Blank /\ log = Blank /\ res = Blank /\ next = Blank /\ current = Blank
              /\ falls = Blank /\ attempt = Blank /\ failed = Blank /\ task = Blank /\ other = Blank
              /\ memory = Blank /\ looped = Blank /\ missed = Blank /\ counts = Blank
NoStream == stream = Blank /\ messages = Blank /\ scan = Blank /\ exit = Blank /\ verdict = Blank
NoServer == names = Blank /\ server = Blank /\ said = Blank /\ heard = Blank /\ states = Blank
            /\ wall = Blank
NoClass == class = Blank
NoTail == tail = Blank /\ sink = Blank /\ flushed = Blank
NoClock == now = Blank /\ face = Blank /\ note = Blank /\ claudeReset = Blank
           /\ opencodeReset = Blank

Init ==
  \/ part = "claude" /\ Claude!Init
     /\ NoCodex /\ NoOpenCode /\ NoStream /\ NoServer /\ NoClass /\ NoTail /\ NoClock
     /\ written = Blank /\ run = Blank /\ out = Blank /\ cancelled = Blank /\ seen = Blank
     /\ lines = Blank
  \/ part = "codex" /\ Codex!Init
     /\ NoClaude /\ NoOpenCode /\ NoStream /\ NoServer /\ NoClass /\ NoTail /\ NoClock
     /\ parser = Blank /\ guard = Blank /\ answer = Blank /\ cancelled = Blank /\ seen = Blank
     /\ lines = Blank
  \/ part = "opencode" /\ OpenCode!Init
     /\ NoClaude /\ NoCodex /\ NoStream /\ NoServer /\ NoClass /\ NoTail /\ NoClock /\ parser = Blank
     /\ guard = Blank /\ answer = Blank /\ written = Blank /\ out = Blank /\ lines = Blank
  \/ part = "stream" /\ Stream!Init
     /\ NoClaude /\ NoCodex /\ NoOpenCode /\ NoServer /\ NoClass /\ NoTail /\ NoClock /\ answer = Blank
     /\ written = Blank /\ run = Blank /\ out = Blank /\ cancelled = Blank /\ seen = Blank
     /\ lines = Blank
  \/ part = "server" /\ Server!Init
     /\ NoClaude /\ NoCodex /\ NoOpenCode /\ NoStream /\ NoClass /\ NoTail /\ NoClock /\ parser = Blank
     /\ guard = Blank /\ written = Blank /\ run = Blank /\ seen = Blank
  \/ part = "class" /\ Class!Init
     /\ NoClaude /\ NoCodex /\ NoOpenCode /\ NoStream /\ NoServer /\ NoTail /\ NoClock /\ conf = Blank
     /\ parser = Blank /\ guard = Blank /\ answer = Blank /\ written = Blank /\ run = Blank
     /\ out = Blank /\ cancelled = Blank /\ lines = Blank
  \/ part = "tail" /\ Window!Init
     /\ NoClaude /\ NoCodex /\ NoOpenCode /\ NoStream /\ NoServer /\ NoClass /\ NoClock /\ pc = Blank
     /\ parser = Blank /\ guard = Blank /\ answer = Blank /\ run = Blank /\ out = Blank
     /\ cancelled = Blank /\ seen = Blank
  \/ part = "clock" /\ Clock!Init
     /\ NoClaude /\ NoCodex /\ NoOpenCode /\ NoStream /\ NoServer /\ NoClass /\ NoTail /\ conf = Blank
     /\ pc = Blank /\ parser = Blank /\ guard = Blank /\ answer = Blank /\ written = Blank
     /\ run = Blank /\ out = Blank /\ cancelled = Blank /\ seen = Blank /\ lines = Blank

ClaudeAlone == part = "claude" /\ UNCHANGED <<part, CodexOwn, OpenCodeOwn, StreamOwn, ServerOwn,
                                            ClassOwn, TailOwn, ClockOwn, written, run, out,
                                            cancelled, seen, lines>>
CodexAlone == part = "codex" /\ UNCHANGED <<part, ClaudeOwn, OpenCodeOwn, StreamOwn, ServerOwn,
                                          ClassOwn, TailOwn, ClockOwn, parser, guard, answer,
                                          cancelled, seen, lines>>
OpenCodeAlone == part = "opencode" /\ UNCHANGED <<part, ClaudeOwn, CodexOwn, StreamOwn, ServerOwn,
                                                ClassOwn, TailOwn, ClockOwn, parser, guard,
                                                answer, written, out, lines>>
StreamAlone == part = "stream" /\ UNCHANGED <<part, ClaudeOwn, CodexOwn, OpenCodeOwn, ServerOwn,
                                            ClassOwn, TailOwn, ClockOwn, answer, written, run,
                                            out, cancelled, seen, lines>>
ServerAlone == part = "server" /\ UNCHANGED <<part, ClaudeOwn, CodexOwn, OpenCodeOwn, StreamOwn,
                                            ClassOwn, TailOwn, ClockOwn, parser, guard, written,
                                            run, seen>>
ClassAlone == part = "class" /\ UNCHANGED <<part, ClaudeOwn, CodexOwn, OpenCodeOwn, StreamOwn,
                                          ServerOwn, TailOwn, ClockOwn, conf, parser, guard,
                                          answer, written, run, out, cancelled, lines>>
TailAlone == part = "tail" /\ UNCHANGED <<part, ClaudeOwn, CodexOwn, OpenCodeOwn, StreamOwn,
                                        ServerOwn, ClassOwn, ClockOwn, pc, parser, guard, answer,
                                        run, out, cancelled, seen>>
ClockAlone == part = "clock" /\ UNCHANGED <<part, ClaudeOwn, CodexOwn, OpenCodeOwn, StreamOwn,
                                          ServerOwn, ClassOwn, TailOwn, conf, pc, parser, guard,
                                          answer, written, run, out, cancelled, seen, lines>>

ClaudeStep == ClaudeAlone /\ Claude!Next
CodexStep == CodexAlone /\ Codex!Next
OpenCodeStep == OpenCodeAlone /\ OpenCode!Next
StreamStep == StreamAlone /\ Stream!Next
ServerStep == ServerAlone /\ Server!Next
ClassStep == ClassAlone /\ Class!Next
TailStep == TailAlone /\ Window!Next
ClockStep == ClockAlone /\ Clock!Next
Next == ClaudeStep \/ CodexStep \/ OpenCodeStep \/ StreamStep \/ ServerStep \/ ClassStep \/ TailStep
        \/ ClockStep

\* The fairness of ClaudeStream and of OpenCodeServer: the reader of claude's stream runs
\* until it ends and a kill reaches the process group; the preflight runs on, its timers
\* fire, and the server writes what it has to write.
Fairness ==
  /\ WF_(Claude!vars)(part = "claude" /\ Claude!Reads)
  /\ WF_(Claude!vars)(part = "claude" /\ (Claude!Overruns \/ Claude!Discards \/ Claude!StreamEnds \/ Claude!Returns))
  /\ WF_(Claude!vars)(part = "claude" /\ Claude!Dies)
  /\ WF_(Server!vars)(part = "server" /\ Server!Adapter)
  /\ WF_(Server!vars)(part = "server" /\ Server!Writes)
  /\ SF_(Server!vars)(part = "server" /\ Server!PollTimesOut)

Spec == Init /\ [][Next]_vars /\ Fairness

-----------------------------------------------------------------------------
(* What the adapters are asked.                                            *)

\* claude: a finished turn, a turn without usage, the final event, one no buffer holds,
\* a tool call and its return.
Turn(f, c) == [kind |-> "turn", reports |-> TRUE, usage |-> [fresh |-> f, cached |-> c]]
Silent == [kind |-> "turn", reports |-> FALSE, usage |-> [fresh |-> 0, cached |-> 0]]
Final(f, c, cost) == [kind |-> "final", usage |-> [fresh |-> f, cached |-> c], cost |-> cost]
Huge == [kind |-> "huge"]
Tool(id, tool) == [kind |-> "call", id |-> id, tool |-> tool]
Returned(id, err) == [kind |-> "returned", id |-> id, err |-> err]

Calm ==
  [events |-> {}, length |-> 4, pipe |-> 2, ceiling |-> 0, max |-> 0, exits |-> {0, 1}, cancels |-> FALSE, holds |-> {"nothing"}]
\* A ceiling of three, turns that reach it, miss it and cross it; two tools, failing alike
\* and apart, their calls in flight at once; both at once under a cancel.
MCClaudeConfigs ==
  {[Calm EXCEPT !.ceiling = 3, !.cancels = TRUE,
                !.events = {Turn(1, 0), Turn(1, 2), Silent, Final(1, 1, TRUE), Final(2, 3, FALSE), Huge}],
   [Calm EXCEPT !.max = 2, !.length = 6,
                !.events = {Tool(1, "read"), Tool(2, "read"), Tool(3, "bash"), Tool(3, "read"), Returned(1, "a"),
                            Returned(2, "a"), Returned(2, "b"), Returned(3, "a"), Returned(3, "")}],
   [Calm EXCEPT !.ceiling = 1, !.max = 2, !.cancels = TRUE,
                !.events = {Turn(1, 1), Tool(1, "read"), Tool(2, "read"), Returned(1, "a"), Returned(2, "a"), Final(1, 1, TRUE), Huge}]}

\* codex: turns with and without cached input; torn lines, a full console, no process.
MCCodexConfigs == {[turns |-> {0, 2}, faults |-> f] : f \in {{}, {"torn"}, {"console", "spawn", "kill"}}}

Stages == {"first", "stall", "switch", "probe", "cont"}
\* opencode: every way each of its runs may end, on two or three routes; short budgets
\* that runs outlive; a stream that cannot be read, and a cancel.
OpenCodeCall ==
  [routes |-> 2, cap |-> 0, rounds |-> 2, times |-> {0}, phase2 |-> FALSE,
   ends |-> [s \in Stages |->
               CASE s = "first" -> {"clean", "quiet", "stall", "limit", "loop", "failed", "mute", "launch", "torn", "warnedStall"}
                 [] s = "stall" -> {"clean", "quiet", "stall", "limit", "loop", "launch", "torn"}
                 [] s = "switch" -> {"clean", "quiet", "stall", "limit", "loop", "launch"}
                 [] s = "probe" -> {"clean", "failed", "launch"}
                 [] s = "cont" -> {"clean", "quiet", "stall", "loop", "failed", "launch"}],
   effects |-> [s \in Stages |->
                  CASE s = "first" -> {"none", "claim"} [] s = "probe" -> {"none", "settle", "other"} [] OTHER -> {"none", "settle"}],
   untrusted |-> FALSE, noExport |-> FALSE, cancels |-> FALSE]
MCOpenCodeConfigs ==
  {OpenCodeCall, [OpenCodeCall EXCEPT !.phase2 = TRUE, !.routes = 3, !.rounds = 1, !.noExport = TRUE],
   [OpenCodeCall EXCEPT !.untrusted = TRUE, !.cancels = TRUE, !.times = {0, 1}, !.cap = 5, !.rounds = 1, !.phase2 = TRUE]}
  \cup {[OpenCodeCall EXCEPT !.cap = c, !.times = {0, 1, 3}] : c \in {3, 5, 8}}

\* opencode's events: steps, errors, tool calls.
Start == [kind |-> "step_start"]
Text == [kind |-> "text"]
Error == [kind |-> "error"]
Untyped == [kind |-> "untyped"]
Finish(r, o, t) == [kind |-> "step_finish", reason |-> r, out |-> o, total |-> t]
Call(tool, status, id, err, branch) ==
  [kind |-> "tool_use", tool |-> tool, status |-> status, part |-> id, err |-> err, branch |-> branch]
Message(f, o, t) == [finish |-> f, out |-> o, total |-> t]
Steps == {Start, Text, Error, Finish("tool-calls", 1, 2), Finish("length", 0, 2), Finish("unknown", 0, 0), Finish("", 0, 2), Finish("", 1, 2)}
Failing == {Call("bash", "error", n, "a", FALSE) : n \in 1 .. 3} \cup {Call("bash", "error", n, "b", FALSE) : n \in {4, 5}}
Answered == {Call("bash", "completed", 6, "", FALSE), Call("bash", "running", 7, "", FALSE), Call("read", "error", 8, "a", FALSE)}
Claiming ==
  {Call("claim_task", "completed", 1, "", FALSE), Call("claim_task", "completed", 2, "", TRUE), Call("claim_task", "error", 3, "a", FALSE),
   Call("submit", "completed", 4, "", FALSE), Call("submit", "error", 5, "a", FALSE), Call("record_progress", "error", 6, "a", TRUE)}

Stream0 ==
  [length |-> 4, max |-> 0, seeded |-> FALSE, exits |-> {0}, caps |-> {FALSE}, stepsFinish |-> TRUE,
   silent |-> {}, exported |-> FALSE, events |-> {}]
\* Steps that end without a word of it, and what the export says of them; the guard, for
\* bounds of none, two and three; claims, of a phase that holds one and one that does not;
\* the events the retrospective scan reads.
MCStreamConfigs ==
  {[Stream0 EXCEPT !.events = Steps, !.length = 5],
   [Stream0 EXCEPT !.events = Steps \cup {Untyped}, !.caps = BOOLEAN],
   [Stream0 EXCEPT !.events = Steps, !.exported = TRUE, !.stepsFinish = FALSE, !.caps = BOOLEAN,
                   !.silent = {Message("stop", 1, 2), Message("unknown", 0, 0), Message("length", 0, 2), Message("", 0, 0)}],
   [Stream0 EXCEPT !.max = 3, !.events = Failing \cup Answered, !.length = 5]}
  \cup {[Stream0 EXCEPT !.max = m, !.events = Failing \cup Answered \cup {Text}] : m \in {0, 2}}
  \cup {[Stream0 EXCEPT !.events = Claiming, !.seeded = b] : b \in BOOLEAN}
  \cup {[Stream0 EXCEPT !.events = {Start, Finish("unknown", 0, 0), Finish("stop", 1, 2), Finish("", 0, 2), Call("claim_task", "completed", 1, "", FALSE),
                                    Call("claim_task", "error", 2, "a", FALSE), Call("record_progress", "completed", 3, "", TRUE)},
                       !.length = 5, !.caps = BOOLEAN]}

Entry(n, k) == [name |-> n, keyed |-> k]
Container(entries) == [shaped |-> FALSE, keyed |-> FALSE, entries |-> entries]
NoServers == Container({})
Read(direct, servers) == [ok |-> "read", direct |-> direct, servers |-> servers]
Absent == [Read({}, NoServers) EXCEPT !.ok = "absent"]
Unreadable == [Read({}, NoServers) EXCEPT !.ok = "unreadable"]
\* The preflight: every document a layer may be, and a global, a project and a content
\* layer of them; two servers and everything that can go wrong with them.
Ours == Read({Entry("clankerbar", FALSE)}, NoServers)
Two == Read({Entry("clankerbar", FALSE), Entry("mine", TRUE)}, NoServers)
Docs ==
  {Absent, Unreadable, Ours,
   Read({Entry("mine", TRUE), Entry("other", FALSE)}, NoServers),
   Read({}, Container({Entry("clankerbar", TRUE), Entry("other", FALSE)})),
   Read({}, [shaped |-> TRUE, keyed |-> TRUE, entries |-> {}]), Read({}, [shaped |-> TRUE, keyed |-> FALSE, entries |-> {}])}
Preflight ==
  [named |-> TRUE, file |-> Ours, dir |-> TRUE, layers |-> <<>>, lines |-> <<"chatter", "address", "password">>, seed |-> FALSE, faults |-> {}]
MCServerConfigs ==
  {[Preflight EXCEPT !.named = FALSE, !.dir = d, !.layers = <<a, b, c>>] : d \in BOOLEAN, a \in Docs, b \in Docs, c \in Docs}
  \cup {[Preflight EXCEPT !.file = f] : f \in Docs}
  \cup {[Preflight EXCEPT !.file = Two, !.faults = f] : f \in {{"status", "elsewhere"}, {"exit", "error", "noStart"}, {"wall"}, {"wall", "cancel", "status"}}}

\* The end of a session: words on its streams and in its last event.
NoEvent == [words |-> {}, status |-> 0, body |-> [status |-> 0, code |-> "", window |-> ""]]
Quiet ==
  [harness |-> "opencode", exit |-> 1, usage |-> FALSE, capped |-> FALSE, stderr |-> {}, bare |-> {}, narration |-> {},
   errored |-> FALSE, event |-> NoEvent, blips |-> 0, blipWords |-> {}, result |-> {}, failed |-> FALSE, reason |-> ""]
Texts(words, n) == {s \in SUBSET words : Cardinality(s) <= n}
\* opencode: wording in the last event, at most one window at once.
Wording == {"hard", "generic", "fiveHour", "minutes", "weekly", "plan", "resets", "fatal", "transient", "quota"}
OneWindow(s) == Cardinality(s \cap {"fiveHour", "minutes", "weekly"}) <= 1
Worded ==
  {[Quiet EXCEPT !.exit = x, !.usage = u, !.errored = TRUE, !.event.words = s, !.event.status = st] :
     x \in {0, 1}, u \in BOOLEAN, s \in {ws \in Texts(Wording, 3) : OneWindow(ws)}, st \in {0, 401, 429}}
\* The provider's body, with a wrapper that states a status and one that does not.
Bodies == [status : {0, 200, 429}, code : {"", "RATE_LIMITED"}, window : {"", "fiveHour", "weekly", "lunar"}]
Bodied ==
  {[Quiet EXCEPT !.usage = u, !.errored = TRUE, !.event = [words |-> s, status |-> st, body |-> b]] :
     u \in BOOLEAN, s \in Texts({"hard", "generic", "weekly", "plan", "resets", "quota"}, 2), st \in {0, 402, 429, 500}, b \in Bodies}
\* Errors the session moved past.
Blips ==
  {[Quiet EXCEPT !.exit = x, !.usage = u, !.capped = c, !.stderr = s, !.errored = e, !.event.words = v, !.blips = b, !.blipWords = w] :
     x \in {0, 1}, u \in BOOLEAN, c \in BOOLEAN, s \in Texts({"generic", "transient", "noRoute"}, 1), e \in BOOLEAN,
     v \in Texts({"hard", "transient"}, 1), b \in {0, 2}, w \in Texts({"hard", "weekly", "transient", "fatal"}, 1)}
\* claude and codex: every source a word may be in.
Some == {"limit", "resets", "transient"}
Others ==
  {[Quiet EXCEPT !.harness = h, !.exit = x, !.stderr = s, !.bare = b, !.narration = Some, !.event.words = v, !.result = r, !.failed = f, !.reason = q] :
     h \in {"claude", "codex"}, x \in {0, 1}, s \in Texts(Some, 1), b \in Texts(Some, 1),
     v \in Texts({"limit", "transient"}, 1), r \in Texts(Some, 1), f \in BOOLEAN, q \in {"", "usage_limit", "max_turns"}}
MCEnds == Worded \cup Bodied \cup Blips \cup Others

\* Windows and lines shorter and longer than what is written.
Cut(window, line, keep) ==
  [bytes |-> {"a", "b", "newline"}, window |-> window, line |-> line, floor |-> 2, keep |-> keep, length |-> 6, write |-> 4]
MCTailConfigs == {Cut(1, 2, 1), Cut(3, 2, 1), Cut(5, 2, 1), Cut(1, 1, 0), Cut(1, 3, 2)}

\* A Sunday's and a Saturday's first and last half hours, and the edges of noon; every
\* face of a clock, and those no clock has.
MCNows == {0, 1, 23, 24, 25, 47, 48, 7 * 48 - 25, 7 * 48 - 24, 7 * 48 - 1}
MCFaces == [day : {0, 3, 6, 7}, hour : {0, 1, 9, 11, 12, 13, 22, 23, 24, 25}, minute : {0, 30, 75}, half : {"", "am", "pm"}]
MCNotes == [at : {-1, 24}, unit : {"", "h", "m"}, n : {0, 90}]

-----------------------------------------------------------------------------
(* Properties                                                              *)

\* claude: what is charged is what was reported, a session is killed at its ceiling or for
\* a loop and for nothing else, and says so; what could not be read is said to be missing
\* (claude.go:103-264, toolloop.go:12-34).
ClaudeIsAccounted ==
  /\ [](part = "claude" =>
          /\ Claude!TypeOK /\ Claude!TokensAreTheBuckets /\ Claude!SpendIsStopped /\ Claude!FinishedIsNotKilled
          /\ Claude!KillIsNoFailure /\ Claude!UnreadIsSaid /\ Claude!LoopIsOneCall)
  /\ [][part = "claude" => Claude!VerdictStays]_vars
  /\ (part = "claude" /\ Claude!KillIsDue) ~> pc = "returned"

\* opencode: over every resumption, route and probe of a call, each run is charged once,
\* the claim the driver is told of is the one the session holds, and the call keeps to its
\* budget (opencode.go:94-230, opencode_routes.go, opencode_resume.go, opencode_stall.go).
OpenCodeIsAccounted ==
  part = "opencode" => OpenCode!OpenCodeIsAccounted

\* opencode's and codex's streams, whatever is left out of them, repeated or torn: how the
\* session ended is one step's or the export's word, each part counts once, and the scan of
\* the log misses no death the parser saw (opencode.go:1226-1440, deadscan.go, codex.go).
StreamsAreReadOnce ==
  /\ [](part = "stream" =>
          /\ Stream!TypeOK /\ Stream!RecoveredIsCounted /\ Stream!RecoveredEndedWell /\ Stream!StallIsOneStep
          /\ Stream!MarkIsTheLastMessage /\ Stream!KilledForALoop /\ Stream!EachPartOnce
          /\ (conf.stepsFinish => Stream!ScanMissesNoDeath /\ Stream!RefusalsCountNowhere))
  /\ [](part = "codex" => Codex!BucketsAreTheTotal /\ Codex!EndLosesNothing)
  /\ [](part = "tail" =>
          /\ Window!TypeOK /\ Window!ReadsWholeLines /\ Window!DroppedIsExact /\ Window!WindowIsABound
          /\ Window!LinesAreTheStream /\ Window!NothingBigIsKept)

\* The preflight of an opencode session ends, stops its private server, and lets a session
\* start only once every declared server answered; a stop is not its failure
\* (opencode_mcp.go:14-90, 308-362, 598-606).
PreflightIsSound ==
  /\ [](part = "server" => Server!FirstTurnHasTools /\ Server!UnknownIsNotNone /\ Server!ServerIsStopped)
  /\ [][part = "server" => Server!FailsUnstopped]_vars
  /\ (part = "server" /\ pc = "start") ~> (part = "server" /\ pc \in {"running", "returned"})

\* The end of a session is one thing to every classifier: a limit is waited out for as long
\* as the provider said, never retried and never invented, and nothing the session moved
\* past or narrated counts; a reset read off a clock is the next moment that shows it
\* (opencode.go:1790-2391, claude.go:1008-1290, codex.go:271-332, loop.go:5812-5843).
EndsAreClassified ==
  /\ [](part = "class" =>
          /\ Class!GuessIsARetry /\ Class!LimitIsNoBlip /\ Class!LimitIsWaited /\ Class!StatedResetIsAWait
          /\ Class!WindowIsTheProviders /\ Class!BodyMasksNothing /\ Class!RefusalStops
          /\ Class!RecoveredSaysNothing /\ Class!NarrationSaysNothing /\ Class!ResetIsTyped /\ Class!CapEndsThePhase)
  /\ [](part = "clock" => Clock!ResetIsNext /\ Clock!DoubtIsNone /\ Clock!WindowIsAhead)
=============================================================================
