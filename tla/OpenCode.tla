------------------------------ MODULE OpenCode ------------------------------
(***************************************************************************)
(* One call of the opencode adapter: a session, and the ways it goes on    *)
(* inside the call. A step that spent its output on thinking is resumed    *)
(* once with a steer; a route that hit a usage limit is left for the next  *)
(* one; a session that died without a word is asked whether it is intact   *)
(* and continued. Every resumption is a process of its own in the same     *)
(* transcript, and the caller sees one Result.                             *)
(***************************************************************************)
EXTENDS Integers, Sequences, FiniteSets

CONSTANTS Configs   \* the routes, the budget of time, and what each run may do

Stages == {"first", "stall", "switch", "probe", "cont"}
Ends == {"clean", "quiet", "stall", "limit", "warnedStall", "warnedLoop", "loop", "failed", "mute", "launch", "torn"}
Effects == {"none", "claim", "settle", "other"}

ConfigOK(c) == /\ c.routes \in Nat \ {0} /\ c.cap \in Nat /\ c.rounds \in Nat
               /\ c.times \subseteq Nat /\ c.phase2 \in BOOLEAN
               /\ \A s \in Stages : c.ends[s] \subseteq Ends /\ c.effects[s] \subseteq Effects
               /\ c.untrusted \in BOOLEAN /\ c.noExport \in BOOLEAN /\ c.cancels \in BOOLEAN
ConfigsAssumption == \A c \in Configs : ConfigOK(c)

\* The calls of which HeldIsKnown, SettledIsKnown and LimitIsReported hold: the task is claimed
\* in the first run, a run after a switch and a continuation do not err after their turn (what
\* they did to the task would be dropped with the error), the first run is not stopped as a loop
\* while it is limited (the switch is passed over), and a continuation meets no limit (no
\* switch follows it).
Ordinary(c) ==
  /\ \A s \in Stages \ {"first"} : "claim" \notin c.effects[s]
  /\ "torn" \notin c.ends["switch"] /\ "torn" \notin c.ends["cont"]
  /\ "warnedLoop" \notin c.ends["first"]
  /\ \A e \in {"limit", "warnedStall", "warnedLoop"} : e \notin c.ends["cont"]

VARIABLES
  conf,       \* the member of Configs this behaviour is about
  pc,         \* where Invoke is: a gate, a run in flight, or done
  clock,      \* time since the call
  cancelled,  \* the caller's context is done
  log,        \* the session's messages, kept by opencode: the tokens of each
  run,        \* the run in flight or the last one: stage, route, budget, first message
  res,        \* the Result being built
  next,       \* the next route to try
  current,    \* the route the session is on
  falls,      \* the routes reported as denied
  attempt,    \* the round of the resurrection loop
  failed,     \* Invoke returns an error
  task,       \* the task the agent claimed, on the plane
  other,      \* the agent holds a second task it claimed without its memory
  memory,     \* the session still has its transcript
  looped,     \* the transcript was killed for repeating a failing call
  missed,     \* tokens no report mentioned
  seen,       \* what trusted captures showed of the task
  counts      \* working runs and probes

vars == <<conf, pc, clock, cancelled, log, run, res, next, current, falls, attempt, failed,
          task, other, memory, looped, missed, seen, counts>>

Backoff == 1
ProbeBox == 1
Floor == 1
Winding == 1   \* to kill a probe at the end of its box and to read its export
RoundFloor == Backoff + ProbeBox + Floor
Title == 1     \* what naming the session costs

NoClaim == [task |-> "none", settled |-> FALSE]
HeldClaim(t) == [task |-> t, settled |-> FALSE]
Held(c) == c.task /= "none" /\ ~c.settled
SameTask(c, d) == c.task /= "none" /\ d.task = c.task

Bounded == conf.cap > 0
Remaining == conf.cap - clock
Sum(s) == LET f[i \in 0 .. Len(s)] == IF i = 0 THEN 0 ELSE s[i] + f[i - 1] IN f[Len(s)]

Gates == {"start", "stallGate", "switchGate", "roundGate", "backoff", "contGate"}
Terms == {"none", "quiet", "stall", "wallclock"}
ResultOK(r) == /\ r.term \in Terms /\ r.loop \in BOOLEAN /\ r.untrusted \in BOOLEAN /\ r.sid \in BOOLEAN
               /\ r.claim.task \in {"none", "A", "B"} /\ r.claim.settled \in BOOLEAN
               /\ r.stderr \in BOOLEAN /\ r.event \in BOOLEAN /\ r.tokens \in Nat

TypeOK ==
  /\ pc \in Gates \cup Stages \cup {"done"}
  /\ clock \in Nat /\ cancelled \in BOOLEAN /\ log \in Seq(Nat)
  /\ ResultOK(res)
  /\ next \in 2 .. conf.routes + 1 /\ current \in 1 .. conf.routes
  /\ \A i \in 1 .. Len(falls) : falls[i] \in 1 .. conf.routes
  /\ attempt \in 1 .. conf.rounds + 1 /\ failed \in BOOLEAN
  /\ task \in {"free", "held", "settled"} /\ other \in BOOLEAN /\ memory \in BOOLEAN
  /\ looped \in BOOLEAN /\ missed \in Nat
  /\ seen \in {"nothing", "held", "settled"}

EmptyResult == [term |-> "none", loop |-> FALSE, untrusted |-> FALSE, sid |-> FALSE, claim |-> NoClaim,
                stderr |-> FALSE, event |-> FALSE, tokens |-> 0]

Init ==
  /\ conf \in Configs
  /\ pc = "start" /\ clock = 0 /\ cancelled = FALSE /\ log = <<>>
  /\ run = [stage |-> "first", route |-> 1, since |-> 1, budget |-> 0, end |-> "none"]
  /\ res = EmptyResult
  /\ next = 2 /\ current = 1 /\ falls = <<>> /\ attempt = 1 /\ failed = FALSE
  /\ task = (IF conf.phase2 THEN "held" ELSE "free")
  /\ other = FALSE /\ memory = TRUE /\ looped = FALSE /\ missed = 0
  /\ seen = (IF conf.phase2 THEN "held" ELSE "nothing")
  /\ counts = [work |-> 0, probes |-> 0, quiet |-> 0]

----------------------------------------------------------------------------
(* One run of the program.                                                 *)

\* The cap of a continuation is what is left of the call's.
Budget == IF Bounded THEN Remaining ELSE 0
\* A context that is done refuses the spawn; the run below ends as a failed launch.
Starts(stage, route, budget) ==
  /\ run' = [stage |-> stage, route |-> route, since |-> Len(log) + 1, budget |-> budget, end |-> "running"]
  /\ pc' = stage
  /\ counts' = IF stage = "probe" THEN [counts EXCEPT !.probes = @ + 1] ELSE [counts EXCEPT !.work = @ + 1]

Resumes(stage) == stage /= "first"
\* What the parser of the run starts from: the claim so far, or the earlier phase's.
Seed(stage) == IF stage = "first" THEN (IF conf.phase2 THEN HeldClaim("A") ELSE NoClaim) ELSE res.claim

HasTurn(end) == end \notin {"launch", "mute"}
Errs(end) == end \in {"launch", "torn"}
Turn(end) == IF ~HasTurn(end) THEN <<>> ELSE IF end = "quiet" THEN <<1, 0>> ELSE <<1, 1>>

\* What the agent does with the backlog in its turn.
Does(stage, end, effect) ==
  /\ ~HasTurn(end) => effect = "none"
  /\ effect = "claim" => task = "free"
  /\ effect = "settle" => task = "held" /\ memory'
  /\ effect = "other" => ~memory'
  /\ task' = (CASE effect = "claim" -> "held" [] effect = "settle" -> "settled" [] OTHER -> task)
  /\ other' = (other \/ effect = "other")

\* What a readable stream shows of it.
Observed(stage, effect, untrusted) ==
  IF untrusted THEN Seed(stage)
  ELSE CASE effect = "claim" -> HeldClaim("A")
       [] effect = "settle" -> [task |-> "A", settled |-> TRUE]
       [] effect = "other" -> HeldClaim("B")
       [] OTHER -> Seed(stage)

\* This run's share of the session export: the messages made since it started, and the
\* session's own overhead when the run created it.
Share(all) == Sum(SubSeq(all, run.since, Len(all))) + (IF Resumes(run.stage) THEN 0 ELSE Title)
\* Without an export, the stream's steps, which miss the last one.
Streamed(turn) == IF turn = <<>> THEN 0 ELSE turn[1]

Term(end, capped) ==
  IF capped THEN "wallclock"
  ELSE CASE end = "quiet" -> "quiet" [] end \in {"stall", "warnedStall"} -> "stall" [] OTHER -> "none"

Loops(end) == end \in {"loop", "warnedLoop"}
Warns(end) == end \in {"warnedStall", "warnedLoop"}

\* A run's Result.
Gives(stage, end, effect, capped, untrusted, exported, all) ==
  [term |-> Term(end, capped), loop |-> Loops(end) /\ ~capped, untrusted |-> untrusted, sid |-> HasTurn(end),
   claim |-> Observed(stage, effect, untrusted),
   stderr |-> Warns(end), event |-> end = "limit" /\ ~capped,
   tokens |-> IF ~HasTurn(end) THEN 0 ELSE IF exported /\ ~Errs(end) THEN Share(all) ELSE Streamed(Turn(end))]

\* How a run in flight may end: killed where the caller gave up, never late where it is capped.
EndOK(stage, end) == \/ cancelled /\ end = "launch"
                     \/ end \in conf.ends[stage] /\ (cancelled => end \in {"failed", "torn"})
CappedAt(took) == run.stage /= "probe" /\ run.budget > 0 /\ took >= run.budget
Lasts(took) == IF CappedAt(took) THEN run.budget ELSE took

----------------------------------------------------------------------------
(* Folding a run into the Result.                                          *)

ChargeOnly(r, add) == [r EXCEPT !.tokens = @ + add.tokens]

FoldClaim(r, add) == IF Held(add.claim) \/ add.claim.settled THEN [r EXCEPT !.claim = add.claim] ELSE r

\* Slip: an errored steer's turn is dropped with its error.
FoldNothing(r, add) == r

\* The probe's fold and the errored steer's: readable, and still about this task.
FoldSame(r, add) == IF ~add.untrusted /\ SameTask(r.claim, add.claim) THEN FoldClaim(r, add) ELSE r

\* The continuation says how the session ended; what was spent adds up, and a stream
\* that could not be read stays unreadable.
MergeResume(r, add) ==
  [FoldClaim(r, add) EXCEPT
     !.tokens = @ + add.tokens,
     !.term = add.term,
     !.loop = @ \/ add.loop,
     !.untrusted = @ \/ add.untrusted,
     !.sid = @ \/ add.sid,
     !.stderr = @ \/ add.stderr,
     !.event = IF add.sid THEN add.event ELSE @]

\* On another route the streams are replaced: the limit was the abandoned route's.
MergeRouteSwitch(r, add) == [MergeResume(r, add) EXCEPT !.stderr = add.stderr, !.event = add.event]

Limited(r) == r.stderr \/ r.event

SeenBy(effect, untrusted) ==
  IF untrusted THEN seen
  ELSE CASE effect = "claim" -> "held" [] effect = "settle" -> "settled" [] OTHER -> seen

----------------------------------------------------------------------------
(* The gates between runs.                                                 *)

RunKeeps == UNCHANGED <<conf, clock, cancelled, log, res, task, other, memory, looped, missed, seen>>

Begin ==
  /\ pc = "start"
  /\ Starts("first", 1, conf.cap)
  /\ UNCHANGED <<next, current, falls, attempt, failed>> /\ RunKeeps

\* The one resume an output-cap stall earns.
StallResumable == /\ res.term = "stall" /\ ~cancelled /\ ~res.untrusted /\ res.sid
                  /\ Bounded => Remaining >= Floor
StallResumes ==
  /\ pc = "stallGate" /\ StallResumable
  /\ Starts("stall", current, Budget)
  /\ UNCHANGED <<next, current, falls, attempt, failed>> /\ RunKeeps
StallStands ==
  /\ pc = "stallGate" /\ ~StallResumable
  /\ pc' = "switchGate"
  /\ UNCHANGED <<run, next, current, falls, attempt, failed, counts>> /\ RunKeeps

Switchable == /\ conf.routes > 1 /\ next <= conf.routes
              /\ ~res.untrusted /\ Limited(res) /\ res.sid
              /\ Bounded => Remaining >= Floor
SwitchRoute ==
  /\ pc = "switchGate" /\ Switchable
  /\ falls' = Append(falls, current)
  /\ next' = next + 1
  /\ Starts("switch", next, Budget)
  /\ UNCHANGED <<current, attempt, failed>> /\ RunKeeps

\* A limit that stands is reported for the last route too.
Reported == IF conf.routes > 1 /\ Limited(res) /\ ~res.untrusted THEN Append(falls, current) ELSE falls
SwitchEnds ==
  /\ pc = "switchGate" /\ ~Switchable
  /\ falls' = Reported
  /\ pc' = "roundGate"
  /\ UNCHANGED <<run, next, current, attempt, failed, counts>> /\ RunKeeps

Resurrectable == /\ attempt <= conf.rounds
                 /\ res.term = "quiet" /\ ~res.untrusted /\ ~res.loop
                 /\ res.sid /\ Held(res.claim)
                 /\ Bounded => Remaining >= RoundFloor
RoundBegins ==
  /\ pc = "roundGate" /\ Resurrectable
  /\ pc' = "backoff"
  /\ UNCHANGED <<run, next, current, falls, attempt, failed, counts>> /\ RunKeeps
Returns ==
  /\ pc = "roundGate" /\ ~Resurrectable
  /\ pc' = "done"
  /\ UNCHANGED <<run, next, current, falls, attempt, failed, counts>> /\ RunKeeps

\* The route that ran last.
ResumeRoute == current

BackoffEnds ==
  /\ pc = "backoff" /\ ~cancelled
  /\ clock' = clock + Backoff
  /\ Starts("probe", ResumeRoute, ProbeBox)
  /\ UNCHANGED <<conf, cancelled, log, res, next, current, falls, attempt, failed, task, other, memory, looped, missed, seen>>
BackoffCancelled ==
  /\ pc = "backoff" /\ cancelled
  /\ pc' = "done"
  /\ UNCHANGED <<run, next, current, falls, attempt, failed, counts>> /\ RunKeeps

Continues ==
  /\ pc = "contGate" /\ (Bounded => Remaining >= Floor)
  /\ Starts("cont", ResumeRoute, Budget)
  /\ UNCHANGED <<next, current, falls, attempt, failed>> /\ RunKeeps
TooLateToContinue ==
  /\ pc = "contGate" /\ Bounded /\ Remaining < Floor
  /\ pc' = "done"
  /\ UNCHANGED <<run, next, current, falls, attempt, failed, counts>> /\ RunKeeps

----------------------------------------------------------------------------
(* A run ends.                                                             *)

\* What a run does to the world, whatever its Result is used for.
RunEnds(stage, end, effect, capped, untrusted, exported, took) ==
  /\ EndOK(stage, end) /\ effect \in conf.effects[stage]
  /\ capped = CappedAt(took) /\ (capped => ~Errs(end))
  /\ untrusted => conf.untrusted /\ HasTurn(end)
  /\ ~exported => conf.noExport /\ HasTurn(end)
  /\ log' = log \o Turn(end)
  /\ clock' = clock + Lasts(took)
  /\ Does(stage, end, effect)
  /\ looped' = (looped \/ (Loops(end) /\ ~capped))
  /\ missed' = missed + (IF ~HasTurn(end) THEN 0
                         ELSE IF exported /\ ~Errs(end) THEN 0
                         ELSE Sum(Turn(end)) - Streamed(Turn(end)) + (IF stage = "first" THEN Title ELSE 0))
  /\ seen' = SeenBy(effect, untrusted)
  /\ run' = [run EXCEPT !.end = IF capped THEN "capped" ELSE end]
  /\ UNCHANGED <<conf, cancelled>>

FirstRunEnds ==
  /\ pc = "first"
  /\ \E end \in Ends, effect \in Effects, capped, untrusted, exported \in BOOLEAN, took \in conf.times :
       /\ memory' = memory
       /\ RunEnds("first", end, effect, capped, untrusted, exported, took)
       /\ res' = Gives("first", end, effect, capped, untrusted, exported, log')
       /\ failed' = Errs(end)
       /\ pc' = IF Errs(end) \/ res'.loop THEN "done" ELSE "stallGate"
       /\ counts' = [counts EXCEPT !.quiet = IF res'.term = "quiet" THEN @ + 1 ELSE @]
  /\ UNCHANGED <<next, current, falls, attempt>>

StallRunEnds ==
  /\ pc = "stall"
  /\ \E end \in Ends, effect \in Effects, capped, untrusted, exported \in BOOLEAN, took \in conf.times :
       LET add == Gives("stall", end, effect, capped, untrusted, exported, log') IN
       /\ memory' = memory
       /\ RunEnds("stall", end, effect, capped, untrusted, exported, took)
       /\ res' = IF Errs(end) THEN FoldSame(ChargeOnly(res, add), add) ELSE MergeResume(res, add)
       /\ counts' = [counts EXCEPT !.quiet = IF ~Errs(end) /\ add.term = "quiet" THEN @ + 1 ELSE @]
  /\ pc' = "switchGate"
  /\ UNCHANGED <<next, current, falls, attempt, failed>>

\* An error is the driver's: the call returns it with what was spent.
SwitchRunEnds ==
  /\ pc = "switch"
  /\ \E end \in Ends, effect \in Effects, capped, untrusted, exported \in BOOLEAN, took \in conf.times :
       LET add == Gives("switch", end, effect, capped, untrusted, exported, log') IN
       /\ memory' = memory
       /\ RunEnds("switch", end, effect, capped, untrusted, exported, took)
       /\ res' = IF Errs(end) THEN ChargeOnly(res, add) ELSE MergeRouteSwitch(res, add)
       /\ failed' = Errs(end)
       /\ current' = IF Errs(end) THEN current ELSE run.route
       /\ pc' = IF Errs(end) THEN "done" ELSE "switchGate"
       /\ counts' = [counts EXCEPT !.quiet = IF ~Errs(end) /\ add.term = "quiet" THEN @ + 1 ELSE @]
  /\ UNCHANGED <<next, falls, attempt>>

\* The reply names the task: certain of an intact session that answers in time, and
\* possible in what is left of a stream that could not be read.
Coherent(end, untrusted, names) == ~Errs(end) /\ ~untrusted /\ names
Names(end, untrusted, intact, took) ==
  IF ~HasTurn(end) THEN {FALSE} ELSE IF untrusted THEN BOOLEAN ELSE IF took > ProbeBox THEN {FALSE, intact} ELSE {intact}

ProbeRunEnds ==
  /\ pc = "probe"
  /\ \E end \in Ends, effect \in Effects, untrusted, exported, intact \in BOOLEAN, took \in 0 .. ProbeBox + Winding :
       \E names \in Names(end, untrusted, intact, took) :
         LET add == Gives("probe", end, effect, FALSE, untrusted, exported, log') IN
         /\ intact => memory
         /\ memory' = intact
         /\ RunEnds("probe", end, effect, FALSE, untrusted, exported, took)
         /\ res' = FoldSame(ChargeOnly(res, add), add)
         /\ pc' = IF Coherent(end, untrusted, names) THEN "contGate" ELSE "done"
  /\ UNCHANGED <<next, current, falls, attempt, failed, counts>>

ContRunEnds ==
  /\ pc = "cont"
  /\ \E end \in Ends, effect \in Effects, capped, untrusted, exported \in BOOLEAN, took \in conf.times :
       LET add == Gives("cont", end, effect, capped, untrusted, exported, log') IN
       /\ memory' = memory
       /\ RunEnds("cont", end, effect, capped, untrusted, exported, took)
       /\ res' = IF Errs(end) THEN ChargeOnly(res, add) ELSE MergeResume(res, add)
       /\ pc' = IF Errs(end) THEN "done" ELSE "roundGate"
       /\ counts' = [counts EXCEPT !.quiet = IF ~Errs(end) /\ add.term = "quiet" THEN @ + 1 ELSE @]
  /\ attempt' = attempt + 1
  /\ UNCHANGED <<next, current, falls, failed>>

\* The operator stops the run.
Cancel ==
  /\ conf.cancels /\ ~cancelled /\ pc /= "done"
  /\ cancelled' = TRUE
  /\ UNCHANGED <<conf, pc, clock, log, run, res, next, current, falls, attempt, failed,
                 task, other, memory, looped, missed, seen, counts>>

Next ==
  \/ Begin \/ StallResumes \/ StallStands \/ SwitchRoute \/ SwitchEnds
  \/ RoundBegins \/ Returns \/ BackoffEnds \/ BackoffCancelled \/ Continues \/ TooLateToContinue
  \/ FirstRunEnds \/ StallRunEnds \/ SwitchRunEnds \/ ProbeRunEnds \/ ContRunEnds
  \/ Cancel

Spec == Init /\ [][Next]_vars

----------------------------------------------------------------------------
(* Properties.                                                             *)

done == pc = "done"
Resumed == pc \in {"stall", "switch", "probe", "cont"}
SentOn == {falls[i] : i \in 1 .. Len(falls)}

\* Every run is charged exactly once (opencode_routes.go:28-31): what the Result says
\* was spent and what no report mentioned are together what the session cost, probes,
\* failed continuations and the session's own overhead included.
ChargedOnce == res.tokens + missed = Sum(log) + (IF log = <<>> THEN 0 ELSE Title)

\* The cap is on the whole call, not on each process (opencode.go:96-100).
InBudget == Bounded => clock <= conf.cap

\* A session that lost its transcript is never told to continue (opencode_resume.go:29-31).
ContinuesOnlyItself == pc = "cont" => memory

\* Nothing is read off a stream that overran the capture: it is not resumed
\* (opencode.go:147-150, opencode_stall.go:74-76, opencode_routes.go:60-64).
UnreadIsFinal == res.untrusted => ~Resumed

\* The task the session was seen to hold is the one the driver is told of, whatever a
\* probe without its memory claimed (opencode.go:212-220).
HeldIsKnown == done /\ seen = "held" /\ task = "held" => res.claim = HeldClaim("A")

\* A task a resumed turn was seen to settle is not reported as still held, so it is not
\* handed back over work that was pushed (opencode_stall.go:99-107).
SettledIsKnown == done /\ seen = "settled" => ~Held(res.claim)

\* One probe per death, and a bounded number of processes (opencode_resume.go:32-38).
OneProbePerDeath == /\ counts.probes <= counts.quiet /\ counts.probes <= conf.rounds
                    /\ counts.work <= 1 + conf.routes + conf.rounds

\* A session a later route finished does not read as limited by the one it left
\* (opencode_routes.go:143-152).
AbandonedLimitIsForgotten == done /\ ~failed /\ current > 1 /\ run.end = "clean" => ~Limited(res)

\* A route that was denied is not resumed on while there was another one (opencode.go:140-142).
NeverReturns == Resumed => run.route \notin SentOn \/ run.route = conf.routes

\* Every route the session exhausted is in the report the driver's marks are made from
\* (opencode_routes.go:116-119).
LimitIsReported == done /\ ~failed /\ conf.routes > 1 /\ Limited(res) /\ ~res.untrusted => current \in SentOn

\* A limit on one route is not the end of the session when there is another
\* (opencode.go:131-132).
FallbackIsTried == done /\ ~failed /\ Limited(res) /\ ~res.untrusted /\ ~cancelled /\ ~Bounded => current = conf.routes

\* A transcript that was killed for repeating a failing call is not continued, at the
\* price of sending all of it again (opencode.go:114-117).
LoopIsLeft == looped => ~Resumed

\* What a call answers for, whatever its runs do.
CallIsAccounted ==
  /\ TypeOK /\ ChargedOnce /\ InBudget /\ ContinuesOnlyItself /\ UnreadIsFinal
  /\ OneProbePerDeath /\ AbandonedLimitIsForgotten /\ NeverReturns

\* And what it tells the driver of the task and of the limits.
OpenCodeIsAccounted == CallIsAccounted /\ HeldIsKnown /\ SettledIsKnown /\ LimitIsReported

=============================================================================
