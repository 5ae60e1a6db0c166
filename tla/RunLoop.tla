------------------------------- MODULE RunLoop -------------------------------
(***************************************************************************)
(* The scheduling loop of `clankerbar run` (internal/loop, Driver.Run):    *)
(* poll every target's backlog, judge the last drain against what the poll *)
(* shows, pick the next target round-robin, drain it, and book the result. *)
(* The three ways a target is held back are all here: the no-progress      *)
(* back-off, the sit-out of a failing harness, and the two pauses that     *)
(* wait for an operator's answer.  What happens inside a drain, beyond the *)
(* deaths that feed the fleet counter, is module PhaseSequence.            *)
(*                                                                         *)
(* Time is counted in base back-offs of 15 minutes, tokens in units of     *)
(* which QuietTokens make one quietTokenThreshold.                         *)
(***************************************************************************)
EXTENDS Integers, FiniteSets

CONSTANTS
  NumTargets,        \* len(d.targets)
  Tasks,             \* the tasks a session may die on
  Wired,             \* the run has an endpoint and a key (cli/run.go builds
                     \* poller and releaser from the same pair)
  MaxIterations,     \* cfg.MaxIterations, 0 for no ceiling
  StartupFailBound, FleetDeadBound, PerTaskDeadBound,
  QuietTokens,       \* quietTokenThreshold
  Spends,            \* what one drain may spend
  DrainEnds,         \* how drains may end, a subset of DrainOutcomes
  PollFaults,        \* how polls may fail, a subset of {"transient", "refused"}
  Moves,             \* what others may do to the projects, see PlaneStep
  Dormant,           \* the targets whose projects stay empty and unchanged
  BackoffCap,        \* the top of the sit-out ladder: 2h is 8 base back-offs
  FailTop,           \* bound: rungs of the ladder, where the counters saturate
  MaxSettled,        \* bound: settled tasks in one project
  MaxAsked,          \* bound: open questions the sessions have asked
  MaxFiled           \* bound: open questions of one kind the driver has filed

DrainOutcomes == {"ok", "error", "stop"}
Targets == 0 .. NumTargets - 1
NoTask == "no task"

ASSUME TargetsAssumption == NumTargets \in Nat \ {0}
ASSUME BoundsAssumption ==
  /\ StartupFailBound \in Nat \ {0}
  /\ FleetDeadBound \in Nat \ {0}
  /\ PerTaskDeadBound \in Nat \ {0, 1}
  /\ QuietTokens \in Nat \ {0}
  /\ MaxIterations \in Nat
  /\ MaxSettled \in Nat /\ MaxAsked \in Nat /\ MaxFiled \in Nat
ASSUME ChoicesAssumption ==
  /\ Wired \in BOOLEAN
  /\ Spends \subseteq Nat
  /\ NoTask \notin Tasks
  /\ DrainEnds \subseteq DrainOutcomes

VARIABLES
  plane,       \* per target: the project as the plane holds it
  tgt,         \* per target: the Driver's per-target bookkeeping
  pc,          \* where Run is
  at,          \* the target the sweep polls next
  candidates,  \* the targets this sweep found drivable
  cursor,      \* the target last drained
  drains,      \* iterations charged against MaxIterations
  dying,       \* the drain in flight: the task dying, and how often in a row
  ended,       \* why Run returned
  died,        \* history: the tasks behind fleetDead, per target
  passed       \* history: choices that found a target drivable and took another

driver == <<tgt, pc, at, candidates, cursor, drains, dying, ended>>
history == <<died, passed>>
vars == <<plane, driver, history>>

-----------------------------------------------------------------------------
(* The ladder both breakers climb, in base back-offs: 15m, 30m, 1h, 2h.    *)

\* A counter that is compared with a bound, or drives the ladder only, saturates
\* where neither changes any more.
Saturate(n, top) == IF n > top THEN top ELSE n

quietThreshold == 3

quietBackoff(rung) ==
  IF rung <= quietThreshold THEN 1
  ELSE IF rung = quietThreshold + 1 THEN Saturate(2, BackoffCap)
  ELSE IF rung = quietThreshold + 2 THEN Saturate(4, BackoffCap)
  ELSE BackoffCap

failureBackoff(fails) == quietBackoff(quietThreshold - 1 + fails)

QuietTop == FailTop * QuietTokens

ASSUME LadderAssumption ==
  /\ BackoffCap \in 1 .. 8
  /\ FailTop \in Nat \ {0}
  /\ failureBackoff(FailTop) = BackoffCap

-----------------------------------------------------------------------------
(* State                                                                   *)

Pauses == [paused : BOOLEAN, raised : BOOLEAN, openQ : Nat]

PlaneRows ==
  [settled : 0 .. MaxSettled,     \* in review + done
   asked : 0 .. MaxAsked,         \* open questions that sessions asked
   fleetQ : 0 .. MaxFiled,        \* open fleet questions of this driver
   startupQ : 0 .. MaxFiled,      \* open startup questions of this driver
   spawnable : BOOLEAN,           \* claimable + stale claimable > 0
   paused : BOOLEAN]              \* the console pause

Books ==
  [pending : BOOLEAN, spent : Nat, quietTokens : Nat, baseline : Nat,
   openQs : Nat, sitOut : 0 .. BackoffCap, harnessFails : 0 .. FailTop,
   startupFails : 0 .. StartupFailBound, fleetDead : 0 .. FleetDeadBound,
   fleet : Pauses, startup : Pauses]

Places == {"top", "sweep", "choose", "idle", "drain", "drained", "done"}
Endings == {"none", "control", "ceiling", "budget", "refused", "failing"}

TypeOK ==
  /\ plane \in [Targets -> PlaneRows]
  /\ tgt \in [Targets -> Books]
  /\ pc \in Places
  /\ at \in 0 .. NumTargets
  /\ candidates \subseteq Targets
  /\ cursor \in Targets
  /\ drains \in Nat
  /\ dying \in [task : Tasks \cup {NoTask}, deaths : 0 .. PerTaskDeadBound - 1]
  /\ ended \in Endings
  /\ died \in [Targets -> SUBSET Tasks]
  /\ passed \in [Targets -> 0 .. NumTargets]

Unpaused == [paused |-> FALSE, raised |-> FALSE, openQ |-> 0]
NotDying == [task |-> NoTask, deaths |-> 0]

Init ==
  /\ \E asked \in 0 .. MaxAsked :
       plane = [i \in Targets |->
         [settled |-> 0, asked |-> asked, fleetQ |-> 0, startupQ |-> 0,
          spawnable |-> i \notin Dormant, paused |-> FALSE]]
  /\ tgt = [i \in Targets |->
       [pending |-> FALSE, spent |-> 0, quietTokens |-> 0, baseline |-> 0,
        openQs |-> 0, sitOut |-> 0, harnessFails |-> 0, startupFails |-> 0,
        fleetDead |-> 0, fleet |-> Unpaused, startup |-> Unpaused]]
  /\ pc = "top" /\ at = 0 /\ candidates = {} /\ cursor = 0
  /\ drains = 0 /\ dying = NotDying /\ ended = "none"
  /\ died = [i \in Targets |-> {}] /\ passed = [i \in Targets |-> 0]

Stop(why) == pc' = "done" /\ ended' = why

openQuestions(i) == plane[i].asked + plane[i].fleetQ + plane[i].startupQ

-----------------------------------------------------------------------------
(* The rest of the world: the operator, other sessions, and the clock.     *)

PlaneMoves(i, row) ==
  /\ pc # "done"
  /\ row \in PlaneRows
  /\ plane' = [plane EXCEPT ![i] = row]
  /\ UNCHANGED <<driver, history>>

\* Work is settled by anyone, or sent back to the queue.
WorkSettles(i) == PlaneMoves(i, [plane[i] EXCEPT !.settled = @ + 1])
WorkReturns(i) == PlaneMoves(i, [plane[i] EXCEPT !.settled = @ - 1])

\* Questions come from sessions and operators; the operator answers any of them.
QuestionAsked(i)    == PlaneMoves(i, [plane[i] EXCEPT !.asked = @ + 1])
QuestionAnswered(i) == PlaneMoves(i, [plane[i] EXCEPT !.asked = @ - 1])
FleetAnswered(i)    == PlaneMoves(i, [plane[i] EXCEPT !.fleetQ = @ - 1])
StartupAnswered(i)  == PlaneMoves(i, [plane[i] EXCEPT !.startupQ = @ - 1])

QueueTurns(i)     == PlaneMoves(i, [plane[i] EXCEPT !.spawnable = ~@])
ConsoleToggles(i) == PlaneMoves(i, [plane[i] EXCEPT !.paused = ~@])

\* One base back-off passes; a sit-out that reaches zero has elapsed.
Tick ==
  /\ pc # "done"
  /\ \E i \in Targets : tgt[i].sitOut > 0
  /\ tgt' = [i \in Targets |->
               [tgt[i] EXCEPT !.sitOut = IF @ = 0 THEN 0 ELSE @ - 1]]
  /\ UNCHANGED <<plane, pc, at, candidates, cursor, drains, dying, ended, history>>

-----------------------------------------------------------------------------
(* The top of the loop                                                     *)

\* A HALT, STOP, RESTART or RESTART_NOW marker, or a cancelled context.
ControlStops ==
  /\ pc = "top"
  /\ Stop("control")
  /\ UNCHANGED <<plane, tgt, at, candidates, cursor, drains, dying, history>>

BudgetStops ==
  /\ pc = "top"
  /\ Stop("budget")
  /\ UNCHANGED <<plane, tgt, at, candidates, cursor, drains, dying, history>>

AtCeiling == MaxIterations > 0 /\ drains >= MaxIterations

CeilingStops ==
  /\ pc = "top"
  /\ AtCeiling
  /\ Stop("ceiling")
  /\ UNCHANGED <<plane, tgt, at, candidates, cursor, drains, dying, history>>

StartSweep ==
  /\ pc = "top"
  /\ ~AtCeiling
  /\ pc' = IF Wired THEN "sweep" ELSE "choose"
  /\ at' = 0
  /\ UNCHANGED <<plane, tgt, candidates, cursor, drains, dying, ended, history>>

-----------------------------------------------------------------------------
(* Polling one target: judge its last drain, lift its pauses, admit it     *)

settledNow(i) == plane[i].settled

\* A poll leaves the counts it saw as the baseline of the next verdict.
Book(b, i, quiet, wait) ==
  [b EXCEPT !.quietTokens = quiet, !.sitOut = wait,
            !.baseline = settledNow(i), !.openQs = openQuestions(i)]

\* judgeProgress with no drain outstanding and nothing to spawn for.
Forget(b, i) ==
  Book(b, i, 0, IF b.harnessFails = 0 THEN 0 ELSE b.sitOut)

\* judgeProgress with no drain outstanding: progress may come from elsewhere.
Notice(b, i) ==
  LET lifted == /\ b.quietTokens > 0
                /\ \/ settledNow(i) > b.baseline
                   \/ openQuestions(i) < b.openQs
  IN  IF lifted THEN Book(b, i, 0, 0) ELSE Book(b, i, b.quietTokens, b.sitOut)

\* The no-progress account with the drain's spend on it.
Charged(b) == Saturate(b.quietTokens + b.spent, QuietTop)
QuietWait(quiet) == quietBackoff(quietThreshold - 1 + quiet \div QuietTokens)
DrainOff(b) == [b EXCEPT !.pending = FALSE, !.spent = 0]

\* Slip: the verdict is left outstanding, and is given again.
VerdictAgain(b, i) ==
  IF settledNow(i) > b.baseline THEN Book(b, i, 0, b.sitOut)
  ELSE Book(b, i, Charged(b), b.sitOut)

\* judgeProgress with a drain awaiting its verdict.  One more session is tried
\* when a question was answered while it ran.
Verdict(b, i) ==
  LET retries == Charged(b) < QuietTokens \/ openQuestions(i) < b.openQs
  IN  IF settledNow(i) > b.baseline THEN Book(DrainOff(b), i, 0, b.sitOut)
      ELSE Book(DrainOff(b), i, Charged(b),
                IF retries THEN b.sitOut ELSE QuietWait(Charged(b)))

judgeProgress(b, i) ==
  IF b.pending THEN Verdict(b, i)
  ELSE IF plane[i].spawnable THEN Notice(b, i) ELSE Forget(b, i)

\* A pause lifts once the open-question count is back at what it was when the
\* question was raised.
Lift(pause, i) ==
  IF pause.paused /\ openQuestions(i) <= pause.openQ
  THEN [pause EXCEPT !.paused = FALSE, !.raised = FALSE]
  ELSE pause

Judged(i) ==
  LET b == judgeProgress(tgt[i], i)
  IN  [b EXCEPT !.fleet = Lift(@, i), !.startup = Lift(@, i)]

\* Slip: a sit-out is not looked at.
AdmissibleSittingOut(b) == ~b.fleet.paused /\ ~b.startup.paused

Admissible(b) == b.sitOut = 0 /\ ~b.fleet.paused /\ ~b.startup.paused

NextPoll ==
  /\ at' = at + 1
  /\ pc' = IF at + 1 = NumTargets THEN "choose" ELSE "sweep"

Polling(i) == pc = "sweep" /\ at = i

\* The console pause: nothing is judged, no pause lifts, nothing is admitted.
PollPaused(i) ==
  /\ Polling(i)
  /\ plane[i].paused
  /\ NextPoll
  /\ UNCHANGED <<plane, tgt, candidates, cursor, drains, dying, ended, history>>

PollOpen(i) ==
  /\ Polling(i)
  /\ ~plane[i].paused
  /\ tgt' = [tgt EXCEPT ![i] = Judged(i)]
  /\ candidates' = IF plane[i].spawnable /\ Admissible(Judged(i))
                   THEN candidates \cup {i} ELSE candidates
  /\ NextPoll
  /\ UNCHANGED <<plane, cursor, drains, dying, ended, history>>

\* A transient poll error: the target is left out of this sweep, unjudged.
PollError(i) ==
  /\ Polling(i)
  /\ "transient" \in PollFaults
  /\ NextPoll
  /\ UNCHANGED <<plane, tgt, candidates, cursor, drains, dying, ended, history>>

\* 401/403, or a key that needs a project selector: the run ends.
PollRefused(i) ==
  /\ Polling(i)
  /\ "refused" \in PollFaults
  /\ Stop("refused")
  /\ UNCHANGED <<plane, tgt, at, candidates, cursor, drains, dying, history>>

-----------------------------------------------------------------------------
(* Choosing a target                                                       *)

\* The k-th target after c on the ring.
Ahead(c, k) == (c + k) % NumTargets

\* Slip: the walk starts at the first target, not after the cursor.
IsFirst(i, S) == i \in S /\ \A j \in S : i <= j

\* The first target after the cursor, going round the ring once, that is in S.
IsNext(i, S) ==
  \E k \in 1 .. NumTargets :
    /\ i = Ahead(cursor, k)
    /\ i \in S
    /\ \A j \in 1 .. k - 1 : Ahead(cursor, j) \notin S

\* Without counts every target not sitting out is drivable; the pauses are not
\* looked at (a run that cannot poll cannot raise them either).
Drivable == IF Wired THEN candidates ELSE {i \in Targets : tgt[i].sitOut = 0}

StartDrain(i) ==
  /\ pc = "choose"
  /\ IsNext(i, Drivable)
  /\ cursor' = i
  /\ tgt' = [tgt EXCEPT ![i].pending = TRUE]
  /\ drains' = IF MaxIterations = 0 THEN 0 ELSE drains + 1
  /\ pc' = "drain"
  /\ passed' = [j \in Targets |->
                  IF j \in Drivable \ {i} THEN Saturate(passed[j] + 1, NumTargets) ELSE 0]
  /\ candidates' = {}
  /\ UNCHANGED <<plane, at, dying, ended, died>>

\* No target to drive: a sweep that saw the counts waits a poll interval, a blind
\* lap ends the run.
NothingToDrive ==
  /\ pc = "choose"
  /\ Drivable = {}
  /\ IF Wired THEN pc' = "idle" /\ UNCHANGED ended ELSE Stop("failing")
  /\ UNCHANGED <<plane, tgt, at, candidates, cursor, drains, dying, history>>

IdleOver ==
  /\ pc = "idle"
  /\ pc' = "top"
  /\ UNCHANGED <<plane, tgt, at, candidates, cursor, drains, dying, ended, history>>

IdleStopped ==
  /\ pc = "idle"
  /\ Stop("control")
  /\ UNCHANGED <<plane, tgt, at, candidates, cursor, drains, dying, history>>

-----------------------------------------------------------------------------
(* The drain of the cursor's target                                        *)

\* How filing a project question went: the answer may be lost after the plane
\* recorded it.
Filings == {"filed", "refused", "lost"}

\* fleetTrip and startupTrip, over the pause p of a target whose last poll saw
\* openQ questions: a question is filed unless one is raised, and one the driver
\* could not file leaves the target running.
Tripped(p, openQ, filing) ==
  IF p.raised THEN [p EXCEPT !.paused = TRUE]
  ELSE IF filing = "filed" THEN [paused |-> TRUE, raised |-> TRUE, openQ |-> openQ]
  ELSE p

\* What the plane then holds, of the kind of question being filed.
Recorded(count, p, filing) ==
  IF ~p.raised /\ filing # "refused" THEN count + 1 ELSE count

\* Without a wired releaser nothing is filed; MaxFiled bounds the rest.
MayFile(count, p, filing) ==
  /\ ~Wired => filing = "refused"
  /\ Recorded(count, p, filing) <= MaxFiled

\* A phase died holding task t: it is parked at the bound, or counted for the
\* fleet, which may trip, or retried.
PhaseParked(t) ==
  /\ pc = "drain"
  /\ dying.task = t
  /\ dying.deaths >= PerTaskDeadBound - 1
  /\ pc' = "drained"
  /\ UNCHANGED <<plane, tgt, at, candidates, cursor, drains, dying, ended, history>>

CountDeath(t) ==
  /\ pc = "drain"
  /\ ~(dying.task = t /\ dying.deaths >= PerTaskDeadBound - 1)
  /\ died' = [died EXCEPT ![cursor] = @ \cup {t}]
  /\ UNCHANGED <<at, candidates, cursor, drains, ended, passed>>

Deaths == Saturate(tgt[cursor].fleetDead + 1, FleetDeadBound)

PhaseDies(t) ==
  /\ CountDeath(t)
  /\ Deaths < FleetDeadBound
  /\ tgt' = [tgt EXCEPT ![cursor].fleetDead = Deaths]
  /\ dying' = [task |-> t,
               deaths |-> IF dying.task = t THEN dying.deaths + 1 ELSE 1]
  /\ UNCHANGED <<plane, pc>>

FleetTrips(t, filing) ==
  LET b == tgt[cursor]
  IN  /\ CountDeath(t)
      /\ Deaths = FleetDeadBound
      /\ MayFile(plane[cursor].fleetQ, b.fleet, filing)
      /\ tgt' = [tgt EXCEPT ![cursor].fleetDead = Deaths,
                            ![cursor].fleet = Tripped(@, b.openQs, filing)]
      /\ plane' = [plane EXCEPT ![cursor].fleetQ = Recorded(@, b.fleet, filing)]
      /\ pc' = "drained"
      /\ UNCHANGED dying

\* An implement phase ended alive and the sequence moves on.
ImplementSucceeds ==
  /\ pc = "drain"
  /\ tgt' = [tgt EXCEPT ![cursor].fleetDead = 0]
  /\ died' = [died EXCEPT ![cursor] = {}]
  /\ dying' = NotDying
  /\ UNCHANGED <<plane, pc, at, candidates, cursor, drains, ended, passed>>

\* Slip: a respawn is not held to the ceiling.
HandoffUnchecked ==
  /\ pc = "drain"
  /\ MaxIterations > 0 /\ drains <= MaxIterations
  /\ drains' = drains + 1
  /\ UNCHANGED <<plane, tgt, pc, at, candidates, cursor, dying, ended, history>>

\* A handoff respawn charges an iteration, and is refused at the ceiling.  With
\* no ceiling nothing reads the count, and none is kept.
HandoffAccepted ==
  /\ pc = "drain"
  /\ MaxIterations > 0 /\ drains < MaxIterations
  /\ drains' = drains + 1
  /\ UNCHANGED <<plane, tgt, pc, at, candidates, cursor, dying, ended, history>>

-----------------------------------------------------------------------------
(* The end of the drain                                                    *)

AfterDrain == IF Wired THEN "top" ELSE "idle"

\* The drain's locals go with it.
DrainOver ==
  /\ dying' = NotDying
  /\ UNCHANGED <<at, candidates, cursor, drains, history>>

\* No error: the harness works.
BookSuccess(tokens) ==
  tgt' = [tgt EXCEPT ![cursor].spent = tokens,
                     ![cursor].harnessFails = 0, ![cursor].startupFails = 0]

DrainSucceeds(tokens) ==
  /\ pc \in {"drain", "drained"}
  /\ pc = "drain" => "ok" \in DrainEnds
  /\ BookSuccess(tokens)
  /\ pc' = AfterDrain
  /\ DrainOver
  /\ UNCHANGED <<plane, ended>>

\* As above, and the drain asks Run to stop, or a marker does right after it.
DrainStops(tokens) ==
  /\ pc \in {"drain", "drained"}
  /\ "stop" \in DrainEnds
  /\ BookSuccess(tokens)
  /\ Stop("control")
  /\ DrainOver
  /\ UNCHANGED plane

\* The target's own budget is spent: Run returns before any other bookkeeping.
OverlayBudgetStops ==
  /\ pc \in {"drain", "drained"}
  /\ "stop" \in DrainEnds
  /\ Stop("budget")
  /\ DrainOver
  /\ UNCHANGED <<plane, tgt>>

sidelineTarget(b) ==
  LET fails == Saturate(b.harnessFails + 1, FailTop)
  IN  [b EXCEPT !.harnessFails = fails, !.sitOut = failureBackoff(fails)]

Sidelined(b) ==
  /\ ~b.fleet.paused /\ ~b.startup.paused
  /\ b.harnessFails > 0 /\ b.sitOut > 0

\* The drain failed: sideline the target, count a startup failure when nothing
\* was spent and pause at the bound, and end the run when no target is left.
DrainFails(tokens, filing) ==
  LET old == tgt[cursor]
      fails == IF tokens = 0 THEN Saturate(old.startupFails + 1, StartupFailBound) ELSE 0
      trips == fails = StartupFailBound
      pause == IF trips THEN Tripped(old.startup, old.openQs, filing) ELSE old.startup
      count == plane[cursor].startupQ
  IN  /\ pc = "drain"
      /\ "error" \in DrainEnds
      /\ IF trips THEN MayFile(count, old.startup, filing) ELSE filing = "refused"
      /\ tgt' = [tgt EXCEPT ![cursor] =
                   [sidelineTarget(old) EXCEPT !.spent = tokens,
                                               !.startupFails = fails,
                                               !.startup = pause]]
      /\ plane' = [plane EXCEPT ![cursor].startupQ = Recorded(@, old.startup, filing)]
      /\ IF \A i \in Targets : Sidelined(tgt'[i])
         THEN Stop("failing")
         ELSE pc' = AfterDrain /\ UNCHANGED ended
      /\ DrainOver

-----------------------------------------------------------------------------
PollStep == \E i \in Targets :
  PollPaused(i) \/ PollOpen(i) \/ PollError(i) \/ PollRefused(i)

DrainReturns ==
  \/ OverlayBudgetStops
  \/ \E tokens \in Spends :
       \/ DrainSucceeds(tokens) \/ DrainStops(tokens)
       \/ \E filing \in Filings : DrainFails(tokens, filing)

DrainStep ==
  \/ \E t \in Tasks :
       \/ PhaseParked(t) \/ PhaseDies(t)
       \/ \E filing \in Filings : FleetTrips(t, filing)
  \/ ImplementSucceeds \/ HandoffAccepted
  \/ DrainReturns

LoopStep ==
  \/ StartSweep \/ PollStep \/ \E i \in Targets : StartDrain(i)
  \/ NothingToDrive \/ IdleOver
  \/ ControlStops \/ BudgetStops \/ CeilingStops \/ IdleStopped

PlaneStep == \E i \in Targets \ Dormant :
  \/ "settle" \in Moves /\ (WorkSettles(i) \/ WorkReturns(i))
  \/ "ask" \in Moves /\ (QuestionAsked(i) \/ QuestionAnswered(i))
  \/ "queue" \in Moves /\ QueueTurns(i)
  \/ "console" \in Moves /\ ConsoleToggles(i)
  \/ FleetAnswered(i) \/ StartupAnswered(i)

Next == LoopStep \/ DrainStep \/ PlaneStep \/ Tick

Spec == Init /\ [][Next]_vars

\* The loop never rests: each step runs as soon as the one before it is over,
\* waits and sessions are bounded by their timers, and the clock moves.
Fairness ==
  /\ WF_vars(LoopStep) /\ WF_vars(DrainReturns) /\ WF_vars(Tick)
\* That the plane answers the polls again and again is the environment's part.
PlaneAnswers ==
  \A i \in Targets : SF_vars(PollOpen(i) \/ PollPaused(i) \/ PollRefused(i))

FairSpec == Spec /\ Fairness /\ PlaneAnswers

-----------------------------------------------------------------------------
(* Properties                                                              *)

InDrain == pc \in {"drain", "drained"}

\* A target is paused exactly while the question that pauses it is raised, and
\* only by a full run of failures of that kind: the counter stays at its bound
\* for as long as the pause is in force (fleetTrip, startupTrip, the poll gate).
PausesAreEarned ==
  \A i \in Targets :
    /\ tgt[i].fleet.paused = tgt[i].fleet.raised
    /\ tgt[i].startup.paused = tgt[i].startup.raised
    /\ tgt[i].fleet.paused => tgt[i].fleetDead = FleetDeadBound
    /\ tgt[i].startup.paused => tgt[i].startupFails = StartupFailBound

\* No session runs for a target that is sitting out or paused, whatever came
\* between the poll that admitted it and the end of the drain; and the drain
\* in flight is one the next poll will judge.
NoSessionWhileHeldBack ==
  InDrain =>
    /\ tgt[cursor].pending
    /\ tgt[cursor].sitOut = 0
    /\ ~tgt[cursor].startup.paused
    /\ pc = "drain" => ~tgt[cursor].fleet.paused

\* Round robin: a target found drivable again and again is passed over at most
\* once for each of the others.
NoTargetPassedOver == \A i \in Targets : passed[i] < NumTargets

\* "Nothing left to drive" is said only when every target is sitting out a
\* failure of its own harness: never over a pause or a no-progress back-off.
FailingMeansAllFailing ==
  ended = "failing" =>
    \A i \in Targets :
      /\ tgt[i].harnessFails > 0 /\ tgt[i].sitOut > 0
      /\ ~tgt[i].fleet.paused /\ ~tgt[i].startup.paused

\* The ceiling on iterations holds with the handoff respawns a drain adds.
IterationCeiling == MaxIterations > 0 => drains <= MaxIterations

\* The fleet counter and the deaths behind it agree: a counted death belongs to
\* a task, and a successful implement phase forgives them all.
DeadCounterHasTasks ==
  \A i \in Targets : tgt[i].fleetDead > 0 <=> died[i] # {}

\* The spend of a drain is charged to the no-progress account once, by the
\* verdict on that drain, and only when nothing settled since it began.
ChargedOncePerDrain ==
  [][\A i \in Targets :
       tgt'[i].quietTokens > tgt[i].quietTokens =>
         /\ tgt[i].pending /\ ~tgt'[i].pending
         /\ plane[i].settled <= tgt[i].baseline]_vars

\* A target is never set to sit out longer than it already is except by a
\* failed drain of its own or a verdict on a fruitless one, and never while the
\* console holds the project: a pause hides progress, so nothing is judged.
SitOutsAreEarned ==
  [][\A i \in Targets :
       tgt'[i].sitOut > tgt[i].sitOut =>
         \/ pc = "drain" /\ cursor = i /\ tgt'[i].harnessFails > 0
         \/ /\ tgt[i].pending /\ ~plane[i].paused
            /\ openQuestions(i) >= tgt[i].openQs
            /\ tgt'[i].quietTokens >= QuietTokens]_vars

\* A failing target comes back: if its project has work and no pause holds it
\* from some moment on, it is drained again and again, unless the run ends.
Workable(i) ==
  /\ plane[i].spawnable /\ ~plane[i].paused
  /\ ~tgt[i].fleet.paused /\ ~tgt[i].startup.paused
Driven(i) == InDrain /\ cursor = i
WorkIsDriven ==
  \A i \in Targets : <>[]Workable(i) => (<>(pc = "done") \/ []<>Driven(i))

\* A pause ends: once the project has no open question and no console pause,
\* the loop does not go on holding the target back.
Answered(i) == openQuestions(i) = 0 /\ ~plane[i].paused
Unheld(i) == ~tgt[i].fleet.paused /\ ~tgt[i].startup.paused
AnsweredPausesLift ==
  \A i \in Targets : <>[]Answered(i) => (<>(pc = "done") \/ <>[]Unheld(i))

-----------------------------------------------------------------------------
(* What the runs check                                                     *)

\* A target is held back for as long as what holds it back stands, and no longer: pauses
\* are earned by failures and raised with a question, and no session runs for a target
\* that is paused or sitting out, wherever its drain was when that came about.
HeldBackIsEarned == PausesAreEarned /\ NoSessionWhileHeldBack

\* The counters mean what the bounds on them take them to mean: they stay in their range,
\* the ceiling counts the handoffs inside a drain, and the rotation passes nobody over.
CountsHold == TypeOK /\ IterationCeiling /\ NoTargetPassedOver

\* The books on failures agree with what happened: deaths belong to tasks, the run gives
\* up only when every harness is failing, a drain's spend is charged once, and every
\* sit-out answers a failed or a fruitless drain.
BooksAreHonest ==
  []DeadCounterHasTasks /\ []FailingMeansAllFailing /\ ChargedOncePerDrain /\ SitOutsAreEarned

\* A project that has work and that no pause holds is driven again and again, beside one
\* that always fails, and an answered pause lifts.
ProjectsAreServed == WorkIsDriven /\ AnsweredPausesLift

-----------------------------------------------------------------------------
(* What a comment promises, and the code does not do                       *)

\* loop.go on fleetDeadBound: "the fleet counter can only reach 5 across
\* DIFFERENT tasks".
FleetTripSpansTasks ==
  \A i \in Targets : tgt[i].fleetDead = FleetDeadBound => Cardinality(died[i]) > 1
=============================================================================
