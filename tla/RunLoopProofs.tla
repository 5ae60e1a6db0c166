---------------------------- MODULE RunLoopProofs ----------------------------
(***************************************************************************)
(* The safety of the scheduling loop, for any number of targets, any       *)
(* bounds and any tasks.  Inv is inductive: the type invariant, the two    *)
(* properties it is for (PausesAreEarned, NoSessionWhileHeldBack), and     *)
(* what they rest on: a candidate stays admissible until it is drained, a  *)
(* sweep admits only targets it has polled, and a run that cannot poll     *)
(* never pauses.                                                           *)
(***************************************************************************)
EXTENDS RunLoop, TLAPS

CandidatesAdmissible ==
  /\ \A i \in candidates : Admissible(tgt[i])
  /\ pc = "sweep" => \A i \in candidates : i < at
  /\ pc \in {"top", "idle", "drain", "drained"} => candidates = {}

BlindNeverPauses ==
  ~Wired => \A i \in Targets : ~tgt[i].fleet.paused /\ ~tgt[i].startup.paused

Inv ==
  /\ TypeOK
  /\ PausesAreEarned
  /\ NoSessionWhileHeldBack
  /\ CandidatesAdmissible
  /\ BlindNeverPauses

-----------------------------------------------------------------------------
(* The ladder and the counters stay within their ranges.                   *)

LEMMA SaturateBounds ==
  ASSUME NEW n \in Nat, NEW top \in Nat
  PROVE  Saturate(n, top) \in 0 .. top
  BY DEF Saturate

LEMMA LadderBounds ==
  ASSUME NEW rung \in Int
  PROVE  quietBackoff(rung) \in 1 .. BackoffCap
  BY LadderAssumption DEF quietBackoff, quietThreshold, Saturate

LEMMA QuietTopIsNat == QuietTop \in Nat
  BY LadderAssumption, BoundsAssumption DEF QuietTop

LEMMA QuietWaitBounds ==
  ASSUME NEW quiet \in Nat
  PROVE  QuietWait(quiet) \in 0 .. BackoffCap
<1> DEFINE rung == quietThreshold - 1 + quiet \div QuietTokens
<1>1. rung \in Int
  BY BoundsAssumption DEF quietThreshold
<1> HIDE DEF rung
<1>2. quietBackoff(rung) \in 1 .. BackoffCap
  BY <1>1, LadderBounds
<1> QED
  BY <1>2 DEF QuietWait, rung

-----------------------------------------------------------------------------
(* What one poll does to the books of a target.                            *)

LEMMA OpenQuestionsIsNat ==
  ASSUME TypeOK, NEW i \in Targets
  PROVE  openQuestions(i) \in Nat /\ settledNow(i) \in Nat
  BY BoundsAssumption DEF TypeOK, PlaneRows, openQuestions, settledNow

\* What the counters of a poll's verdict leave alone.
SameCounters(b, c) ==
  /\ c.fleet = b.fleet /\ c.startup = b.startup
  /\ c.fleetDead = b.fleetDead /\ c.startupFails = b.startupFails

LEMMA BookBooks ==
  ASSUME TypeOK, NEW i \in Targets, NEW b \in Books,
         NEW quiet \in Nat, NEW wait \in 0 .. BackoffCap
  PROVE  Book(b, i, quiet, wait) \in Books /\ SameCounters(b, Book(b, i, quiet, wait))
<1> DEFINE settled == settledNow(i)
           open == openQuestions(i)
<1>1. settled \in Nat /\ open \in Nat
  BY OpenQuestionsIsNat
<1> HIDE DEF settled, open
<1>2. Book(b, i, quiet, wait) =
        [b EXCEPT !.quietTokens = quiet, !.sitOut = wait,
                  !.baseline = settled, !.openQs = open]
  BY DEF Book, settled, open
<1> QED
  BY <1>1, <1>2 DEF Books, SameCounters

LEMMA ChargedIsNat ==
  ASSUME NEW b \in Books
  PROVE  Charged(b) \in Nat
<1> DEFINE n == b.quietTokens + b.spent
<1>1. n \in Nat
  BY DEF Books
<1> HIDE DEF n
<1>2. Saturate(n, QuietTop) \in 0 .. QuietTop
  BY <1>1, QuietTopIsNat, SaturateBounds
<1> QED
  BY <1>2, QuietTopIsNat DEF Charged, n

LEMMA JudgeBooks ==
  ASSUME TypeOK, NEW i \in Targets, NEW b \in Books
  PROVE  judgeProgress(b, i) \in Books /\ SameCounters(b, judgeProgress(b, i))
<1>1. /\ 0 \in 0 .. BackoffCap /\ b.sitOut \in 0 .. BackoffCap
      /\ b.quietTokens \in Nat
  BY LadderAssumption DEF Books
<1>2. DrainOff(b) \in Books /\ SameCounters(b, DrainOff(b))
  BY DEF DrainOff, Books, SameCounters
<1>3. Charged(b) \in Nat /\ QuietWait(Charged(b)) \in 0 .. BackoffCap
  BY ChargedIsNat, QuietWaitBounds
<1>4. \A quiet \in Nat, wait \in 0 .. BackoffCap :
        /\ Book(b, i, quiet, wait) \in Books
        /\ SameCounters(b, Book(b, i, quiet, wait))
        /\ Book(DrainOff(b), i, quiet, wait) \in Books
        /\ SameCounters(DrainOff(b), Book(DrainOff(b), i, quiet, wait))
  BY <1>2, BookBooks
<1>5. Verdict(b, i) \in Books /\ SameCounters(b, Verdict(b, i))
  BY <1>1, <1>2, <1>3, <1>4 DEF Verdict, SameCounters
<1>6. Notice(b, i) \in Books /\ SameCounters(b, Notice(b, i))
  BY <1>1, <1>4 DEF Notice
<1>7. Forget(b, i) \in Books /\ SameCounters(b, Forget(b, i))
  BY <1>1, <1>4 DEF Forget
<1> QED
  BY <1>5, <1>6, <1>7 DEF judgeProgress

LEMMA LiftPause ==
  ASSUME NEW p \in Pauses, NEW i \in Targets
  PROVE  /\ Lift(p, i) \in Pauses
         /\ p.paused = p.raised => Lift(p, i).paused = Lift(p, i).raised
         /\ Lift(p, i).paused => p.paused
  BY DEF Lift, Pauses

\* A poll keeps the counters, and pauses nothing.
LEMMA JudgedBooks ==
  ASSUME TypeOK, NEW i \in Targets
  PROVE  /\ Judged(i) \in Books
         /\ Judged(i).fleet = Lift(tgt[i].fleet, i)
         /\ Judged(i).startup = Lift(tgt[i].startup, i)
         /\ Judged(i).fleetDead = tgt[i].fleetDead
         /\ Judged(i).startupFails = tgt[i].startupFails
<1> DEFINE b == judgeProgress(tgt[i], i)
<1>1. b \in Books /\ SameCounters(tgt[i], b)
  BY JudgeBooks DEF TypeOK
<1>2. Judged(i) = [b EXCEPT !.fleet = Lift(b.fleet, i), !.startup = Lift(b.startup, i)]
  BY DEF Judged
<1> HIDE DEF b
<1>3. Lift(b.fleet, i) \in Pauses /\ Lift(b.startup, i) \in Pauses
  BY <1>1, LiftPause DEF Books
<1> QED
  BY <1>1, <1>2, <1>3 DEF Books, SameCounters

LEMMA TrippedPause ==
  ASSUME NEW p \in Pauses, NEW openQ \in Nat, NEW filing \in Filings
  PROVE  /\ Tripped(p, openQ, filing) \in Pauses
         /\ p.paused = p.raised =>
              Tripped(p, openQ, filing).paused = Tripped(p, openQ, filing).raised
  BY DEF Tripped, Pauses

-----------------------------------------------------------------------------
(* Inv is inductive: one lemma per group of steps.                         *)

LEMMA InitInv == Init => Inv
<1> SUFFICES ASSUME Init PROVE Inv
  OBVIOUS
<1>1. TypeOK
  BY TargetsAssumption, BoundsAssumption, LadderAssumption
  DEF Init, TypeOK, PlaneRows, Books, Pauses, Unpaused, NotDying, Places, Endings, Targets
<1>2. PausesAreEarned /\ NoSessionWhileHeldBack /\ CandidatesAdmissible /\ BlindNeverPauses
  BY BoundsAssumption
  DEF Init, PausesAreEarned, NoSessionWhileHeldBack, InDrain, CandidatesAdmissible,
      BlindNeverPauses, Unpaused
<1> QED
  BY <1>1, <1>2 DEF Inv

LEMMA PlaneMovesInv ==
  ASSUME Inv, NEW i \in Targets, NEW row, PlaneMoves(i, row)
  PROVE  Inv'
  BY DEF Inv, TypeOK, PlaneMoves, driver, history, PausesAreEarned,
         NoSessionWhileHeldBack, InDrain, CandidatesAdmissible, BlindNeverPauses, Admissible

LEMMA TickInv ==
  ASSUME Inv, Tick
  PROVE  Inv'
<1> DEFINE Ticked(b) == [b EXCEPT !.sitOut = IF @ = 0 THEN 0 ELSE @ - 1]
<1>1. \A b \in Books :
        /\ Ticked(b) \in Books
        /\ Ticked(b).fleet = b.fleet /\ Ticked(b).startup = b.startup
        /\ Ticked(b).fleetDead = b.fleetDead
        /\ Ticked(b).startupFails = b.startupFails
        /\ Ticked(b).pending = b.pending
        /\ b.sitOut = 0 => Ticked(b).sitOut = 0
  BY LadderAssumption DEF Books
<1> HIDE DEF Ticked
<1>2. /\ tgt' = [i \in Targets |-> Ticked(tgt[i])]
      /\ \A i \in Targets : tgt[i] \in Books
  BY DEF Tick, Inv, TypeOK, Ticked
<1>3. /\ TypeOK'
      /\ \A i \in Targets :
           /\ tgt'[i].fleet = tgt[i].fleet /\ tgt'[i].startup = tgt[i].startup
           /\ tgt'[i].fleetDead = tgt[i].fleetDead
           /\ tgt'[i].startupFails = tgt[i].startupFails
           /\ tgt'[i].pending = tgt[i].pending
           /\ tgt[i].sitOut = 0 => tgt'[i].sitOut = 0
  <2>1. \A i \in Targets : tgt'[i] = Ticked(tgt[i])
    BY <1>2
  <2>2. tgt' \in [Targets -> Books]
    BY <1>1, <1>2
  <2>3. TypeOK'
    BY <2>2 DEF Tick, Inv, TypeOK, history
  <2> QED
    BY <1>1, <1>2, <2>1, <2>3
<1>4. PausesAreEarned' /\ BlindNeverPauses'
  BY <1>3 DEF Inv, PausesAreEarned, BlindNeverPauses
<1>5. NoSessionWhileHeldBack'
  BY <1>3, ZenonT(40) DEF Tick, Inv, TypeOK, NoSessionWhileHeldBack, InDrain
<1>6. \A i \in Targets : Admissible(tgt[i]) => Admissible(tgt[i])'
  BY <1>3 DEF Admissible
<1>7. CandidatesAdmissible'
  BY <1>6 DEF Tick, Inv, TypeOK, CandidatesAdmissible
<1> QED
  BY <1>3, <1>4, <1>5, <1>7 DEF Inv

\* The steps that only move Run from one place to the next.
LEMMA MoveInv ==
  ASSUME Inv,
         \/ ControlStops \/ BudgetStops \/ CeilingStops \/ StartSweep
         \/ NothingToDrive \/ IdleOver \/ IdleStopped
  PROVE  Inv'
<1>1. UNCHANGED <<plane, tgt, candidates, cursor, drains, dying, history>>
  BY DEF ControlStops, BudgetStops, CeilingStops, StartSweep, NothingToDrive,
         IdleOver, IdleStopped
<1>2. /\ pc' \in Places \ {"drain", "drained"} /\ ended' \in Endings
      /\ at' \in 0 .. NumTargets
      /\ pc' \in {"sweep", "top", "idle"} => candidates = {}
  BY TargetsAssumption
  DEF ControlStops, BudgetStops, CeilingStops, StartSweep, NothingToDrive,
      IdleOver, IdleStopped, Stop, Drivable, Places, Endings, Inv, TypeOK, CandidatesAdmissible
<1> QED
  BY <1>1, <1>2
  DEF Inv, TypeOK, history, PausesAreEarned, NoSessionWhileHeldBack, InDrain,
      CandidatesAdmissible, BlindNeverPauses, Admissible, Places

LEMMA NextPollType ==
  ASSUME Inv, NEW i \in Targets, Polling(i), NextPoll
  PROVE  at' \in 0 .. NumTargets /\ pc' \in {"choose", "sweep"} /\ at' = i + 1
  BY TargetsAssumption DEF Polling, NextPoll, Targets, Inv, TypeOK

LEMMA PollNothingInv ==
  ASSUME Inv, NEW i \in Targets, PollPaused(i) \/ PollError(i) \/ PollRefused(i)
  PROVE  Inv'
<1>1. UNCHANGED <<plane, tgt, candidates, cursor, drains, dying, history>> /\ Polling(i)
  BY DEF PollPaused, PollError, PollRefused
<1>2. \/ /\ at' \in 0 .. NumTargets /\ pc' \in {"choose", "sweep"}
         /\ at' = i + 1 /\ at = i /\ ended' = ended /\ pc = "sweep"
      \/ pc' = "done" /\ ended' = "refused" /\ UNCHANGED at
  BY NextPollType DEF PollPaused, PollError, PollRefused, Stop, Polling
<1>3. candidates \subseteq Targets /\ at \in Int
  BY DEF Inv, TypeOK
<1> QED
  BY <1>1, <1>2, <1>3
  DEF Inv, TypeOK, history, PausesAreEarned, NoSessionWhileHeldBack, InDrain,
      CandidatesAdmissible, BlindNeverPauses, Admissible, Places, Endings, Targets

LEMMA PollOpenInv ==
  ASSUME Inv, NEW i \in Targets, PollOpen(i)
  PROVE  Inv'
<1> DEFINE b == Judged(i)
<1>1. /\ Polling(i) /\ NextPoll /\ tgt' = [tgt EXCEPT ![i] = b]
      /\ candidates' \in {candidates, candidates \cup {i}}
      /\ i \in candidates' => i \in candidates \/ Admissible(b)
      /\ UNCHANGED <<plane, cursor, drains, dying, ended, history>>
  BY DEF PollOpen
<1>2. /\ b \in Books
      /\ b.fleet = Lift(tgt[i].fleet, i) /\ b.startup = Lift(tgt[i].startup, i)
      /\ b.fleetDead = tgt[i].fleetDead /\ b.startupFails = tgt[i].startupFails
  BY JudgedBooks DEF Inv
<1>3. /\ tgt[i].fleet \in Pauses /\ tgt[i].startup \in Pauses
  BY DEF Inv, TypeOK, Books
<1>4. /\ b.fleet.paused = b.fleet.raised /\ b.startup.paused = b.startup.raised
      /\ b.fleet.paused => tgt[i].fleet.paused
      /\ b.startup.paused => tgt[i].startup.paused
  BY <1>2, <1>3, LiftPause DEF Inv, PausesAreEarned
<1> HIDE DEF b
<1>5. tgt'[i] = b /\ \A j \in Targets \ {i} : tgt'[j] = tgt[j]
  BY <1>1 DEF Inv, TypeOK
<1>6. at' \in 0 .. NumTargets /\ pc' \in {"choose", "sweep"} /\ at' = i + 1 /\ at = i
  BY <1>1, NextPollType DEF Polling
<1>7. TypeOK'
  BY <1>1, <1>2, <1>6 DEF Inv, TypeOK, history, Places
<1>8. PausesAreEarned' /\ BlindNeverPauses'
  BY <1>2, <1>4, <1>5 DEF Inv, PausesAreEarned, BlindNeverPauses
<1>9. NoSessionWhileHeldBack'
  BY <1>6 DEF NoSessionWhileHeldBack, InDrain
<1>10. i \notin candidates
  BY <1>1, <1>6 DEF Inv, CandidatesAdmissible, Polling, Targets
<1>11. CandidatesAdmissible'
  <2>1. \A j \in candidates' : Admissible(tgt'[j])
    BY <1>1, <1>5, <1>10 DEF Inv, TypeOK, CandidatesAdmissible, Admissible
  <2>2. \A j \in candidates' : j < at'
    BY <1>1, <1>6 DEF Inv, TypeOK, CandidatesAdmissible, Polling, Targets
  <2> QED
    BY <2>1, <2>2, <1>6 DEF CandidatesAdmissible, Admissible
<1> QED
  BY <1>7, <1>8, <1>9, <1>11 DEF Inv

\* The ring: k steps ahead of c, for one lap.
LEMMA AheadOnRing ==
  ASSUME NEW c \in Targets, NEW k \in 1 .. NumTargets
  PROVE  /\ Ahead(c, k) \in Targets
         /\ Ahead(c, k) = IF c + k < NumTargets THEN c + k ELSE c + k - NumTargets
  BY TargetsAssumption DEF Ahead, Targets

LEMMA StartDrainInv ==
  ASSUME Inv, NEW i \in Targets, StartDrain(i)
  PROVE  Inv'
<1>1. /\ i \in Drivable /\ pc = "choose" /\ pc' = "drain" /\ cursor' = i
      /\ tgt' = [tgt EXCEPT ![i].pending = TRUE]
      /\ candidates' = {}
      /\ UNCHANGED <<plane, at, dying, ended, died>>
  BY DEF StartDrain, IsNext
<1>2. drains' \in Nat
  BY DEF StartDrain, Inv, TypeOK
<1>3. passed' \in [Targets -> 0 .. NumTargets]
  <2>1. \A j \in Targets : Saturate(passed[j] + 1, NumTargets) \in 0 .. NumTargets
    BY TargetsAssumption DEF Inv, TypeOK, Saturate
  <2> QED
    BY <2>1, TargetsAssumption DEF StartDrain
<1>4. \A j \in Targets : tgt[j] \in Books
  BY DEF Inv, TypeOK
<1>5. /\ tgt' \in [Targets -> Books]
      /\ \A j \in Targets :
           /\ tgt'[j].fleet = tgt[j].fleet /\ tgt'[j].startup = tgt[j].startup
           /\ tgt'[j].fleetDead = tgt[j].fleetDead
           /\ tgt'[j].startupFails = tgt[j].startupFails
           /\ tgt'[j].sitOut = tgt[j].sitOut
      /\ tgt'[i].pending
  BY <1>1, <1>4, ZenonT(40) DEF Inv, TypeOK, Books
<1>6. tgt[i].sitOut = 0 /\ ~tgt[i].fleet.paused /\ ~tgt[i].startup.paused
  BY <1>1 DEF Drivable, Inv, CandidatesAdmissible, Admissible, BlindNeverPauses
<1>7. TypeOK'
  BY <1>1, <1>2, <1>3, <1>5 DEF Inv, TypeOK, Places
<1>8. PausesAreEarned' /\ BlindNeverPauses'
  BY <1>5 DEF Inv, PausesAreEarned, BlindNeverPauses
<1>9. NoSessionWhileHeldBack'
  BY <1>1, <1>5, <1>6 DEF NoSessionWhileHeldBack
<1>10. CandidatesAdmissible'
  BY <1>1 DEF CandidatesAdmissible
<1> QED
  BY <1>7, <1>8, <1>9, <1>10 DEF Inv

\* What a step of the drain may do to the books of the target in hand.
LEMMA CursorBooks ==
  ASSUME Inv
  PROVE  /\ cursor \in Targets /\ tgt[cursor] \in Books
         /\ tgt[cursor].fleet \in Pauses /\ tgt[cursor].startup \in Pauses
         /\ tgt[cursor].openQs \in Nat
  BY DEF Inv, TypeOK, Books

LEMMA DeathsBounds ==
  ASSUME Inv
  PROVE  Deaths \in 1 .. FleetDeadBound
<1>1. tgt[cursor].fleetDead \in 0 .. FleetDeadBound
  BY CursorBooks DEF Books
<1> QED
  BY <1>1, BoundsAssumption DEF Deaths, Saturate

LEMMA PhaseParkedInv ==
  ASSUME Inv, NEW t \in Tasks, PhaseParked(t)
  PROVE  Inv'
  BY DEF PhaseParked, Inv, TypeOK, history, PausesAreEarned, NoSessionWhileHeldBack, InDrain,
         CandidatesAdmissible, BlindNeverPauses, Admissible, Places

LEMMA PhaseDiesInv ==
  ASSUME Inv, NEW t \in Tasks, PhaseDies(t)
  PROVE  Inv'
<1>1. /\ pc = "drain" /\ tgt' = [tgt EXCEPT ![cursor].fleetDead = Deaths]
      /\ died' = [died EXCEPT ![cursor] = @ \cup {t}]
      /\ ~(dying.task = t /\ dying.deaths >= PerTaskDeadBound - 1)
      /\ dying' = [task |-> t,
                   deaths |-> IF dying.task = t THEN dying.deaths + 1 ELSE 1]
      /\ UNCHANGED <<plane, pc, at, candidates, cursor, drains, ended, passed>>
  BY DEF PhaseDies, CountDeath
<1>2. Deaths \in 0 .. FleetDeadBound
  BY DeathsBounds
<1>3. /\ tgt' \in [Targets -> Books]
      /\ \A j \in Targets :
           /\ tgt'[j].fleet = tgt[j].fleet /\ tgt'[j].startup = tgt[j].startup
           /\ tgt'[j].startupFails = tgt[j].startupFails
           /\ tgt'[j].sitOut = tgt[j].sitOut /\ tgt'[j].pending = tgt[j].pending
           /\ j # cursor => tgt'[j].fleetDead = tgt[j].fleetDead
  <2> HIDE DEF Deaths
  <2> QED
    BY <1>1, <1>2 DEF Inv, TypeOK, Books
<1>4. dying' \in [task : Tasks \cup {NoTask}, deaths : 0 .. PerTaskDeadBound - 1]
  BY <1>1, BoundsAssumption DEF Inv, TypeOK
<1>5. died' \in [Targets -> SUBSET Tasks]
  BY <1>1 DEF Inv, TypeOK
<1>6. TypeOK'
  BY <1>1, <1>3, <1>4, <1>5 DEF Inv, TypeOK
<1>7. ~tgt[cursor].fleet.paused
  BY <1>1 DEF Inv, NoSessionWhileHeldBack, InDrain
<1>8. PausesAreEarned' /\ BlindNeverPauses'
  BY <1>1, <1>3, <1>7 DEF Inv, PausesAreEarned, BlindNeverPauses
<1>9. NoSessionWhileHeldBack' /\ CandidatesAdmissible'
  BY <1>1, <1>3, CursorBooks
  DEF Inv, NoSessionWhileHeldBack, InDrain, CandidatesAdmissible
<1> QED
  BY <1>6, <1>8, <1>9 DEF Inv

LEMMA RowRecorded ==
  ASSUME Inv, NEW p \in Pauses, NEW count \in 0 .. MaxFiled, NEW filing \in Filings,
         Recorded(count, p, filing) <= MaxFiled
  PROVE  Recorded(count, p, filing) \in 0 .. MaxFiled
  BY BoundsAssumption DEF Recorded

LEMMA FleetTripsInv ==
  ASSUME Inv, NEW t \in Tasks, NEW filing \in Filings, FleetTrips(t, filing)
  PROVE  Inv'
<1> DEFINE p == tgt[cursor].fleet
           q == Tripped(p, tgt[cursor].openQs, filing)
           n == Recorded(plane[cursor].fleetQ, p, filing)
<1>1. /\ pc = "drain" /\ pc' = "drained" /\ Deaths = FleetDeadBound
      /\ tgt' = [tgt EXCEPT ![cursor].fleetDead = Deaths, ![cursor].fleet = q]
      /\ plane' = [plane EXCEPT ![cursor].fleetQ = n]
      /\ died' = [died EXCEPT ![cursor] = @ \cup {t}]
      /\ n <= MaxFiled /\ (~Wired => filing = "refused")
      /\ UNCHANGED <<at, candidates, cursor, drains, dying, ended, passed>>
  BY DEF FleetTrips, CountDeath, MayFile
<1>2. /\ p \in Pauses /\ p.paused = p.raised /\ ~p.paused
      /\ plane[cursor].fleetQ \in 0 .. MaxFiled
  BY <1>1, CursorBooks DEF Inv, TypeOK, PlaneRows, PausesAreEarned, NoSessionWhileHeldBack,
                           InDrain
<1>3. q \in Pauses /\ q.paused = q.raised
  BY <1>2, CursorBooks, TrippedPause
<1>4. ~Wired => ~q.paused
  BY <1>1, <1>2 DEF Tripped
<1>5. n \in 0 .. MaxFiled
  BY <1>1, <1>2, RowRecorded
<1>6. Deaths \in 0 .. FleetDeadBound
  BY DeathsBounds
<1> HIDE DEF q, n, Deaths
<1>7. plane' \in [Targets -> PlaneRows]
  BY <1>1, <1>5 DEF Inv, TypeOK, PlaneRows
<1>8. /\ tgt' \in [Targets -> Books]
      /\ \A j \in Targets :
           /\ tgt'[j].startup = tgt[j].startup
           /\ tgt'[j].startupFails = tgt[j].startupFails
           /\ tgt'[j].sitOut = tgt[j].sitOut /\ tgt'[j].pending = tgt[j].pending
           /\ j # cursor => tgt'[j].fleet = tgt[j].fleet
           /\ j # cursor => tgt'[j].fleetDead = tgt[j].fleetDead
      /\ tgt'[cursor].fleet = q /\ tgt'[cursor].fleetDead = FleetDeadBound
  BY <1>1, <1>3, <1>6, CursorBooks DEF Inv, TypeOK, Books
<1>9. TypeOK'
  BY <1>1, <1>7, <1>8 DEF Inv, TypeOK, Places
<1>10. PausesAreEarned' /\ BlindNeverPauses'
  BY <1>3, <1>4, <1>8 DEF Inv, PausesAreEarned, BlindNeverPauses
<1>11. NoSessionWhileHeldBack' /\ CandidatesAdmissible'
  BY <1>1, <1>8, CursorBooks
  DEF Inv, NoSessionWhileHeldBack, InDrain, CandidatesAdmissible
<1> QED
  BY <1>9, <1>10, <1>11 DEF Inv

LEMMA ImplementSucceedsInv ==
  ASSUME Inv, ImplementSucceeds
  PROVE  Inv'
<1>1. /\ pc = "drain" /\ tgt' = [tgt EXCEPT ![cursor].fleetDead = 0]
      /\ died' = [died EXCEPT ![cursor] = {}] /\ dying' = NotDying
      /\ UNCHANGED <<plane, pc, at, candidates, cursor, drains, ended, passed>>
  BY DEF ImplementSucceeds
<1>2. /\ tgt' \in [Targets -> Books]
      /\ \A j \in Targets :
           /\ tgt'[j].fleet = tgt[j].fleet /\ tgt'[j].startup = tgt[j].startup
           /\ tgt'[j].startupFails = tgt[j].startupFails
           /\ tgt'[j].sitOut = tgt[j].sitOut /\ tgt'[j].pending = tgt[j].pending
           /\ j # cursor => tgt'[j].fleetDead = tgt[j].fleetDead
  BY <1>1, BoundsAssumption DEF Inv, TypeOK, Books
<1>3. ~tgt[cursor].fleet.paused
  BY <1>1 DEF Inv, NoSessionWhileHeldBack, InDrain
<1>4. TypeOK'
  BY <1>1, <1>2, BoundsAssumption DEF Inv, TypeOK, NotDying
<1>5. PausesAreEarned' /\ BlindNeverPauses'
  BY <1>1, <1>2, <1>3 DEF Inv, PausesAreEarned, BlindNeverPauses
<1>6. NoSessionWhileHeldBack' /\ CandidatesAdmissible'
  BY <1>1, <1>2, CursorBooks
  DEF Inv, NoSessionWhileHeldBack, InDrain, CandidatesAdmissible
<1> QED
  BY <1>4, <1>5, <1>6 DEF Inv

LEMMA HandoffAcceptedInv ==
  ASSUME Inv, HandoffAccepted
  PROVE  Inv'
  BY DEF HandoffAccepted, Inv, TypeOK, history, PausesAreEarned, NoSessionWhileHeldBack, InDrain,
         CandidatesAdmissible, BlindNeverPauses, Admissible

LEMMA BookSuccessInv ==
  ASSUME Inv, NEW tokens \in Spends, BookSuccess(tokens), InDrain
  PROVE  /\ tgt' \in [Targets -> Books]
         /\ \A j \in Targets :
              /\ tgt'[j].fleet = tgt[j].fleet /\ tgt'[j].startup = tgt[j].startup
              /\ tgt'[j].fleetDead = tgt[j].fleetDead
              /\ tgt'[j].startup.paused => tgt'[j].startupFails = StartupFailBound
<1>1. tokens \in Nat /\ 0 \in 0 .. FailTop /\ 0 \in 0 .. StartupFailBound
  BY ChoicesAssumption, BoundsAssumption, LadderAssumption
<1>2. ~tgt[cursor].startup.paused
  BY DEF Inv, NoSessionWhileHeldBack
<1>3. /\ tgt' \in [Targets -> Books]
      /\ \A j \in Targets :
           /\ tgt'[j].fleet = tgt[j].fleet /\ tgt'[j].startup = tgt[j].startup
           /\ tgt'[j].fleetDead = tgt[j].fleetDead
           /\ j # cursor => tgt'[j].startupFails = tgt[j].startupFails
  BY <1>1, CursorBooks DEF BookSuccess, Inv, TypeOK, Books
<1> QED
  BY <1>2, <1>3 DEF Inv, PausesAreEarned

LEMMA DrainSucceedsInv ==
  ASSUME Inv, NEW tokens \in Spends, DrainSucceeds(tokens) \/ DrainStops(tokens)
  PROVE  Inv'
<1>1. /\ pc \in {"drain", "drained"} /\ BookSuccess(tokens)
      /\ pc' \in {"top", "idle", "done"} /\ ended' \in Endings
      /\ dying' = NotDying
      /\ UNCHANGED <<plane, at, candidates, cursor, drains, history>>
  BY DEF DrainSucceeds, DrainStops, DrainOver, AfterDrain, Stop, Endings, Inv, TypeOK
<1>2. /\ tgt' \in [Targets -> Books]
      /\ \A j \in Targets :
           /\ tgt'[j].fleet = tgt[j].fleet /\ tgt'[j].startup = tgt[j].startup
           /\ tgt'[j].fleetDead = tgt[j].fleetDead
           /\ tgt'[j].startup.paused => tgt'[j].startupFails = StartupFailBound
  BY <1>1, BookSuccessInv DEF InDrain
<1>3. TypeOK'
  BY <1>1, <1>2, BoundsAssumption DEF Inv, TypeOK, Places, NotDying, history
<1>4. PausesAreEarned' /\ BlindNeverPauses'
  BY <1>2 DEF Inv, PausesAreEarned, BlindNeverPauses
<1>5. NoSessionWhileHeldBack' /\ CandidatesAdmissible'
  BY <1>1 DEF Inv, NoSessionWhileHeldBack, InDrain, CandidatesAdmissible
<1> QED
  BY <1>3, <1>4, <1>5 DEF Inv

LEMMA OverlayBudgetStopsInv ==
  ASSUME Inv, OverlayBudgetStops
  PROVE  Inv'
  BY BoundsAssumption
  DEF OverlayBudgetStops, DrainOver, Stop, NotDying, Inv, TypeOK, history, PausesAreEarned,
      NoSessionWhileHeldBack, InDrain, CandidatesAdmissible, BlindNeverPauses, Admissible,
      Places, Endings

LEMMA SidelineBooks ==
  ASSUME NEW b \in Books
  PROVE  sidelineTarget(b) \in Books /\ SameCounters(b, sidelineTarget(b))
<1> DEFINE n == b.harnessFails + 1
           fails == Saturate(n, FailTop)
           wait == failureBackoff(fails)
<1>1. n \in Nat
  BY DEF Books
<1>2. fails \in 0 .. FailTop
  <2> HIDE DEF n
  <2> QED
    BY <1>1, SaturateBounds, LadderAssumption
<1>3. wait \in 0 .. BackoffCap
  <2> DEFINE rung == quietThreshold - 1 + fails
  <2> HIDE DEF fails
  <2>1. rung \in Int
    BY <1>2, LadderAssumption DEF quietThreshold
  <2> HIDE DEF rung
  <2>2. quietBackoff(rung) \in 1 .. BackoffCap
    BY <2>1, LadderBounds
  <2> QED
    BY <2>2 DEF failureBackoff, rung
<1>4. sidelineTarget(b) = [b EXCEPT !.harnessFails = fails, !.sitOut = wait]
  BY DEF sidelineTarget
<1> HIDE DEF fails, wait
<1> QED
  BY <1>2, <1>3, <1>4 DEF Books, SameCounters

LEMMA DrainFailsInv ==
  ASSUME Inv, NEW tokens \in Spends, NEW filing \in Filings, DrainFails(tokens, filing)
  PROVE  Inv'
<1> DEFINE old == tgt[cursor]
           sided == sidelineTarget(old)
           n == old.startupFails + 1
           fails == IF tokens = 0 THEN Saturate(n, StartupFailBound) ELSE 0
           trips == fails = StartupFailBound
           pause == IF trips THEN Tripped(old.startup, old.openQs, filing) ELSE old.startup
           b == [sided EXCEPT !.spent = tokens, !.startupFails = fails, !.startup = pause]
           count == Recorded(plane[cursor].startupQ, old.startup, filing)
<1>1. /\ pc = "drain"
      /\ tgt' = [tgt EXCEPT ![cursor] = b]
      /\ plane' = [plane EXCEPT ![cursor].startupQ = count]
      /\ IF trips THEN MayFile(plane[cursor].startupQ, old.startup, filing)
                  ELSE filing = "refused"
      /\ pc' \in {"top", "idle", "done"} /\ ended' \in Endings
      /\ dying' = NotDying
      /\ UNCHANGED <<at, candidates, cursor, drains, history>>
  BY DEF DrainFails, DrainOver, AfterDrain, Stop, Endings, Inv, TypeOK
<1>2. /\ old \in Books /\ tokens \in Nat
      /\ old.startup \in Pauses /\ old.startup.paused = old.startup.raised
      /\ ~old.startup.paused
      /\ plane[cursor].startupQ \in 0 .. MaxFiled
  BY <1>1, CursorBooks, ChoicesAssumption
  DEF Inv, TypeOK, PlaneRows, PausesAreEarned, NoSessionWhileHeldBack, InDrain
<1>3. fails \in 0 .. StartupFailBound
  <2>1. n \in Nat
    BY <1>2 DEF Books
  <2> HIDE DEF n
  <2> QED
    BY <2>1, SaturateBounds, BoundsAssumption
<1>4. pause \in Pauses /\ pause.paused = pause.raised
  BY <1>2, CursorBooks, TrippedPause
<1>5. pause.paused => trips /\ Wired
  BY <1>1, <1>2 DEF Tripped, MayFile
<1>6. count \in 0 .. MaxFiled
  <2>1. count <= MaxFiled
    BY <1>1, <1>2 DEF MayFile, Recorded
  <2> QED
    BY <1>2, <2>1, RowRecorded
<1>7. sided \in Books /\ SameCounters(old, sided)
  BY <1>2, SidelineBooks
<1> HIDE DEF fails, pause, sided, count
<1>8. /\ b \in Books /\ b.startup = pause /\ b.startupFails = fails
      /\ b.fleet = old.fleet /\ b.fleetDead = old.fleetDead
  BY <1>2, <1>3, <1>4, <1>7 DEF Books, SameCounters
<1> HIDE DEF b
<1>9. tgt'[cursor] = b /\ \A j \in Targets \ {cursor} : tgt'[j] = tgt[j]
  BY <1>1, CursorBooks DEF Inv, TypeOK
<1>10. plane' \in [Targets -> PlaneRows]
  BY <1>1, <1>6 DEF Inv, TypeOK, PlaneRows
<1>11. tgt' \in [Targets -> Books]
  BY <1>1, <1>8 DEF Inv, TypeOK
<1>12. TypeOK'
  BY <1>1, <1>10, <1>11, BoundsAssumption DEF Inv, TypeOK, Places, NotDying, history
<1>13. PausesAreEarned' /\ BlindNeverPauses'
  BY <1>4, <1>5, <1>8, <1>9 DEF Inv, PausesAreEarned, BlindNeverPauses
<1>14. NoSessionWhileHeldBack' /\ CandidatesAdmissible'
  BY <1>1 DEF Inv, NoSessionWhileHeldBack, InDrain, CandidatesAdmissible
<1> QED
  BY <1>12, <1>13, <1>14 DEF Inv

LEMMA StutterInv == ASSUME Inv, UNCHANGED vars PROVE Inv'
  BY DEF vars, driver, history, Inv, TypeOK, PausesAreEarned, NoSessionWhileHeldBack, InDrain,
         CandidatesAdmissible, BlindNeverPauses, Admissible

\* Every step of Run, and of the world around it, preserves the invariant.
LEMMA NextInv ==
  ASSUME Inv, [Next]_vars
  PROVE  Inv'
<1>1. CASE LoopStep
  <2>1. CASE PollStep
    BY <2>1, PollNothingInv, PollOpenInv DEF PollStep
  <2>2. CASE \E i \in Targets : StartDrain(i)
    BY <2>2, StartDrainInv
  <2> QED
    BY <1>1, <2>1, <2>2, MoveInv DEF LoopStep
<1>2. CASE DrainStep
  <2>1. CASE \E t \in Tasks : \/ PhaseParked(t) \/ PhaseDies(t)
                              \/ \E filing \in Filings : FleetTrips(t, filing)
    BY <2>1, PhaseParkedInv, PhaseDiesInv, FleetTripsInv
  <2>2. CASE DrainReturns
    BY <2>2, OverlayBudgetStopsInv, DrainSucceedsInv, DrainFailsInv DEF DrainReturns
  <2> QED
    BY <1>2, <2>1, <2>2, ImplementSucceedsInv, HandoffAcceptedInv DEF DrainStep
<1>3. CASE PlaneStep
  BY <1>3, PlaneMovesInv
  DEF PlaneStep, WorkSettles, WorkReturns, QuestionAsked, QuestionAnswered, FleetAnswered,
      StartupAnswered, QueueTurns, ConsoleToggles
<1>4. CASE Tick
  BY <1>4, TickInv
<1>5. CASE UNCHANGED vars
  BY <1>5, StutterInv
<1> QED
  BY <1>1, <1>2, <1>3, <1>4, <1>5 DEF Next

\* The scheduling loop keeps its books in order: Inv holds in every reachable
\* state, for any number of targets and any bounds.
THEOREM RunLoopInv == Spec => []Inv
<1>1. Inv /\ [Next]_vars => Inv'
  BY NextInv
<1> QED
  BY InitInv, <1>1, PTL DEF Spec

\* Type correctness of the loop's state.
THEOREM RunLoopTypeOK == Spec => []TypeOK
<1>1. Inv => TypeOK
  BY DEF Inv
<1> QED
  BY <1>1, RunLoopInv, PTL

\* A pause is in force exactly while its question is raised, and only at a full
\* count of the failures that earn it (the poll gate, fleetTrip, startupTrip).
THEOREM RunLoopPausesAreEarned == Spec => []PausesAreEarned
<1>1. Inv => PausesAreEarned
  BY DEF Inv
<1> QED
  BY <1>1, RunLoopInv, PTL

\* No session runs for a target that sits out or is paused (the admission in
\* Run, and everything that may change between it and the end of the drain).
THEOREM RunLoopNoSessionWhileHeldBack == Spec => []NoSessionWhileHeldBack
<1>1. Inv => NoSessionWhileHeldBack
  BY DEF Inv
<1> QED
  BY <1>1, RunLoopInv, PTL

-----------------------------------------------------------------------------
(* The rotation.  How far a target is ahead of the cursor, a lap for the   *)
(* cursor itself, is what it can still be passed over.                     *)

Distance(c, i) == IF i > c THEN i - c ELSE i - c + NumTargets

RotationInv ==
  /\ TypeOK
  /\ \A i \in Targets : passed[i] + Distance(cursor, i) <= NumTargets

LEMMA DistanceAhead ==
  ASSUME NEW c \in Targets, NEW i \in Targets
  PROVE  /\ Distance(c, i) \in 1 .. NumTargets
         /\ Ahead(c, Distance(c, i)) = i
         /\ \A k \in 1 .. NumTargets : Ahead(c, k) = i => k = Distance(c, i)
<1>1. Distance(c, i) \in 1 .. NumTargets
  BY TargetsAssumption DEF Distance, Targets
<1>2. \A k \in 1 .. NumTargets :
        Ahead(c, k) = IF c + k < NumTargets THEN c + k ELSE c + k - NumTargets
  BY AheadOnRing
<1> QED
  BY <1>1, <1>2, TargetsAssumption DEF Distance, Targets

\* The target chosen is the nearest drivable one, so any other drivable target
\* comes closer by the length of the step.
LEMMA ChosenIsNearest ==
  ASSUME NEW S \in SUBSET Targets, TypeOK, NEW i \in Targets, IsNext(i, S),
         NEW j \in S \ {i}
  PROVE  Distance(i, j) = Distance(cursor, j) - Distance(cursor, i)
<1> DEFINE di == Distance(cursor, i)
           dj == Distance(cursor, j)
<1>1. cursor \in Targets /\ j \in Targets /\ i # j
  BY DEF TypeOK
<1>2. /\ di \in 1 .. NumTargets /\ Ahead(cursor, di) = i
      /\ dj \in 1 .. NumTargets /\ Ahead(cursor, dj) = j
  BY <1>1, DistanceAhead
<1>3. PICK k \in 1 .. NumTargets :
        /\ i = Ahead(cursor, k)
        /\ \A m \in 1 .. k - 1 : Ahead(cursor, m) \notin S
  BY DEF IsNext
<1>4. k = di
  BY <1>1, <1>3, DistanceAhead
<1>5. dj > di
  <2> HIDE DEF di, dj
  <2>1. dj \notin 1 .. k - 1
    BY <1>2, <1>3
  <2>2. dj # di
    BY <1>1, <1>2
  <2> QED
    BY <1>2, <1>4, <2>1, <2>2
<1> QED
  BY <1>1, <1>5, TargetsAssumption DEF Distance, Targets

LEMMA StartDrainRotation ==
  ASSUME Inv, RotationInv, NEW i \in Targets, StartDrain(i)
  PROVE  \A j \in Targets : passed'[j] + Distance(cursor', j) <= NumTargets
<1> SUFFICES ASSUME NEW j \in Targets
             PROVE  passed'[j] + Distance(cursor', j) <= NumTargets
  OBVIOUS
<1>1. /\ IsNext(i, Drivable) /\ cursor' = i
      /\ passed'[j] = IF j \in Drivable \ {i}
                      THEN Saturate(passed[j] + 1, NumTargets) ELSE 0
  BY DEF StartDrain
<1>2. Drivable \in SUBSET Targets /\ cursor \in Targets /\ TypeOK
  BY DEF Drivable, Inv, TypeOK
<1>3. CASE j \in Drivable \ {i}
  <2>1. Distance(i, j) = Distance(cursor, j) - Distance(cursor, i)
    BY <1>1, <1>2, <1>3, ChosenIsNearest
  <2>2. /\ Distance(cursor, i) \in 1 .. NumTargets
        /\ Distance(cursor, j) \in 1 .. NumTargets
    BY <1>2, DistanceAhead
  <2>3. passed[j] \in Nat /\ passed[j] + Distance(cursor, j) <= NumTargets
    BY TargetsAssumption DEF RotationInv, TypeOK
  <2>4. passed'[j] \in Nat /\ passed'[j] <= passed[j] + 1
    BY <1>1, <1>3, <2>3, TargetsAssumption DEF Saturate
  <2> QED
    BY <1>1, <2>1, <2>2, <2>3, <2>4, TargetsAssumption
<1>4. CASE j \notin Drivable \ {i}
  BY <1>1, <1>2, <1>4, DistanceAhead, TargetsAssumption
<1> QED
  BY <1>3, <1>4

\* Every other step leaves the cursor and the count of passes alone.
LEMMA OtherStepsKeepRotation ==
  ASSUME [Next]_vars, \A i \in Targets : ~StartDrain(i)
  PROVE  UNCHANGED <<cursor, passed>>
<1>1. CASE LoopStep
  BY <1>1
  DEF LoopStep, StartSweep, PollStep, PollPaused, PollOpen, PollError, PollRefused,
      NothingToDrive, IdleOver, ControlStops, BudgetStops, CeilingStops,
      IdleStopped, history
<1>2. CASE DrainStep
  BY <1>2
  DEF DrainStep, PhaseParked, PhaseDies, FleetTrips, CountDeath, ImplementSucceeds,
      HandoffAccepted, DrainReturns, OverlayBudgetStops, DrainSucceeds, DrainStops,
      DrainFails, DrainOver, history
<1>3. CASE PlaneStep
  BY <1>3
  DEF PlaneStep, WorkSettles, WorkReturns, QuestionAsked, QuestionAnswered, FleetAnswered,
      StartupAnswered, QueueTurns, ConsoleToggles, PlaneMoves, driver, history
<1>4. CASE Tick \/ UNCHANGED vars
  BY <1>4 DEF Tick, vars, driver, history
<1> QED
  BY <1>1, <1>2, <1>3, <1>4 DEF Next

\* Round robin (the walk from the cursor in Run): a target found drivable every
\* time is passed over fewer times than there are targets.
THEOREM RunLoopRotation == Spec => []NoTargetPassedOver
<1>1. Init => RotationInv
  <2> SUFFICES ASSUME Init PROVE RotationInv
    OBVIOUS
  <2>1. TypeOK
    BY InitInv DEF Inv
  <2>2. \A i \in Targets : passed[i] = 0 /\ Distance(cursor, i) \in 1 .. NumTargets
    BY <2>1, DistanceAhead DEF Init, TypeOK
  <2> QED
    BY <2>1, <2>2, TargetsAssumption DEF RotationInv
<1>2. Inv /\ RotationInv /\ [Next]_vars => RotationInv'
  <2> SUFFICES ASSUME Inv, RotationInv, [Next]_vars PROVE RotationInv'
    OBVIOUS
  <2>1. TypeOK'
    BY NextInv DEF Inv
  <2>2. CASE \E i \in Targets : StartDrain(i)
    BY <2>1, <2>2, StartDrainRotation DEF RotationInv
  <2>3. CASE \A i \in Targets : ~StartDrain(i)
    BY <2>1, <2>3, OtherStepsKeepRotation DEF RotationInv
  <2> QED
    BY <2>2, <2>3
<1>3. RotationInv => NoTargetPassedOver
  <2> SUFFICES ASSUME RotationInv, NEW i \in Targets PROVE passed[i] < NumTargets
    BY DEF NoTargetPassedOver
  <2>1. /\ passed[i] \in Nat /\ cursor \in Targets
        /\ passed[i] + Distance(cursor, i) <= NumTargets
    BY TargetsAssumption DEF RotationInv, TypeOK
  <2>2. Distance(cursor, i) \in 1 .. NumTargets
    BY <2>1, DistanceAhead
  <2> QED
    BY <2>1, <2>2, TargetsAssumption
<1> QED
  BY <1>1, <1>2, <1>3, RunLoopInv, PTL DEF Spec

-----------------------------------------------------------------------------
(* The ceiling on iterations: below it whenever a drain may still start.   *)

CeilingInv ==
  MaxIterations > 0 => /\ drains <= MaxIterations
                       /\ pc \in {"sweep", "choose"} => drains < MaxIterations

LEMMA CeilingStep ==
  ASSUME Inv, CeilingInv, [Next]_vars
  PROVE  CeilingInv'
<1> USE BoundsAssumption DEF CeilingInv
<1>1. drains \in Nat
  BY DEF Inv, TypeOK
<1>2. CASE \E i \in Targets : StartDrain(i)
  BY <1>1, <1>2 DEF StartDrain
<1>3. CASE StartSweep
  BY <1>1, <1>3 DEF StartSweep, AtCeiling
<1>4. CASE PollStep
  BY <1>1, <1>4
  DEF PollStep, PollPaused, PollOpen, PollError, PollRefused, Polling, NextPoll, Stop
<1>5. CASE \/ ControlStops \/ BudgetStops \/ CeilingStops
           \/ NothingToDrive \/ IdleOver \/ IdleStopped
  BY <1>5 DEF ControlStops, BudgetStops, CeilingStops, NothingToDrive,
              IdleOver, IdleStopped, Stop
<1>6. CASE HandoffAccepted
  BY <1>1, <1>6 DEF HandoffAccepted
<1>7. CASE DrainReturns
  BY <1>7 DEF DrainReturns, OverlayBudgetStops, DrainSucceeds, DrainStops, DrainFails,
              DrainOver, AfterDrain, Stop
<1>8. CASE ImplementSucceeds \/ \E t \in Tasks :
             PhaseParked(t) \/ PhaseDies(t) \/ \E filing \in Filings : FleetTrips(t, filing)
  BY <1>8 DEF PhaseParked, PhaseDies, FleetTrips, CountDeath, ImplementSucceeds
<1>9. CASE PlaneStep \/ Tick \/ UNCHANGED vars
  BY <1>9
  DEF PlaneStep, WorkSettles, WorkReturns, QuestionAsked, QuestionAnswered, FleetAnswered,
      StartupAnswered, QueueTurns, ConsoleToggles, PlaneMoves, Tick, vars, driver
<1> QED
  BY <1>2, <1>3, <1>4, <1>5, <1>6, <1>7, <1>8, <1>9 DEF Next, LoopStep, DrainStep

\* --max-iterations holds whatever the drains' handoffs add (the check at the
\* top of Run, and the refusal of a handoff in drainPhases).
THEOREM RunLoopIterationCeiling == Spec => []IterationCeiling
<1>1. Init => CeilingInv
  BY BoundsAssumption DEF Init, CeilingInv
<1>2. CeilingInv => IterationCeiling
  BY DEF CeilingInv, IterationCeiling
<1>3. Inv /\ CeilingInv /\ [Next]_vars => CeilingInv'
  BY CeilingStep
<1> QED
  BY <1>1, <1>2, <1>3, RunLoopInv, PTL DEF Spec

-----------------------------------------------------------------------------
(* The books on failures.  SitsOutForFailure is what a run that cannot poll *)
(* knows of a target that sits out; an end is final.                       *)

SitsOutForFailure ==
  ~Wired => \A i \in Targets : tgt[i].sitOut > 0 => tgt[i].harnessFails > 0

BlindNeverPolls == ~Wired => pc # "sweep"

EndIsFinal == ended # "none" => pc = "done"

BooksInv ==
  /\ DeadCounterHasTasks /\ SitsOutForFailure /\ BlindNeverPolls
  /\ EndIsFinal /\ FailingMeansAllFailing

\* What a poll's verdict does to a target's sit-out and no-progress account.
LEMMA JudgedAccounts ==
  ASSUME TypeOK, NEW i \in Targets
  PROVE  LET b == Judged(i)
             old == tgt[i]
         IN  /\ b.quietTokens > old.quietTokens =>
                  old.pending /\ ~b.pending /\ plane[i].settled <= old.baseline
             /\ b.sitOut > old.sitOut =>
                  /\ old.pending /\ openQuestions(i) >= old.openQs
                  /\ b.quietTokens >= QuietTokens
<1> DEFINE b == tgt[i]
           open == openQuestions(i)
           settled == settledNow(i)
           charged == Charged(b)
           wait == QuietWait(charged)
<1>1. /\ open \in Nat /\ settled \in Nat /\ charged \in Nat /\ wait \in 0 .. BackoffCap
      /\ settled = plane[i].settled
  BY OpenQuestionsIsNat, ChargedIsNat, QuietWaitBounds DEF TypeOK, settledNow
<1>2. b \in Books /\ QuietTokens \in Nat \ {0}
  BY BoundsAssumption DEF TypeOK
<1> DEFINE j == judgeProgress(b, i)
<1>3. Judged(i) = [j EXCEPT !.fleet = Lift(j.fleet, i), !.startup = Lift(j.startup, i)]
  BY DEF Judged
<1>4. j \in Books
  BY <1>2, JudgeBooks
<1>5. j = IF b.pending
          THEN IF settled > b.baseline
               THEN [b EXCEPT !.pending = FALSE, !.spent = 0, !.quietTokens = 0,
                              !.baseline = settled, !.openQs = open]
               ELSE [b EXCEPT !.pending = FALSE, !.spent = 0, !.quietTokens = charged,
                              !.sitOut = IF charged < QuietTokens \/ open < b.openQs THEN @ ELSE wait,
                              !.baseline = settled, !.openQs = open]
          ELSE j
  BY <1>2 DEF judgeProgress, Verdict, Book, DrainOff, Books
<1>6. ~b.pending => j.quietTokens \in {0, b.quietTokens} /\ j.sitOut \in {0, b.sitOut}
  BY <1>2 DEF judgeProgress, Notice, Forget, Book, Books
<1> HIDE DEF j, open, settled, charged, wait
<1>7. /\ Judged(i).quietTokens = j.quietTokens /\ Judged(i).sitOut = j.sitOut
      /\ Judged(i).pending = j.pending
  BY <1>3, <1>4 DEF Books
<1>8. CASE b.pending
  <2>1. CASE settled > b.baseline
    <3>1. j.quietTokens = 0 /\ j.sitOut = b.sitOut
      BY <1>2, <1>5, <1>8, <2>1 DEF Books
    <3> QED
      BY <1>2, <1>7, <3>1, LadderAssumption DEF Books
  <2>2. CASE ~(settled > b.baseline)
    <3>1. /\ j.quietTokens = charged /\ ~j.pending
          /\ j.sitOut = IF charged < QuietTokens \/ open < b.openQs THEN b.sitOut ELSE wait
      BY <1>2, <1>5, <1>8, <2>2 DEF Books
    <3> QED
      BY <1>1, <1>2, <1>7, <1>8, <2>2, <3>1, LadderAssumption DEF Books, open
  <2> QED
    BY <2>1, <2>2
<1>9. CASE ~b.pending
  BY <1>1, <1>2, <1>6, <1>7, <1>9 DEF Books
<1> QED
  BY <1>8, <1>9

\* What a step does to the deaths, to the sit-outs and to the account of target i.
DeathsKept(i) == tgt'[i].fleetDead = tgt[i].fleetDead /\ died'[i] = died[i]
AccountKept(i) == tgt'[i].quietTokens = tgt[i].quietTokens
SitOutKept(i) == tgt'[i].sitOut = tgt[i].sitOut /\ tgt'[i].harnessFails = tgt[i].harnessFails

\* The steps outside a poll and a drain keep all three, but for the clock.
LEMMA QuietSteps ==
  ASSUME TypeOK, [Next]_vars, ~PollStep, ~DrainStep, ~Tick, NEW i \in Targets
  PROVE  DeathsKept(i) /\ AccountKept(i) /\ SitOutKept(i)
<1> USE DEF DeathsKept, AccountKept, SitOutKept
<1>1. CASE \E k \in Targets : StartDrain(k)
  BY <1>1 DEF StartDrain, TypeOK, Books
<1>2. CASE LoopStep /\ ~\E k \in Targets : StartDrain(k)
  BY <1>2 DEF LoopStep, StartSweep, NothingToDrive, IdleOver, ControlStops, BudgetStops,
              CeilingStops, IdleStopped, history
<1>3. CASE PlaneStep
  BY <1>3
  DEF PlaneStep, WorkSettles, WorkReturns, QuestionAsked, QuestionAnswered, FleetAnswered,
      StartupAnswered, QueueTurns, ConsoleToggles, PlaneMoves, driver, history
<1>4. CASE UNCHANGED vars
  BY <1>4 DEF vars, driver, history
<1> QED
  BY <1>1, <1>2, <1>3, <1>4 DEF Next

LEMMA TickAccounts ==
  ASSUME TypeOK, Tick, NEW i \in Targets
  PROVE  /\ DeathsKept(i) /\ AccountKept(i)
         /\ tgt'[i].harnessFails = tgt[i].harnessFails
         /\ tgt[i].sitOut = 0 => tgt'[i].sitOut = 0
         /\ ~(tgt'[i].sitOut > tgt[i].sitOut)
<1>1. tgt[i] \in Books /\ died' = died
  BY DEF TypeOK, Tick, history
<1>2. tgt'[i] = [tgt[i] EXCEPT !.sitOut = IF @ = 0 THEN 0 ELSE @ - 1]
  BY DEF Tick
<1> QED
  BY <1>1, <1>2, LadderAssumption DEF Books, DeathsKept, AccountKept

LEMMA PollAccounts ==
  ASSUME TypeOK, PollStep, NEW i \in Targets
  PROVE  /\ DeathsKept(i)
         /\ tgt'[i].quietTokens > tgt[i].quietTokens =>
              tgt[i].pending /\ ~tgt'[i].pending /\ plane[i].settled <= tgt[i].baseline
         /\ tgt'[i].sitOut > tgt[i].sitOut =>
              /\ tgt[i].pending /\ ~plane[i].paused
              /\ openQuestions(i) >= tgt[i].openQs /\ tgt'[i].quietTokens >= QuietTokens
<1>1. tgt[i] \in Books
  BY DEF TypeOK
<1>2. CASE UNCHANGED <<tgt, died>>
  BY <1>1, <1>2, LadderAssumption DEF DeathsKept, Books
<1>3. CASE \E k \in Targets : PollOpen(k)
  <2>1. PICK k \in Targets :
          tgt' = [tgt EXCEPT ![k] = Judged(k)] /\ died' = died /\ ~plane[k].paused
    BY <1>3 DEF PollOpen, history
  <2>2. CASE k = i
    BY <1>1, <2>1, <2>2, JudgedAccounts, JudgedBooks DEF DeathsKept, TypeOK
  <2>3. CASE k # i
    BY <1>1, <2>1, <2>3, LadderAssumption DEF DeathsKept, TypeOK, Books
  <2> QED
    BY <2>2, <2>3
<1> QED
  BY <1>2, <1>3 DEF PollStep, PollPaused, PollError, PollRefused, history

LEMMA FailureAccounts ==
  ASSUME TypeOK, NEW tokens, NEW filing, DrainFails(tokens, filing)
  PROVE  /\ pc = "drain" /\ died' = died
         /\ tgt'[cursor].harnessFails > 0
         /\ tgt'[cursor].fleetDead = tgt[cursor].fleetDead
         /\ tgt'[cursor].quietTokens = tgt[cursor].quietTokens
         /\ \A k \in Targets \ {cursor} : tgt'[k] = tgt[k]
<1>1. tgt \in [Targets -> Books] /\ cursor \in Targets
  BY DEF TypeOK
<1> DEFINE b == sidelineTarget(tgt[cursor])
<1>2. /\ Saturate(tgt[cursor].harnessFails + 1, FailTop) > 0
      /\ DOMAIN tgt[cursor] = DOMAIN b
      /\ b.fleetDead = tgt[cursor].fleetDead /\ b.quietTokens = tgt[cursor].quietTokens
      /\ b.harnessFails = Saturate(tgt[cursor].harnessFails + 1, FailTop)
  BY <1>1, LadderAssumption DEF Saturate, sidelineTarget, Books
<1> DEFINE fails == IF tokens = 0 THEN Saturate(tgt[cursor].startupFails + 1, StartupFailBound) ELSE 0
           pause == IF fails = StartupFailBound
                    THEN Tripped(tgt[cursor].startup, tgt[cursor].openQs, filing)
                    ELSE tgt[cursor].startup
<1>3. /\ pc = "drain" /\ died' = died
      /\ tgt' = [tgt EXCEPT ![cursor] =
                   [b EXCEPT !.spent = tokens, !.startupFails = fails, !.startup = pause]]
  BY DEF DrainFails, DrainOver, history
<1> HIDE DEF b, fails, pause
<1> QED
  BY <1>1, <1>2, <1>3

\* What a drain does to the accounts of a target: only its own failure sidelines it.
LEMMA DrainAccounts ==
  ASSUME Inv, DrainStep, NEW i \in Targets
  PROVE  /\ AccountKept(i)
         /\ \/ SitOutKept(i)
            \/ cursor = i /\ tgt[i].sitOut = 0 /\ tgt'[i].sitOut = 0
            \/ pc = "drain" /\ cursor = i /\ tgt'[i].harnessFails > 0
<1> USE DEF AccountKept, SitOutKept
<1>1. tgt \in [Targets -> Books] /\ cursor \in Targets
  BY DEF Inv, TypeOK
<1>2. CASE \E t \in Tasks : \/ PhaseParked(t) \/ PhaseDies(t)
                            \/ \E filing \in Filings : FleetTrips(t, filing)
  BY <1>1, <1>2 DEF PhaseParked, PhaseDies, FleetTrips, Books
<1>3. CASE ImplementSucceeds \/ HandoffAccepted \/ OverlayBudgetStops
  BY <1>1, <1>3 DEF ImplementSucceeds, HandoffAccepted, OverlayBudgetStops, Books
<1>4. CASE \E tokens \in Spends : DrainSucceeds(tokens) \/ DrainStops(tokens)
  <2>1. InDrain
    BY <1>4 DEF DrainSucceeds, DrainStops, InDrain
  <2>2. tgt[cursor].sitOut = 0
    BY <2>1 DEF Inv, NoSessionWhileHeldBack
  <2> QED
    BY <1>1, <1>4, <2>2 DEF DrainSucceeds, DrainStops, BookSuccess, Books
<1>5. CASE \E tokens \in Spends, filing \in Filings : DrainFails(tokens, filing)
  BY <1>1, <1>5, FailureAccounts DEF Inv
<1> QED
  BY <1>2, <1>3, <1>4, <1>5 DEF DrainStep, DrainReturns

LEMMA DrainDeaths ==
  ASSUME Inv, DeadCounterHasTasks, DrainStep, NEW i \in Targets
  PROVE  tgt'[i].fleetDead > 0 <=> died'[i] # {}
<1>1. /\ tgt \in [Targets -> Books] /\ cursor \in Targets
      /\ died \in [Targets -> SUBSET Tasks]
      /\ tgt[i].fleetDead > 0 <=> died[i] # {}
  BY DEF Inv, TypeOK, DeadCounterHasTasks
<1>2. Deaths > 0
  BY <1>1, BoundsAssumption DEF Deaths, Saturate, Books
<1>3. ASSUME NEW t \in Tasks PROVE died[cursor] \cup {t} # {}
  OBVIOUS
<1>4. CASE \E t \in Tasks : PhaseParked(t)
  BY <1>1, <1>4 DEF PhaseParked, history
<1>5. CASE \E t \in Tasks : PhaseDies(t) \/ \E filing \in Filings : FleetTrips(t, filing)
  <2>1. PICK t \in Tasks : /\ died' = [died EXCEPT ![cursor] = @ \cup {t}]
                           /\ tgt'[cursor].fleetDead = Deaths
                           /\ \A k \in Targets \ {cursor} : tgt'[k] = tgt[k]
    BY <1>1, <1>5 DEF PhaseDies, FleetTrips, CountDeath, Books
  <2> QED
    BY <1>1, <1>2, <1>3, <2>1
<1>6. CASE ImplementSucceeds
  BY <1>1, <1>6 DEF ImplementSucceeds, Books
<1>7. CASE HandoffAccepted \/ OverlayBudgetStops
  BY <1>1, <1>7 DEF HandoffAccepted, OverlayBudgetStops, DrainOver, history
<1>8. CASE \E tokens \in Spends : DrainSucceeds(tokens) \/ DrainStops(tokens)
  BY <1>1, <1>8 DEF DrainSucceeds, DrainStops, BookSuccess, DrainOver, history, Books
<1>9. CASE \E tokens \in Spends, filing \in Filings : DrainFails(tokens, filing)
  BY <1>1, <1>9, FailureAccounts DEF Inv
<1> QED
  BY <1>4, <1>5, <1>6, <1>7, <1>8, <1>9 DEF DrainStep, DrainReturns

LEMMA DeathsHaveTasks ==
  ASSUME Inv, DeadCounterHasTasks, [Next]_vars
  PROVE  DeadCounterHasTasks'
<1> SUFFICES ASSUME NEW i \in Targets
             PROVE  tgt'[i].fleetDead > 0 <=> died'[i] # {}
  BY DEF DeadCounterHasTasks
<1>1. TypeOK /\ (tgt[i].fleetDead > 0 <=> died[i] # {})
  BY DEF Inv, DeadCounterHasTasks
<1> QED
  BY <1>1, QuietSteps, TickAccounts, PollAccounts, DrainDeaths DEF DeathsKept

\* Who cannot poll has nothing but failures to sit out for.
LEMMA SitsOutStep ==
  ASSUME Inv, SitsOutForFailure, BlindNeverPolls, [Next]_vars
  PROVE  SitsOutForFailure'
<1> SUFFICES ASSUME ~Wired, NEW i \in Targets, tgt'[i].sitOut > 0
             PROVE  tgt'[i].harnessFails > 0
  BY DEF SitsOutForFailure
<1>1. TypeOK /\ (tgt[i].sitOut > 0 => tgt[i].harnessFails > 0) /\ tgt[i] \in Books
  BY DEF Inv, TypeOK, SitsOutForFailure
<1>2. ~PollStep
  BY DEF BlindNeverPolls, PollStep, PollPaused, PollOpen, PollError, PollRefused, Polling
<1>3. CASE Tick
  <2>1. tgt'[i].harnessFails = tgt[i].harnessFails /\ (tgt[i].sitOut = 0 => tgt'[i].sitOut = 0)
    BY <1>1, <1>3, TickAccounts
  <2> QED
    BY <1>1, <2>1, LadderAssumption DEF Books
<1>4. CASE DrainStep
  BY <1>1, <1>4, DrainAccounts DEF SitOutKept
<1> QED
  BY <1>1, <1>2, <1>3, <1>4, QuietSteps DEF SitOutKept

LEMMA DoneIsOver ==
  ASSUME pc = "done", [Next]_vars
  PROVE  UNCHANGED vars
<1>1. ~LoopStep
  BY DEF LoopStep, StartSweep, PollStep, PollPaused, PollOpen, PollError, PollRefused, Polling,
         StartDrain, NothingToDrive, IdleOver, ControlStops, BudgetStops, CeilingStops, IdleStopped
<1>2. ~DrainStep
  BY DEF DrainStep, PhaseParked, PhaseDies, FleetTrips, CountDeath, ImplementSucceeds,
         HandoffAccepted, DrainReturns, OverlayBudgetStops, DrainSucceeds, DrainStops, DrainFails
<1>3. ~PlaneStep
  BY DEF PlaneStep, WorkSettles, WorkReturns, QuestionAsked, QuestionAnswered, FleetAnswered,
         StartupAnswered, QueueTurns, ConsoleToggles, PlaneMoves
<1> QED
  BY <1>1, <1>2, <1>3 DEF Next, Tick

\* A run ends with an ending, and gives up from a blind lap or a drain's failure only.
LEMMA EndingSteps ==
  ASSUME Inv, BlindNeverPolls, EndIsFinal, pc # "done", [Next]_vars
  PROVE  /\ BlindNeverPolls' /\ EndIsFinal'
         /\ ended' = "failing" =>
              \/ NothingToDrive /\ ~Wired
              \/ \E tokens \in Spends, filing \in Filings : DrainFails(tokens, filing)
<1> USE DEF BlindNeverPolls, EndIsFinal
<1>1. CASE \E i \in Targets : StartDrain(i)
  BY <1>1 DEF StartDrain
<1>2. CASE StartSweep
  BY <1>2 DEF StartSweep
<1>3. CASE PollStep
  BY <1>3 DEF PollStep, PollPaused, PollOpen, PollError, PollRefused, Polling, NextPoll, Stop
<1>4. CASE \/ ControlStops \/ BudgetStops \/ CeilingStops \/ IdleOver \/ IdleStopped
  BY <1>4 DEF ControlStops, BudgetStops, CeilingStops, IdleOver, IdleStopped, Stop
<1>5. CASE NothingToDrive
  BY <1>5 DEF NothingToDrive, Stop
<1>6. CASE \/ ImplementSucceeds \/ HandoffAccepted \/ OverlayBudgetStops
           \/ \E tokens \in Spends : DrainSucceeds(tokens) \/ DrainStops(tokens)
  BY <1>6 DEF ImplementSucceeds, HandoffAccepted, OverlayBudgetStops, DrainSucceeds,
              DrainStops, AfterDrain, Stop
<1>7. CASE \E tokens \in Spends, filing \in Filings : DrainFails(tokens, filing)
  BY <1>7 DEF DrainFails, AfterDrain, Stop
<1>8. CASE \E t \in Tasks : PhaseParked(t) \/ PhaseDies(t) \/ \E filing \in Filings : FleetTrips(t, filing)
  BY <1>8 DEF PhaseParked, PhaseDies, FleetTrips, CountDeath
<1>9. CASE PlaneStep \/ Tick \/ UNCHANGED vars
  BY <1>9
  DEF PlaneStep, WorkSettles, WorkReturns, QuestionAsked, QuestionAnswered, FleetAnswered,
      StartupAnswered, QueueTurns, ConsoleToggles, PlaneMoves, Tick, vars, driver
<1> QED
  BY <1>1, <1>2, <1>3, <1>4, <1>5, <1>6, <1>7, <1>8, <1>9 DEF Next, LoopStep, DrainStep, DrainReturns

LEMMA BooksStep ==
  ASSUME Inv, BooksInv, [Next]_vars
  PROVE  BooksInv'
<1>1. DeadCounterHasTasks' /\ SitsOutForFailure'
  BY DeathsHaveTasks, SitsOutStep DEF BooksInv
<1>2. CASE pc = "done"
  BY <1>1, <1>2, DoneIsOver
  DEF BooksInv, BlindNeverPolls, EndIsFinal, FailingMeansAllFailing, vars, driver
<1>3. CASE pc # "done"
  <2>1. BlindNeverPolls' /\ EndIsFinal'
    BY <1>3, EndingSteps DEF BooksInv
  <2>2. CASE NothingToDrive /\ ~Wired
    <3>1. \A i \in Targets : tgt[i].sitOut # 0 /\ tgt[i] \in Books
      BY <2>2 DEF NothingToDrive, Drivable, Inv, TypeOK
    <3>2. \A i \in Targets : tgt[i].sitOut > 0
      BY <3>1, LadderAssumption DEF Books
    <3>3. \A i \in Targets : tgt[i].harnessFails > 0
      BY <2>2, <3>2 DEF BooksInv, SitsOutForFailure
    <3>4. \A i \in Targets : ~tgt[i].fleet.paused /\ ~tgt[i].startup.paused
      BY <2>2 DEF Inv, BlindNeverPauses
    <3>5. tgt' = tgt
      BY <2>2 DEF NothingToDrive
    <3>6. FailingMeansAllFailing'
      BY <3>2, <3>3, <3>4, <3>5 DEF FailingMeansAllFailing
    <3> QED
      BY <1>1, <2>1, <3>6 DEF BooksInv
  <2>3. CASE \E tokens \in Spends, filing \in Filings : DrainFails(tokens, filing)
    <3>1. (\A i \in Targets : Sidelined(tgt'[i])) \/ ended' = ended
      BY <2>3 DEF DrainFails
    <3>2. ended = "none"
      BY <1>3 DEF BooksInv, EndIsFinal
    <3>3. FailingMeansAllFailing'
      BY <3>1, <3>2 DEF FailingMeansAllFailing, Sidelined
    <3> QED
      BY <1>1, <2>1, <3>3 DEF BooksInv
  <2> QED
    BY <1>1, <1>3, <2>1, <2>2, <2>3, EndingSteps DEF BooksInv, FailingMeansAllFailing
<1> QED
  BY <1>2, <1>3

\* A drain's spend is charged once, by its verdict (judgeProgress), and a target is made
\* to sit out by its own failure or a fruitless drain only (sidelineTarget).
LEMMA AccountsStep ==
  ASSUME Inv, [Next]_vars, NEW i \in Targets
  PROVE  /\ tgt'[i].quietTokens > tgt[i].quietTokens =>
              tgt[i].pending /\ ~tgt'[i].pending /\ plane[i].settled <= tgt[i].baseline
         /\ tgt'[i].sitOut > tgt[i].sitOut =>
              \/ pc = "drain" /\ cursor = i /\ tgt'[i].harnessFails > 0
              \/ /\ tgt[i].pending /\ ~plane[i].paused
                 /\ openQuestions(i) >= tgt[i].openQs
                 /\ tgt'[i].quietTokens >= QuietTokens
<1>1. TypeOK /\ tgt[i] \in Books
  BY DEF Inv, TypeOK
<1>2. /\ ~(tgt[i].quietTokens > tgt[i].quietTokens) /\ ~(tgt[i].sitOut > tgt[i].sitOut) /\ ~(0 > 0)
  BY <1>1, LadderAssumption DEF Books
<1>3. CASE PollStep
  BY <1>1, <1>3, PollAccounts
<1>4. CASE DrainStep
  BY <1>2, <1>4, DrainAccounts DEF AccountKept, SitOutKept
<1>5. CASE Tick
  BY <1>1, <1>2, <1>5, TickAccounts DEF AccountKept
<1> QED
  BY <1>1, <1>2, <1>3, <1>4, <1>5, QuietSteps DEF AccountKept, SitOutKept

\* The books on failures are honest, whatever targets, tasks and bounds there are: deaths
\* belong to tasks, a run gives up only when every harness fails, and spends and sit-outs
\* are booked for what happened (drainPhases, judgeProgress, sidelineTarget, Run).
THEOREM RunLoopBooksAreHonest == Spec => BooksAreHonest
<1>1. Init => BooksInv
  BY TargetsAssumption
  DEF Init, BooksInv, DeadCounterHasTasks, SitsOutForFailure, BlindNeverPolls, EndIsFinal,
      FailingMeansAllFailing, Unpaused
<1>2. Inv /\ BooksInv /\ [Next]_vars => BooksInv'
  BY BooksStep
<1>3. BooksInv => DeadCounterHasTasks /\ FailingMeansAllFailing
  BY DEF BooksInv
<1>4. Spec => [](DeadCounterHasTasks /\ FailingMeansAllFailing)
  BY <1>1, <1>2, <1>3, RunLoopInv, PTL DEF Spec
<1>5. Spec => ChargedOncePerDrain
  <2>1. Inv /\ [Next]_vars =>
          [\A i \in Targets :
             tgt'[i].quietTokens > tgt[i].quietTokens =>
               /\ tgt[i].pending /\ ~tgt'[i].pending
               /\ plane[i].settled <= tgt[i].baseline]_vars
    BY AccountsStep
  <2> QED
    BY <2>1, RunLoopInv, PTL DEF Spec, ChargedOncePerDrain
<1>6. Spec => SitOutsAreEarned
  <2>1. Inv /\ [Next]_vars =>
          [\A i \in Targets :
             tgt'[i].sitOut > tgt[i].sitOut =>
               \/ pc = "drain" /\ cursor = i /\ tgt'[i].harnessFails > 0
               \/ /\ tgt[i].pending /\ ~plane[i].paused
                  /\ openQuestions(i) >= tgt[i].openQs
                  /\ tgt'[i].quietTokens >= QuietTokens]_vars
    BY AccountsStep
  <2> QED
    BY <2>1, RunLoopInv, PTL DEF Spec, SitOutsAreEarned
<1> QED
  BY <1>4, <1>5, <1>6, PTL DEF BooksAreHonest

-----------------------------------------------------------------------------
(* What the runs check, of any number of targets and any bounds.           *)

\* Pauses are earned and no session runs for a target held back (fleetTrip, startupTrip,
\* the poll gate, the end of a drain).
THEOREM RunLoopHeldBack == Spec => []HeldBackIsEarned
<1>1. PausesAreEarned /\ NoSessionWhileHeldBack => HeldBackIsEarned
  BY DEF HeldBackIsEarned
<1> QED
  BY <1>1, RunLoopPausesAreEarned, RunLoopNoSessionWhileHeldBack, PTL

\* The counters keep their ranges, drains and their handoffs stay below the ceiling, and
\* the rotation passes no target over twice for one other (Run, chooseTarget).
THEOREM RunLoopCountsHold == Spec => []CountsHold
<1>1. TypeOK /\ IterationCeiling /\ NoTargetPassedOver => CountsHold
  BY DEF CountsHold
<1> QED
  BY <1>1, RunLoopTypeOK, RunLoopIterationCeiling, RunLoopRotation, PTL

=============================================================================
