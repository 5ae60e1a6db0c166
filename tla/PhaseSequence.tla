---------------------------- MODULE PhaseSequence ----------------------------
(***************************************************************************)
(* One drain of one target: Driver.drainPhases runs the configured phases  *)
(* (implement, review, fix, verify) as one session after another on ONE    *)
(* claim, and Driver.drainPhase runs a phase: it spawns the session, reads *)
(* what the session left behind, and decides between a checkpoint (the     *)
(* lease is kept for the next phase), a retry, and handing the claim back. *)
(* The plane, the sessions and the other clankers are external: they move  *)
(* the tasks in the ways the driver's reads and writes can meet.           *)
(*                                                                         *)
(* Panel members and sequences that fan out are not in this module:        *)
(* Phases names no panel seat.                                             *)
(***************************************************************************)
EXTENDS Integers, Sequences

CONSTANTS
  Configs,           \* the drains looked at: a configuration, the environment it
                     \* meets, and the bounds of both
  NoTask,
  DrainNum, MaxRetries,
  HandoffChainCap, PerTaskDeadBound, FleetDeadBound, ReviewRoundCap,
  UnclassifiedBound, ZeroSpendBound

Kinds == {"implement", "review", "fix", "verify"}
FaultKinds == {"read", "release", "close", "park", "branch", "reply", "budget"}
MoveKinds == {"foreign", "unseen", "settle", "nocode", "unpushed", "salvage",
              "handoff", "nomcp", "lapse", "take"}

\* How a session ends and what the adapter then classifies.  "clean", "capped",
\* "recovered" and "dead" ended by themselves; "killed" is the tool-loop kill.
ExitKinds ==
  ({"clean", "capped", "recovered", "dead", "killed"} \X {"fine", "limit", "credit"})
  \cup ({"dead", "failed"} \X {"transient", "odd", "fatal"})
  \cup ({"failed"} \X {"limit", "credit"})
  \cup {<<"untrusted", "fine">>, <<"nostart", "preflight">>, <<"nostart", "launch">>}

ASSUME ConfigsAssumption ==
  \A c \in Configs :
    /\ c.phases \in Seq(Kinds) /\ Len(c.phases) > 0
    /\ c.phases[1] = "review" => Len(c.phases) = 1
    /\ \A j \in 1 .. Len(c.phases) :
         c.phases[j] = "verify" => j > 2 /\ j = Len(c.phases) /\ c.phases[j - 1] = "fix"
    /\ c.ends \subseteq ExitKinds /\ c.faults \subseteq FaultKinds /\ c.moves \subseteq MoveKinds
    /\ NoTask \notin c.tasks
    /\ c.maxIterations \in Nat /\ c.countsSpend \in BOOLEAN
    /\ c.maxTip \in Nat \ {0} /\ c.maxRun \in Nat /\ c.maxRound \in Nat \ {0}
ASSUME BoundsAssumption ==
  /\ DrainNum \in Nat \ {0} /\ MaxRetries \in Nat
  /\ HandoffChainCap \in Nat /\ UnclassifiedBound \in Nat
  /\ PerTaskDeadBound \in Nat \ {0, 1} /\ FleetDeadBound \in 1 .. PerTaskDeadBound + 1
  /\ ReviewRoundCap \in Nat \ {0, 1} /\ ZeroSpendBound \in Nat \ {0}

VARIABLES
  conf,      \* the drain's configuration and environment: never changes
  task,      \* per task: the plane's row, with its durable review record
  pc,        \* where drainPhases, or the drainPhase it called, is
  i,         \* the phase
  carried,   \* the claim the sequence holds for the next phase
  cnt,       \* the counters and latches of drainPhases
  try,       \* the counters of the drainPhase call in flight
  res,       \* the session: what the driver has observed of it
  end,       \* phaseEnd: what the drainPhase call returns
  stop,      \* the drain stopped the run, or ended it with an error
  fleetDead, \* the Driver's consecutive dead phases on this target
  hist       \* history, for the properties alone

vars == <<conf, task, pc, i, carried, cnt, try, res, end, stop, fleetDead, hist>>

Phases == conf.phases               \* EffectivePhases: a sequence of Kinds
Tasks == conf.tasks
Ends == conf.ends                   \* how sessions may end, a subset of ExitKinds
Faults == conf.faults               \* which plane and git calls may fail
Moves == conf.moves                 \* what a session, or another clanker, may do
                                    \* beyond its brief
MaxIterations == conf.maxIterations
CountsSpend == conf.countsSpend     \* a spend ceiling is set: Budget.CountsSpendFor
MaxTip == conf.maxTip               \* bound: pushes to one task
MaxRun == conf.maxRun               \* bound: claims of one task
MaxRound == conf.maxRound           \* bound: review rounds of one task

Positions == 1 .. Len(Phases)
Last(j) == j = Len(Phases)

\* A review with a phase after it only reviews; a final review also fixes.
ReviewShaped(j) == j \in Positions /\ (Phases[j] = "verify" \/ (Phases[j] = "review" /\ ~Last(j)))

-----------------------------------------------------------------------------
(* State                                                                   *)

Runs == 0 .. MaxRun
Rounds == 0 .. MaxRound

\* A claim as the driver knows it.  wip is Claim.HasWIP, branch says whether
\* Claim.Branch is set.
Claims ==
  [task : Tasks \cup {NoTask}, run : Runs, settled : BOOLEAN, wip : BOOLEAN,
   branch : BOOLEAN]
NoClaim == [task |-> NoTask, run |-> 0, settled |-> FALSE, wip |-> FALSE, branch |-> FALSE]
Held(c) == c.task # NoTask /\ ~c.settled
NoRun == [task |-> NoTask, run |-> 0]
RunIds == [task : Tasks \cup {NoTask}, run : Runs]
RunOf(c) == [task |-> c.task, run |-> c.run]

\* A review-shaped phase's record in the current run: the tip it reviewed.
Records == [tip : 0 .. MaxTip, round : Rounds, state : {"none", "sealed", "open"}]
NoRecord == [tip |-> 0, round |-> 0, state |-> "none"]

Leases == {"queue", "ours", "takeover", "other", "handed", "parked"}
TaskRows ==
  [lease : Leases,
   run : Runs,                      \* the latest run
   tip : 0 .. MaxTip,               \* pushes recorded, 0 for no branch
   pushed : BOOLEAN,                \* the recorded branch is on the origin
   nocode : BOOLEAN,                \* a no-code delivery was declared
   notes : Rounds,                  \* review blocks in the outcome
   rec : [Positions -> Records],
   round : Rounds,                  \* non-void rounds counted in this cycle
   open : SUBSET (1 .. MaxRound),   \* MUSTs still open, by the round that raised them
   resolved : SUBSET (1 .. MaxRound)]

NoEnd ==
  [claim |-> NoClaim, checkpoint |-> FALSE, handoff |-> FALSE, released |-> FALSE,
   toQueue |-> FALSE, empty |-> FALSE, dead |-> FALSE, noMCP |-> FALSE, round |-> 0,
   seqEnd |-> "none", checked |-> FALSE, failure |-> FALSE, vround |-> 0,
   musts |-> {}, counted |-> 0, resolved |-> {}, stop |-> FALSE, err |-> FALSE]
PhaseEnds ==
  [claim : Claims, checkpoint : BOOLEAN, handoff : BOOLEAN, released : BOOLEAN,
   toQueue : BOOLEAN, empty : BOOLEAN, dead : BOOLEAN, noMCP : BOOLEAN, round : Rounds,
   seqEnd : {"none", "limit", "transient"}, checked : BOOLEAN, failure : BOOLEAN,
   vround : Rounds, musts : SUBSET (1 .. MaxRound), counted : Rounds,
   resolved : SUBSET (1 .. MaxRound), stop : BOOLEAN, err : BOOLEAN]

\* The session.  claim is Result.Claim, on the run it really works under, reported
\* says that it recorded a branch itself, wrote that it recorded a review.
NoSession ==
  [claim |-> NoClaim, on |-> NoRun, reported |-> FALSE, wrote |-> FALSE, mcp |-> FALSE,
   how |-> "clean", after |-> "fine", zero |-> TRUE, handoff |-> FALSE]
Sessions ==
  [claim : Claims, on : RunIds, reported : BOOLEAN, wrote : BOOLEAN, mcp : BOOLEAN,
   how : {e[1] : e \in ExitKinds}, after : {e[2] : e \in ExitKinds},
   zero : BOOLEAN, handoff : BOOLEAN]

Counters ==
  [chain : 0 .. HandoffChainCap, handoffs : Nat, spawned : BOOLEAN, respawn : BOOLEAN,
   deadTask : Tasks \cup {NoTask}, deadRetries : 0 .. PerTaskDeadBound,
   emptyRetries : {0, 1}, verifyRoundsRun : 0 .. ReviewRoundCap,
   verifyResolved : SUBSET (1 .. MaxRound), spent : BOOLEAN, wait : {"none", "limit", "transient"}]
Tries ==
  [briefed : Tasks \cup {NoTask}, notes : Rounds, retries : Nat, mcpRetried : BOOLEAN,
   noMCPNow : BOOLEAN, unclassified : Nat, noUsage : Nat]
NoTry ==
  [briefed |-> NoTask, notes |-> 0, retries |-> 0, mcpRetried |-> FALSE,
   noMCPNow |-> FALSE, unclassified |-> 0, noUsage |-> 0]

Places ==
  {"boundary", "attempt", "session", "salvage", "judge", "handback", "route",
   "limited", "backoff", "seam", "release", "wait", "done"}

Histories ==
  [mine : SUBSET RunIds, hidden : SUBSET RunIds, back : SUBSET RunIds, ended : SUBSET RunIds,
   unread : SUBSET RunIds, must : SUBSET RunIds,
   fixes : [Tasks -> [1 .. MaxRound -> Nat]], deaths : [Tasks -> Nat]]

TypeOK ==
  /\ conf \in Configs
  /\ task \in [Tasks -> TaskRows]
  /\ pc \in Places
  /\ i \in 1 .. Len(Phases) + 1
  /\ carried \in Claims
  /\ cnt \in Counters
  /\ try \in Tries
  /\ res \in Sessions
  /\ end \in PhaseEnds
  /\ stop \in {"no", "stop", "error"}
  /\ fleetDead \in 0 .. FleetDeadBound
  /\ hist \in Histories

\* A task starts claimable: fresh, or a takeover with its branch, in a cycle that
\* earlier trips may have begun.
Init ==
  /\ conf \in Configs
  /\ \E wip \in {0, 1}, before \in {0, 1} :
       task = [t \in Tasks |->
         [lease |-> IF wip = 1 THEN "takeover" ELSE "queue", run |-> 0, tip |-> wip,
          pushed |-> TRUE, nocode |-> FALSE, notes |-> 0,
          rec |-> [j \in Positions |-> NoRecord], round |-> before,
          open |-> {}, resolved |-> {}]]
  /\ pc = "boundary" /\ i = 1
  /\ carried = NoClaim
  /\ cnt = [chain |-> 0, handoffs |-> 0, spawned |-> FALSE, respawn |-> FALSE,
            deadTask |-> NoTask, deadRetries |-> 0, emptyRetries |-> 0,
            verifyRoundsRun |-> 0, verifyResolved |-> {}, spent |-> FALSE, wait |-> "none"]
  /\ try = NoTry /\ res = NoSession /\ end = NoEnd
  /\ stop = "no"
  /\ fleetDead \in 0 .. FleetDeadBound - 1
  /\ hist = [mine |-> {}, hidden |-> {}, back |-> {}, ended |-> {}, unread |-> {}, must |-> {},
             fixes |-> [t \in Tasks |-> [r \in 1 .. MaxRound |-> 0]],
             deaths |-> [t \in Tasks |-> 0]]

\* May: a call succeeds, or may fail.  Can: a move is not made, or may be.
May(fault) == IF fault \in Faults THEN BOOLEAN ELSE {TRUE}
Can(move) == IF move \in Moves THEN BOOLEAN ELSE {FALSE}

-----------------------------------------------------------------------------
(* The plane's side of the driver's calls.  A call names a run; the plane    *)
(* refuses it when that run no longer holds the task.                        *)

Holds(c) == /\ c.task # NoTask
            /\ task[c.task].lease = "ours" /\ task[c.task].run = c.run

\* Slip: pushed work is not asked for.
ReturnedUnasked(c) == [task EXCEPT ![c.task].lease = "queue"]

\* Releaser.Release and ExpireLease: without pushed work the task goes back to
\* the queue, with it the lease is ended and the takeover hand-off is kept.
Returned(c) ==
  [task EXCEPT ![c.task].lease =
     IF ~c.wip THEN "queue" ELSE IF task[c.task].tip = 0 THEN "queue" ELSE "takeover"]

\* releaseHeldClaim: an unreadable stream, or a claim that is not held, is left
\* alone.  toQueue is what it returns.
releaseHeldClaim(c, trusted, toQueue) ==
  IF trusted /\ Held(c)
  THEN \E ok \in May("release") :
         LET done == ok /\ Holds(c)
         IN /\ task' = IF done THEN Returned(c) ELSE task
            /\ toQueue = (done /\ ~c.wip)
            /\ hist' = [hist EXCEPT !.back = @ \cup {RunOf(c)},
                                    !.ended = IF done THEN @ \cup {RunOf(c)} ELSE @]
  ELSE toQueue = FALSE /\ UNCHANGED <<task, hist>>

\* closeReviewRound: the sealed round's findings are released.
CloseRound(c) ==
  [task EXCEPT ![c.task].rec = [j \in Positions |->
     IF @[j].state = "sealed" THEN [@[j] EXCEPT !.state = "open"] ELSE @[j]]]

\* Park, then the question: whichever step fails, the driver only logs it.
Parks(c) ==
  /\ \E ok \in May("park") :
       task' = IF ok /\ c.task # NoTask /\ task[c.task].run = c.run
                    /\ task[c.task].lease \in {"ours", "queue", "takeover"}
               THEN [task EXCEPT ![c.task].lease = "parked"] ELSE task

\* The branch check answers, and found the branch on the origin.
BranchOnOrigin(row, known) == known /\ row.pushed

\* Slip: a task that is merely held ends the phase.
ExitOfAnyHeld(row, read) == read /\ row.lease # "queue"

planeExitRecord(row, read) == read /\ (row.lease \in {"handed", "parked"} \/ row.nocode)

\* checkpointEvidence: is there a branch verified on the origin, or else a record
\* on the plane that ends the phase; and for a review-shaped phase, a review
\* record of this run for the tip just verified.
Verdict(c, reported, read, known) ==
  LET row == task[c.task]
      named == reported \/ (c.wip /\ c.branch)
      pass == named /\ BranchOnOrigin(row, known)
      record == planeExitRecord(row, read)
      unverified == named /\ ~known /\ ~record
      branch == pass \/ unverified
      rec == row.rec[i]
      matches == /\ row.run = c.run /\ rec.round > 0
                 /\ pass => rec.tip = row.tip
      reviewed == read /\ (IF branch THEN matches ELSE row.notes > try.notes)
      ok == (pass \/ record \/ unverified) /\ (ReviewShaped(i) => reviewed)
      gated == ok /\ ReviewShaped(i) /\ branch
  IN [ok |-> ok, branch |-> branch,
      round |-> IF gated THEN rec.round ELSE 0,
      sealed |-> gated /\ rec.state = "sealed"]

\* The evidence stands, and the round it owed the plane was closed.
Accepted(e, closes, closed) == e.ok /\ (closes => closed)

checkpointEvidence(c, reported) ==
  {Verdict(c, reported, read, known) : read \in May("read"), known \in May("branch")}

-----------------------------------------------------------------------------
(* The head of drainPhases' loop, and drainPhase up to its first attempt.    *)

fixIdx ==
  LET pairs == {j \in Positions : Phases[j] = "fix" /\ j < Len(Phases) /\ Phases[j + 1] = "verify"}
  IN IF pairs = {} THEN 0 ELSE CHOOSE j \in pairs : \A k \in pairs : k <= j

BudgetGone == cnt.spawned /\ cnt.spent

SequenceOver ==
  /\ pc = "boundary" /\ (i > Len(Phases) \/ BudgetGone)
  /\ stop' = IF i > Len(Phases) THEN stop ELSE "stop"
  /\ pc' = "release"
  /\ UNCHANGED <<conf, task, i, carried, cnt, try, res, end, fleetDead, hist>>

ChargeSpawn ==
  LET one == IF cnt.respawn THEN 1 ELSE 0
  IN cnt' = [cnt EXCEPT !.spawned = TRUE, !.respawn = FALSE,
                        !.handoffs = @ + one, !.chain = @ + one]

CountFixes ==
  IF Phases[i] # "fix" \/ cnt.respawn \/ carried.task = NoTask THEN hist.fixes
  ELSE [hist.fixes EXCEPT ![carried.task] =
          [r \in 1 .. MaxRound |-> IF r \in task[carried.task].open THEN @[r] + 1 ELSE @[r]]]

\* The phase starts: a handoff respawn is charged, the review-shaped phases read
\* the outcome they will be judged against, the first phase peeks the queue.
PhaseStarts ==
  /\ pc = "boundary" /\ i <= Len(Phases) /\ ~BudgetGone
  /\ ChargeSpawn
  /\ ReviewShaped(i) => carried.task # NoTask
  /\ \E b \in {t \in Tasks : task[t].lease \in {"queue", "takeover"}} \cup {NoTask} :
       try' = [NoTry EXCEPT
         !.briefed = IF Held(carried) THEN carried.task ELSE b,
         !.notes = IF ReviewShaped(i) THEN task[carried.task].notes ELSE 0]
  /\ end' = NoEnd
  /\ hist' = [hist EXCEPT !.fixes = CountFixes]
  /\ pc' = "attempt"
  /\ UNCHANGED <<conf, task, i, carried, res, stop, fleetDead>>

\* The outcome, or the verification digest, could not be read: no session.
PhaseRefused ==
  /\ pc = "boundary" /\ i <= Len(Phases) /\ ~BudgetGone
  /\ ReviewShaped(i) /\ (carried.task = NoTask \/ FALSE \in May("read"))
  /\ ChargeSpawn
  /\ \E toQueue \in BOOLEAN :
       /\ releaseHeldClaim(carried, TRUE, toQueue)
       /\ end' = [NoEnd EXCEPT !.claim = carried, !.empty = TRUE,
                               !.released = Held(carried), !.toQueue = toQueue]
  /\ pc' = "seam"
  /\ UNCHANGED <<conf, i, carried, try, res, stop, fleetDead>>

\* The head of drainPhase's retry loop: the breakers, then the session.
AttemptRefused ==
  /\ pc = "attempt" /\ (cnt.spent \/ try.noUsage >= ZeroSpendBound)
  /\ end' = IF cnt.spent THEN [end EXCEPT !.stop = TRUE] ELSE [end EXCEPT !.err = TRUE]
  /\ pc' = "seam"
  /\ UNCHANGED <<conf, task, i, carried, cnt, try, res, stop, fleetDead, hist>>

SessionSpawns ==
  /\ pc = "attempt" /\ ~cnt.spent /\ try.noUsage < ZeroSpendBound
  /\ res' = [NoSession EXCEPT !.claim = carried, !.on = RunOf(carried)]
  /\ pc' = "session"
  /\ UNCHANGED <<conf, task, i, carried, cnt, try, end, stop, fleetDead, hist>>

-----------------------------------------------------------------------------
(* The session, through the backlog tools.  The plane accepts a move only    *)
(* from the run that holds the task.  seen: the adapter reads the session's  *)
(* tool calls, so it knows the claim the session works under.                *)

Working == /\ pc = "session" /\ res.on.task # NoTask
           /\ task[res.on.task].lease = "ours" /\ task[res.on.task].run = res.on.run
seen == res.on = RunOf(res.claim)

SessionSteps == UNCHANGED <<conf, pc, i, carried, cnt, try, end, stop, fleetDead>>

SessionClaims(t) ==
  /\ pc = "session" /\ ~res.mcp
  /\ res.on.task = NoTask \/ ("foreign" \in Moves /\ res.on = RunOf(carried) /\ res.on.task # t)
  /\ task[t].lease \in {"queue", "takeover"} /\ task[t].run < MaxRun
  /\ LET run == task[t].run + 1
         wip == task[t].tip > 0
     IN \E unseen \in Can("unseen") :
          /\ task' = [task EXCEPT ![t] =
               [@ EXCEPT !.lease = "ours", !.run = run,
                         !.rec = [j \in Positions |-> NoRecord]]]
          /\ res' = [res EXCEPT
               !.on = [task |-> t, run |-> run], !.mcp = ~unseen, !.reported = FALSE,
               !.claim = IF unseen THEN @
                         ELSE [task |-> t, run |-> run, settled |-> FALSE, wip |-> wip, branch |-> wip]]
          /\ hist' = [hist EXCEPT !.mine = @ \cup {[task |-> t, run |-> run]},
                                  !.hidden = IF unseen THEN @ \cup {[task |-> t, run |-> run]} ELSE @]
  /\ SessionSteps

\* The branch is recorded on the task; whether it was pushed is another matter.
SessionRecordsBranch ==
  /\ Working /\ ~ReviewShaped(i) /\ ~res.reported
  /\ task[res.on.task].tip < MaxTip
  /\ LET row == task[res.on.task]
     IN \E unpushed \in Can("unpushed") :
          task' = [task EXCEPT ![res.on.task] =
            [row EXCEPT !.tip = row.tip + 1, !.pushed = ~unpushed]]
  /\ res' = [res EXCEPT !.reported = seen, !.mcp = TRUE,
                        !.claim = IF seen THEN [@ EXCEPT !.wip = TRUE, !.branch = TRUE] ELSE @]
  /\ SessionSteps /\ UNCHANGED hist

SessionDeclaresNoCode ==
  /\ Working /\ Phases[i] = "implement" /\ "nocode" \in Moves
  /\ task[res.on.task].tip = 0 /\ ~task[res.on.task].nocode
  /\ task' = [task EXCEPT ![res.on.task].nocode = TRUE]
  /\ res' = [res EXCEPT !.mcp = TRUE]
  /\ SessionSteps /\ UNCHANGED hist

\* A review, or a verification round: a sealed record on the tip as it is, with
\* at most one new MUST; a verification also resolves and re-opens earlier ones.
\* The brief of a checkpoint without a branch asks for a block in the outcome.
SessionReviews ==
  /\ Working /\ ReviewShaped(i) /\ ~res.wrote
  /\ LET t == res.on.task
         row == task[t]
     IN IF ~carried.branch
        THEN /\ row.notes < MaxRound
             /\ task' = [task EXCEPT ![t].notes = @ + 1]
        ELSE /\ row.tip > 0 /\ row.round < MaxRound
             /\ \E raised \in SUBSET {row.round + 1}, met \in SUBSET row.open, again \in SUBSET row.resolved :
                  /\ Phases[i] = "review" => met = {} /\ again = {}
                  /\ task' = [task EXCEPT ![t] =
                       [row EXCEPT
                         !.round = row.round + 1,
                         !.open = (row.open \ met) \cup again \cup raised,
                         !.resolved = (row.resolved \ again) \cup met,
                         !.rec[i] = [tip |-> row.tip, round |-> row.round + 1, state |-> "sealed"]]]
  /\ res' = [res EXCEPT !.wrote = TRUE, !.mcp = TRUE]
  /\ SessionSteps /\ UNCHANGED hist

\* The session moves the task on itself.  A verifier releases its own round in
\* the same call.
SessionSettles ==
  /\ Working /\ (Last(i) \/ "settle" \in Moves)
  /\ (Phases[i] = "verify" /\ "settle" \notin Moves) => task[res.on.task].open = {}
  /\ LET t == res.on.task
         rec == task[t].rec[i]
         released == Phases[i] = "verify" /\ rec.state = "sealed"
     IN task' = [task EXCEPT ![t] =
          [@ EXCEPT !.lease = "handed",
                    !.rec[i] = IF released THEN [rec EXCEPT !.state = "open"] ELSE rec]]
  /\ res' = [res EXCEPT !.mcp = TRUE, !.claim = IF seen THEN [@ EXCEPT !.settled = TRUE] ELSE @]
  /\ SessionSteps /\ UNCHANGED hist

\* ExitCode = 0
Zeroes(e) ==
  IF e[1] = "clean" \/ e = <<"dead", "fine">> THEN {TRUE}
  ELSE IF e[1] = "nostart" \/ (e[1] = "dead" /\ e[2] \in {"limit", "credit"}) THEN BOOLEAN
  ELSE {FALSE}

\* A session that never launched returns the empty Result, unless an earlier
\* launch of the same call did run (a route switch, a death in Wait).
Unlaunched(e) == e[1] = "nostart" /\ ~res.mcp

SessionEnds(e) ==
  /\ pc = "session"
  /\ \E zero \in Zeroes(e), within \in May("budget"), block \in Can("handoff"), quiet \in Can("nomcp") :
       /\ block => zero /\ e[1] \notin {"untrusted", "nostart"} /\ Held(res.claim)
       /\ Unlaunched(e) => zero
       /\ res' = [res EXCEPT !.how = e[1], !.after = e[2], !.zero = zero, !.handoff = block,
                             !.mcp = @ \/ ~quiet,
                             !.claim = IF Unlaunched(e) THEN NoClaim ELSE @]
       /\ cnt' = [cnt EXCEPT !.spent = @ \/ ~within]
  /\ hist' = [hist EXCEPT !.unread =
       IF e[1] = "untrusted" THEN @ \cup ({RunOf(res.claim)} \ {NoRun}) ELSE @]
  /\ pc' = "salvage"
  /\ UNCHANGED <<conf, task, i, carried, try, end, stop, fleetDead>>

\* Another clanker, and the plane's own clock.
LeaseLapses(t) ==
  /\ "lapse" \in Moves /\ task[t].lease = "ours" /\ pc # "done"
  /\ task' = [task EXCEPT ![t].lease = IF task[t].tip > 0 THEN "takeover" ELSE "queue"]
  /\ UNCHANGED <<conf, pc, i, carried, cnt, try, res, end, stop, fleetDead, hist>>

OtherTakes(t) ==
  /\ "take" \in Moves /\ task[t].lease \in {"queue", "takeover"} /\ pc # "done"
  /\ task[t].run < MaxRun
  /\ task' = [task EXCEPT ![t] = [@ EXCEPT !.lease = "other", !.run = task[t].run + 1,
                                           !.rec = [j \in Positions |-> NoRecord]]]
  /\ UNCHANGED <<conf, pc, i, carried, cnt, try, res, end, stop, fleetDead, hist>>

-----------------------------------------------------------------------------
(* drainPhase after the session: salvage, judge, hand back, route.           *)

\* salvageStrandedWork.  Its branch reaches the claim only when the plane's
\* answer does.
Salvage ==
  /\ pc = "salvage"
  /\ \/ /\ ~ReviewShaped(i) /\ Held(res.claim) /\ "salvage" \in Moves
        /\ Holds(res.claim) /\ task[res.claim.task].tip < MaxTip
        /\ LET row == task[res.claim.task]
           IN task' = [task EXCEPT ![res.claim.task] =
                [row EXCEPT !.tip = row.tip + 1, !.pushed = TRUE]]
        /\ \E answered \in May("reply") :
             res' = IF answered THEN [res EXCEPT !.claim.wip = TRUE, !.claim.branch = TRUE] ELSE res
     \/ UNCHANGED <<task, res>>
  /\ pc' = "judge"
  /\ UNCHANGED <<conf, i, carried, cnt, try, end, stop, fleetDead, hist>>

trusted == res.how # "untrusted"
capped == res.how = "capped"
toolLoop == res.how = "killed"
recoveredExit == res.how = "recovered"
orderlyExit == ~toolLoop /\ trusted /\ (res.zero \/ capped)
checkpointable == ~toolLoop /\ (res.zero \/ (capped /\ res.claim.wip) \/ recoveredExit)
producedNothing == (res.how = "dead" /\ ~res.claim.wip) \/ toolLoop
dead == ~Last(i) /\ Held(res.claim) /\ producedNothing
canCheckpoint == trusted /\ checkpointable /\ Held(res.claim) /\ ~dead
reviewable == ~Last(i) /\ canCheckpoint
handoff == res.handoff /\ Phases[i] # "verify"

\* Slip: the hold is kept for a round left sealed, not for its open MUSTs.
HoldsSealed(j) == j.checked /\ ~j.failure /\ j.round > 0

\* verifyNeedsHold: a verification with open MUSTs keeps the claim for the fix.
NeedsHold(j) == j.checked /\ ~j.failure /\ j.musts # {}

\* The verdict on a session, from what its evidence came to.  j is the phaseEnd
\* so far, ok and branch the evidence, closeFailed a review round left sealed.
Decide(j, ok, branch, closeFailed) ==
  LET recorded == reviewable /\ ReviewShaped(i) /\ ok
      noMCPNow == /\ ReviewShaped(i) /\ Phases[i] # "verify" /\ ~recorded /\ ~closeFailed /\ ~res.mcp
                  /\ ~res.claim.settled /\ ~res.handoff /\ trusted /\ res.zero
                  /\ ~producedNothing
      checkpoint == /\ canCheckpoint
                    /\ \/ (~Last(i) \/ handoff) /\ (handoff \/ ok)
                       \/ NeedsHold(j)
      retryNoMCP == noMCPNow /\ ~try.mcpRetried
      noMCP == noMCPNow /\ try.mcpRetried
  IN /\ end' = [j EXCEPT
          !.empty = reviewable /\ ~ok /\ ~noMCP, !.noMCP = noMCP,
          !.checkpoint = checkpoint, !.handoff = checkpoint /\ handoff,
          !.claim.branch = IF checkpoint THEN branch ELSE @,
          !.released = ~checkpoint /\ ~retryNoMCP /\ Held(res.claim),
          !.dead = ~checkpoint /\ ~noMCP /\ dead]
     /\ try' = [try EXCEPT !.noMCPNow = noMCPNow]
     /\ pc' = IF checkpoint \/ retryNoMCP THEN "route" ELSE "handback"

Judged == [NoEnd EXCEPT !.claim = res.claim]
JudgeFrame == UNCHANGED <<conf, i, carried, cnt, res, stop, fleetDead, hist>>

\* closeReviewRound succeeds only for the run that holds the task.
Closes(c) == IF Holds(c) THEN May("close") ELSE {FALSE}

judgeable == Phases[i] = "verify" /\ (orderlyExit \/ recoveredExit)

JudgeVerification ==
  /\ pc = "judge" /\ judgeable /\ res.claim.task # NoTask
  /\ \E e \in checkpointEvidence(res.claim, res.reported), closed \in Closes(res.claim), read \in May("read") :
       LET closes == e.ok /\ e.round > 0 /\ e.sealed
           done == Accepted(e, closes, closed)
           ok == done /\ read
           row == task[res.claim.task]
           counts == ok /\ e.round > 0
       IN /\ task' = IF closes /\ closed THEN CloseRound(res.claim) ELSE task
          /\ Decide([Judged EXCEPT
               !.checked = TRUE, !.failure = ~ok,
               !.claim.branch = IF ok THEN e.branch ELSE @,
               !.round = IF e.sealed /\ ~(closes /\ closed) THEN e.round ELSE 0,
               !.vround = IF done THEN e.round ELSE 0,
               !.musts = IF counts THEN row.open ELSE {},
               !.counted = IF counts THEN row.round ELSE 0,
               !.resolved = IF counts THEN row.resolved ELSE {}],
               ok, e.branch, FALSE)
  /\ JudgeFrame

JudgePhase ==
  /\ pc = "judge" /\ reviewable
  /\ \E e \in checkpointEvidence(res.claim, res.reported), closed \in Closes(res.claim) :
       LET closes == e.ok /\ e.round > 0 /\ e.sealed /\ ~handoff /\ ~ReviewShaped(i + 1)
           ok == Accepted(e, closes, closed)
       IN /\ task' = IF closes /\ closed THEN CloseRound(res.claim) ELSE task
          /\ Decide([Judged EXCEPT !.round = IF e.sealed THEN e.round ELSE 0],
                    ok, e.branch, closes /\ ~closed)
  /\ JudgeFrame

JudgeOther ==
  /\ pc = "judge" /\ ~reviewable /\ ~(judgeable /\ res.claim.task # NoTask)
  /\ Decide([Judged EXCEPT !.checked = judgeable, !.failure = judgeable], TRUE, FALSE, FALSE)
  /\ UNCHANGED task /\ JudgeFrame

\* The plane says in progress, under some run, with a branch.
InCustody(t) == task[t].lease \in {"ours", "other"} /\ task[t].tip > 0

\* peekCheckpointClaim: nothing was observed, but the plane holds the briefed
\* task, with a branch, under some run.  Whose run it is the plane does not say.
\* Where the evidence fails the drain ends, and that lease is left to expire.
Peeks ==
  /\ end.claim = NoClaim /\ ~Last(i) /\ trusted /\ ~producedNothing
  /\ res.zero \/ capped \/ recoveredExit
  /\ try.briefed # NoTask /\ InCustody(try.briefed)

peekCheckpointClaim ==
  /\ pc = "handback" /\ Peeks
  /\ LET claim == [task |-> try.briefed, run |-> task[try.briefed].run, settled |-> FALSE,
                   wip |-> TRUE, branch |-> TRUE]
     IN /\ \E e \in checkpointEvidence(claim, FALSE), closed \in Closes(claim) :
             LET closes == e.ok /\ e.sealed /\ ~ReviewShaped(i + 1)
                 ok == Accepted(e, closes, closed)
             IN /\ task' = IF closes /\ closed THEN CloseRound(claim) ELSE task
                /\ end' = [end EXCEPT !.claim = [claim EXCEPT !.branch = IF ok THEN e.branch ELSE @],
                                      !.round = e.round, !.checkpoint = ok]
                /\ hist' = [hist EXCEPT !.hidden = IF ok THEN @ \ {RunOf(claim)} ELSE @]
  /\ pc' = "route"
  /\ UNCHANGED <<conf, i, carried, cnt, try, res, stop, fleetDead>>

\* releaseHeldClaim at the end of a phase that is no checkpoint; a no_mcp ending
\* is neither dead nor empty.
Handback ==
  /\ pc = "handback" /\ (Peeks => "read" \in Faults)
  /\ \E toQueue \in BOOLEAN :
       /\ releaseHeldClaim(res.claim, trusted, toQueue)
       /\ end' = [end EXCEPT !.toQueue = toQueue]
  /\ pc' = "route"
  /\ UNCHANGED <<conf, i, carried, cnt, try, res, stop, fleetDead>>

Returns(e) == pc' = "seam" /\ end' = e
RouteFrame == UNCHANGED <<conf, i, carried, cnt, res, stop, fleetDead>>

\* releaseCarriedEnd, before a wait inside the first phase.
releaseCarriedEnd(err) ==
  LET owed == end.checkpoint /\ end.claim # NoClaim
      c == IF owed THEN end.claim ELSE NoClaim
  IN /\ \E toQueue \in BOOLEAN : releaseHeldClaim(c, TRUE, toQueue)
     /\ end' = [(IF owed THEN [NoEnd EXCEPT !.released = Held(c)] ELSE end) EXCEPT !.err = err]

\* Slip: the retry is not used up.
RetriesMCPAlways == res.after = "preflight"

RetriesMCP == res.after = "preflight" /\ ~try.mcpRetried

\* The launch failed.  A missing MCP server is worth one more try.
RouteUnstarted ==
  /\ pc = "route" /\ res.how = "nostart"
  /\ IF RetriesMCP
     THEN pc' = "attempt" /\ try' = [try EXCEPT !.mcpRetried = TRUE] /\ UNCHANGED end
     ELSE Returns([end EXCEPT !.err = TRUE]) /\ UNCHANGED try
  /\ UNCHANGED <<task, hist>> /\ RouteFrame

\* endUntrustedDrain: under a spend ceiling the run stops.
RouteUntrusted ==
  /\ pc = "route" /\ res.how = "untrusted"
  /\ Returns([end EXCEPT !.stop = CountsSpend])
  /\ UNCHANGED <<task, try, hist>> /\ RouteFrame

Started == pc = "route" /\ res.how \notin {"nostart", "untrusted"}
RetriesNoMCP == try.noMCPNow /\ ~try.mcpRetried

RouteNoMCP ==
  /\ Started /\ RetriesNoMCP
  /\ try' = [try EXCEPT !.mcpRetried = TRUE]
  /\ pc' = "attempt"
  /\ UNCHANGED <<task, end, hist>> /\ RouteFrame

\* The phase was given a claim, which its own handback may have ended by now.
Resumed == carried # NoClaim

\* DetectLimit.  A resumed phase ends the sequence, the first phase hands its
\* claim back and waits; the reset may lie past the run's ceiling.
RouteLimited ==
  /\ Started /\ ~RetriesNoMCP /\ res.after \in {"limit", "credit"}
  /\ IF res.after = "credit"
     THEN Returns([end EXCEPT !.stop = TRUE]) /\ UNCHANGED <<task, hist>>
     ELSE IF Resumed
     THEN Returns([end EXCEPT !.seqEnd = "limit"]) /\ UNCHANGED <<task, hist>>
     ELSE releaseCarriedEnd(FALSE) /\ pc' = "limited"
  /\ UNCHANGED try /\ RouteFrame

\* The ending is final: a kill, a clean, recovered or capped end.
RouteFinished ==
  /\ Started /\ ~RetriesNoMCP /\ res.after \notin {"limit", "credit"}
  /\ toolLoop \/ res.zero \/ recoveredExit \/ capped
  /\ Returns(end)
  /\ UNCHANGED <<task, try, hist>> /\ RouteFrame

Failed == /\ Started /\ ~RetriesNoMCP /\ res.after \notin {"limit", "credit"}
          /\ ~(toolLoop \/ res.zero \/ recoveredExit \/ capped)

\* IsTransient: a resumed phase ends the sequence, the first phase climbs the
\* retry ladder.
RouteTransient ==
  /\ Failed /\ res.after \in {"transient", "odd"}
  /\ IF Resumed
     THEN Returns([end EXCEPT !.seqEnd = "transient"]) /\ UNCHANGED <<task, try, hist>>
     ELSE \E quiet \in {FALSE, res.after = "transient"} :
       LET odd == try.unclassified + (IF res.after = "odd" THEN 1 ELSE 0)
           retries == try.retries + 1
           over == MaxRetries > 0 /\ retries > MaxRetries
       IN IF odd > UnclassifiedBound
          THEN Returns([end EXCEPT !.err = TRUE]) /\ UNCHANGED <<task, try, hist>>
          ELSE /\ releaseCarriedEnd(over) /\ pc' = IF over THEN "seam" ELSE "backoff"
               /\ try' = [try EXCEPT !.unclassified = odd,
                            !.retries = IF MaxRetries > 0 THEN retries ELSE 0,
                            !.noUsage = IF quiet THEN @ + 1 ELSE 0]
  /\ RouteFrame

RouteFatal ==
  /\ Failed /\ res.after = "fatal"
  /\ Returns([end EXCEPT !.err = TRUE])
  /\ UNCHANGED <<task, try, hist>> /\ RouteFrame

\* supervisedWait and waitOrStop: the wait runs out, or the operator or the
\* budget ends the run.
Waited ==
  /\ pc \in {"limited", "backoff"}
  /\ \E halt \in BOOLEAN :
       /\ pc' = IF halt THEN "seam" ELSE "attempt"
       /\ end' = IF halt THEN [end EXCEPT !.stop = TRUE] ELSE end
  /\ UNCHANGED <<conf, task, i, carried, cnt, try, res, stop, fleetDead, hist>>

-----------------------------------------------------------------------------
(* drainPhases after the phase: the arms of the seam, in their order.        *)

\* What is still owed a handback.  A phase that claimed another task leaves the
\* original owed; one that observed nothing leaves what was carried.
Taken ==
  IF carried # NoClaim /\ end.claim # NoClaim /\ end.claim.task # carried.task THEN carried
  ELSE IF end.released THEN NoClaim
  ELSE IF end.claim # NoClaim THEN end.claim
  ELSE carried

Over == pc' = "release" /\ UNCHANGED i
Again == pc' = "boundary"
SeamFrame == UNCHANGED <<conf, try, res>>
AtSeam == pc = "seam" /\ carried' = Taken

SeamEnds ==
  /\ AtSeam /\ (end.stop \/ end.seqEnd # "none" \/ end.noMCP) /\ Over
  /\ stop' = IF end.stop THEN "stop" ELSE stop
  /\ cnt' = [cnt EXCEPT !.wait = IF end.stop THEN @ ELSE end.seqEnd]
  /\ UNCHANGED <<task, end, fleetDead, hist>> /\ SeamFrame

Going == ~end.stop /\ end.seqEnd = "none" /\ ~end.noMCP
First == i = 1 /\ ~Last(i)

DeadTooOften ==
  First /\ end.claim.task = cnt.deadTask /\ cnt.deadRetries >= PerTaskDeadBound - 1

\* parkDeadPhase, after the handback: the task goes to the operator.
SeamParksDead ==
  /\ AtSeam /\ Going /\ end.dead /\ DeadTooOften
  /\ Parks(end.claim) /\ Over
  /\ hist' = [hist EXCEPT !.deaths[end.claim.task] = @ + 1]
  /\ UNCHANGED <<cnt, end, stop, fleetDead>> /\ SeamFrame

\* Slip: off by one.
FleetPastBound(n) == n > FleetDeadBound

FleetAtBound(n) == n >= FleetDeadBound

\* A death counts for the fleet; the first phase is retried.
SeamDies ==
  /\ AtSeam /\ Going /\ end.dead /\ ~DeadTooOften
  /\ fleetDead' = fleetDead + 1
  /\ hist' = IF First THEN [hist EXCEPT !.deaths[end.claim.task] = @ + 1] ELSE hist
  /\ IF First /\ ~FleetAtBound(fleetDead')
     THEN /\ Again
          /\ cnt' = [cnt EXCEPT !.deadTask = end.claim.task,
                 !.deadRetries = IF end.claim.task = cnt.deadTask THEN @ + 1 ELSE 1]
          /\ UNCHANGED <<i, stop>>
     ELSE /\ Over
          /\ stop' = IF end.err /\ ~FleetAtBound(fleetDead') THEN "error" ELSE stop
          /\ UNCHANGED cnt
  /\ UNCHANGED <<task, end>> /\ SeamFrame

Alive == Going /\ ~end.dead

SeamErrs ==
  /\ AtSeam /\ Alive /\ end.err /\ Over
  /\ stop' = "error"
  /\ UNCHANGED <<task, cnt, end, fleetDead, hist>> /\ SeamFrame

MayRespawn ==
  /\ cnt.chain < HandoffChainCap
  /\ MaxIterations = 0 \/ DrainNum + cnt.handoffs < MaxIterations

SeamHandsOff ==
  /\ AtSeam /\ Alive /\ ~end.err /\ end.handoff /\ MayRespawn
  /\ cnt' = [cnt EXCEPT !.respawn = TRUE]
  /\ Again
  /\ UNCHANGED <<task, i, end, stop, fleetDead, hist>> /\ SeamFrame

\* The round a handoff left sealed for its successor is due once it is refused.
RoundOwed == end.round > 0 /\ end.checkpoint /\ ~ReviewShaped(i + 1)

\* A refused handoff: the round its reviewer left sealed is closed here, then
\* the phase is judged like any other.
SeamRefuses ==
  /\ pc = "seam" /\ Alive /\ ~end.err /\ end.handoff /\ ~MayRespawn
  /\ \E closed \in Closes(end.claim) :
       /\ task' = IF RoundOwed /\ closed THEN CloseRound(end.claim) ELSE task
       /\ IF (RoundOwed /\ ~closed) \/ (~Last(i) /\ end.empty)
          THEN pc' = "release" /\ carried' = Taken /\ UNCHANGED end
          ELSE end' = [end EXCEPT !.handoff = FALSE] /\ UNCHANGED <<pc, carried>>
  /\ UNCHANGED <<i, cnt, stop, fleetDead, hist>> /\ SeamFrame

RetriesEmpty == First /\ cnt.emptyRetries < 1 /\ end.toQueue

Settled == Alive /\ ~end.err /\ ~end.handoff

SeamEmpty ==
  /\ AtSeam /\ Settled /\ end.empty
  /\ IF RetriesEmpty
     THEN Again /\ cnt' = [cnt EXCEPT !.chain = 0, !.emptyRetries = @ + 1] /\ UNCHANGED i
     ELSE Over /\ UNCHANGED cnt
  /\ UNCHANGED <<task, end, stop, fleetDead, hist>> /\ SeamFrame

SeamNoCheckpoint ==
  /\ AtSeam /\ Settled /\ ~end.empty /\ ~Last(i) /\ ~end.checkpoint /\ Over
  /\ UNCHANGED <<task, cnt, end, stop, fleetDead, hist>> /\ SeamFrame

Passes == Settled /\ ~end.empty /\ (Last(i) \/ end.checkpoint)

\* A round that could not be judged, or that left no MUST open.
SeamVerified ==
  /\ AtSeam /\ Passes /\ Phases[i] = "verify"
  /\ end.failure \/ ~end.checked \/ end.musts = {}
  /\ Over
  /\ UNCHANGED <<task, cnt, end, stop, fleetDead, hist>> /\ SeamFrame

\* nonConvergenceReason: a MUST came back, or outlived two fixes.
nonConvergence ==
  \/ end.musts \cap cnt.verifyResolved # {}
  \/ \E r \in end.musts : end.vround - r >= 2

\* The rounds the plane counts in this cycle, or the rounds of this drain.
CapHit ==
  \/ end.counted >= ReviewRoundCap
  \/ cnt.verifyRoundsRun + 2 >= ReviewRoundCap

\* Open MUSTs: another fix, or the stopping rule parks the task.
SeamVerifies ==
  /\ AtSeam /\ Passes /\ Phases[i] = "verify"
  /\ ~end.failure /\ end.checked /\ end.musts # {}
  /\ ~nonConvergence /\ ~CapHit /\ fixIdx > 0 /\ end.checkpoint /\ Taken # NoClaim
  /\ cnt' = [cnt EXCEPT !.chain = 0, !.verifyRoundsRun = @ + 1,
                        !.verifyResolved = @ \cup end.resolved]
  /\ i' = fixIdx /\ Again
  /\ UNCHANGED <<task, end, stop, fleetDead, hist>> /\ SeamFrame

SeamParksVerification ==
  /\ pc = "seam" /\ Passes /\ Phases[i] = "verify"
  /\ ~end.failure /\ end.checked /\ end.musts # {}
  /\ nonConvergence \/ CapHit \/ fixIdx = 0 \/ ~end.checkpoint \/ Taken = NoClaim
  /\ Parks(end.claim) /\ carried' = NoClaim /\ Over
  /\ hist' = [hist EXCEPT !.must = @ \cup {RunOf(end.claim)}]
  /\ UNCHANGED <<cnt, end, stop, fleetDead>> /\ SeamFrame

SeamAdvances ==
  /\ AtSeam /\ Passes /\ Phases[i] # "verify"
  /\ cnt' = [cnt EXCEPT !.chain = 0, !.deadRetries = 0, !.deadTask = NoTask, !.emptyRetries = 0]
  /\ fleetDead' = IF Phases[i] = "implement" THEN 0 ELSE fleetDead
  /\ i' = i + 1 /\ Again
  /\ UNCHANGED <<task, end, stop, hist>> /\ SeamFrame

-----------------------------------------------------------------------------
(* The sequence is over: what is still held is handed back, then the wait.   *)

releaseCarried ==
  /\ pc = "release"
  /\ \E toQueue \in BOOLEAN : releaseHeldClaim(carried, TRUE, toQueue)
  /\ carried' = NoClaim
  /\ pc' = IF cnt.wait = "none" THEN "done" ELSE "wait"
  /\ UNCHANGED <<conf, i, cnt, try, res, end, stop, fleetDead>>

EndWait ==
  /\ pc = "wait" /\ pc' = "done"
  /\ \E halt \in BOOLEAN : stop' = IF halt THEN "stop" ELSE stop
  /\ UNCHANGED <<conf, task, i, carried, cnt, try, res, end, fleetDead, hist>>

-----------------------------------------------------------------------------
Seam ==
  \/ SeamEnds \/ SeamParksDead \/ SeamDies \/ SeamErrs \/ SeamHandsOff \/ SeamRefuses
  \/ SeamEmpty \/ SeamNoCheckpoint \/ SeamVerified \/ SeamVerifies
  \/ SeamParksVerification \/ SeamAdvances

Route ==
  \/ RouteUnstarted \/ RouteUntrusted \/ RouteNoMCP \/ RouteLimited
  \/ RouteFinished \/ RouteTransient \/ RouteFatal

Driver ==
  \/ SequenceOver \/ PhaseStarts \/ PhaseRefused \/ AttemptRefused \/ SessionSpawns
  \/ Salvage \/ JudgeVerification \/ JudgePhase \/ JudgeOther
  \/ peekCheckpointClaim \/ Handback \/ Route \/ Waited \/ Seam
  \/ releaseCarried \/ EndWait

SessionStep ==
  \/ \E t \in Tasks : SessionClaims(t)
  \/ SessionRecordsBranch \/ SessionDeclaresNoCode \/ SessionReviews \/ SessionSettles
  \/ \E e \in Ends : SessionEnds(e)

Others == \E t \in Tasks : LeaseLapses(t) \/ OtherTakes(t)

Finished == pc = "done" /\ UNCHANGED vars

Next == Driver \/ SessionStep \/ Others \/ Finished

Spec == Init /\ [][Next]_vars

\* The driver never idles between two steps, and every session ends: its wall
\* clock, its turn cap or the operator sees to that.
FairSpec == Spec /\ WF_vars(Driver) /\ WF_vars(\E e \in Ends : SessionEnds(e))

-----------------------------------------------------------------------------
(* Properties                                                              *)

\* A route switch may find no MCP server; a session may claim another task than the one
\* it was resumed on.
Forgets == <<"nostart", "preflight">> \in Ends
Strays == "foreign" \in Moves

OnRun(r) == r.task # NoTask /\ task[r.task].lease = "ours" /\ task[r.task].run = r.run

\* A wait for a limit, a back-off or a reset, and the end of the drain, hold no
\* lease: every run the sequence worked under was handed back (or tried), except
\* one whose stream could not be read, one the driver never saw, and one whose
\* open MUSTs went to the operator.
NothingLeftBehind ==
  pc \in {"limited", "backoff", "wait", "done"} =>
    \A r \in hist.mine :
      OnRun(r) => r \in hist.back \cup hist.unread \cup hist.must \cup hist.hidden

\* No session is put to work under a run the driver has itself ended: the plane
\* may have given the task to another clanker since.
NeverResumesHandedBack ==
  pc = "session" /\ carried # NoClaim => RunOf(carried) \notin hist.ended

\* The run a phase resumes is one that a session of this very sequence claimed: so long
\* as nobody takes a lapsed lease, for the peek at a claim that was not observed asks
\* whether the task is held with a branch, not by whom (loop.go:4255-4285).
SequenceStaysOnOwnRuns ==
  pc = "session" /\ carried # NoClaim => RunOf(carried) \in hist.mine

\* A fix phase that follows a review finds what it is to apply: an open round and
\* none still sealed, or, without a branch, a review block in the outcome.
FixHasFindings ==
  /\ pc = "session" /\ Phases[i] = "fix" /\ cnt.chain = 0
  /\ ReviewShaped(i - 1) /\ Holds(carried)
  => LET row == task[carried.task]
     IN IF carried.branch
        THEN /\ \E j \in Positions : row.rec[j].state = "open"
             /\ \A j \in Positions : row.rec[j].state # "sealed"
        ELSE row.notes > 0

\* Holding the task is no checkpoint: a phase is followed by the next one only
\* when a branch is recorded and on the origin (or the check could not be made),
\* or the plane's record ends the phase without one.  Where sessions stray, what was
\* judged is the claim the session went off to, and the sequence goes on with the one it
\* had (loop.go:1791-1800).
AdvanceHasExitEvidence ==
  [][pc = "seam" /\ i' = i + 1 /\ ~Last(i) /\ ~Strays =>
       LET row == task[carried'.task]
       IN \/ row.tip > 0 /\ (row.pushed \/ "branch" \in Faults)
          \/ row.nocode \/ row.lease \in {"handed", "parked"}]_vars

\* What a session whose stream could not be read appears to hold is not handed
\* back on that evidence.
UntrustedSilent == hist.unread \cap hist.ended = {}

\* A task with open MUSTs that no further fix is spawned for goes to the operator,
\* and never back to the queue.
MustsReachTheOperator == hist.must \cap hist.ended = {}

\* Work that was pushed and recorded never returns to the queue as a fresh task.
QueueHoldsNoWork ==
  \A t \in Tasks : task[t].lease = "queue" => task[t].tip = 0

\* The only fix of the sequence, and not its first phase: what Validate accepts of a
\* built-in fix; a fix with a prompt of its own may stand anywhere (config.go:4680-4705).
FixComesOnce ==
  \A j, k \in Positions : Phases[j] = "fix" /\ Phases[k] = "fix" => j = k /\ j > 1

\* No MUST is fixed more often than the cap allows.
FixesAreBounded ==
  \A t \in Tasks, r \in 1 .. MaxRound : hist.fixes[t][r] < ReviewRoundCap

\* A task dies at most PerTaskDeadBound times in the first phase of a drain,
\* and the target at most FleetDeadBound times, however the deaths are spread.
DeathsAreBounded ==
  /\ \A t \in Tasks : hist.deaths[t] <= PerTaskDeadBound
  /\ fleetDead = FleetDeadBound => pc \in {"release", "wait", "done"}

\* Handoff respawns count as iterations, so they stay within the run's ceiling,
\* whichever phases of the drain they come from.
HandoffsWithinCeiling ==
  MaxIterations > 0 /\ DrainNum <= MaxIterations =>
    DrainNum + cnt.handoffs + (IF cnt.respawn THEN 1 ELSE 0) <= MaxIterations

\* A drain ends with retries bounded, unless its first phase meets usage limits for
\* ever: each is waited out and the session run again (loop.go:5700-5770).
DrainEnds ==
  <>(pc = "done") \/ ([]<>(res.after = "limit") /\ []<>(res.after # "limit"))

-----------------------------------------------------------------------------
(* What the runs check                                                     *)

\* A lease is settled by whoever holds it: none outlives the wait or the drain that had
\* it, none is resumed or handed back on evidence that is not this run's, and pushed work
\* does not go back to the queue as if it had not been done.  Unless a route switch finds
\* no MCP server: the phase is run again as if its session had not started, which forgets
\* the claim that session holds, or resumes it once it is handed back (loop.go:5563).  A
\* session that strays may leave a second claim behind, and a salvaged branch whose
\* recording went unanswered is not known to be there (loop.go:6037).
LeasesAreSettled ==
  ~Forgets =>
    /\ NeverResumesHandedBack /\ UntrustedSilent
    /\ ~Strays => NothingLeftBehind
    /\ "reply" \notin Faults => QueueHoldsNoWork

\* Review, fix and verify come to an end: a fix has findings to apply, the rounds are
\* bounded, and what is left open goes to the operator.
RoundsConverge ==
  /\ ~Strays => FixHasFindings
  /\ FixComesOnce => FixesAreBounded
  /\ ~Forgets => MustsReachTheOperator

\* Whatever sends a phase round again counts against its bound: retries, deaths of a task
\* and of the target, and handoffs against the run's ceiling.
RespawnsAreBounded == TypeOK /\ DeathsAreBounded /\ HandoffsWithinCeiling

\* The next phase starts on exit evidence, and on a run of this sequence unless somebody
\* may take a lapsed lease.
AdvancesAreEarned == AdvanceHasExitEvidence /\ []("take" \in Moves \/ SequenceStaysOnOwnRuns)
=============================================================================
