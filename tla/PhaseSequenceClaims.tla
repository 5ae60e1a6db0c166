------------------------- MODULE PhaseSequenceClaims -------------------------
(***************************************************************************)
(* The claims of a drain round: which run the driver works under, hands     *)
(* back or leaves alone, and what it knows of the work under it.  The       *)
(* inductive invariants stand in layers, each proved from those before it.  *)
(***************************************************************************)
EXTENDS PhaseSequenceProofs

-----------------------------------------------------------------------------
(* The rows of the plane and the runs of this drain.                       *)

\* The run no longer holds its task, and will not hold it again.
Gone(r, rows) ==
  /\ r.task # NoTask /\ r.run <= rows[r.task].run
  /\ r.run = rows[r.task].run => rows[r.task].lease \notin {"ours", "other"}

RowsAreOurs ==
  /\ \A t \in Tasks : task[t].lease = "ours" => [task |-> t, run |-> task[t].run] \in hist.mine
  /\ \A r \in hist.ended : Gone(r, task)
  /\ "take" \notin Moves => \A t \in Tasks : task[t].lease # "other"

\* Runs and branches only grow, and no run gets a task back that it has lost.
RowsMove ==
  /\ \A t \in Tasks :
       /\ task'[t].run \in Nat /\ task'[t].run >= task[t].run
       /\ task'[t].tip \in Nat /\ task'[t].tip >= task[t].tip
       /\ task'[t].run = task[t].run /\ task'[t].lease \in {"ours", "other"} => task'[t].lease = task[t].lease
       /\ task'[t].lease = "ours" =>
            \/ task[t].lease = "ours" /\ task'[t].run = task[t].run
            \/ [task |-> t, run |-> task'[t].run] \in hist'.mine
       /\ "take" \notin Moves => (task'[t].lease = "other" => task[t].lease = "other")
  /\ hist.mine \subseteq hist'.mine
  /\ \A r \in hist'.ended : r \in hist.ended \/ Gone(r, task')

LEMMA RowFacts ==
  ASSUME TypeOK
  PROVE  \A t \in Tasks : task[t] \in TaskRows /\ task[t].run \in Nat /\ task[t].tip \in Nat
<1>1. conf \in Configs /\ task \in [Tasks -> TaskRows]
  BY DEF TypeOK
<1>2. MaxRun \in Nat /\ MaxTip \in Nat
  BY <1>1, ConfFacts
<1> QED
  BY <1>1, <1>2 DEF TaskRows, Runs

LEMMA RowsStand ==
  ASSUME TypeOK, task' = task, hist.mine \subseteq hist'.mine, hist'.ended = hist.ended
  PROVE  RowsMove
  BY RowFacts DEF RowsMove

LEMMA ReleasesMoveRows ==
  ASSUME TypeOK, NEW c \in Claims, NEW b, Releases(c, b)
  PROVE  RowsMove
<1>1. \A t \in Tasks : /\ task'[t].run = task[t].run /\ task'[t].tip = task[t].tip
                       /\ task'[t].lease = task[t].lease \/ task'[t].lease \in {"queue", "takeover"}
  BY DEF Releases, Freed, Alike
<1>2. hist'.mine = hist.mine
  BY DEF Releases
<1>3. ASSUME NEW r \in hist'.ended PROVE r \in hist.ended \/ Gone(r, task')
  <2>1. r \in hist.ended \/ (r = RunOf(c) /\ Freed(c, c.task))
    BY <1>3 DEF Releases
  <2>2. CASE r = RunOf(c) /\ Freed(c, c.task)
    <3>1. c.task \in Tasks /\ c.task # NoTask /\ task[c.task].run = c.run
          /\ task'[c.task].lease \in {"queue", "takeover"}
      BY <2>2, HeldHasATask DEF Freed, Held, Holds
    <3>2. r.task = c.task /\ r.run = c.run
      BY <2>2 DEF RunOf
    <3> QED
      BY <1>1, <3>1, <3>2, RowFacts DEF Gone
  <2> QED
    BY <2>1, <2>2
<1> QED
  BY <1>1, <1>2, <1>3, RowFacts DEF RowsMove

LEMMA ClosedMovesRows ==
  ASSUME TypeOK, NEW c \in Claims, Closed(c), hist'.mine = hist.mine, hist'.ended = hist.ended
  PROVE  RowsMove
<1>1. \A t \in Tasks : /\ task'[t].run = task[t].run /\ task'[t].tip = task[t].tip
                       /\ task'[t].lease = task[t].lease
  BY CloseEffect DEF TypeOK, Closed, Alike
<1> QED
  BY <1>1, RowFacts DEF RowsMove

LEMMA ParksMoveRows ==
  ASSUME TypeOK, NEW c \in Claims, Parks(c), hist'.mine = hist.mine, hist'.ended = hist.ended
  PROVE  RowsMove
<1>1. \A t \in Tasks : /\ task'[t].run = task[t].run /\ task'[t].tip = task[t].tip
                       /\ task'[t].lease = task[t].lease \/ task'[t].lease = "parked"
  BY ParksEffect DEF TypeOK, Alike
<1> QED
  BY <1>1, RowFacts DEF RowsMove

LEMMA SessionMovesRows ==
  ASSUME Inv, SessionStep \/ Salvage
  PROVE  RowsMove
<1>1. TypeOK
  BY DEF Inv
<1>2. ASSUME NEW t \in Tasks, SessionClaims(t) PROVE RowsMove
  <2>1. /\ task'[t].lease = "ours" /\ task'[t].run = task[t].run + 1 /\ task'[t].tip = task[t].tip
        /\ \A u \in Tasks \ {t} : task'[u] = task[u]
        /\ hist'.mine = hist.mine \cup {[task |-> t, run |-> task[t].run + 1]}
        /\ hist'.ended = hist.ended
    BY <1>2, SessionClaimsEffect DEF OnlyRow
  <2> QED
    BY <1>1, <2>1, RowFacts DEF RowsMove
<1>3. ASSUME NEW e \in Ends, SessionEnds(e) PROVE RowsMove
  BY <1>1, <1>3, SessionEndsEffect, RowsStand
<1>4. CASE SessionRecordsBranch \/ SessionDeclaresNoCode \/ SessionReviews \/ SessionSettles
  <2> DEFINE t == res.on.task
  <2>1. /\ t \in Tasks /\ OnlyRow(t) /\ hist' = hist
        /\ task'[t].run = task[t].run
        /\ task'[t].tip = task[t].tip \/ task'[t].tip = task[t].tip + 1
        /\ task'[t].lease = task[t].lease \/ task'[t].lease = "handed"
    BY <1>4, RecordsBranchEffect, DeclaresNoCodeEffect, ReviewsEffect, SettlesEffect
    DEF Works, AlikeUnreviewed
  <2> QED
    BY <1>1, <2>1, RowFacts DEF RowsMove, OnlyRow
<1>5. CASE Salvage
  <2> DEFINE t == res.claim.task
  <2>1. /\ hist' = hist
        /\ \/ task' = task
           \/ /\ t \in Tasks /\ OnlyRow(t)
              /\ task'[t].run = task[t].run /\ task'[t].tip = task[t].tip + 1
              /\ task'[t].lease = task[t].lease
    BY <1>5, SalvageEffect
  <2> QED
    BY <1>1, <2>1, RowFacts, RowsStand DEF RowsMove, OnlyRow
<1> QED
  BY <1>2, <1>3, <1>4, <1>5 DEF SessionStep

\* Another clanker, or the plane's clock, moves a lease this drain does not hold, or loses.
LEMMA OthersEffect ==
  ASSUME Inv, Others
  PROVE  /\ UNCHANGED <<conf, pc, i, carried, cnt, try, res, end, stop, fleetDead, hist>>
         /\ \E t \in Tasks :
              /\ OnlyRow(t) /\ task'[t].tip = task[t].tip
              /\ task'[t].pushed = task[t].pushed /\ task'[t].nocode = task[t].nocode
              /\ task'[t].notes = task[t].notes
              /\ \/ /\ "lapse" \in Moves /\ task[t].lease = "ours" /\ task'[t].run = task[t].run
                    /\ task'[t].lease = IF task[t].tip > 0 THEN "takeover" ELSE "queue"
                    /\ task'[t].rec = task[t].rec
                 \/ /\ "take" \in Moves /\ task[t].lease \in {"queue", "takeover"}
                    /\ task'[t].run = task[t].run + 1 /\ task'[t].lease = "other"
                    /\ \A j \in Positions : task'[t].rec[j] = NoRecord
<1>1. PICK t \in Tasks : LeaseLapses(t) \/ OtherTakes(t)
  BY DEF Others
<1>2. task[t] \in TaskRows /\ task \in [Tasks -> TaskRows]
  BY DEF Inv, TypeOK
<1>3. CASE LeaseLapses(t)
  <2> DEFINE lease == IF task[t].tip > 0 THEN "takeover" ELSE "queue"
  <2>1. task' = [task EXCEPT ![t].lease = lease] /\ "lapse" \in Moves /\ task[t].lease = "ours"
    BY <1>3 DEF LeaseLapses
  <2>2. lease = IF task[t].tip > 0 THEN "takeover" ELSE "queue"
    OBVIOUS
  <2> HIDE DEF lease
  <2>3. task'[t] = [task[t] EXCEPT !.lease = lease] /\ OnlyRow(t)
    BY <1>2, <2>1 DEF OnlyRow
  <2>4. /\ task'[t].lease = lease /\ task'[t].run = task[t].run /\ task'[t].tip = task[t].tip
        /\ task'[t].pushed = task[t].pushed /\ task'[t].nocode = task[t].nocode
        /\ task'[t].notes = task[t].notes /\ task'[t].rec = task[t].rec
    BY <1>2, <2>3 DEF TaskRows
  <2> QED
    BY <1>3, <2>1, <2>2, <2>3, <2>4 DEF LeaseLapses
<1>4. CASE OtherTakes(t)
  <2> DEFINE recs == [j \in Positions |-> NoRecord]
             run == task[t].run + 1
  <2>1. task' = [task EXCEPT ![t] = [@ EXCEPT !.lease = "other", !.run = run, !.rec = recs]]
    BY <1>4 DEF OtherTakes
  <2>2. (\A j \in Positions : recs[j] = NoRecord) /\ run = task[t].run + 1
    OBVIOUS
  <2> HIDE DEF recs, run
  <2>3. task'[t] = [task[t] EXCEPT !.lease = "other", !.run = run, !.rec = recs] /\ OnlyRow(t)
    BY <1>2, <2>1 DEF OnlyRow
  <2>4. /\ task'[t].lease = "other" /\ task'[t].run = run /\ task'[t].tip = task[t].tip
        /\ task'[t].pushed = task[t].pushed /\ task'[t].nocode = task[t].nocode
        /\ task'[t].notes = task[t].notes /\ task'[t].rec = recs
    BY <1>2, <2>3 DEF TaskRows
  <2> QED
    BY <1>4, <2>2, <2>3, <2>4 DEF OtherTakes
<1> QED
  BY <1>1, <1>3, <1>4

LEMMA RowsMoveStep == Inv /\ [Next]_vars => RowsMove
<1> SUFFICES ASSUME Inv, [Next]_vars PROVE RowsMove
  OBVIOUS
<1>1. /\ TypeOK /\ carried \in Claims /\ res.claim \in Claims /\ end.claim \in Claims
      /\ hist \in Histories
  BY DEF Inv, TypeOK, Sessions, PhaseEnds
<1>2. Inv'
  BY NextInv
<1>3. end'.claim \in Claims'
  BY <1>2 DEF Inv, TypeOK, PhaseEnds
<1>4. CASE SequenceOver \/ PhaseStarts \/ AttemptRefused \/ SessionSpawns \/ Waited \/ EndWait
           \/ Finished \/ UNCHANGED vars
  <2>1. task' = task
    BY <1>4 DEF SequenceOver, PhaseStarts, AttemptRefused, SessionSpawns, Waited, EndWait, Finished, vars
  <2>2. hist'.mine = hist.mine /\ hist'.ended = hist.ended
    BY <1>4, PhaseStartsEffect DEF SequenceOver, AttemptRefused, SessionSpawns, Waited, EndWait, Finished, vars
  <2> QED
    BY <1>1, <2>1, <2>2, RowsStand
<1>5. CASE PhaseRefused
  BY <1>1, <1>5, PhaseRefusedEffect, ReleasesMoveRows
<1>6. CASE releaseCarried
  BY <1>1, <1>6, ReleaseCarriedEffect, ReleasesMoveRows
<1>7. CASE Handback
  BY <1>1, <1>7, HandbackEffect, ReleasesMoveRows
<1>8. CASE JudgeVerification \/ JudgePhase \/ JudgeOther
  BY <1>1, <1>8, JudgeEffect, ClosedMovesRows DEF Judges, JudgeFrame
<1>9. CASE peekCheckpointClaim
  <2>1. Closed(end'.claim) /\ hist'.mine = hist.mine /\ hist'.ended = hist.ended /\ conf' = conf
    BY <1>9, PeekEffect
  <2>2. end'.claim \in Claims
    BY <1>3, <2>1, ConfStays
  <2> QED
    BY <1>1, <2>1, <2>2, ClosedMovesRows
<1>10. CASE Route
  <2>1. RouteReturns \/ RouteRetries \/ RouteWaits
    BY <1>10, RouteEffect
  <2>2. (task' = task /\ hist' = hist) \/ Releases(end.claim, TRUE)
    BY <2>1 DEF RouteReturns, RouteRetries, RouteWaits
  <2> QED
    BY <1>1, <2>2, RowsStand, ReleasesMoveRows
<1>11. CASE Seam
  <2>1. hist'.mine = hist.mine /\ hist'.ended = hist.ended
        /\ (task' = task \/ Parks(end.claim) \/ Closed(end.claim))
    BY <1>11, SeamEffect DEF SeamCommon, SeamGoesOn, SeamRefused, SeamStops
  <2> QED
    BY <1>1, <2>1, RowsStand, ParksMoveRows, ClosedMovesRows
<1>12. CASE SessionStep \/ Salvage
  BY <1>12, SessionMovesRows
<1>13. CASE Others
  <2>1. hist' = hist
    BY <1>13, OthersEffect
  <2>2. PICK t \in Tasks :
          /\ OnlyRow(t) /\ task'[t].tip = task[t].tip
          /\ \/ /\ task[t].lease = "ours" /\ task'[t].run = task[t].run
                /\ task'[t].lease \in {"queue", "takeover"}
             \/ "take" \in Moves /\ task'[t].run = task[t].run + 1 /\ task'[t].lease = "other"
    BY <1>13, OthersEffect
  <2> QED
    BY <1>1, <2>1, <2>2, RowFacts DEF RowsMove, OnlyRow
<1> QED
  BY <1>4, <1>5, <1>6, <1>7, <1>8, <1>9, <1>10, <1>11, <1>12, <1>13 DEF Next, Driver

LEMMA NextKeepsConf == [Next]_vars => conf' = conf
  BY DEF Next, Driver, SessionStep, Others, Finished, vars, Seam, Route,
         SequenceOver, PhaseStarts, PhaseRefused, AttemptRefused, SessionSpawns, SessionSteps,
         SessionClaims, SessionRecordsBranch, SessionDeclaresNoCode, SessionReviews, SessionSettles,
         SessionEnds, LeaseLapses, OtherTakes, Salvage, JudgeFrame, JudgeVerification, JudgePhase,
         JudgeOther, peekCheckpointClaim, Handback, RouteFrame, RouteUnstarted, RouteUntrusted,
         RouteNoMCP, RouteLimited, RouteFinished, RouteTransient, RouteFatal, Waited, SeamFrame,
         SeamEnds, SeamParksDead, SeamDies, SeamErrs, SeamHandsOff, SeamRefuses, SeamEmpty,
         SeamNoCheckpoint, SeamVerified, SeamVerifies, SeamParksVerification, SeamAdvances,
         releaseCarried, EndWait

LEMMA GoneStays ==
  ASSUME TypeOK, RowsMove, NEW r \in RunIds, Gone(r, task)
  PROVE  Gone(r, task')
<1>1. r.task \in Tasks /\ r.run \in Nat
  <2>1. MaxRun \in Nat
    BY ConfFacts DEF TypeOK
  <2> QED
    BY <2>1 DEF Gone, RunIds, Runs
<1>2. task'[r.task].run >= task[r.task].run /\ task[r.task].run \in Nat /\ r.run <= task[r.task].run
  BY <1>1, RowFacts DEF RowsMove, Gone
<1>3. CASE task'[r.task].run = task[r.task].run
  BY <1>1, <1>2, <1>3 DEF RowsMove, Gone
<1>4. CASE task'[r.task].run # task[r.task].run
  <2>1. task'[r.task].run \in Nat
    BY <1>1 DEF RowsMove
  <2> QED
    BY <1>1, <1>2, <1>4, <2>1 DEF Gone
<1> QED
  BY <1>3, <1>4

LEMMA RowsAreOursStep ==
  ASSUME TypeOK, RowsMove, RowsAreOurs, conf' = conf
  PROVE  RowsAreOurs'
<1>1. Tasks' = Tasks /\ Moves' = Moves
  BY ConfStays DEF Moves
<1>2. ASSUME NEW t \in Tasks, task'[t].lease = "ours"
      PROVE  [task |-> t, run |-> task'[t].run] \in hist'.mine
  <2>1. CASE task[t].lease = "ours" /\ task'[t].run = task[t].run
    BY <2>1 DEF RowsAreOurs, RowsMove
  <2>2. CASE [task |-> t, run |-> task'[t].run] \in hist'.mine
    BY <2>2
  <2> QED
    BY <1>2, <2>1, <2>2 DEF RowsMove
<1>3. ASSUME NEW r \in hist'.ended PROVE Gone(r, task')
  <2>1. CASE r \in hist.ended
    BY <2>1, GoneStays DEF RowsAreOurs, TypeOK, Histories
  <2> QED
    BY <2>1 DEF RowsMove
<1>4. "take" \notin Moves => \A t \in Tasks : task'[t].lease # "other"
  BY DEF RowsAreOurs, RowsMove
<1> QED
  BY <1>1, <1>2, <1>3, <1>4 DEF RowsAreOurs, Gone

-----------------------------------------------------------------------------
(* The claims the driver holds, or the session and the phase name.         *)

\* The runs a claim may name: any run of a lease that somebody may take, else this
\* drain's own.
OwnRuns == IF "take" \in Moves THEN RunIds ELSE hist.mine

\* A claim names a run that the plane knows, a settled one is gone, and the branch it
\* names is recorded.
Sound(c, rows, own) ==
  /\ c.task = NoTask => c = NoClaim
  /\ c.task # NoTask =>
       /\ c.run <= rows[c.task].run /\ RunOf(c) \in own
       /\ c.settled => Gone(RunOf(c), rows)
       /\ c.wip => rows[c.task].tip > 0

ClaimsAreSound ==
  Sound(carried, task, OwnRuns) /\ Sound(res.claim, task, OwnRuns) /\ Sound(end.claim, task, OwnRuns)

LEMMA OwnRunsGrow ==
  ASSUME TypeOK, RowsMove, conf' = conf
  PROVE  OwnRuns \subseteq OwnRuns'
<1>1. Moves' = Moves /\ RunIds' = RunIds
  BY ConfStays DEF Moves
<1> QED
  BY <1>1 DEF OwnRuns, RowsMove

LEMMA SoundStays ==
  ASSUME TypeOK, RowsMove, conf' = conf, NEW c \in Claims, Sound(c, task, OwnRuns)
  PROVE  Sound(c, task', OwnRuns')
<1>1. CASE c.task = NoTask
  BY <1>1 DEF Sound
<1>2. CASE c.task # NoTask
  <2>1. c.task \in Tasks /\ RunOf(c) \in RunIds /\ c.run \in Nat
    <3>1. MaxRun \in Nat
      BY ConfFacts DEF TypeOK
    <3> QED
      BY <1>2, <3>1, HeldHasATask DEF Runs
  <2> DEFINE a == task[c.task]
             b == task'[c.task]
  <2>2. c.run <= b.run /\ (c.wip => b.tip > 0)
    <3>1. a.run \in Nat /\ a.tip \in Nat
      BY <2>1, RowFacts
    <3>2. b.run \in Nat /\ b.run >= a.run /\ b.tip \in Nat /\ b.tip >= a.tip
      BY <2>1 DEF RowsMove
    <3>3. c.run <= a.run /\ (c.wip => a.tip > 0)
      BY <1>2 DEF Sound
    <3> HIDE DEF a, b
    <3> QED
      BY <2>1, <3>1, <3>2, <3>3
  <2>3. c.settled => Gone(RunOf(c), task')
    BY <1>2, <2>1, GoneStays DEF Sound
  <2>4. RunOf(c) \in OwnRuns'
    BY <1>2, OwnRunsGrow DEF Sound
  <2> QED
    BY <1>2, <2>2, <2>3, <2>4 DEF Sound
<1> QED
  BY <1>1, <1>2

LEMMA NoClaimIsSound == ASSUME NEW rows, NEW own PROVE Sound(NoClaim, rows, own)
  BY DEF Sound, NoClaim

\* A claim of the same run, with a branch if the other has one or the row has.
LEMMA SoundLike ==
  ASSUME NEW rows, NEW own, NEW c \in Claims, NEW d \in Claims, Sound(c, rows, own),
         d.task = c.task, d.run = c.run,
         d.settled => c.settled \/ Gone(RunOf(c), rows),
         d.wip => c.wip \/ (c.task # NoTask /\ rows[c.task].tip > 0),
         c.task = NoTask => d.branch = c.branch
  PROVE  Sound(d, rows, own)
<1>1. RunOf(d) = RunOf(c)
  BY DEF RunOf
<1>2. CASE c.task = NoTask
  <2>1. c = NoClaim /\ ~c.settled /\ ~c.wip
    BY <1>2 DEF Sound, NoClaim
  <2>2. Gone(RunOf(c), rows) => FALSE
    BY <1>2 DEF Gone, RunOf
  <2>3. d.settled = c.settled /\ d.wip = c.wip
    BY <1>2, <2>1, <2>2 DEF Claims
  <2>4. d = c
    BY <1>2, <2>3 DEF Claims
  <2> QED
    BY <2>4
<1>3. CASE c.task # NoTask
  BY <1>1, <1>3 DEF Sound
<1> QED
  BY <1>2, <1>3

\* The steps of the driver that leave the session's result alone.
DriverAlone ==
  \/ SequenceOver \/ PhaseStarts \/ PhaseRefused \/ AttemptRefused
  \/ JudgeVerification \/ JudgePhase \/ JudgeOther
  \/ peekCheckpointClaim \/ Handback \/ Route \/ Waited \/ Seam \/ releaseCarried \/ EndWait

LEMMA NextCases ==
  ASSUME [Next]_vars
  PROVE  DriverAlone \/ SessionSpawns \/ SessionStep \/ Salvage \/ Others \/ UNCHANGED vars
  BY DEF Next, Driver, DriverAlone, Finished

LEMMA ResultStands ==
  ASSUME Inv, DriverAlone \/ Others \/ UNCHANGED vars
  PROVE  res' = res
<1>1. CASE SequenceOver \/ AttemptRefused \/ Waited \/ EndWait \/ UNCHANGED vars
  BY <1>1 DEF SequenceOver, AttemptRefused, Waited, EndWait, vars
<1>2. CASE PhaseStarts \/ PhaseRefused \/ releaseCarried
  BY <1>2 DEF PhaseStarts, PhaseRefused, releaseCarried
<1>3. CASE JudgeVerification \/ JudgePhase \/ JudgeOther \/ peekCheckpointClaim \/ Handback
  BY <1>3 DEF JudgeVerification, JudgePhase, JudgeOther, JudgeFrame, peekCheckpointClaim, Handback
<1>4. CASE Route
  BY <1>4, RouteEffect DEF RouteFrame
<1>5. CASE Seam
  BY <1>5, SeamEffect DEF SeamCommon, SeamFrame
<1>6. CASE Others
  BY <1>6, OthersEffect
<1> QED
  BY <1>1, <1>2, <1>3, <1>4, <1>5, <1>6 DEF DriverAlone

LEMMA CarriedStands ==
  ASSUME Inv, [Next]_vars
  PROVE  carried' \in {carried, end.claim, NoClaim}
<1>1. CASE SequenceOver \/ PhaseStarts \/ PhaseRefused \/ AttemptRefused \/ SessionSpawns
  BY <1>1 DEF SequenceOver, PhaseStarts, PhaseRefused, AttemptRefused, SessionSpawns
<1>2. CASE JudgeVerification \/ JudgePhase \/ JudgeOther \/ peekCheckpointClaim \/ Handback \/ Salvage
  BY <1>2 DEF JudgeVerification, JudgePhase, JudgeOther, JudgeFrame, peekCheckpointClaim, Handback, Salvage
<1>3. CASE Route
  BY <1>3, RouteEffect DEF RouteFrame
<1>4. CASE Seam
  BY <1>4, SeamEffect DEF SeamGoesOn, SeamRefused, SeamStops, Taken
<1>5. CASE Waited \/ releaseCarried \/ EndWait \/ Others \/ UNCHANGED vars
  BY <1>5, OthersEffect DEF Waited, releaseCarried, EndWait, vars
<1>6. CASE SessionStep
  BY <1>6 DEF SessionStep, SessionClaims, SessionRecordsBranch, SessionDeclaresNoCode, SessionReviews,
              SessionSettles, SessionEnds, SessionSteps
<1> QED
  BY <1>1, <1>2, <1>3, <1>4, <1>5, <1>6 DEF Next, Driver, Finished

LEMMA ClaimsStayTyped ==
  ASSUME Inv, [Next]_vars
  PROVE  /\ TypeOK /\ RowsMove /\ conf' = conf
         /\ carried \in Claims /\ res.claim \in Claims /\ end.claim \in Claims
         /\ carried' \in Claims /\ res'.claim \in Claims /\ end'.claim \in Claims
         /\ RunIds' = RunIds /\ NoClaim \in Claims
<1>1. TypeOK /\ TypeOK' /\ conf' = conf /\ RowsMove
  BY NextInv, NextKeepsConf, RowsMoveStep DEF Inv
<1>2. Claims' = Claims /\ RunIds' = RunIds
  BY <1>1, ConfStays
<1>3. carried \in Claims /\ res.claim \in Claims /\ end.claim \in Claims
      /\ carried' \in Claims /\ res'.claim \in Claims /\ end'.claim \in Claims
  BY <1>1, <1>2 DEF TypeOK, Sessions, PhaseEnds
<1> QED
  BY <1>1, <1>2, <1>3, NothingIsTyped DEF TypeOK

LEMMA SessionClaimIsSound ==
  ASSUME Inv, [Next]_vars, Sound(carried, task', OwnRuns'), Sound(res.claim, task', OwnRuns')
  PROVE  Sound(res'.claim, task', OwnRuns')
<1>1. /\ TypeOK /\ RowsMove /\ conf' = conf /\ RunIds' = RunIds
      /\ res.claim \in Claims /\ res'.claim \in Claims
  BY ClaimsStayTyped
<1>2. CASE DriverAlone \/ Others \/ UNCHANGED vars
  BY <1>2, ResultStands
<1>3. CASE SessionSpawns
  BY <1>3 DEF SessionSpawns, NoSession
<1>4. ASSUME NEW t \in Tasks, SessionClaims(t) PROVE Sound(res'.claim, task', OwnRuns')
  <2>1. CASE res'.claim = res.claim
    BY <2>1
  <2>2. CASE res'.claim # res.claim
    <3>1. /\ RunOf(res'.claim) = [task |-> t, run |-> task[t].run + 1]
          /\ res'.claim.task = t /\ res'.claim.run = task[t].run + 1 /\ ~res'.claim.settled
          /\ res'.claim.wip <=> task[t].tip > 0
          /\ task'[t].run = task[t].run + 1 /\ task'[t].tip = task[t].tip
          /\ hist'.mine = hist.mine \cup {[task |-> t, run |-> task[t].run + 1]}
      BY <1>4, <2>2, SessionClaimsEffect
    <3>2. t # NoTask /\ task[t].run \in Nat
      BY <1>1, RowFacts, ConfFacts DEF TypeOK
    <3>3. RunOf(res'.claim) \in OwnRuns'
      <4>1. RunOf(res'.claim) \in hist'.mine /\ RunOf(res'.claim) \in RunIds'
        BY <1>1, <3>1, RunsAreIds
      <4> QED
        BY <4>1 DEF OwnRuns
    <3>4. res'.claim.run <= task'[t].run /\ (res'.claim.wip => task'[t].tip > 0)
      BY <3>1, <3>2
    <3> QED
      BY <3>1, <3>2, <3>3, <3>4 DEF Sound
  <2> QED
    BY <2>1, <2>2
<1>5. CASE SessionRecordsBranch \/ SessionDeclaresNoCode \/ SessionReviews
  <2>1. /\ Works /\ res'.claim.settled = res.claim.settled
        /\ \/ res'.claim = res.claim
           \/ seen /\ task'[res.on.task].tip = task[res.on.task].tip + 1
    BY <1>5, RecordsBranchEffect, DeclaresNoCodeEffect, ReviewsEffect
  <2>2. CASE res'.claim = res.claim
    BY <2>2
  <2>3. CASE seen /\ task'[res.on.task].tip = task[res.on.task].tip + 1
    <3>1. res.claim.task = res.on.task /\ res.on.task \in Tasks /\ res.on.task # NoTask
      BY <2>1, <2>3 DEF seen, RunOf, Works, Working
    <3>2. task'[res.claim.task].tip > 0
      BY <1>1, <2>3, <3>1, RowFacts
    <3> QED
      BY <1>1, <2>1, <3>1, <3>2, SoundLike DEF Works
  <2> QED
    BY <2>1, <2>2, <2>3
<1>6. CASE SessionSettles
  <2>1. /\ Works /\ task'[res.on.task].lease = "handed" /\ task'[res.on.task].run = task[res.on.task].run
        /\ res'.claim.wip = res.claim.wip /\ res'.claim.branch = res.claim.branch
        /\ (res'.claim = res.claim \/ seen)
    BY <1>6, SettlesEffect
  <2>2. CASE seen
    <3>1. res.claim.task = res.on.task /\ res.claim.run = res.on.run /\ res.on.task \in Tasks
          /\ res.on.task # NoTask /\ task[res.on.task].run = res.on.run
      BY <2>1, <2>2 DEF seen, RunOf, Works, Working
    <3>2. Gone(RunOf(res.claim), task')
      BY <1>1, <2>1, <3>1, RowFacts DEF Gone, RunOf
    <3> QED
      BY <1>1, <2>1, <3>2, SoundLike DEF Works
  <2> QED
    BY <2>1, <2>2
<1>7. ASSUME NEW e \in Ends, SessionEnds(e) PROVE Sound(res'.claim, task', OwnRuns')
  <2>1. res'.claim = res.claim \/ res'.claim = NoClaim
    BY <1>7, SessionEndsEffect
  <2> QED
    BY <2>1, NoClaimIsSound
<1>8. CASE Salvage
  <2>1. CASE UNCHANGED <<task, res>>
    BY <2>1
  <2>2. CASE ~UNCHANGED <<task, res>>
    <3>1. /\ Held(res.claim) /\ res.claim.task \in Tasks
          /\ task'[res.claim.task].tip = task[res.claim.task].tip + 1
          /\ res'.claim.task = res.claim.task /\ res'.claim.run = res.claim.run
          /\ res'.claim.settled = res.claim.settled
      BY <1>8, <2>2, SalvageEffect
    <3>2. task'[res.claim.task].tip > 0 /\ res.claim.task # NoTask
      BY <1>1, <3>1, RowFacts DEF Held
    <3> QED
      BY <1>1, <3>1, <3>2, SoundLike
  <2> QED
    BY <2>1, <2>2
<1> QED
  BY <1>2, <1>3, <1>4, <1>5, <1>6, <1>7, <1>8, NextCases DEF SessionStep

LEMMA EndStands ==
  ASSUME Inv, [Next]_vars
  PROVE  \/ end'.claim \in {end.claim, carried, NoClaim}
         \/ JudgeVerification \/ JudgePhase \/ JudgeOther \/ peekCheckpointClaim
<1>1. CASE SequenceOver \/ AttemptRefused \/ SessionSpawns \/ Salvage \/ Waited \/ releaseCarried \/ EndWait
  BY <1>1 DEF Inv, TypeOK, PhaseEnds, SequenceOver, AttemptRefused, SessionSpawns, Salvage, Waited,
              releaseCarried, EndWait
<1>2. CASE PhaseStarts \/ PhaseRefused
  <2>1. CASE PhaseStarts
    BY <2>1, PhaseStartsEffect DEF NoEnd
  <2>2. CASE PhaseRefused
    BY <2>2, PhaseRefusedEffect
  <2> QED
    BY <1>2, <2>1, <2>2
<1>3. CASE Handback
  BY <1>3, HandbackEffect
<1>4. CASE Route
  BY <1>4, RouteEffect DEF RouteReturns, RouteRetries, RouteWaits, SameEnd, EmptyEnd
<1>5. CASE Seam
  BY <1>5, SeamEffect DEF SeamGoesOn, SeamRefused, SeamStops
<1>6. CASE SessionStep
  BY <1>6 DEF SessionStep, SessionClaims, SessionRecordsBranch, SessionDeclaresNoCode, SessionReviews,
              SessionSettles, SessionEnds, SessionSteps
<1>7. CASE Others \/ UNCHANGED vars
  BY <1>7, OthersEffect DEF vars
<1> QED
  BY <1>1, <1>2, <1>3, <1>4, <1>5, <1>6, <1>7 DEF Next, Driver, Finished

LEMMA ClaimsAreSoundStep ==
  ASSUME Inv, RowsAreOurs, ClaimsAreSound, [Next]_vars
  PROVE  ClaimsAreSound'
<1>1. /\ TypeOK /\ RowsMove /\ conf' = conf
      /\ carried \in Claims /\ res.claim \in Claims /\ end.claim \in Claims
      /\ carried' \in Claims /\ res'.claim \in Claims /\ end'.claim \in Claims /\ RunIds' = RunIds
  BY ClaimsStayTyped
<1>2. /\ Sound(carried, task', OwnRuns') /\ Sound(res.claim, task', OwnRuns')
      /\ Sound(end.claim, task', OwnRuns') /\ Sound(NoClaim, task', OwnRuns')
  BY <1>1, SoundStays, NoClaimIsSound DEF ClaimsAreSound
<1>3. Sound(carried', task', OwnRuns')
  BY <1>2, CarriedStands
<1>4. Sound(res'.claim, task', OwnRuns')
  BY <1>2, SessionClaimIsSound
<1>5. Sound(end'.claim, task', OwnRuns')
  <2>1. CASE end'.claim \in {end.claim, carried, NoClaim}
    BY <1>2, <2>1
  <2>2. CASE JudgeVerification \/ JudgePhase \/ JudgeOther
    <3>1. /\ end'.claim.task = res.claim.task /\ end'.claim.run = res.claim.run
          /\ end'.claim.settled = res.claim.settled /\ end'.claim.wip = res.claim.wip
          /\ res.claim.task = NoTask => end'.claim.branch = res.claim.branch
      BY <2>2, JudgeEffect DEF Judges
    <3> QED
      BY <1>1, <1>2, <3>1, SoundLike
  <2>3. CASE peekCheckpointClaim
    <3> DEFINE t == try.briefed
    <3>1. /\ t \in Tasks /\ InCustody(t) /\ Peeked(end'.claim) /\ Closed(end'.claim)
          /\ hist'.mine = hist.mine
      BY <2>3, PeekEffect
    <3>2. t # NoTask /\ task[t].run \in Nat /\ task[t].tip \in Nat
      BY <1>1, <3>1, RowFacts, ConfFacts DEF TypeOK
    <3>3. task'[t].run = task[t].run /\ task'[t].tip = task[t].tip
      BY <1>1, <3>1, CloseEffect DEF Closed, Alike, TypeOK
    <3>4. RunOf(end'.claim) \in OwnRuns'
      <4>1. RunOf(end'.claim) \in RunIds'
        BY <1>1, RunsAreIds
      <4>2. "take" \notin Moves => task[t].lease = "ours"
        BY <3>1 DEF RowsAreOurs, InCustody
      <4>3. RunOf(end'.claim) = [task |-> t, run |-> task[t].run]
        BY <3>1 DEF Peeked, RunOf
      <4>4. "take" \notin Moves => RunOf(end'.claim) \in hist'.mine
        BY <3>1, <4>2, <4>3 DEF RowsAreOurs
      <4>5. Moves' = Moves
        BY <1>1 DEF Moves
      <4> QED
        BY <4>1, <4>4, <4>5 DEF OwnRuns
    <3> QED
      BY <3>1, <3>2, <3>3, <3>4 DEF Sound, Peeked, InCustody
  <2> QED
    BY <2>1, <2>2, <2>3, EndStands
<1> QED
  BY <1>3, <1>4, <1>5 DEF ClaimsAreSound

-----------------------------------------------------------------------------
(* What the driver knows of a phase, from its session to the seam.         *)

\* A phase that keeps its claim holds it and has not handed it back: for a checkpoint,
\* and for open MUSTs.  A death, or a fresh task in the queue, comes with a handback.
EndHolds(e) ==
  /\ e.musts # {} => ~e.released /\ e.claim.task # NoTask
  /\ e.checkpoint => ~e.released /\ Held(e.claim)
  /\ e.handoff => e.checkpoint
  /\ e.dead \/ e.toQueue => e.released

InSession == pc \in {"session", "salvage", "judge"}

EndsAsListed == pc \in {"salvage", "judge", "handback", "route"} => <<res.how, res.after>> \in Ends

\* What a session reports is a branch of the claim the driver knows.
Reported ==
  /\ InSession /\ res.reported =>
       ~ReviewShaped(i) /\ res.claim.task # NoTask /\ task[res.claim.task].tip > 0
  /\ pc = "session" /\ res.reported => res.mcp

\* The verdict that calls for a handback is on the session's claim.
HandsBack ==
  pc = "handback" =>
    /\ end.claim.task = res.claim.task /\ end.claim.run = res.claim.run
    /\ end.claim.settled = res.claim.settled /\ end.claim.wip = res.claim.wip
    /\ end.released <=> Held(res.claim)
    /\ ~RetriesNoMCP /\ ~end.checkpoint

Retried == pc = "route" /\ RetriesNoMCP => ~end.checkpoint /\ ~end.released /\ ReviewShaped(i)

WaitsEmptyHanded == pc \in {"limited", "backoff", "wait", "done"} => carried = NoClaim

MustsEnd == hist.must # {} => pc \in {"wait", "done"} \/ (pc = "release" /\ carried = NoClaim)

\* A phase never resumes a claim that its predecessor's session settled.
CarriedIsOpen == carried.settled => pc = "release" \/ (pc = "boundary" /\ i > Len(Phases))

EndsAgree ==
  /\ EndHolds(end) /\ EndsAsListed /\ Reported /\ HandsBack /\ Retried /\ WaitsEmptyHanded
  /\ MustsEnd /\ CarriedIsOpen

\* What every step of the layers below may take for granted.
ClaimsInv == Inv /\ RowsAreOurs /\ ClaimsAreSound /\ EndsAgree

LEMMA SameEndHolds ==
  ASSUME EndHolds(end), SameEnd(end, end')
  PROVE  EndHolds(end')
  BY DEF EndHolds, SameEnd, Held

LEMMA PlaceStays ==
  ASSUME conf' = conf
  PROVE  /\ Ends' = Ends /\ Phases' = Phases /\ Moves' = Moves /\ Faults' = Faults
         /\ i' = i => (ReviewShaped(i)' <=> ReviewShaped(i)) /\ (Last(i)' <=> Last(i))
  BY DEF Ends, Phases, Moves, Faults, ReviewShaped, Last, Positions

LEMMA ReportedStays ==
  ASSUME TypeOK, RowsMove, conf' = conf, i' = i, Reported, res' = res,
         pc' = "session" => pc = "session", InSession' => InSession
  PROVE  Reported'
<1>1. ReviewShaped(i)' <=> ReviewShaped(i)
  BY PlaceStays
<1>2. ASSUME InSession, res.reported PROVE task'[res.claim.task].tip > 0
  <2>1. res.claim.task \in Tasks /\ task[res.claim.task].tip > 0
    BY <1>2, HeldHasATask DEF TypeOK, Sessions, Reported
  <2>2. task[res.claim.task].tip \in Nat /\ task'[res.claim.task].tip \in Nat
        /\ task'[res.claim.task].tip >= task[res.claim.task].tip
    BY <2>1, RowFacts DEF RowsMove
  <2> QED
    BY <2>1, <2>2
<1> QED
  BY <1>1, <1>2 DEF Reported

LEMMA EndsAgreeQuietly ==
  ASSUME Inv, EndsAgree, [Next]_vars, RowsMove,
         SequenceOver \/ PhaseStarts \/ PhaseRefused \/ AttemptRefused \/ SessionSpawns \/ Waited \/ EndWait
         \/ releaseCarried \/ Others \/ UNCHANGED vars
  PROVE  EndsAgree'
<1>1. TypeOK /\ end \in PhaseEnds /\ conf' = conf /\ res \in Sessions
  BY NextKeepsConf DEF Inv, TypeOK
<1>2. CASE SequenceOver
  BY <1>2 DEF SequenceOver, EndsAgree, EndsAsListed, Reported, InSession, HandsBack, Retried,
              WaitsEmptyHanded, MustsEnd, CarriedIsOpen
<1>3. CASE PhaseStarts
  <2>1. EndHolds(end')
    BY <1>3, PhaseStartsEffect DEF EndHolds, NoEnd
  <2>2. /\ pc = "boundary" /\ pc' = "attempt" /\ i \in Positions /\ i' = i /\ carried' = carried
        /\ hist'.must = hist.must
    BY <1>3, PhaseStartsEffect
  <2>3. ~carried.settled /\ hist.must = {}
    BY <1>1, <2>2, ConfFacts DEF EndsAgree, CarriedIsOpen, MustsEnd, TypeOK, Positions
  <2> QED
    BY <2>1, <2>2, <2>3 DEF EndsAgree, EndsAsListed, Reported, InSession, HandsBack, Retried,
              WaitsEmptyHanded, MustsEnd, CarriedIsOpen
<1>4. CASE PhaseRefused
  <2>1. /\ pc = "boundary" /\ pc' = "seam" /\ i \in Positions /\ i' = i /\ carried' = carried
        /\ hist'.must = hist.must
        /\ end'.claim = carried /\ end'.released = Held(carried)
        /\ end'.toQueue => Held(carried)
        /\ ~end'.checkpoint /\ ~end'.handoff /\ ~end'.dead /\ end'.musts = {}
    BY <1>4, PhaseRefusedEffect DEF Releases
  <2>2. EndHolds(end')
    BY <2>1 DEF EndHolds
  <2>3. ~carried.settled /\ hist.must = {}
    BY <1>1, <2>1, ConfFacts DEF EndsAgree, CarriedIsOpen, MustsEnd, TypeOK, Positions
  <2> QED
    BY <2>1, <2>2, <2>3 DEF EndsAgree, EndsAsListed, Reported, InSession, HandsBack, Retried,
              WaitsEmptyHanded, MustsEnd, CarriedIsOpen
<1>5. CASE AttemptRefused \/ SessionSpawns \/ Waited
  <2>1. SameEnd(end, end') /\ i' = i /\ carried' = carried /\ hist' = hist
        /\ pc \in {"attempt", "limited", "backoff"} /\ pc' \in {"session", "seam", "attempt"}
    BY <1>1, <1>5 DEF AttemptRefused, SessionSpawns, Waited, SameEnd, PhaseEnds
  <2>2. EndHolds(end')
    BY <2>1, SameEndHolds DEF EndsAgree
  <2>3. pc' = "session" => ~res'.reported
    BY <1>5 DEF AttemptRefused, SessionSpawns, Waited, NoSession
  <2> QED
    BY <2>1, <2>2, <2>3 DEF EndsAgree, EndsAsListed, Reported, InSession, HandsBack, Retried,
              WaitsEmptyHanded, MustsEnd, CarriedIsOpen
<1>6. CASE EndWait \/ releaseCarried
  <2>1. /\ pc \in {"wait", "release"} /\ pc' \in {"wait", "done"} /\ end' = end
    BY <1>6, ReleaseCarriedEffect DEF EndWait
  <2>2. carried' = NoClaim
    BY <1>6, <2>1 DEF EndWait, releaseCarried, EndsAgree, WaitsEmptyHanded
  <2> QED
    BY <2>1, <2>2 DEF EndsAgree, EndsAsListed, Reported, InSession, HandsBack, Retried,
              WaitsEmptyHanded, MustsEnd, CarriedIsOpen, NoClaim
<1>7. CASE Others \/ UNCHANGED vars
  <2>1. UNCHANGED <<conf, pc, i, carried, cnt, try, res, end, hist>>
    BY <1>7, OthersEffect DEF vars
  <2>2. Reported'
    BY <1>1, <2>1, ReportedStays DEF EndsAgree, InSession
  <2>3. ReviewShaped(i)' <=> ReviewShaped(i)
    BY <1>1, <2>1, PlaceStays
  <2>4. Ends' = Ends /\ Phases' = Phases
    BY <1>1, PlaceStays
  <2> QED
    BY <2>1, <2>2, <2>3, <2>4 DEF EndsAgree, EndsAsListed, HandsBack, Retried, RetriesNoMCP,
              WaitsEmptyHanded, MustsEnd, CarriedIsOpen
<1> QED
  BY <1>2, <1>3, <1>4, <1>5, <1>6, <1>7

\* A step of the session, or the salvage of its work, tells the driver nothing untrue.
LEMMA ReportedGrows ==
  ASSUME Inv, EndsAgree, RowsMove, InSession, conf' = conf, i' = i, pc' = "session" => pc = "session",
         res'.reported => res.reported, res'.claim.task = res.claim.task, res.mcp => res'.mcp
  PROVE  Reported'
<1>1. ReviewShaped(i)' <=> ReviewShaped(i)
  BY PlaceStays
<1>2. ASSUME res'.reported
      PROVE  ~ReviewShaped(i) /\ res.claim.task # NoTask /\ task'[res.claim.task].tip > 0
  <2>1. ~ReviewShaped(i) /\ res.claim.task # NoTask /\ task[res.claim.task].tip > 0
    BY <1>2 DEF EndsAgree, Reported
  <2>2. TypeOK /\ res.claim.task \in Tasks
    BY <2>1, HeldHasATask DEF Inv, TypeOK, Sessions
  <2>3. task[res.claim.task].tip \in Nat /\ task'[res.claim.task].tip \in Nat
        /\ task'[res.claim.task].tip >= task[res.claim.task].tip
    BY <2>2, RowFacts DEF RowsMove
  <2> QED
    BY <2>1, <2>3
<1> QED
  BY <1>1, <1>2 DEF EndsAgree, Reported

\* What the driver learns from its session, and what it leaves alone meanwhile.
Learns ==
  /\ Reported' /\ EndsAsListed'
  /\ UNCHANGED <<conf, i, carried, try, end>> /\ hist'.must = hist.must
  /\ pc \in {"session", "salvage"} /\ pc' \in {"session", "salvage", "judge"}

LEMMA SessionReports ==
  ASSUME Inv, EndsAgree, [Next]_vars, RowsMove, SessionStep \/ Salvage
  PROVE  Learns
<1>1. TypeOK /\ conf' = conf
  BY NextKeepsConf DEF Inv
<1>2. ASSUME NEW t \in Tasks, SessionClaims(t) PROVE Learns
  BY <1>2, SessionClaimsEffect DEF Learns, SessionSteps, Reported, EndsAsListed
<1>3. CASE SessionRecordsBranch
  <2>1. /\ Works /\ ~ReviewShaped(i) /\ (res'.reported <=> seen)
        /\ task'[res.on.task].tip = task[res.on.task].tip + 1
    BY <1>3, RecordsBranchEffect
  <2>2. ASSUME seen PROVE res'.claim.task # NoTask /\ task'[res'.claim.task].tip > 0
    <3>1. res.on.task \in Tasks /\ res'.claim.task = res.claim.task
      BY <2>1 DEF Works
    <3>2. res.claim.task = res.on.task
      BY <2>2 DEF seen, RunOf
    <3>3. task[res.on.task].tip \in Nat /\ task'[res.on.task].tip = task[res.on.task].tip + 1
      BY <1>1, <2>1, <3>1, RowFacts
    <3>4. NoTask \notin Tasks
      BY <1>1, ConfFacts DEF TypeOK
    <3>5. res'.claim.task \in Tasks /\ task'[res'.claim.task].tip > 0
      BY <3>1, <3>2, <3>3
    <3> QED
      BY <3>4, <3>5
  <2>3. ReviewShaped(i)' <=> ReviewShaped(i)
    BY <2>1, PlaceStays DEF Works, SessionSteps
  <2> QED
    BY <2>1, <2>2, <2>3 DEF Learns, Works, SessionSteps, Reported, EndsAsListed
<1>4. CASE SessionDeclaresNoCode \/ SessionReviews \/ SessionSettles
  <2>1. Works /\ res'.reported = res.reported
    BY <1>4, DeclaresNoCodeEffect, ReviewsEffect, SettlesEffect
  <2>2. Reported'
    BY <2>1, ReportedGrows DEF Works, SessionSteps, InSession
  <2> QED
    BY <2>1, <2>2 DEF Learns, Works, SessionSteps, EndsAsListed
<1>5. ASSUME NEW e \in Ends, SessionEnds(e) PROVE Learns
  <2>1. /\ pc = "session" /\ pc' = "salvage" /\ UNCHANGED <<conf, i, carried, try, end>>
        /\ res'.how = e[1] /\ res'.after = e[2] /\ res'.reported = res.reported
        /\ res.mcp => res'.mcp
        /\ res'.claim = res.claim \/ (res'.claim = NoClaim /\ ~res.mcp)
        /\ hist'.must = hist.must
    BY <1>5, SessionEndsEffect
  <2>2. e = <<e[1], e[2]>> /\ Ends' = Ends
    <3>1. e \in ExitKinds
      BY <1>1, ConfFacts DEF TypeOK
    <3> QED
      BY <1>1, <3>1, PlaceStays DEF ExitKinds
  <2>3. Reported'
    <3>1. CASE res.mcp
      BY <2>1, <3>1, ReportedGrows DEF InSession
    <3>2. CASE ~res.mcp
      BY <2>1, <3>2 DEF EndsAgree, Reported
    <3> QED
      BY <3>1, <3>2
  <2> QED
    BY <2>1, <2>2, <2>3 DEF Learns, EndsAsListed
<1>6. CASE Salvage
  <2>1. /\ pc = "salvage" /\ pc' = "judge" /\ UNCHANGED <<conf, i, carried, try, end, hist>>
        /\ res'.how = res.how /\ res'.after = res.after /\ res'.reported = res.reported
        /\ res'.mcp = res.mcp /\ res'.claim.task = res.claim.task
    BY <1>6, SalvageEffect
  <2>2. Reported'
    BY <2>1, ReportedGrows DEF InSession
  <2> QED
    BY <2>1, <2>2, PlaceStays DEF Learns, EndsAsListed, EndsAgree
<1> QED
  BY <1>2, <1>3, <1>4, <1>5, <1>6 DEF SessionStep

LEMMA EndsAgreeInSession ==
  ASSUME Inv, EndsAgree, [Next]_vars, RowsMove, SessionStep \/ Salvage
  PROVE  EndsAgree'
<1>1. Learns
  BY SessionReports
<1>2. ~carried.settled /\ hist.must = {}
  BY <1>1 DEF Learns, EndsAgree, CarriedIsOpen, MustsEnd
<1> QED
  BY <1>1, <1>2 DEF Learns, EndsAgree, HandsBack, Retried, WaitsEmptyHanded, MustsEnd, CarriedIsOpen

\* Whatever a verdict keeps it holds, and whatever it does not keep is handed back.
LEMMA EndsAgreeJudged ==
  ASSUME Inv, EndsAgree, [Next]_vars, JudgeVerification \/ JudgePhase \/ JudgeOther
  PROVE  EndsAgree'
<1>1. Judges /\ conf' = conf /\ pc = "judge" /\ i \in Positions
  BY JudgeEffect, NextKeepsConf DEF Judges, Inv, InPhase, Ending
<1>2. UNCHANGED <<i, carried, res, hist>> /\ pc' \in {"route", "handback"}
  BY <1>1 DEF Judges, JudgeFrame
<1>3. ~carried.settled /\ hist.must = {}
  BY <1>1 DEF EndsAgree, CarriedIsOpen, MustsEnd
<1>4. ASSUME end'.musts # {} PROVE ~end'.released
  <2>1. /\ Phases[i] = "verify" /\ (orderlyExit \/ recoveredExit) /\ (res.reported \/ res.claim.wip)
        /\ canCheckpoint => end'.checkpoint
    BY <1>1, <1>4 DEF Judges
  <2>2. Last(i) /\ ReviewShaped(i)
    BY <1>1, <2>1, ConfigsAssumption DEF Inv, TypeOK, Last, ReviewShaped, Phases, Positions
  <2>3. trusted /\ checkpointable
    BY <1>1, <2>1, <2>2
    DEF orderlyExit, recoveredExit, toolLoop, trusted, checkpointable, capped, EndsAgree, Reported, InSession
  <2>4. Held(res.claim) => canCheckpoint
    BY <2>2, <2>3 DEF canCheckpoint, dead
  <2> QED
    BY <1>1, <2>1, <2>4 DEF Judges
<1>5. EndHolds(end')
  BY <1>1, <1>4 DEF Judges, EndHolds, canCheckpoint, Held
<1>6. HandsBack' /\ Retried'
  <2>1. ReviewShaped(i)' <=> ReviewShaped(i)
    BY <1>1, <1>2, PlaceStays
  <2>2. Held(res.claim)' <=> Held(res.claim)
    BY <1>2 DEF Held
  <2> QED
    BY <1>1, <1>2, <2>1, <2>2 DEF Judges, HandsBack, Retried
<1>7. EndsAsListed'
  BY <1>1, <1>2, PlaceStays DEF EndsAsListed, EndsAgree
<1> QED
  BY <1>1, <1>2, <1>3, <1>5, <1>6, <1>7
  DEF EndsAgree, Reported, InSession, WaitsEmptyHanded, MustsEnd, CarriedIsOpen

LEMMA EndsAgreeHandedBack ==
  ASSUME Inv, EndsAgree, [Next]_vars, peekCheckpointClaim \/ Handback
  PROVE  EndsAgree'
<1>1. /\ pc = "handback" /\ pc' = "route" /\ UNCHANGED <<conf, i, carried, cnt, try, res>>
      /\ hist'.must = hist.must
  BY PeekEffect, HandbackEffect DEF Releases
<1>2. ~carried.settled /\ hist.must = {} /\ ~end.checkpoint /\ ~end.handoff /\ ~RetriesNoMCP
  BY <1>1 DEF EndsAgree, CarriedIsOpen, MustsEnd, HandsBack, EndHolds
<1>3. EndHolds(end')
  <2>1. CASE peekCheckpointClaim
    <3>1. end.claim = NoClaim /\ ~Held(end.claim) /\ end.claim.task = NoTask
      BY <2>1, PeekEffect DEF Peeks, NoClaim, Held
    <3>2. ~end.released /\ end.musts = {} /\ ~end.dead /\ ~end.toQueue
      BY <1>1, <3>1 DEF EndsAgree, EndHolds, HandsBack, Held
    <3>3. NoTask \notin Tasks
      BY ConfFacts DEF Inv, TypeOK
    <3>4. /\ end'.claim.task \in Tasks /\ ~end'.claim.settled
          /\ end'.handoff = end.handoff /\ end'.released = end.released /\ end'.toQueue = end.toQueue
          /\ end'.dead = end.dead /\ end'.musts = end.musts
      BY <2>1, PeekEffect DEF Peeked
    <3> QED
      BY <1>2, <3>2, <3>3, <3>4 DEF EndHolds, Held
  <2>2. CASE Handback
    <3>1. /\ end'.toQueue => Held(res.claim)
          /\ end'.claim = end.claim /\ end'.checkpoint = end.checkpoint /\ end'.handoff = end.handoff
          /\ end'.released = end.released /\ end'.dead = end.dead /\ end'.musts = end.musts
      BY <2>2, HandbackEffect
    <3> QED
      BY <1>1, <3>1 DEF EndsAgree, EndHolds, HandsBack
  <2> QED
    BY <2>1, <2>2
<1>4. ~RetriesNoMCP' /\ EndsAsListed'
  BY <1>1, <1>2, PlaceStays DEF RetriesNoMCP, EndsAsListed, EndsAgree
<1> QED
  BY <1>1, <1>2, <1>3, <1>4
  DEF EndsAgree, Reported, InSession, HandsBack, Retried, WaitsEmptyHanded, MustsEnd, CarriedIsOpen

LEMMA EndsAgreeRouted ==
  ASSUME Inv, EndsAgree, [Next]_vars, Route
  PROVE  EndsAgree'
<1>1. /\ pc = "route" /\ UNCHANGED <<conf, i, carried, res>> /\ (RouteReturns \/ RouteRetries \/ RouteWaits)
  BY RouteEffect DEF RouteFrame
<1>2. ~carried.settled /\ hist.must = {}
  BY <1>1 DEF EndsAgree, CarriedIsOpen, MustsEnd
<1>3. hist'.must = hist.must /\ pc' \in {"seam", "attempt", "limited", "backoff"}
      /\ (pc' \in {"limited", "backoff"} => carried = NoClaim)
  BY <1>1 DEF RouteReturns, RouteRetries, RouteWaits, Releases
<1>4. EndHolds(end')
  <2>1. EndHolds(end) /\ (SameEnd(end, end') \/ end' = end \/ EmptyEnd(end'))
    BY <1>1 DEF RouteReturns, RouteRetries, RouteWaits, EndsAgree
  <2> QED
    BY <2>1, SameEndHolds DEF EmptyEnd, EndHolds
<1> QED
  BY <1>1, <1>2, <1>3, <1>4
  DEF EndsAgree, EndsAsListed, Reported, InSession, HandsBack, Retried, WaitsEmptyHanded, MustsEnd, CarriedIsOpen

\* What the sequence goes on with was carried before, or is held by the phase.
LEMMA EndsAgreeAtSeam ==
  ASSUME Inv, EndsAgree, [Next]_vars, Seam
  PROVE  EndsAgree'
<1>1. /\ pc = "seam" /\ conf' = conf /\ hist'.mine = hist.mine /\ (SeamGoesOn \/ SeamRefused \/ SeamStops)
      /\ i \in Positions /\ Len(Phases) \in Nat
  BY SeamEffect, NextKeepsConf, ConfFacts DEF SeamCommon, SeamFrame, Inv, TypeOK, InPhase, Ending
<1>2. ~carried.settled /\ hist.must = {} /\ EndHolds(end)
  BY <1>1 DEF EndsAgree, CarriedIsOpen, MustsEnd
<1>3. EndHolds(end')
  BY <1>1, <1>2 DEF SeamGoesOn, SeamRefused, SeamStops, EndHolds, Held
<1>4. MustsEnd'
  BY <1>1, <1>2 DEF SeamGoesOn, SeamRefused, SeamStops, MustsEnd
<1>5. CarriedIsOpen'
  <2>1. CASE SeamGoesOn
    <3>1. ASSUME pc' = "boundary", Taken = end.claim, ~end.released PROVE ~end.claim.settled \/ i' > Len(Phases)
      BY <1>1, <1>2, <2>1, <3>1 DEF SeamGoesOn, EndHolds, Held, Last, Positions
    <3>2. Taken \in {carried, NoClaim} \/ (Taken = end.claim /\ ~end.released)
      BY DEF Taken
    <3>3. Len(Phases)' = Len(Phases)
      BY <1>1, PlaceStays
    <3> QED
      BY <1>2, <2>1, <3>1, <3>2, <3>3 DEF SeamGoesOn, CarriedIsOpen, NoClaim
  <2>2. CASE SeamRefused \/ SeamStops
    BY <1>2, <2>2 DEF SeamRefused, SeamStops, CarriedIsOpen, NoClaim
  <2> QED
    BY <1>1, <2>1, <2>2
<1>6. pc' \in {"boundary", "release", "seam"}
  BY <1>1 DEF SeamGoesOn, SeamRefused, SeamStops
<1> QED
  BY <1>3, <1>4, <1>5, <1>6
  DEF EndsAgree, EndsAsListed, Reported, InSession, HandsBack, Retried, WaitsEmptyHanded

LEMMA ClaimsInvInit == Init => ClaimsInv
<1> SUFFICES ASSUME Init PROVE ClaimsInv
  OBVIOUS
<1>1. Inv
  BY InitInv
<1>2. \A t \in Tasks : task[t].lease \in {"queue", "takeover"}
  BY DEF Init
<1>3. RowsAreOurs
  BY <1>2 DEF Init, RowsAreOurs
<1>4. ClaimsAreSound
  BY NoClaimIsSound DEF Init, ClaimsAreSound, NoSession, NoEnd
<1>5. EndsAgree
  BY DEF Init, EndsAgree, EndHolds, NoEnd, EndsAsListed, Reported, InSession, HandsBack, Retried,
         WaitsEmptyHanded, MustsEnd, CarriedIsOpen, NoClaim
<1> QED
  BY <1>1, <1>3, <1>4, <1>5 DEF ClaimsInv

LEMMA ClaimsInvNext == ClaimsInv /\ [Next]_vars => ClaimsInv'
<1> SUFFICES ASSUME ClaimsInv, [Next]_vars PROVE ClaimsInv'
  OBVIOUS
<1>1. Inv /\ RowsAreOurs /\ ClaimsAreSound /\ EndsAgree /\ TypeOK
  BY DEF ClaimsInv, Inv
<1>2. Inv' /\ RowsMove /\ conf' = conf
  BY <1>1, NextInv, RowsMoveStep, NextKeepsConf
<1>3. RowsAreOurs' /\ ClaimsAreSound'
  BY <1>1, <1>2, RowsAreOursStep, ClaimsAreSoundStep
<1>4. EndsAgree'
  <2>1. CASE SequenceOver \/ PhaseStarts \/ PhaseRefused \/ AttemptRefused \/ SessionSpawns \/ Waited
             \/ EndWait \/ releaseCarried \/ Others \/ UNCHANGED vars
    BY <1>1, <1>2, <2>1, EndsAgreeQuietly
  <2>2. CASE SessionStep \/ Salvage
    BY <1>1, <1>2, <2>2, EndsAgreeInSession
  <2>3. CASE JudgeVerification \/ JudgePhase \/ JudgeOther
    BY <1>1, <2>3, EndsAgreeJudged
  <2>4. CASE peekCheckpointClaim \/ Handback
    BY <1>1, <2>4, EndsAgreeHandedBack
  <2>5. CASE Route \/ Seam
    BY <1>1, <2>5, EndsAgreeRouted, EndsAgreeAtSeam
  <2> QED
    BY <2>1, <2>2, <2>3, <2>4, <2>5, NextCases DEF DriverAlone
<1> QED
  BY <1>2, <1>3, <1>4 DEF ClaimsInv

-----------------------------------------------------------------------------
(* What was handed back, could not be read, or went to the operator.  A      *)
(* route switch that finds no MCP server forgets what the phase decided, so  *)
(* all this holds where no switch does (Forgets).                           *)

\* The driver has not ended the run of the claim.
Kept(c, ended) == c.task # NoTask => RunOf(c) \notin ended

\* A phase starts on a kept claim, unless its own handback ended it.
CarriedIsKept ==
  pc \in {"boundary", "attempt", "session", "salvage", "judge", "handback"} \/ (pc = "route" /\ RetriesNoMCP)
    => Kept(carried, hist.ended)

SessionIsKept == InSession \/ pc = "handback" => Kept(res.claim, hist.ended)

\* A phase returns a claim that is kept, unless it says that it handed it back.
EndIsKept ==
  pc \in {"attempt", "route", "limited", "backoff", "seam"} =>
    /\ ~end.released => Kept(end.claim, hist.ended)
    /\ ~Kept(carried, hist.ended) => end.released /\ end.claim.task = carried.task

\* The phase asks for nothing more.
Spent(e) ==
  ~e.dead /\ ~e.handoff /\ ~e.empty /\ ~e.checkpoint /\ ~e.toQueue /\ e.musts = {}

Unread(c) == c.task # NoTask /\ hist.unread = {RunOf(c)}

CarriesUnread == Held(carried) /\ RunOf(carried) \in hist.unread

\* A session whose stream could not be read is the last one.
UnreadEnds ==
  hist.unread # {} =>
    \/ pc \in {"salvage", "judge"} /\ res.how = "untrusted" /\ Unread(res.claim)
    \/ /\ pc \in {"handback", "route", "seam"} /\ res.how = "untrusted"
       /\ Unread(end.claim) /\ Spent(end) /\ (Held(end.claim) => end.released)
    \/ (pc = "boundary" /\ i > Len(Phases)) /\ ~CarriesUnread
    \/ pc = "release" /\ ~CarriesUnread
    \/ pc \in {"wait", "done"}

Keeps ==
  /\ CarriedIsKept /\ SessionIsKept /\ EndIsKept /\ UnreadEnds
  /\ UntrustedSilent /\ MustsReachTheOperator

\* What was carried, or what the phase holds, is kept when it goes on.
LEMMA TakenIsKept ==
  ASSUME EndIsKept, pc = "seam"
  PROVE  Kept(Taken, hist.ended)
  BY DEF EndIsKept, Taken, Kept, NoClaim

\* A step that leaves the books of handbacks alone keeps what was kept.
LEMMA BooksStand ==
  ASSUME ClaimsInv, Keeps, [Next]_vars, hist'.ended = hist.ended, hist'.unread = hist.unread,
         hist'.must = hist.must, UnreadEnds', CarriedIsKept', SessionIsKept', EndIsKept'
  PROVE  Keeps'
  BY DEF Keeps, UntrustedSilent, MustsReachTheOperator

LEMMA KeptAtStart ==
  ASSUME ClaimsInv, Keeps, [Next]_vars, SequenceOver \/ PhaseStarts
  PROVE  Keeps'
<1>1. i \in 1 .. Len(Phases) + 1 /\ Len(Phases) \in Nat /\ conf' = conf
  BY ConfFacts, NextKeepsConf DEF ClaimsInv, Inv, TypeOK
<1>2. Len(Phases)' = Len(Phases)
  BY <1>1, PlaceStays
<1>3. CASE SequenceOver
  <2>1. pc = "boundary" /\ pc' = "release" /\ UNCHANGED <<hist, carried, i>>
    BY <1>3 DEF SequenceOver
  <2>2. CarriedIsKept' /\ SessionIsKept' /\ EndIsKept'
    BY <2>1 DEF CarriedIsKept, SessionIsKept, EndIsKept, InSession
  <2>3. UnreadEnds'
    BY <1>2, <2>1 DEF Keeps, UnreadEnds, CarriesUnread, Held, RunOf
  <2> QED
    BY <2>1, <2>2, <2>3, BooksStand
<1>4. CASE PhaseStarts
  <2>1. /\ pc = "boundary" /\ pc' = "attempt" /\ carried' = carried /\ i \in Positions /\ end' = NoEnd
        /\ hist'.ended = hist.ended /\ hist'.unread = hist.unread /\ hist'.must = hist.must
    BY <1>4, PhaseStartsEffect DEF ClaimsInv
  <2>2. Kept(carried, hist.ended) /\ hist.unread = {}
    BY <1>1, <2>1 DEF Keeps, CarriedIsKept, UnreadEnds, Positions
  <2>3. CarriedIsKept' /\ SessionIsKept' /\ EndIsKept' /\ UnreadEnds'
    BY <2>1, <2>2 DEF CarriedIsKept, SessionIsKept, EndIsKept, UnreadEnds, InSession, Kept, NoEnd, NoClaim, RunOf
  <2> QED
    BY <2>1, <2>3, BooksStand
<1> QED
  BY <1>3, <1>4

LEMMA KeptWhenRefused ==
  ASSUME ClaimsInv, Keeps, [Next]_vars, PhaseRefused
  PROVE  Keeps'
<1>1. /\ pc = "boundary" /\ pc' = "seam" /\ carried' = carried /\ i \in Positions /\ Len(Phases) \in Nat
      /\ Releases(carried, TRUE) /\ end'.claim = carried /\ end'.released = Held(carried)
  BY PhaseRefusedEffect, ConfFacts DEF ClaimsInv, Inv, TypeOK
<1>2. Kept(carried, hist.ended) /\ hist.unread = {} /\ hist.must = {}
  BY <1>1 DEF ClaimsInv, EndsAgree, MustsEnd, Keeps, CarriedIsKept, UnreadEnds, Positions
<1>3. hist'.unread = {} /\ hist'.must = {}
      /\ (hist'.ended = hist.ended \/ (Held(carried) /\ hist'.ended = hist.ended \cup {RunOf(carried)}))
  BY <1>1, <1>2 DEF Releases, Freed
<1>4. EndIsKept'
  BY <1>1, <1>2, <1>3 DEF EndIsKept, Kept
<1> QED
  BY <1>1, <1>3, <1>4
  DEF Keeps, CarriedIsKept, SessionIsKept, InSession, UnreadEnds, UntrustedSilent, MustsReachTheOperator

LEMMA KeptWhenSpawned ==
  ASSUME ClaimsInv, Keeps, [Next]_vars, AttemptRefused \/ SessionSpawns \/ Waited
  PROVE  Keeps'
<1>1. /\ end \in PhaseEnds /\ i' = i /\ carried' = carried /\ hist' = hist
      /\ pc \in {"attempt", "limited", "backoff"} /\ pc' \in {"session", "seam", "attempt"}
      /\ pc \in {"limited", "backoff"} => pc' # "session" /\ carried = NoClaim
      /\ pc' = "session" => res'.claim = carried
  BY DEF ClaimsInv, Inv, TypeOK, EndsAgree, WaitsEmptyHanded, AttemptRefused, SessionSpawns, Waited, NoSession
<1>2. end'.claim = end.claim /\ end'.released = end.released
  BY <1>1 DEF AttemptRefused, SessionSpawns, Waited, PhaseEnds
<1>3. Kept(NoClaim, hist.ended)
  BY DEF Kept, NoClaim
<1>4. hist.unread = {}
  BY <1>1 DEF Keeps, UnreadEnds
<1>5. CarriedIsKept' /\ SessionIsKept' /\ EndIsKept' /\ UnreadEnds'
  BY <1>1, <1>2, <1>3, <1>4
  DEF Keeps, CarriedIsKept, SessionIsKept, EndIsKept, InSession, UnreadEnds, Kept, RunOf
<1> QED
  BY <1>1, <1>5, BooksStand

\* A new claim is on a run that no claim was handed back from.
LEMMA NewRunIsKept ==
  ASSUME ClaimsInv, NEW t \in Tasks
  PROVE  [task |-> t, run |-> task[t].run + 1] \notin hist.ended
  BY RowFacts DEF ClaimsInv, Inv, RowsAreOurs, Gone

LEMMA KeptInSession ==
  ASSUME ClaimsInv, Keeps, [Next]_vars, SessionStep \/ Salvage
  PROVE  Keeps'
<1>1. Inv /\ EndsAgree /\ RowsMove /\ UNCHANGED <<conf, i, carried, try, end>>
      /\ pc \in {"session", "salvage"} /\ pc' \in {"session", "salvage", "judge"}
      /\ hist'.must = hist.must
  BY RowsMoveStep, SessionReports DEF ClaimsInv, Learns
<1>2. Kept(carried, hist.ended) /\ Kept(res.claim, hist.ended)
  BY <1>1 DEF Keeps, CarriedIsKept, SessionIsKept, InSession
<1>3. hist'.ended = hist.ended /\ CarriedIsKept' /\ EndIsKept' /\ MustsReachTheOperator'
  <2>1. hist'.ended = hist.ended
    BY <1>1, SessionClaimsEffect, RecordsBranchEffect, DeclaresNoCodeEffect, ReviewsEffect, SettlesEffect,
       SessionEndsEffect, SalvageEffect DEF SessionStep, Works
  <2> QED
    BY <1>1, <1>2, <2>1 DEF Keeps, CarriedIsKept, EndIsKept, MustsReachTheOperator, Kept, RunOf
<1>4. ASSUME NEW t \in Tasks, SessionClaims(t) PROVE Keeps'
  <2>1. /\ pc = "session" /\ pc' = "session" /\ hist'.unread = hist.unread
        /\ res'.claim = res.claim \/ RunOf(res'.claim) = [task |-> t, run |-> task[t].run + 1]
    BY <1>1, <1>4, SessionClaimsEffect DEF SessionSteps
  <2>2. Kept(res'.claim, hist.ended)
    BY <1>2, <2>1, NewRunIsKept DEF Kept
  <2> QED
    BY <1>3, <2>1, <2>2 DEF Keeps, SessionIsKept, UnreadEnds, UntrustedSilent, InSession, Kept, RunOf
<1>5. CASE SessionRecordsBranch \/ SessionDeclaresNoCode \/ SessionReviews \/ SessionSettles
  <2>1. pc = "session" /\ pc' = "session" /\ hist' = hist /\ RunOf(res'.claim) = RunOf(res.claim)
        /\ res'.claim.task = res.claim.task
    BY <1>1, <1>5, RecordsBranchEffect, DeclaresNoCodeEffect, ReviewsEffect, SettlesEffect DEF Works, SessionSteps
  <2>2. Kept(res'.claim, hist.ended)
    BY <1>2, <2>1 DEF Kept
  <2> QED
    BY <1>3, <2>1, <2>2 DEF Keeps, SessionIsKept, UnreadEnds, UntrustedSilent, InSession, Kept, RunOf
<1>6. ASSUME NEW e \in Ends, SessionEnds(e) PROVE Keeps'
  <2>1. /\ pc = "session" /\ pc' = "salvage" /\ res'.how = e[1] /\ hist'.ended = hist.ended
        /\ res'.claim = res.claim \/ (res'.claim = NoClaim /\ e[1] = "nostart")
        /\ hist'.unread = IF e[1] = "untrusted" THEN hist.unread \cup ({RunOf(res.claim)} \ {NoRun})
                          ELSE hist.unread
    BY <1>1, <1>6, SessionEndsEffect
  <2>2. hist.unread = {} /\ (res.claim.task = NoTask => RunOf(res.claim) = NoRun)
    BY <2>1 DEF Keeps, UnreadEnds, ClaimsInv, ClaimsAreSound, Sound, RunOf, NoClaim, NoRun
  <2>3. Kept(res'.claim, hist.ended)
    BY <1>2, <2>1 DEF Kept, NoClaim
  <2>4. SessionIsKept' /\ UnreadEnds'
    BY <2>1, <2>2, <2>3 DEF SessionIsKept, UnreadEnds, Unread, InSession, Kept, RunOf
  <2>5. UntrustedSilent'
    BY <1>2, <2>1, <2>2 DEF UntrustedSilent, Kept
  <2> QED
    BY <1>3, <2>4, <2>5 DEF Keeps
<1>7. CASE Salvage
  <2>1. /\ pc = "salvage" /\ pc' = "judge" /\ hist' = hist /\ res'.how = res.how
        /\ RunOf(res'.claim) = RunOf(res.claim) /\ res'.claim.task = res.claim.task
    BY <1>1, <1>7, SalvageEffect
  <2>2. Kept(res'.claim, hist.ended)
    BY <1>2, <2>1 DEF Kept
  <2> QED
    BY <1>3, <2>1, <2>2 DEF Keeps, SessionIsKept, UnreadEnds, Unread, UntrustedSilent, InSession, Kept, RunOf
<1> QED
  BY <1>4, <1>5, <1>6, <1>7 DEF SessionStep

LEMMA KeptWhenJudged ==
  ASSUME ClaimsInv, Keeps, [Next]_vars, JudgeVerification \/ JudgePhase \/ JudgeOther
  PROVE  Keeps'
<1>1. Judges /\ pc = "judge" /\ UNCHANGED <<i, carried, res, hist>> /\ pc' \in {"route", "handback"}
  BY JudgeEffect DEF ClaimsInv, Judges, JudgeFrame
<1>2. Kept(carried, hist.ended) /\ Kept(res.claim, hist.ended)
  BY <1>1 DEF Keeps, CarriedIsKept, SessionIsKept, InSession
<1>3. RunOf(end'.claim) = RunOf(res.claim) /\ end'.claim.task = res.claim.task
      /\ Kept(end'.claim, hist.ended) /\ (Held(end'.claim) <=> Held(res.claim))
  BY <1>1, <1>2 DEF Judges, RunOf, Kept, Held
<1>4. CarriedIsKept' /\ SessionIsKept' /\ EndIsKept'
  BY <1>1, <1>2, <1>3 DEF CarriedIsKept, SessionIsKept, EndIsKept, InSession, Kept, RunOf
<1>5. UnreadEnds'
  <2> SUFFICES ASSUME hist.unread # {} PROVE UnreadEnds'
    BY <1>1 DEF UnreadEnds
  <2>1. ~trusted /\ res.how = "untrusted" /\ Unread(res.claim)
    BY <1>1 DEF Keeps, UnreadEnds, trusted
  <2>2. ~canCheckpoint /\ ~reviewable /\ ~producedNothing /\ ~orderlyExit /\ ~recoveredExit
    BY <2>1 DEF canCheckpoint, reviewable, producedNothing, toolLoop, orderlyExit, recoveredExit
  <2>3. Spent(end') /\ ~RetriesNoMCP' /\ (end'.released <=> Held(res.claim))
    BY <1>1, <2>1, <2>2 DEF Judges, Spent
  <2>4. pc' = "handback" /\ (Held(end'.claim) => end'.released)
    BY <1>1, <1>3, <2>3 DEF Judges, Spent
  <2> QED
    BY <1>1, <1>3, <2>1, <2>3, <2>4 DEF UnreadEnds, Unread
<1> QED
  BY <1>1, <1>4, <1>5, BooksStand

LEMMA KeptWhenPeeked ==
  ASSUME ClaimsInv, Keeps, [Next]_vars, peekCheckpointClaim
  PROVE  Keeps'
<1>1. /\ pc = "handback" /\ pc' = "route" /\ Peeks /\ UNCHANGED <<i, carried, res, try>>
      /\ try.briefed \in Tasks /\ InCustody(try.briefed) /\ Peeked(end'.claim)
      /\ hist'.ended = hist.ended /\ hist'.unread = hist.unread /\ hist'.must = hist.must
  BY PeekEffect DEF ClaimsInv
<1>2. RunOf(end'.claim) \notin hist.ended
  BY <1>1 DEF Peeked, RunOf, InCustody, ClaimsInv, RowsAreOurs, Gone
<1>3. Kept(carried, hist.ended) /\ ~RetriesNoMCP'
  BY <1>1 DEF Keeps, CarriedIsKept, ClaimsInv, EndsAgree, HandsBack, RetriesNoMCP
<1>4. CarriedIsKept' /\ SessionIsKept' /\ EndIsKept'
  BY <1>1, <1>2, <1>3 DEF CarriedIsKept, SessionIsKept, EndIsKept, InSession, Kept, RunOf
<1>5. UnreadEnds'
  BY <1>1 DEF Keeps, UnreadEnds, Peeks, trusted
<1> QED
  BY <1>1, <1>4, <1>5, BooksStand

LEMMA KeptWhenHandedBack ==
  ASSUME ClaimsInv, Keeps, [Next]_vars, Handback
  PROVE  Keeps'
<1>1. /\ pc = "handback" /\ pc' = "route" /\ UNCHANGED <<i, carried, res, try>>
      /\ Releases(res.claim, trusted) /\ (end'.toQueue => trusted)
      /\ end'.claim = end.claim /\ end'.checkpoint = end.checkpoint /\ end'.handoff = end.handoff
      /\ end'.released = end.released /\ end'.empty = end.empty /\ end'.dead = end.dead
      /\ end'.musts = end.musts
  BY HandbackEffect DEF ClaimsInv
<1>2. /\ end.claim.task = res.claim.task /\ RunOf(end.claim) = RunOf(res.claim)
      /\ end.released <=> Held(res.claim)
      /\ ~RetriesNoMCP'
  BY <1>1 DEF ClaimsInv, EndsAgree, HandsBack, RetriesNoMCP, RunOf
<1>3. hist.must = {} /\ Kept(carried, hist.ended) /\ Kept(res.claim, hist.ended)
  BY <1>1 DEF ClaimsInv, EndsAgree, MustsEnd, Keeps, CarriedIsKept, SessionIsKept, InSession
<1>4. /\ hist'.must = {} /\ hist'.unread = hist.unread
      /\ \/ hist'.ended = hist.ended
         \/ trusted /\ Held(res.claim) /\ hist'.ended = hist.ended \cup {RunOf(res.claim)}
  BY <1>1, <1>3 DEF Releases, Freed
<1>5. EndIsKept'
  <2>1. Kept(end.claim, hist.ended)
    BY <1>2, <1>3 DEF Kept
  <2>2. ~end'.released => hist'.ended = hist.ended
    BY <1>1, <1>2, <1>4
  <2>3. ~Kept(carried, hist'.ended) => end.released /\ end.claim.task = carried.task
    BY <1>2, <1>3, <1>4 DEF Kept, RunOf
  <2> QED
    BY <1>1, <2>1, <2>2, <2>3 DEF EndIsKept
<1>6. UnreadEnds' /\ UntrustedSilent'
  <2>1. CASE hist.unread = {}
    BY <1>4, <2>1 DEF UnreadEnds, UntrustedSilent
  <2>2. CASE hist.unread # {}
    <3>1. ~trusted /\ res.how = "untrusted"
      BY <1>1, <2>2 DEF Keeps, UnreadEnds, trusted
    <3>2. hist'.ended = hist.ended /\ ~end'.toQueue
      BY <1>1, <1>4, <3>1
    <3> QED
      BY <1>1, <1>4, <2>2, <3>1, <3>2 DEF Keeps, UnreadEnds, UntrustedSilent, Unread, Spent
  <2> QED
    BY <2>1, <2>2
<1> QED
  BY <1>1, <1>2, <1>4, <1>5, <1>6 DEF Keeps, CarriedIsKept, SessionIsKept, InSession, MustsReachTheOperator

LEMMA KeptWhenRouted ==
  ASSUME ClaimsInv, Keeps, ~Forgets, [Next]_vars, Route
  PROVE  Keeps'
<1>1. /\ pc = "route" /\ UNCHANGED <<i, carried, res>> /\ (RouteReturns \/ RouteRetries \/ RouteWaits)
  BY RouteEffect DEF ClaimsInv, RouteFrame
<1>2. hist.must = {} /\ (hist.unread # {} => res.how = "untrusted")
  BY <1>1 DEF ClaimsInv, EndsAgree, MustsEnd, Keeps, UnreadEnds
<1>3. CASE RouteReturns
  <2>1. pc' = "seam" /\ hist' = hist /\ SameEnd(end, end')
    BY <1>3 DEF RouteReturns
  <2>2. CarriedIsKept' /\ SessionIsKept' /\ EndIsKept'
    BY <1>1, <2>1 DEF Keeps, CarriedIsKept, SessionIsKept, EndIsKept, InSession, SameEnd
  <2>3. UnreadEnds'
    BY <1>1, <2>1 DEF Keeps, UnreadEnds, Unread, Spent, SameEnd
  <2> QED
    BY <2>1, <2>2, <2>3, BooksStand
<1>4. CASE RouteRetries
  <2>1. pc' = "attempt" /\ UNCHANGED <<hist, end>>
    BY <1>4 DEF RouteRetries
  <2>2. Started /\ RetriesNoMCP
    <3>1. ~(res.how = "nostart" /\ res.after = "preflight")
      BY <1>1 DEF ClaimsInv, EndsAgree, EndsAsListed, Forgets
    <3> QED
      BY <1>4, <3>1 DEF RouteRetries
  <2>3. hist.unread = {} /\ Kept(carried, hist.ended)
    BY <1>1, <1>2, <2>2 DEF Started, Keeps, CarriedIsKept
  <2>4. CarriedIsKept' /\ SessionIsKept' /\ EndIsKept' /\ UnreadEnds'
    BY <1>1, <2>1, <2>3 DEF Keeps, CarriedIsKept, SessionIsKept, EndIsKept, UnreadEnds, InSession
  <2> QED
    BY <2>1, <2>4, BooksStand
<1>5. CASE RouteWaits
  <2>1. pc' \in {"limited", "backoff", "seam"} /\ carried = NoClaim /\ hist.unread = {}
    BY <1>2, <1>5 DEF RouteWaits, Started
  <2>2. \A ended : Kept(NoClaim, ended)
    BY DEF Kept, NoClaim
  <2>3. CASE task' = task /\ hist' = hist /\ SameEnd(end, end')
    <3>1. CarriedIsKept' /\ SessionIsKept' /\ EndIsKept' /\ UnreadEnds'
      BY <1>1, <2>1, <2>2, <2>3
      DEF Keeps, CarriedIsKept, SessionIsKept, EndIsKept, UnreadEnds, InSession, SameEnd
    <3> QED
      BY <2>3, <3>1, BooksStand
  <2>4. CASE Releases(end.claim, TRUE) /\ EmptyEnd(end')
    <3>1. hist'.unread = {} /\ hist'.must = {}
      BY <1>2, <2>1, <2>4 DEF Releases
    <3> QED
      BY <1>1, <2>1, <2>2, <2>4, <3>1
      DEF Keeps, CarriedIsKept, SessionIsKept, EndIsKept, UnreadEnds, InSession, EmptyEnd,
          UntrustedSilent, MustsReachTheOperator
  <2> QED
    BY <1>5, <2>3, <2>4 DEF RouteWaits
<1> QED
  BY <1>1, <1>3, <1>4, <1>5

LEMMA KeptAtSeam ==
  ASSUME ClaimsInv, Keeps, [Next]_vars, Seam
  PROVE  Keeps'
<1>1. /\ pc = "seam" /\ hist'.ended = hist.ended /\ hist'.unread = hist.unread /\ res' = res
      /\ conf' = conf /\ i \in Positions /\ Len(Phases) \in Nat
      /\ SeamGoesOn \/ SeamRefused \/ SeamStops
  BY SeamEffect, ConfFacts, NextKeepsConf DEF ClaimsInv, SeamCommon, SeamFrame, Inv, TypeOK, InPhase, Ending
<1>2. Len(Phases)' = Len(Phases)
  BY <1>1, PlaceStays
<1>3. ASSUME hist.unread # {}
      PROVE  Unread(end.claim) /\ Spent(end) /\ (Held(end.claim) => end.released)
  BY <1>1, <1>3 DEF Keeps, UnreadEnds
<1>4. CASE SeamGoesOn
  <2>1. pc' \in {"boundary", "release"} /\ carried' = Taken /\ hist'.must = hist.must
    BY <1>4 DEF SeamGoesOn
  <2>2. CarriedIsKept' /\ SessionIsKept' /\ EndIsKept'
    BY <1>1, <2>1, TakenIsKept DEF Keeps, CarriedIsKept, SessionIsKept, EndIsKept, InSession
  <2>3. ASSUME hist.unread # {} PROVE ~(Held(Taken) /\ RunOf(Taken) \in hist.unread)
    BY <1>3, <2>3 DEF Unread, Taken, NoClaim, Held, RunOf
  <2>4. ASSUME hist.unread # {}, pc' = "boundary" PROVE i' > Len(Phases)
    BY <1>1, <1>3, <1>4, <2>4 DEF SeamGoesOn, Spent, Last, Positions
  <2>5. UnreadEnds'
    BY <1>1, <1>2, <2>1, <2>3, <2>4 DEF UnreadEnds, CarriesUnread, Held, RunOf
  <2> QED
    BY <1>1, <2>1, <2>2, <2>5, BooksStand
<1>5. CASE SeamRefused
  <2>1. pc' = "seam" /\ hist' = hist /\ carried' = carried /\ end'.claim = end.claim
        /\ end'.released = end.released /\ hist.unread = {}
    BY <1>3, <1>5 DEF SeamRefused, Spent
  <2>2. CarriedIsKept' /\ SessionIsKept' /\ EndIsKept' /\ UnreadEnds'
    BY <1>1, <2>1 DEF Keeps, CarriedIsKept, SessionIsKept, EndIsKept, UnreadEnds, InSession
  <2> QED
    BY <2>1, <2>2, BooksStand
<1>6. CASE SeamStops
  <2>1. /\ pc' = "release" /\ end.musts # {} /\ hist'.must = hist.must \cup {RunOf(end.claim)}
        /\ hist.unread = {}
    BY <1>3, <1>6 DEF SeamStops, Spent
  <2>2. RunOf(end.claim) \notin hist.ended
    BY <1>1, <2>1 DEF ClaimsInv, EndsAgree, EndHolds, Keeps, EndIsKept, Kept
  <2> QED
    BY <1>1, <2>1, <2>2
    DEF Keeps, CarriedIsKept, SessionIsKept, EndIsKept, UnreadEnds, InSession, UntrustedSilent, MustsReachTheOperator
<1> QED
  BY <1>1, <1>4, <1>5, <1>6

LEMMA KeptWhenOver ==
  ASSUME ClaimsInv, Keeps, [Next]_vars, releaseCarried \/ EndWait
  PROVE  Keeps'
<1>1. CASE releaseCarried
  <2>1. pc = "release" /\ pc' \in {"wait", "done"} /\ Releases(carried, TRUE)
    BY <1>1, ReleaseCarriedEffect DEF ClaimsInv
  <2>2. /\ hist'.must = hist.must /\ hist'.unread = hist.unread
        /\ \/ hist'.ended = hist.ended
           \/ Held(carried) /\ hist'.ended = hist.ended \cup {RunOf(carried)}
    BY <2>1 DEF Releases, Freed
  <2>3. UntrustedSilent'
    BY <2>1, <2>2 DEF Keeps, UnreadEnds, CarriesUnread, UntrustedSilent
  <2>4. MustsReachTheOperator'
    <3>1. hist.must # {} => ~Held(carried)
      BY <2>1 DEF ClaimsInv, EndsAgree, MustsEnd, NoClaim, Held
    <3> QED
      BY <2>2, <3>1 DEF Keeps, MustsReachTheOperator
  <2> QED
    BY <2>1, <2>3, <2>4 DEF Keeps, CarriedIsKept, SessionIsKept, EndIsKept, UnreadEnds, InSession
<1>2. CASE EndWait
  <2>1. pc' = "done" /\ hist' = hist
    BY <1>2 DEF EndWait
  <2>2. CarriedIsKept' /\ SessionIsKept' /\ EndIsKept' /\ UnreadEnds'
    BY <2>1 DEF CarriedIsKept, SessionIsKept, EndIsKept, UnreadEnds, InSession
  <2> QED
    BY <2>1, <2>2, BooksStand
<1> QED
  BY <1>1, <1>2

LEMMA KeptMeanwhile ==
  ASSUME ClaimsInv, Keeps, [Next]_vars, Others \/ UNCHANGED vars
  PROVE  Keeps'
<1>1. UNCHANGED <<conf, pc, i, carried, cnt, try, res, end, hist>>
  BY OthersEffect DEF ClaimsInv, vars
<1>2. Len(Phases)' = Len(Phases)
  BY <1>1, PlaceStays
<1> QED
  BY <1>1, <1>2
  DEF Keeps, CarriedIsKept, SessionIsKept, EndIsKept, UnreadEnds, InSession, RetriesNoMCP, Unread, CarriesUnread,
      UntrustedSilent, MustsReachTheOperator

KeepsInv == ClaimsInv /\ (~Forgets => Keeps)

LEMMA KeepsInvInit == Init => KeepsInv
<1> SUFFICES ASSUME Init PROVE KeepsInv
  OBVIOUS
<1>1. /\ pc = "boundary" /\ carried = NoClaim
      /\ hist.ended = {} /\ hist.unread = {} /\ hist.must = {}
  BY DEF Init
<1>2. Keeps
  BY <1>1
  DEF Keeps, CarriedIsKept, SessionIsKept, EndIsKept, UnreadEnds, InSession, UntrustedSilent,
      MustsReachTheOperator, Kept
<1> QED
  BY <1>2, ClaimsInvInit DEF KeepsInv

LEMMA KeepsInvNext == KeepsInv /\ [Next]_vars => KeepsInv'
<1> SUFFICES ASSUME KeepsInv, [Next]_vars PROVE KeepsInv'
  OBVIOUS
<1>1. ClaimsInv /\ ClaimsInv' /\ (~Forgets => Keeps)
  BY ClaimsInvNext DEF KeepsInv
<1>2. Forgets' <=> Forgets
  BY NextKeepsConf, PlaceStays DEF Forgets
<1>3. ASSUME ~Forgets PROVE Keeps'
  <2>1. CASE SequenceOver \/ PhaseStarts \/ PhaseRefused \/ AttemptRefused \/ SessionSpawns \/ Waited
    BY <1>1, <1>3, <2>1, KeptAtStart, KeptWhenRefused, KeptWhenSpawned
  <2>2. CASE SessionStep \/ Salvage \/ JudgeVerification \/ JudgePhase \/ JudgeOther
    BY <1>1, <1>3, <2>2, KeptInSession, KeptWhenJudged
  <2>3. CASE peekCheckpointClaim \/ Handback \/ Route
    BY <1>1, <1>3, <2>3, KeptWhenPeeked, KeptWhenHandedBack, KeptWhenRouted
  <2>4. CASE Seam \/ releaseCarried \/ EndWait \/ Others \/ UNCHANGED vars
    BY <1>1, <1>3, <2>4, KeptAtSeam, KeptWhenOver, KeptMeanwhile
  <2> QED
    BY <2>1, <2>2, <2>3, <2>4, NextCases DEF DriverAlone
<1> QED
  BY <1>1, <1>2, <1>3 DEF KeepsInv

-----------------------------------------------------------------------------
(* Where sessions do not stray, a phase stays on the task it was given.     *)

Calling == pc \in {"attempt", "session", "salvage", "judge", "handback", "route"}

\* The claim is on the carried run, or no claim at all.
SameOrNone(c) == RunOf(c) = RunOf(carried) \/ c.task = NoTask

Straight ==
  /\ pc = "session" /\ carried.task # NoTask =>
       res.on = RunOf(carried) /\ RunOf(res.claim) = RunOf(carried)
  /\ pc = "session" /\ res.on.task = NoTask => res.claim.task = NoTask
  /\ pc \in {"salvage", "judge", "handback", "route"} /\ carried.task # NoTask => SameOrNone(res.claim)
  /\ Calling /\ carried.task # NoTask => try.briefed = carried.task
  /\ pc \in {"attempt", "handback", "route", "seam"} /\ carried.task # NoTask /\ end.claim.task # NoTask =>
       end.claim.task = carried.task
  /\ InSession /\ ~res.mcp => SameOrNone(res.claim)
  /\ pc = "route" /\ RetriesNoMCP => SameOrNone(end.claim)

LEMMA StraightStep ==
  ASSUME ClaimsInv, Straight, ~Strays, [Next]_vars
  PROVE  Straight'
<1>1. Inv /\ TypeOK /\ conf' = conf /\ NoClaim.task = NoTask
  BY NextKeepsConf DEF ClaimsInv, Inv, NoClaim
<1>2. CASE SequenceOver
  BY <1>2 DEF SequenceOver, Straight, Calling, InSession
<1>3. CASE PhaseStarts
  <2>1. /\ pc = "boundary" /\ pc' = "attempt" /\ i \in Positions /\ end' = NoEnd /\ carried' = carried
        /\ Held(carried) => try'.briefed = carried.task
    BY <1>1, <1>3, PhaseStartsEffect
  <2>2. carried.task # NoTask => Held(carried)
    BY <1>1, <2>1, ConfFacts DEF ClaimsInv, EndsAgree, CarriedIsOpen, Held, TypeOK, Positions
  <2> QED
    BY <1>1, <2>1, <2>2 DEF Straight, InSession, Calling, NoEnd
<1>4. CASE PhaseRefused
  <2>1. pc' = "seam" /\ carried' = carried /\ end'.claim = carried
    BY <1>1, <1>4, PhaseRefusedEffect
  <2> QED
    BY <2>1 DEF Straight, InSession, Calling
<1>5. CASE AttemptRefused \/ SessionSpawns \/ Waited
  <2>1. /\ UNCHANGED <<carried, try>> /\ end'.claim = end.claim
        /\ \/ pc = "attempt" /\ pc' = "seam"
           \/ pc = "attempt" /\ pc' = "session" /\ res'.claim = carried /\ res'.on = RunOf(carried)
           \/ pc \in {"limited", "backoff"} /\ pc' \in {"seam", "attempt"}
    BY <1>1, <1>5 DEF TypeOK, PhaseEnds, AttemptRefused, SessionSpawns, Waited, NoSession
  <2>2. pc \in {"limited", "backoff"} => carried.task = NoTask
    BY <1>1 DEF ClaimsInv, EndsAgree, WaitsEmptyHanded
  <2> QED
    BY <2>1, <2>2 DEF Straight, InSession, Calling, SameOrNone, RunOf
<1>6. CASE SessionStep \/ Salvage
  <2>1. /\ UNCHANGED <<conf, i, carried, try, end>>
        /\ pc \in {"session", "salvage"} /\ pc' \in {"session", "salvage", "judge"}
    BY <1>6, RowsMoveStep, SessionReports DEF ClaimsInv, Learns
  <2>2. ASSUME NEW t \in Tasks, SessionClaims(t) PROVE Straight'
    <3>1. /\ pc = "session" /\ pc' = "session" /\ ~res.mcp /\ res.on.task = NoTask
          /\ res'.on = [task |-> t, run |-> task[t].run + 1]
          /\ res'.claim = res.claim \/ res'.mcp
      BY <1>1, <2>2, SessionClaimsEffect DEF SessionSteps
    <3>2. carried.task = NoTask
      BY <3>1 DEF Straight, RunOf
    <3>3. res'.on.task = t /\ t # NoTask
      BY <1>1, <3>1, ConfFacts DEF TypeOK
    <3> QED
      BY <2>1, <3>1, <3>2, <3>3 DEF Straight, InSession, Calling, SameOrNone, RunOf
  <2>3. CASE SessionRecordsBranch \/ SessionDeclaresNoCode \/ SessionReviews \/ SessionSettles
    <3>1. /\ pc = "session" /\ pc' = "session" /\ res'.on = res.on /\ res'.mcp
          /\ RunOf(res'.claim) = RunOf(res.claim) /\ res'.claim.task = res.claim.task
      BY <1>1, <2>3, RecordsBranchEffect, DeclaresNoCodeEffect, ReviewsEffect, SettlesEffect
      DEF Works, SessionSteps
    <3> QED
      BY <2>1, <3>1 DEF Straight, InSession, Calling, SameOrNone, RunOf
  <2>4. ASSUME NEW e \in Ends, SessionEnds(e) PROVE Straight'
    <3>1. /\ pc = "session" /\ pc' = "salvage" /\ (res.mcp => res'.mcp)
          /\ res'.claim = res.claim \/ res'.claim = NoClaim
      BY <1>1, <2>4, SessionEndsEffect
    <3> QED
      BY <1>1, <2>1, <3>1 DEF Straight, InSession, Calling, SameOrNone, RunOf
  <2>5. CASE Salvage
    <3>1. /\ pc = "salvage" /\ pc' = "judge" /\ res'.mcp = res.mcp
          /\ RunOf(res'.claim) = RunOf(res.claim) /\ res'.claim.task = res.claim.task
      BY <1>1, <2>5, SalvageEffect
    <3> QED
      BY <2>1, <3>1 DEF Straight, InSession, Calling, SameOrNone, RunOf
  <2> QED
    BY <1>6, <2>2, <2>3, <2>4, <2>5 DEF SessionStep
<1>7. CASE JudgeVerification \/ JudgePhase \/ JudgeOther
  <2>1. Judges /\ pc = "judge" /\ UNCHANGED <<carried, res>> /\ pc' \in {"route", "handback"}
        /\ try'.briefed = try.briefed /\ RunOf(end'.claim) = RunOf(res.claim)
        /\ end'.claim.task = res.claim.task /\ (RetriesNoMCP' => ~res.mcp)
    BY <1>1, <1>7, JudgeEffect DEF Judges, JudgeFrame, RunOf
  <2> QED
    BY <2>1 DEF Straight, InSession, Calling, SameOrNone, RunOf
<1>8. CASE peekCheckpointClaim
  <2>1. pc = "handback" /\ pc' = "route" /\ UNCHANGED <<carried, res, try>> /\ end'.claim.task = try.briefed
    BY <1>1, <1>8, PeekEffect DEF Peeked
  <2>2. ~RetriesNoMCP'
    BY <2>1 DEF ClaimsInv, EndsAgree, HandsBack, RetriesNoMCP
  <2> QED
    BY <2>1, <2>2 DEF Straight, InSession, Calling, SameOrNone, RunOf
<1>9. CASE Handback
  <2>1. pc = "handback" /\ pc' = "route" /\ UNCHANGED <<carried, res, try>> /\ end'.claim = end.claim
    BY <1>1, <1>9, HandbackEffect
  <2>2. ~RetriesNoMCP'
    BY <2>1 DEF ClaimsInv, EndsAgree, HandsBack, RetriesNoMCP
  <2> QED
    BY <2>1, <2>2 DEF Straight, InSession, Calling, SameOrNone, RunOf
<1>10. CASE Route
  <2>1. /\ pc = "route" /\ UNCHANGED <<carried, res>> /\ try'.briefed = try.briefed
        /\ pc' \in {"seam", "attempt", "limited", "backoff"}
        /\ end'.claim = end.claim \/ carried.task = NoTask
        /\ pc' \in {"limited", "backoff"} => carried.task = NoTask
    BY <1>1, <1>10, RouteEffect DEF RouteFrame, RouteReturns, RouteRetries, RouteWaits, SameEnd
  <2> QED
    BY <2>1 DEF Straight, InSession, Calling, SameOrNone, RunOf
<1>11. CASE Seam
  <2>1. \/ pc' \in {"boundary", "release"}
        \/ pc = "seam" /\ pc' = "seam" /\ end'.claim = end.claim /\ carried' = carried
    BY <1>1, <1>11, SeamEffect DEF SeamCommon, SeamGoesOn, SeamRefused, SeamStops
  <2> QED
    BY <2>1 DEF Straight, InSession, Calling
<1>12. CASE releaseCarried \/ EndWait
  <2>1. pc' \in {"wait", "done"}
    BY <1>1, <1>12, ReleaseCarriedEffect DEF EndWait
  <2> QED
    BY <2>1 DEF Straight, InSession, Calling
<1>13. CASE Others \/ UNCHANGED vars
  <2>1. UNCHANGED <<pc, carried, try, res, end>>
    BY <1>1, <1>13, OthersEffect DEF vars
  <2> QED
    BY <2>1 DEF Straight, InSession, Calling, SameOrNone, RetriesNoMCP, RunOf
<1> QED
  BY <1>2, <1>3, <1>4, <1>5, <1>6, <1>7, <1>8, <1>9, <1>10, <1>11, <1>12, <1>13, NextCases DEF DriverAlone

LEMMA StraightInit == Init => Straight
  BY DEF Init, Straight, Calling, InSession

-----------------------------------------------------------------------------
(* What the drain still owes a handback.                                    *)

\* Only a session's claim leases a task to this drain, and of the books that account
\* for the leases of a drain, only the peek at a hidden claim takes anything out.
NoNewLease ==
  /\ \A t \in Tasks : task'[t].lease = "ours" => task[t].lease = "ours" /\ task'[t].run = task[t].run
  /\ hist'.mine = hist.mine
  /\ hist.back \subseteq hist'.back /\ hist.unread \subseteq hist'.unread
  /\ hist.must \subseteq hist'.must

LEMMA LeasesStand ==
  ASSUME Inv, [Next]_vars, \A t \in Tasks : ~SessionClaims(t)
  PROVE  NoNewLease /\ (hist.hidden \subseteq hist'.hidden \/ peekCheckpointClaim)
<1> DEFINE Goal == /\ \A t \in Tasks : task'[t].run = task[t].run \/ task'[t].lease = "other"
                   /\ hist'.mine = hist.mine
                   /\ hist.back \subseteq hist'.back /\ hist.unread \subseteq hist'.unread
                   /\ hist.must \subseteq hist'.must
                   /\ hist.hidden \subseteq hist'.hidden \/ peekCheckpointClaim
<1>1. TypeOK /\ RowsMove
  BY RowsMoveStep DEF Inv
<1> SUFFICES Goal
  BY <1>1, RowFacts DEF RowsMove, NoNewLease
<1>2. CASE SequenceOver \/ PhaseStarts \/ AttemptRefused \/ SessionSpawns \/ Waited \/ EndWait \/ UNCHANGED vars
  BY <1>2, PhaseStartsEffect DEF SequenceOver, AttemptRefused, SessionSpawns, Waited, EndWait, vars
<1>3. CASE PhaseRefused \/ releaseCarried \/ Handback
  BY <1>3, PhaseRefusedEffect, ReleaseCarriedEffect, HandbackEffect DEF Releases, Alike
<1>4. CASE JudgeVerification \/ JudgePhase \/ JudgeOther \/ peekCheckpointClaim
  <2>1. /\ \E c \in {res.claim, end'.claim} : Closed(c)
        /\ Goal!2 /\ Goal!3 /\ Goal!4 /\ Goal!5
    BY <1>4, JudgeEffect, PeekEffect DEF Judges, JudgeFrame
  <2> QED
    BY <1>1, <2>1, CloseEffect, ClaimsStayTyped DEF Closed, Alike, TypeOK
<1>5. CASE Route
  BY <1>5, RouteEffect DEF RouteReturns, RouteRetries, RouteWaits, Releases, Alike
<1>6. CASE Seam
  <2>1. /\ task' = task \/ Parks(end.claim) \/ Closed(end.claim)
        /\ Goal!2 /\ Goal!3 /\ Goal!4 /\ Goal!5
    BY <1>6, SeamEffect DEF SeamCommon, SeamGoesOn, SeamRefused, SeamStops
  <2>2. end.claim \in Claims
    BY <1>1 DEF TypeOK, PhaseEnds
  <2> QED
    BY <1>1, <1>6, <2>1, <2>2, CloseEffect, ParksEffect, SeamEffect DEF Closed, Alike, TypeOK, SeamCommon
<1>7. CASE SessionRecordsBranch \/ SessionDeclaresNoCode \/ SessionReviews \/ SessionSettles
  BY <1>7, RecordsBranchEffect, DeclaresNoCodeEffect, ReviewsEffect, SettlesEffect DEF Works, AlikeUnreviewed, OnlyRow
<1>8. ASSUME NEW e \in Ends, SessionEnds(e) PROVE Goal
  BY <1>8, SessionEndsEffect
<1>9. CASE Salvage
  BY <1>9, SalvageEffect DEF OnlyRow
<1>10. CASE Others
  BY <1>10, OthersEffect DEF OnlyRow
<1> QED
  BY <1>2, <1>3, <1>4, <1>5, <1>6, <1>7, <1>8, <1>9, <1>10, NextCases DEF DriverAlone, SessionStep

\* The runs of this drain that hold their task and that nothing accounts for.
Owed ==
  {r \in hist.mine :
     OnRun(r) /\ r \notin hist.back \cup hist.unread \cup hist.must \cup hist.hidden}

UntrustedIsUnread ==
  pc \in {"salvage", "judge", "handback"} /\ ~trusted /\ res.claim.task # NoTask =>
    RunOf(res.claim) \in hist.unread

\* What is owed is what the driver carries, or what its session or its phase holds.
OwedIsHeld ==
  /\ pc \in {"boundary", "release", "attempt"} => Owed \subseteq {RunOf(carried)}
  /\ InSession \/ pc = "handback" => Owed \subseteq {RunOf(carried), RunOf(res.claim)}
  /\ pc \in {"attempt", "route", "seam"} => Owed \subseteq {RunOf(Taken)}
  /\ pc = "route" /\ ~end.checkpoint => Owed \subseteq {RunOf(carried)}
  /\ pc \in {"limited", "backoff", "wait", "done"} => Owed = {}

LEMMA OwedIsOpen ==
  ASSUME ClaimsInv, NEW c \in {carried, res.claim, end.claim}, RunOf(c) \in Owed
  PROVE  Held(c)
<1>1. Sound(c, task, OwnRuns) /\ OnRun(RunOf(c))
  BY DEF ClaimsInv, ClaimsAreSound, Owed
<1> QED
  BY <1>1 DEF Sound, OnRun, RunOf, Gone, Held

LEMMA NoneIsOwed == \A c : c.task = NoTask => RunOf(c) \notin Owed
  BY DEF Owed, OnRun, RunOf

LEMMA AccountedIsSettled ==
  \A r \in hist'.back \cup hist'.unread \cup hist'.must \cup hist'.hidden : r \notin Owed'
  BY DEF Owed

LEMMA OwedShrinks ==
  ASSUME ClaimsInv, [Next]_vars, \A t \in Tasks : ~SessionClaims(t),
         ~peekCheckpointClaim \/ hist.hidden \subseteq hist'.hidden
  PROVE  Owed' \subseteq Owed
<1>1. NoNewLease /\ hist.hidden \subseteq hist'.hidden
  BY LeasesStand DEF ClaimsInv
<1>2. ASSUME NEW r \in hist.mine, r.task # NoTask PROVE r.task \in Tasks
  BY <1>2 DEF ClaimsInv, Inv, TypeOK, Histories, RunIds
<1> QED
  BY <1>1, <1>2 DEF Owed, OnRun, NoNewLease

\* Without strays, what the seam takes is the claim of the phase, or what was carried.
LEMMA TakenAlone ==
  ASSUME ClaimsInv, Straight, pc \in {"attempt", "route", "seam"}
  PROVE  Taken = IF end.released THEN NoClaim ELSE IF end.claim # NoClaim THEN end.claim ELSE carried
<1>1. Sound(carried, task, OwnRuns) /\ Sound(end.claim, task, OwnRuns)
  BY DEF ClaimsInv, ClaimsAreSound
<1>2. carried # NoClaim /\ end.claim # NoClaim => end.claim.task = carried.task
  BY <1>1 DEF Sound, Straight
<1> QED
  BY <1>2 DEF Taken

Holding == UntrustedIsUnread /\ OwedIsHeld

LEMMA HeldAtStart ==
  ASSUME ClaimsInv, Straight, Holding, [Next]_vars,
         SequenceOver \/ PhaseStarts \/ PhaseRefused \/ AttemptRefused \/ SessionSpawns \/ Waited
  PROVE  Holding'
<1>1. Inv /\ TypeOK /\ NoClaim.task = NoTask /\ Owed' \subseteq Owed
  <2>1. (\A t \in Tasks : ~SessionClaims(t)) /\ ~peekCheckpointClaim
    BY DEF SequenceOver, PhaseStarts, PhaseRefused, AttemptRefused, SessionSpawns, Waited, SessionClaims,
           peekCheckpointClaim
  <2> QED
    BY <2>1, OwedShrinks DEF ClaimsInv, Inv, NoClaim
<1>2. CASE SequenceOver
  BY <1>1, <1>2 DEF SequenceOver, Holding, UntrustedIsUnread, OwedIsHeld, InSession
<1>3. CASE PhaseStarts
  <2>1. pc = "boundary" /\ pc' = "attempt" /\ carried' = carried /\ end' = NoEnd
    BY <1>1, <1>3, PhaseStartsEffect
  <2>2. Taken' = carried
    BY <2>1 DEF Taken, NoEnd
  <2> QED
    BY <1>1, <2>1, <2>2 DEF Holding, UntrustedIsUnread, OwedIsHeld, InSession
<1>4. CASE PhaseRefused
  <2>1. /\ pc = "boundary" /\ pc' = "seam" /\ carried' = carried /\ end'.claim = carried
        /\ end'.released = Held(carried)
        /\ Releases(carried, TRUE) /\ Owed \subseteq {RunOf(carried)}
    BY <1>1, <1>4, PhaseRefusedEffect DEF Holding, OwedIsHeld
  <2>2. Owed' = {}
    <3>1. CASE Held(carried)
      BY <1>1, <2>1, <3>1, AccountedIsSettled DEF Releases
    <3>2. CASE ~Held(carried)
      BY <1>1, <2>1, <3>2, OwedIsOpen
    <3> QED
      BY <3>1, <3>2
  <2> QED
    BY <2>1, <2>2 DEF Holding, UntrustedIsUnread, OwedIsHeld, InSession
<1>5. CASE AttemptRefused \/ SessionSpawns \/ Waited
  <2>1. /\ carried' = carried /\ end'.claim = end.claim /\ end'.released = end.released
        /\ \/ pc = "attempt" /\ pc' = "seam"
           \/ pc = "attempt" /\ pc' = "session" /\ res'.claim = carried
           \/ pc \in {"limited", "backoff"} /\ pc' \in {"seam", "attempt"}
    BY <1>1, <1>5 DEF TypeOK, PhaseEnds, AttemptRefused, SessionSpawns, Waited, NoSession
  <2>2. Taken' = Taken
    BY <2>1 DEF Taken
  <2> QED
    BY <1>1, <2>1, <2>2 DEF Holding, UntrustedIsUnread, OwedIsHeld, InSession
<1> QED
  BY <1>2, <1>3, <1>4, <1>5

LEMMA HeldInSession ==
  ASSUME ClaimsInv, Straight, ~Strays, Holding, [Next]_vars, SessionStep \/ Salvage
  PROVE  Holding'
<1>1. Inv /\ TypeOK /\ NoClaim.task = NoTask /\ UNCHANGED <<conf, i, carried, try, end>>
      /\ pc \in {"session", "salvage"} /\ pc' \in {"session", "salvage", "judge"}
  BY RowsMoveStep, SessionReports DEF ClaimsInv, Inv, Learns, NoClaim
<1>2. Owed \subseteq {RunOf(carried), RunOf(res.claim)}
  BY <1>1 DEF Holding, OwedIsHeld, InSession
<1>3. ASSUME NEW t \in Tasks, SessionClaims(t) PROVE Holding'
  <2> DEFINE new == [task |-> t, run |-> task[t].run + 1]
  <2>1. /\ pc = "session" /\ pc' = "session" /\ res.on.task = NoTask
        /\ task'[t].lease = "ours" /\ OnlyRow(t)
        /\ hist'.mine = hist.mine \cup {new} /\ hist'.back = hist.back /\ hist'.unread = hist.unread
        /\ hist'.must = hist.must /\ hist.hidden \subseteq hist'.hidden
        /\ (res'.claim = res.claim /\ new \in hist'.hidden) \/ RunOf(res'.claim) = new
        /\ task'[t].run = task[t].run + 1
    BY <1>1, <1>3, SessionClaimsEffect DEF SessionSteps
  <2>2. RunOf(res.claim) \notin Owed
    BY <2>1, NoneIsOwed DEF Straight
  <2>3. Owed' \subseteq (Owed \cup {new}) \ hist'.hidden
    <3>1. ASSUME NEW r \in Owed', r # new PROVE r \in Owed
      <4>1. r \in hist.mine /\ r.task # NoTask /\ task'[r.task].lease = "ours" /\ task'[r.task].run = r.run
            /\ r \notin hist.back \cup hist.unread \cup hist.must \cup hist.hidden
        BY <2>1, <3>1 DEF Owed, OnRun
      <4>2. r \in RunIds /\ r.task \in Tasks
        BY <1>1, <4>1 DEF TypeOK, Histories, RunIds
      <4>3. r.task # t
        BY <2>1, <3>1, <4>1, <4>2 DEF RunIds
      <4>4. task'[r.task] = task[r.task]
        BY <2>1, <4>2, <4>3 DEF OnlyRow
      <4> QED
        BY <4>1, <4>4 DEF Owed, OnRun
    <3> QED
      BY <3>1, AccountedIsSettled
  <2>4. Owed' \subseteq {RunOf(carried), RunOf(res'.claim)}
    BY <1>2, <2>1, <2>2, <2>3
  <2> QED
    BY <1>1, <2>1, <2>4 DEF Holding, UntrustedIsUnread, OwedIsHeld, InSession
<1>4. CASE \A t \in Tasks : ~SessionClaims(t)
  <2>1. Owed' \subseteq Owed
    <3>1. ~peekCheckpointClaim
      BY <1>1 DEF peekCheckpointClaim
    <3> QED
      BY <1>4, <3>1, OwedShrinks
  <2>2. CASE SessionRecordsBranch \/ SessionDeclaresNoCode \/ SessionReviews \/ SessionSettles
    <3>1. pc = "session" /\ pc' = "session" /\ RunOf(res'.claim) = RunOf(res.claim)
      BY <1>1, <2>2, RecordsBranchEffect, DeclaresNoCodeEffect, ReviewsEffect, SettlesEffect
      DEF Works, SessionSteps
    <3> QED
      BY <1>1, <1>2, <2>1, <3>1 DEF Holding, UntrustedIsUnread, OwedIsHeld, InSession
  <2>3. ASSUME NEW e \in Ends, SessionEnds(e) PROVE Holding'
    <3>1. /\ pc = "session" /\ pc' = "salvage" /\ res'.how = e[1]
          /\ res'.claim = res.claim \/ (res'.claim = NoClaim /\ ~res.mcp)
          /\ hist'.unread = IF e[1] = "untrusted" THEN hist.unread \cup ({RunOf(res.claim)} \ {NoRun})
                            ELSE hist.unread
      BY <1>1, <2>3, SessionEndsEffect
    <3>2. Owed' \subseteq {RunOf(carried), RunOf(res'.claim)}
      <4>1. CASE res'.claim = res.claim
        BY <1>2, <2>1, <4>1
      <4>2. CASE ~res.mcp
        <5>1. SameOrNone(res.claim)
          BY <3>1, <4>2 DEF Straight, InSession
        <5> QED
          BY <1>2, <2>1, <5>1, NoneIsOwed DEF SameOrNone
      <4> QED
        BY <3>1, <4>1, <4>2
    <3>3. res'.claim.task # NoTask => RunOf(res'.claim) = RunOf(res.claim) /\ RunOf(res.claim) # NoRun
      BY <1>1, <3>1 DEF RunOf, NoRun
    <3> QED
      BY <1>1, <3>1, <3>2, <3>3 DEF Holding, UntrustedIsUnread, OwedIsHeld, InSession, trusted
  <2>4. CASE Salvage
    <3>1. /\ pc = "salvage" /\ pc' = "judge" /\ hist' = hist /\ res'.how = res.how
          /\ RunOf(res'.claim) = RunOf(res.claim) /\ res'.claim.task = res.claim.task
      BY <1>1, <2>4, SalvageEffect
    <3> QED
      BY <1>1, <1>2, <2>1, <3>1 DEF Holding, UntrustedIsUnread, OwedIsHeld, InSession, trusted
  <2> QED
    BY <1>4, <2>2, <2>3, <2>4 DEF SessionStep
<1> QED
  BY <1>3, <1>4

LEMMA HeldWhenJudged ==
  ASSUME ClaimsInv, Straight, Holding, [Next]_vars, JudgeVerification \/ JudgePhase \/ JudgeOther
  PROVE  Holding'
<1>1. /\ pc = "judge" /\ UNCHANGED <<carried, res, hist>> /\ pc' \in {"route", "handback"} /\ Judges
      /\ RunOf(end'.claim) = RunOf(res.claim) /\ end'.claim.task = res.claim.task
  BY JudgeEffect DEF ClaimsInv, Judges, JudgeFrame, RunOf
<1>2. Owed' \subseteq Owed /\ Owed \subseteq {RunOf(carried), RunOf(res.claim)}
  <2>1. (\A t \in Tasks : ~SessionClaims(t)) /\ ~peekCheckpointClaim
    BY <1>1 DEF SessionClaims, peekCheckpointClaim
  <2> QED
    BY <1>1, <2>1, OwedShrinks DEF Holding, OwedIsHeld, InSession
<1>3. UntrustedIsUnread'
  BY <1>1 DEF Holding, UntrustedIsUnread, trusted
<1>4. /\ carried.task # NoTask => SameOrNone(res.claim)
      /\ carried # NoClaim => carried.task # NoTask
      /\ end'.claim # NoClaim => end'.claim.task # NoTask
  BY <1>1, ClaimsInvNext DEF ClaimsInv, ClaimsAreSound, Sound, Straight
<1>5. CASE end'.checkpoint
  <2>1. ~end'.released /\ res.claim.task # NoTask /\ end'.claim # NoClaim
    BY <1>1, <1>5 DEF Judges, canCheckpoint, Held, NoClaim
  <2>2. carried.task # NoTask => RunOf(carried) = RunOf(end'.claim) /\ carried.task = end'.claim.task
    BY <1>1, <1>4, <2>1 DEF SameOrNone, RunOf
  <2>3. Owed' \subseteq {RunOf(end'.claim)}
    BY <1>1, <1>2, <2>2, NoneIsOwed
  <2>4. Taken' = end'.claim
    BY <1>1, <1>4, <2>1, <2>2 DEF Taken
  <2>5. pc' = "route"
    BY <1>1, <1>5 DEF Judges
  <2> QED
    BY <1>3, <1>5, <2>3, <2>4, <2>5 DEF Holding, OwedIsHeld, InSession
<1>6. CASE ~end'.checkpoint /\ RetriesNoMCP'
  <2>1. ~end'.released /\ SameOrNone(res.claim)
    BY <1>1, <1>6 DEF Judges, Straight, InSession
  <2>2. Owed' \subseteq {RunOf(carried)}
    BY <1>2, <2>1, NoneIsOwed DEF SameOrNone
  <2>3. end'.claim # NoClaim => RunOf(end'.claim) = RunOf(carried) /\ end'.claim.task = carried.task
    BY <1>1, <1>4, <2>1 DEF SameOrNone, RunOf
  <2>4. RunOf(Taken') = RunOf(carried)
    BY <1>1, <2>1, <2>3 DEF Taken
  <2>5. pc' = "route"
    BY <1>1, <1>6 DEF Judges
  <2> QED
    BY <1>1, <1>3, <2>2, <2>4, <2>5 DEF Holding, OwedIsHeld, InSession
<1>7. CASE ~end'.checkpoint /\ ~RetriesNoMCP'
  <2>1. pc' = "handback"
    BY <1>1, <1>7 DEF Judges
  <2> QED
    BY <1>1, <1>2, <1>3, <2>1 DEF Holding, OwedIsHeld, InSession
<1> QED
  BY <1>5, <1>6, <1>7

LEMMA HeldWhenHandedBack ==
  ASSUME ClaimsInv, Straight, Holding, [Next]_vars, Handback
  PROVE  Holding'
<1>1. /\ pc = "handback" /\ pc' = "route" /\ UNCHANGED <<carried, res>> /\ Releases(res.claim, trusted)
      /\ end'.claim = end.claim /\ end'.checkpoint = end.checkpoint /\ end'.released = end.released
      /\ RunOf(end.claim) = RunOf(res.claim) /\ end.claim.task = res.claim.task
      /\ (end.released <=> Held(res.claim)) /\ ~end.checkpoint
  BY HandbackEffect DEF ClaimsInv, EndsAgree, HandsBack, RunOf
<1>2. Owed' \subseteq Owed /\ Owed \subseteq {RunOf(carried), RunOf(res.claim)}
  <2>1. (\A t \in Tasks : ~SessionClaims(t)) /\ hist'.hidden = hist.hidden
    BY <1>1 DEF SessionClaims, Releases
  <2> QED
    BY <1>1, OwedShrinks, <2>1 DEF Holding, OwedIsHeld, InSession
<1>3. RunOf(res.claim) \notin Owed'
  <2> SUFFICES ASSUME RunOf(res.claim) \in Owed PROVE RunOf(res.claim) \notin Owed'
    BY <1>2
  <2>1. Held(res.claim) /\ res.claim.task # NoTask
    BY OwedIsOpen DEF Held
  <2>2. RunOf(res.claim) \in hist'.back \cup hist'.unread
    BY <1>1, <2>1 DEF Releases, Holding, UntrustedIsUnread
  <2> QED
    BY <2>2, AccountedIsSettled
<1>4. Owed' \subseteq {RunOf(carried)}
  BY <1>2, <1>3
<1>5. Owed' \subseteq {RunOf(Taken')}
  <2>1. CASE RunOf(carried) \notin Owed'
    BY <1>4, <2>1
  <2>2. CASE RunOf(carried) \in Owed'
    <3>1. carried.task # NoTask /\ RunOf(carried) # RunOf(res.claim) /\ RunOf(carried) \in Owed
      BY <1>2, <1>3, <2>2, NoneIsOwed
    <3>2. res.claim.task = NoTask /\ end.claim.task = NoTask
      BY <1>1, <3>1 DEF Straight, SameOrNone
    <3>3. end.claim = NoClaim /\ ~end.released
      BY <1>1, <3>2 DEF ClaimsInv, ClaimsAreSound, Sound, Held
    <3>4. Taken' = carried
      BY <1>1, <3>3 DEF Taken
    <3> QED
      BY <1>4, <3>4
  <2> QED
    BY <2>1, <2>2
<1> QED
  BY <1>1, <1>4, <1>5 DEF Holding, UntrustedIsUnread, OwedIsHeld, InSession

\* The peek takes a hidden claim out of hiding only to go on with it.
LEMMA HeldWhenPeeked ==
  ASSUME ClaimsInv, Straight, Holding, [Next]_vars, peekCheckpointClaim
  PROVE  Holding'
<1>1. /\ pc = "handback" /\ pc' = "route" /\ UNCHANGED <<carried, res>> /\ try.briefed \in Tasks
      /\ end.claim = NoClaim /\ end'.claim.task = try.briefed
      /\ end'.claim.run = task[try.briefed].run
      /\ end'.released = end.released
      /\ hist'.hidden = IF end'.checkpoint THEN hist.hidden \ {RunOf(end'.claim)} ELSE hist.hidden
  BY PeekEffect DEF ClaimsInv, Peeks, Peeked
<1>2. NoTask \notin Tasks /\ NoClaim.task = NoTask /\ end'.claim # NoClaim
  BY <1>1, ConfFacts DEF ClaimsInv, Inv, TypeOK, NoClaim
<1>3. res.claim.task = NoTask /\ ~end.released
  BY <1>1, <1>2 DEF ClaimsInv, EndsAgree, HandsBack, Held
<1>4. Owed \subseteq {RunOf(carried)}
  BY <1>1, <1>3, NoneIsOwed DEF Holding, OwedIsHeld
<1>5. ASSUME NEW r \in Owed', r # RunOf(end'.claim) \/ ~end'.checkpoint PROVE r \in Owed
  <2>1. NoNewLease
    <3>1. \A t \in Tasks : ~SessionClaims(t)
      BY <1>1 DEF SessionClaims
    <3> QED
      BY <3>1, LeasesStand DEF ClaimsInv
  <2>2. r \in hist.mine /\ r.task # NoTask /\ task'[r.task].lease = "ours" /\ task'[r.task].run = r.run
        /\ r \notin hist.back \cup hist.unread \cup hist.must \cup hist.hidden
    BY <1>1, <1>5, <2>1 DEF Owed, OnRun, NoNewLease
  <2>3. r.task \in Tasks
    BY <2>2 DEF ClaimsInv, Inv, TypeOK, Histories, RunIds
  <2> QED
    BY <2>1, <2>2, <2>3 DEF Owed, OnRun, NoNewLease
<1>6. ~end'.checkpoint => Owed' \subseteq {RunOf(carried)}
  BY <1>4, <1>5
<1>7. Owed' \subseteq {RunOf(Taken')}
  <2>1. CASE carried.task = NoTask
    <3>1. Owed' \subseteq {RunOf(end'.claim)} /\ carried = NoClaim
      BY <1>4, <1>5, <2>1, NoneIsOwed DEF ClaimsInv, ClaimsAreSound, Sound
    <3>2. Taken' = end'.claim
      BY <1>1, <1>2, <1>3, <3>1 DEF Taken
    <3> QED
      BY <3>1, <3>2
  <2>2. CASE carried.task # NoTask
    <3>1. carried.task = end'.claim.task
      BY <1>1, <2>2 DEF Straight, Calling
    <3>2. Taken' = end'.claim
      BY <1>1, <1>2, <1>3, <3>1 DEF Taken
    <3>3. RunOf(carried) \in Owed => RunOf(carried) = RunOf(end'.claim)
      BY <1>1, <3>1 DEF Owed, OnRun, RunOf
    <3> QED
      BY <1>4, <1>5, <3>2, <3>3
  <2> QED
    BY <2>1, <2>2
<1> QED
  BY <1>1, <1>6, <1>7 DEF Holding, UntrustedIsUnread, OwedIsHeld, InSession

LEMMA HeldWhenRouted ==
  ASSUME ClaimsInv, Straight, ~Forgets, Holding, [Next]_vars, Route
  PROVE  Holding'
<1>1. /\ pc = "route" /\ UNCHANGED <<carried, res>> /\ (RouteReturns \/ RouteRetries \/ RouteWaits)
  BY RouteEffect DEF ClaimsInv, RouteFrame
<1>2. /\ Owed' \subseteq Owed /\ Owed \subseteq {RunOf(Taken)}
      /\ ~end.checkpoint => Owed \subseteq {RunOf(carried)}
  <2>1. (\A t \in Tasks : ~SessionClaims(t)) /\ ~peekCheckpointClaim
    BY <1>1 DEF SessionClaims, peekCheckpointClaim
  <2> QED
    BY <1>1, <2>1, OwedShrinks DEF Holding, OwedIsHeld
<1>3. CASE RouteReturns
  <2>1. pc' = "seam" /\ Taken' = Taken
    BY <1>1, <1>3 DEF RouteReturns, SameEnd, Taken
  <2> QED
    BY <1>2, <2>1 DEF Holding, UntrustedIsUnread, OwedIsHeld, InSession
<1>4. CASE RouteRetries
  <2>1. pc' = "attempt" /\ end' = end
    BY <1>4 DEF RouteRetries
  <2>2. RetriesNoMCP
    <3>1. ~(res.how = "nostart" /\ res.after = "preflight")
      BY <1>1 DEF ClaimsInv, EndsAgree, EndsAsListed, Forgets
    <3> QED
      BY <1>4, <3>1 DEF RouteRetries
  <2>3. Owed \subseteq {RunOf(carried)}
    BY <1>1, <1>2, <2>2 DEF ClaimsInv, EndsAgree, Retried
  <2>4. Taken' = Taken
    BY <1>1, <2>1 DEF Taken
  <2> QED
    BY <1>1, <1>2, <2>1, <2>3, <2>4 DEF Holding, UntrustedIsUnread, OwedIsHeld, InSession
<1>5. CASE RouteWaits
  <2>1. pc' \in {"limited", "backoff", "seam"} /\ carried = NoClaim /\ NoClaim.task = NoTask
    BY <1>5 DEF RouteWaits, NoClaim
  <2>2. Owed' = {}
    <3>1. CASE end.checkpoint
      <4>1. Held(end.claim) /\ ~end.released /\ end.claim # NoClaim
        BY <3>1 DEF ClaimsInv, EndsAgree, EndHolds, Held, NoClaim
      <4>2. Taken = end.claim /\ Releases(end.claim, TRUE)
        BY <1>5, <2>1, <3>1, <4>1 DEF Taken, RouteWaits
      <4>3. RunOf(end.claim) \in hist'.back
        BY <4>1, <4>2 DEF Releases
      <4> QED
        BY <1>2, <4>2, <4>3, AccountedIsSettled
    <3>2. CASE ~end.checkpoint
      BY <1>2, <2>1, <3>2, NoneIsOwed
    <3> QED
      BY <3>1, <3>2
  <2> QED
    BY <2>1, <2>2 DEF Holding, UntrustedIsUnread, OwedIsHeld, InSession
<1> QED
  BY <1>1, <1>3, <1>4, <1>5

LEMMA HeldAtSeam ==
  ASSUME ClaimsInv, Straight, Holding, [Next]_vars, Seam
  PROVE  Holding'
<1>1. pc = "seam" /\ (SeamGoesOn \/ SeamRefused \/ SeamStops)
  BY SeamEffect DEF ClaimsInv, SeamCommon
<1>2. Owed' \subseteq Owed /\ Owed \subseteq {RunOf(Taken)}
  <2>1. (\A t \in Tasks : ~SessionClaims(t)) /\ ~peekCheckpointClaim
    BY <1>1 DEF SessionClaims, peekCheckpointClaim
  <2> QED
    BY <1>1, <2>1, OwedShrinks DEF Holding, OwedIsHeld
<1>3. CASE SeamGoesOn
  BY <1>2, <1>3 DEF SeamGoesOn, Holding, UntrustedIsUnread, OwedIsHeld, InSession
<1>4. CASE SeamRefused
  <2>1. pc' = "seam" /\ Taken' = Taken
    BY <1>4 DEF SeamRefused, Taken
  <2> QED
    BY <1>2, <2>1 DEF Holding, UntrustedIsUnread, OwedIsHeld, InSession
<1>5. CASE SeamStops
  <2>1. pc' = "release" /\ carried' = NoClaim /\ RunOf(end.claim) \in hist'.must /\ end.musts # {}
    BY <1>5 DEF SeamStops
  <2>2. ~end.released /\ end.claim # NoClaim
    BY <2>1 DEF ClaimsInv, EndsAgree, EndHolds, NoClaim
  <2>3. Taken = end.claim
    BY <1>1, <2>2, TakenAlone
  <2>4. Owed' = {}
    BY <1>2, <2>1, <2>3, AccountedIsSettled
  <2> QED
    BY <2>1, <2>4 DEF Holding, UntrustedIsUnread, OwedIsHeld, InSession
<1> QED
  BY <1>1, <1>3, <1>4, <1>5

LEMMA HeldWhenOver ==
  ASSUME ClaimsInv, Straight, Holding, [Next]_vars, releaseCarried \/ EndWait
  PROVE  Holding'
<1>1. Owed' \subseteq Owed
  <2>1. (\A t \in Tasks : ~SessionClaims(t)) /\ ~peekCheckpointClaim
    BY DEF SessionClaims, peekCheckpointClaim, releaseCarried, EndWait
  <2> QED
    BY <2>1, OwedShrinks
<1>2. CASE releaseCarried
  <2>1. pc = "release" /\ pc' \in {"wait", "done"} /\ Releases(carried, TRUE)
    BY <1>2, ReleaseCarriedEffect DEF ClaimsInv
  <2>2. Owed' = {}
    <3>1. Owed \subseteq {RunOf(carried)}
      BY <2>1 DEF Holding, OwedIsHeld
    <3>2. CASE RunOf(carried) \in Owed
      <4>1. RunOf(carried) \in hist'.back
        BY <2>1, <3>2, OwedIsOpen DEF Releases
      <4> QED
        BY <1>1, <3>1, <4>1, AccountedIsSettled
    <3>3. CASE RunOf(carried) \notin Owed
      BY <1>1, <3>1, <3>3
    <3> QED
      BY <3>2, <3>3
  <2> QED
    BY <2>1, <2>2 DEF Holding, UntrustedIsUnread, OwedIsHeld, InSession
<1>3. CASE EndWait
  BY <1>1, <1>3 DEF EndWait, Holding, UntrustedIsUnread, OwedIsHeld, InSession
<1> QED
  BY <1>2, <1>3

LEMMA HeldMeanwhile ==
  ASSUME ClaimsInv, Straight, Holding, [Next]_vars, Others \/ UNCHANGED vars
  PROVE  Holding'
<1>1. UNCHANGED <<conf, pc, i, carried, cnt, try, res, end, hist>>
  BY OthersEffect DEF ClaimsInv, vars
<1>2. Owed' \subseteq Owed
  <2>1. (\A t \in Tasks : ~SessionClaims(t)) /\ ~peekCheckpointClaim
    <3>1. ASSUME NEW t \in Tasks, SessionClaims(t) PROVE FALSE
      <4>1. /\ res'.on = [task |-> t, run |-> task[t].run + 1]
            /\ res.on.task = NoTask \/ res.on.task # t
        BY <3>1, SessionClaimsEffect DEF ClaimsInv
      <4>2. res'.on.task = t /\ t # NoTask
        BY <4>1, ConfFacts DEF ClaimsInv, Inv, TypeOK
      <4> QED
        BY <1>1, <4>1, <4>2
    <3>2. ~peekCheckpointClaim
      BY <1>1 DEF peekCheckpointClaim
    <3> QED
      BY <3>1, <3>2
  <2> QED
    BY <2>1, OwedShrinks
<1>3. Taken' = Taken
  BY <1>1 DEF Taken
<1> QED
  BY <1>1, <1>2, <1>3 DEF Holding, UntrustedIsUnread, OwedIsHeld, InSession, trusted

HoldingInv ==
  /\ KeepsInv
  /\ ~Strays => Straight
  /\ ~Forgets /\ ~Strays => Holding

LEMMA HoldingInvInit == Init => HoldingInv
<1> SUFFICES ASSUME Init PROVE HoldingInv
  OBVIOUS
<1>1. Owed = {} /\ pc = "boundary"
  BY DEF Init, Owed
<1>2. Holding
  BY <1>1 DEF Holding, UntrustedIsUnread, OwedIsHeld, InSession
<1> QED
  BY <1>2, KeepsInvInit, StraightInit DEF HoldingInv

LEMMA HoldingInvNext == HoldingInv /\ [Next]_vars => HoldingInv'
<1> SUFFICES ASSUME HoldingInv, [Next]_vars PROVE HoldingInv'
  OBVIOUS
<1>1. ClaimsInv /\ KeepsInv'
  BY KeepsInvNext DEF HoldingInv, KeepsInv
<1>2. (Forgets' <=> Forgets) /\ (Strays' <=> Strays)
  BY NextKeepsConf, PlaceStays DEF Forgets, Strays
<1>3. ~Strays => Straight'
  BY <1>1, StraightStep DEF HoldingInv
<1>4. ASSUME ~Forgets, ~Strays PROVE Holding'
  <2>1. Straight /\ Holding
    BY <1>4 DEF HoldingInv
  <2>3. CASE SequenceOver \/ PhaseStarts \/ PhaseRefused \/ AttemptRefused \/ SessionSpawns \/ Waited
    BY <1>1, <2>1, <2>3, HeldAtStart
  <2>4. CASE SessionStep \/ Salvage \/ JudgeVerification \/ JudgePhase \/ JudgeOther
    BY <1>1, <1>4, <2>1, <2>4, HeldInSession, HeldWhenJudged
  <2>5. CASE peekCheckpointClaim \/ Handback \/ Route
    BY <1>1, <1>4, <2>1, <2>5, HeldWhenPeeked, HeldWhenHandedBack, HeldWhenRouted
  <2>6. CASE Seam \/ releaseCarried \/ EndWait \/ Others \/ UNCHANGED vars
    BY <1>1, <1>4, <2>1, <2>6, HeldAtSeam, HeldWhenOver, HeldMeanwhile
  <2> QED
    BY <2>3, <2>4, <2>5, <2>6, NextCases DEF DriverAlone
<1> QED
  BY <1>1, <1>2, <1>3, <1>4 DEF HoldingInv

LEMMA HoldingLeavesNothing == HoldingInv /\ ~Forgets /\ ~Strays => NothingLeftBehind
  BY DEF HoldingInv, Holding, OwedIsHeld, Owed, NothingLeftBehind

-----------------------------------------------------------------------------
(* What the driver knows of the work under its claims.                      *)

\* A claim that holds its task names the branch, if one is recorded.
Knows(c, rows) ==
  /\ c.task # NoTask /\ rows[c.task].lease = "ours" /\ rows[c.task].run = c.run
  /\ rows[c.task].tip > 0
  => c.wip

OnIsClaimed == pc = "session" /\ res.on = RunOf(carried) => RunOf(res.claim) = RunOf(carried)

\* The session's claim is told what its session does; the carried one is told by the
\* verdict, and goes on as it was only where the session could not have moved its task.
WorkIsKnown ==
  /\ pc \in {"boundary", "release", "attempt"} => Knows(carried, task)
  /\ InSession \/ pc \in {"handback", "route"} => Knows(res.claim, task)
  /\ InSession \/ pc \in {"handback", "route"} =>
       (RunOf(res.claim) # RunOf(carried) \/ ReviewShaped(i) => Knows(carried, task))
  /\ pc = "session" /\ ~res.mcp => Knows(carried, task)
  /\ pc \in {"attempt", "handback", "route", "limited", "backoff", "seam"} =>
       /\ Knows(end.claim, task)
       /\ RunOf(end.claim) # RunOf(carried) => Knows(carried, task)

LEMMA NoClaimKnows ==
  /\ \A c : c.task = NoTask => Knows(c, task) /\ Knows(c, task')
  /\ NoClaim.task = NoTask
  BY DEF Knows, NoClaim

\* No run gets its task back, so a claim knows as much as it did while the tip stands.
LEMMA KnowsStays ==
  ASSUME ClaimsInv, [Next]_vars, NEW c \in {carried, res.claim, end.claim}, Knows(c, task),
         c.task # NoTask /\ task'[c.task].lease = "ours" /\ task'[c.task].run = c.run =>
           task'[c.task].tip = task[c.task].tip
  PROVE  Knows(c, task')
<1>1. TypeOK /\ RowsMove /\ c \in Claims /\ Sound(c, task, OwnRuns)
  BY ClaimsStayTyped DEF ClaimsInv, ClaimsAreSound
<1> SUFFICES ASSUME c.task # NoTask, task'[c.task].lease = "ours", task'[c.task].run = c.run,
                    task'[c.task].tip > 0
             PROVE  c.wip
  BY DEF Knows
<1>2. c.task \in Tasks /\ c.run <= task[c.task].run /\ c.run \in Nat
  BY <1>1, ConfFacts DEF Sound, Claims, Runs, TypeOK
<1>3. task[c.task].run \in Nat /\ task'[c.task].run >= task[c.task].run
  BY <1>1, <1>2, RowFacts DEF RowsMove
<1>4. task'[c.task].run = task[c.task].run
  BY <1>2, <1>3
<1>5. task[c.task].lease = "ours" /\ task[c.task].run = c.run
  BY <1>1, <1>2, <1>4 DEF RowsMove
<1> QED
  BY <1>5 DEF Knows

\* Only a session, or the salvage of its work, moves a branch.
LEMMA TipsStand ==
  ASSUME Inv, [Next]_vars, ~SessionRecordsBranch, ~Salvage
  PROVE  \A t \in Tasks : task'[t].tip = task[t].tip
<1>1. TypeOK
  BY DEF Inv
<1>2. CASE SequenceOver \/ PhaseStarts \/ AttemptRefused \/ SessionSpawns \/ Waited \/ EndWait \/ UNCHANGED vars
  BY <1>2, PhaseStartsEffect DEF SequenceOver, AttemptRefused, SessionSpawns, Waited, EndWait, vars
<1>3. CASE PhaseRefused \/ releaseCarried \/ Handback
  BY <1>3, PhaseRefusedEffect, ReleaseCarriedEffect, HandbackEffect DEF Releases, Alike
<1>4. CASE JudgeVerification \/ JudgePhase \/ JudgeOther \/ peekCheckpointClaim
  <2>1. \E c \in {res.claim, end'.claim} : Closed(c)
    BY <1>4, JudgeEffect, PeekEffect DEF Judges
  <2> QED
    BY <1>1, <2>1, CloseEffect, ClaimsStayTyped DEF Closed, Alike, TypeOK
<1>5. CASE Route
  BY <1>5, RouteEffect DEF RouteReturns, RouteRetries, RouteWaits, Releases, Alike
<1>6. CASE Seam
  <2>1. task' = task \/ Parks(end.claim) \/ Closed(end.claim)
    BY <1>6, SeamEffect DEF SeamCommon, SeamGoesOn, SeamRefused, SeamStops
  <2>2. end.claim \in Claims
    BY <1>1 DEF TypeOK, PhaseEnds
  <2> QED
    BY <1>1, <2>1, <2>2, CloseEffect, ParksEffect DEF Closed, Alike, TypeOK
<1>7. CASE SessionDeclaresNoCode \/ SessionReviews \/ SessionSettles
  BY <1>7, DeclaresNoCodeEffect, ReviewsEffect, SettlesEffect DEF Works, AlikeUnreviewed, OnlyRow
<1>8. ASSUME NEW e \in Ends, SessionEnds(e) PROVE \A t \in Tasks : task'[t].tip = task[t].tip
  BY <1>8, SessionEndsEffect
<1>9. ASSUME NEW t \in Tasks, SessionClaims(t) PROVE \A u \in Tasks : task'[u].tip = task[u].tip
  <2>1. OnlyRow(t) /\ task'[t].tip = task[t].tip
    BY <1>9, SessionClaimsEffect
  <2> QED
    BY <2>1 DEF OnlyRow
<1>10. CASE Others
  BY <1>10, OthersEffect DEF OnlyRow
<1> QED
  BY <1>2, <1>3, <1>4, <1>5, <1>6, <1>7, <1>8, <1>9, <1>10, NextCases DEF DriverAlone, SessionStep

\* While the tips stand, all claims know what they knew.
LEMMA AllKnowAsBefore ==
  ASSUME ClaimsInv, [Next]_vars, ~SessionRecordsBranch, ~Salvage
  PROVE  /\ Knows(carried, task) => Knows(carried, task')
         /\ Knows(res.claim, task) => Knows(res.claim, task')
         /\ Knows(end.claim, task) => Knows(end.claim, task')
<1>1. ASSUME NEW c \in {carried, res.claim, end.claim}, Knows(c, task) PROVE Knows(c, task')
  <2>1. c.task # NoTask => c.task \in Tasks
    BY ClaimsStayTyped DEF ClaimsInv, Claims
  <2> QED
    BY <1>1, <2>1, KnowsStays, TipsStand DEF ClaimsInv
<1> QED
  BY <1>1

LEMMA OnIsClaimedStep ==
  ASSUME ClaimsInv, OnIsClaimed, [Next]_vars
  PROVE  OnIsClaimed'
<1>1. Inv /\ TypeOK
  BY DEF ClaimsInv, Inv
<1>2. CASE SessionStep
  <2>1. ASSUME NEW t \in Tasks, SessionClaims(t) PROVE OnIsClaimed'
    <3>1. res'.on = [task |-> t, run |-> task[t].run + 1] /\ carried' = carried /\ task[t].run \in Nat
      BY <1>1, <2>1, SessionClaimsEffect, RowFacts DEF SessionSteps
    <3>2. carried.task = t => carried.run <= task[t].run /\ carried.run \in Nat
      BY <1>1, <2>1, ConfFacts, ClaimsStayTyped DEF ClaimsInv, ClaimsAreSound, Sound, Claims, Runs, TypeOK
    <3>3. res'.on # RunOf(carried)
      BY <3>1, <3>2 DEF RunOf
    <3> QED
      BY <3>1, <3>3 DEF OnIsClaimed, RunOf
  <2>2. CASE SessionRecordsBranch \/ SessionDeclaresNoCode \/ SessionReviews \/ SessionSettles
    <3>1. pc = "session" /\ carried' = carried /\ res'.on = res.on /\ RunOf(res'.claim) = RunOf(res.claim)
      BY <1>1, <2>2, RecordsBranchEffect, DeclaresNoCodeEffect, ReviewsEffect, SettlesEffect
      DEF Works, SessionSteps
    <3> QED
      BY <3>1 DEF OnIsClaimed, RunOf
  <2>3. ASSUME NEW e \in Ends, SessionEnds(e) PROVE OnIsClaimed'
    BY <1>1, <2>3, SessionEndsEffect DEF OnIsClaimed
  <2> QED
    BY <1>2, <2>1, <2>2, <2>3 DEF SessionStep
<1>3. CASE SessionSpawns
  BY <1>3 DEF SessionSpawns, OnIsClaimed, RunOf, NoSession
<1>4. CASE Salvage
  BY <1>1, <1>4, SalvageEffect DEF OnIsClaimed
<1>5. CASE DriverAlone
  <2>1. pc' # "session"
    BY <1>1, <1>5, PhaseStartsEffect, PhaseRefusedEffect, JudgeEffect, PeekEffect, HandbackEffect, RouteEffect,
       SeamEffect, ReleaseCarriedEffect
    DEF DriverAlone, SequenceOver, AttemptRefused, Waited, EndWait, Judges, RouteReturns, RouteRetries,
        RouteWaits, SeamGoesOn, SeamRefused, SeamStops
  <2> QED
    BY <2>1 DEF OnIsClaimed
<1>6. CASE Others \/ UNCHANGED vars
  <2>1. UNCHANGED <<pc, carried, res>>
    BY <1>1, <1>6, OthersEffect DEF vars
  <2> QED
    BY <2>1 DEF OnIsClaimed, RunOf
<1> QED
  BY <1>2, <1>3, <1>4, <1>5, <1>6, NextCases

LEMMA KnownAtStart ==
  ASSUME ClaimsInv, WorkIsKnown, [Next]_vars,
         SequenceOver \/ PhaseStarts \/ PhaseRefused \/ AttemptRefused \/ SessionSpawns \/ Waited
  PROVE  WorkIsKnown'
<1>1. Inv /\ TypeOK /\ conf' = conf /\ ~SessionRecordsBranch /\ ~Salvage
  BY NextKeepsConf
  DEF ClaimsInv, Inv, SequenceOver, PhaseStarts, PhaseRefused, AttemptRefused, SessionSpawns, Waited,
      SessionRecordsBranch, Working, Salvage
<1>2. CASE SequenceOver
  BY <1>1, <1>2, AllKnowAsBefore DEF SequenceOver, WorkIsKnown, InSession
<1>3. CASE PhaseStarts
  <2>1. pc = "boundary" /\ pc' = "attempt" /\ carried' = carried /\ end'.claim = NoClaim
    BY <1>1, <1>3, PhaseStartsEffect DEF NoEnd
  <2> QED
    BY <1>1, <2>1, AllKnowAsBefore, NoClaimKnows DEF WorkIsKnown, InSession
<1>4. CASE PhaseRefused
  <2>1. pc = "boundary" /\ pc' = "seam" /\ carried' = carried /\ end'.claim = carried
    BY <1>1, <1>4, PhaseRefusedEffect
  <2> QED
    BY <1>1, <2>1, AllKnowAsBefore DEF WorkIsKnown, InSession
<1>5. CASE AttemptRefused \/ Waited
  <2>1. /\ pc \in {"attempt", "limited", "backoff"} /\ pc' \in {"seam", "attempt"}
        /\ carried' = carried /\ end'.claim = end.claim
        /\ pc' = "attempt" => pc \in {"limited", "backoff"}
    BY <1>1, <1>5 DEF TypeOK, PhaseEnds, AttemptRefused, Waited
  <2>2. pc' = "attempt" => carried = NoClaim
    BY <2>1 DEF ClaimsInv, EndsAgree, WaitsEmptyHanded
  <2> QED
    BY <1>1, <2>1, <2>2, AllKnowAsBefore, NoClaimKnows DEF WorkIsKnown, InSession
<1>6. CASE SessionSpawns
  <2>1. pc = "attempt" /\ pc' = "session" /\ carried' = carried /\ res'.claim = carried
    BY <1>6 DEF SessionSpawns, NoSession
  <2> QED
    BY <1>1, <2>1, AllKnowAsBefore DEF WorkIsKnown, InSession
<1> QED
  BY <1>2, <1>3, <1>4, <1>5, <1>6

LEMMA KnownInSession ==
  ASSUME ClaimsInv, OnIsClaimed, "reply" \notin Faults, WorkIsKnown, [Next]_vars, SessionStep \/ Salvage
  PROVE  WorkIsKnown'
<1>1. Inv /\ TypeOK /\ UNCHANGED <<conf, i, carried, try, end>>
  BY RowsMoveStep, SessionReports DEF ClaimsInv, Inv, Learns
<1>2. (ReviewShaped(i)' <=> ReviewShaped(i))
  BY <1>1, PlaceStays
<1>3. carried \in Claims /\ res.claim \in Claims
  BY ClaimsStayTyped DEF ClaimsInv
<1>4. ASSUME NEW t \in Tasks, SessionClaims(t) PROVE WorkIsKnown'
  <2>1. /\ pc = "session" /\ pc' = "session" /\ ~res.mcp /\ task'[t].tip = task[t].tip
        /\ \/ res'.claim = res.claim
           \/ res'.claim.task = t /\ (res'.claim.wip <=> task[t].tip > 0)
    BY <1>1, <1>4, SessionClaimsEffect DEF SessionSteps
  <2>2. ~SessionRecordsBranch /\ ~Salvage
    <3>1. ~Salvage
      BY <2>1 DEF Salvage
    <3>2. ASSUME SessionRecordsBranch PROVE FALSE
      <4>1. res'.on = res.on
        BY <1>1, <3>2, RecordsBranchEffect DEF Works
      <4>2. res'.on = [task |-> t, run |-> task[t].run + 1] /\ (res.on.task = NoTask \/ res.on.task # t)
        BY <1>1, <1>4, SessionClaimsEffect
      <4>3. res'.on.task = t /\ t # NoTask
        BY <1>1, <4>2, ConfFacts DEF TypeOK
      <4> QED
        BY <4>1, <4>2, <4>3
    <3> QED
      BY <3>1, <3>2
  <2>3. Knows(res'.claim, task')
    BY <2>1, <2>2, AllKnowAsBefore DEF WorkIsKnown, InSession, Knows
  <2>4. Knows(carried, task')
    BY <2>1, <2>2, AllKnowAsBefore DEF WorkIsKnown
  <2> QED
    BY <1>1, <2>1, <2>3, <2>4 DEF WorkIsKnown, InSession
<1>5. CASE SessionRecordsBranch
  <2>1. /\ Works /\ pc = "session" /\ pc' = "session" /\ ~ReviewShaped(i) /\ res'.mcp
        /\ RunOf(res'.claim) = RunOf(res.claim) /\ OnlyRow(res.on.task)
        /\ IF seen THEN res'.claim.wip ELSE res'.claim = res.claim
    BY <1>1, <1>5, RecordsBranchEffect DEF Works, SessionSteps
  <2>2. /\ task'[res.on.task].run = task[res.on.task].run
        /\ task[res.on.task].run = res.on.run /\ res.on \in RunIds
    BY <1>1, <1>5, <2>1, RecordsBranchEffect DEF Works, Working, TypeOK, Sessions
  <2>3. ASSUME NEW c \in {carried, res.claim}, res.on # RunOf(c), Knows(c, task) PROVE Knows(c, task')
    <3>1. SUFFICES ASSUME c.task # NoTask, task'[c.task].lease = "ours", task'[c.task].run = c.run
                   PROVE  task'[c.task].tip = task[c.task].tip
      BY <2>3, KnowsStays
    <3>2. c.task \in Tasks
      BY <1>3, <3>1 DEF Claims
    <3>3. c.task # res.on.task
      BY <2>2, <2>3, <3>1 DEF RunOf, RunIds
    <3> QED
      BY <2>1, <3>2, <3>3 DEF OnlyRow
  <2>4. Knows(res'.claim, task')
    <3>1. CASE seen
      BY <2>1, <3>1 DEF Knows
    <3>2. CASE ~seen
      BY <2>1, <2>3, <3>2 DEF seen, WorkIsKnown, InSession
    <3> QED
      BY <3>1, <3>2
  <2>5. RunOf(res'.claim) # RunOf(carried) => Knows(carried, task')
    <3> SUFFICES ASSUME RunOf(res.claim) # RunOf(carried) PROVE Knows(carried, task')
      BY <2>1
    <3>1. Knows(carried, task) /\ res.on # RunOf(carried)
      BY <2>1 DEF WorkIsKnown, OnIsClaimed, InSession
    <3> QED
      BY <2>3, <3>1
  <2> QED
    BY <1>1, <1>2, <2>1, <2>4, <2>5 DEF WorkIsKnown, InSession, RunOf
<1>6. CASE SessionDeclaresNoCode \/ SessionReviews \/ SessionSettles
  <2>1. /\ pc = "session" /\ pc' = "session" /\ res'.mcp /\ RunOf(res'.claim) = RunOf(res.claim)
        /\ res'.claim.task = res.claim.task /\ res'.claim.run = res.claim.run
        /\ res'.claim.wip = res.claim.wip
    BY <1>1, <1>6, DeclaresNoCodeEffect, ReviewsEffect, SettlesEffect DEF Works, SessionSteps
  <2>2. \A u \in Tasks : task'[u].tip = task[u].tip
    BY <1>1, <1>6, DeclaresNoCodeEffect, ReviewsEffect, SettlesEffect DEF Works, AlikeUnreviewed, OnlyRow
  <2>3. ASSUME NEW c \in {carried, res.claim}, Knows(c, task) PROVE Knows(c, task')
    <3>1. c.task # NoTask => c.task \in Tasks
      BY <1>3 DEF Claims
    <3> QED
      BY <2>2, <2>3, <3>1, KnowsStays
  <2>4. Knows(res'.claim, task')
    BY <2>1, <2>3 DEF WorkIsKnown, InSession, Knows
  <2>5. RunOf(res'.claim) # RunOf(carried) \/ ReviewShaped(i) => Knows(carried, task')
    BY <2>1, <2>3 DEF WorkIsKnown, InSession
  <2> QED
    BY <1>1, <1>2, <2>1, <2>4, <2>5 DEF WorkIsKnown, InSession, RunOf
<1>7. ASSUME NEW e \in Ends, SessionEnds(e) PROVE WorkIsKnown'
  <2>1. /\ pc = "session" /\ pc' = "salvage" /\ task' = task
        /\ res'.claim = res.claim \/ (res'.claim = NoClaim /\ ~res.mcp)
    BY <1>1, <1>7, SessionEndsEffect
  <2>2. Knows(res'.claim, task)
    BY <2>1, NoClaimKnows DEF WorkIsKnown, InSession
  <2>3. RunOf(res'.claim) # RunOf(carried) \/ ReviewShaped(i) => Knows(carried, task)
    BY <2>1 DEF WorkIsKnown, InSession
  <2> QED
    BY <1>1, <1>2, <2>1, <2>2, <2>3 DEF WorkIsKnown, InSession, RunOf, Knows
<1>8. CASE Salvage
  <2>1. /\ pc = "salvage" /\ pc' = "judge"
        /\ \/ UNCHANGED <<task, res>>
           \/ /\ ~ReviewShaped(i) /\ Holds(res.claim) /\ OnlyRow(res.claim.task)
              /\ RunOf(res'.claim) = RunOf(res.claim) /\ res'.claim.wip
              /\ task'[res.claim.task].run = task[res.claim.task].run
    BY <1>1, <1>8, SalvageEffect
  <2>2. CASE UNCHANGED <<task, res>>
    BY <1>1, <1>2, <2>1, <2>2 DEF WorkIsKnown, InSession, RunOf, Knows
  <2>3. CASE ~UNCHANGED <<task, res>>
    <3>1. Knows(res'.claim, task')
      BY <2>1, <2>3 DEF Knows
    <3>2. ASSUME RunOf(res.claim) # RunOf(carried) PROVE Knows(carried, task')
      <4>1. Knows(carried, task)
        BY <2>1, <3>2 DEF WorkIsKnown, InSession
      <4>2. ASSUME carried.task # NoTask, task'[carried.task].run = carried.run
            PROVE  carried.task \in Tasks \ {res.claim.task}
        BY <1>3, <2>1, <2>3, <3>2, <4>2 DEF Claims, Holds, RunOf
      <4> QED
        BY <2>1, <2>3, <4>1, <4>2, KnowsStays DEF OnlyRow
    <3> QED
      BY <1>1, <1>2, <2>1, <2>3, <3>1, <3>2 DEF WorkIsKnown, InSession, RunOf
  <2> QED
    BY <2>2, <2>3
<1> QED
  BY <1>4, <1>5, <1>6, <1>7, <1>8 DEF SessionStep

LEMMA KnownAfterSession ==
  ASSUME ClaimsInv, WorkIsKnown, [Next]_vars,
         JudgeVerification \/ JudgePhase \/ JudgeOther \/ peekCheckpointClaim \/ Handback
  PROVE  WorkIsKnown'
<1>1. Inv /\ TypeOK /\ conf' = conf /\ ~SessionRecordsBranch /\ ~Salvage
  BY NextKeepsConf
  DEF ClaimsInv, Inv, JudgeVerification, JudgePhase, JudgeOther, peekCheckpointClaim, Handback,
      SessionRecordsBranch, Working, Salvage
<1>2. CASE JudgeVerification \/ JudgePhase \/ JudgeOther
  <2>1. /\ pc = "judge" /\ pc' \in {"route", "handback"} /\ UNCHANGED <<conf, i, carried, res>>
        /\ end'.claim.task = res.claim.task /\ end'.claim.run = res.claim.run
        /\ end'.claim.wip = res.claim.wip
    BY <1>1, <1>2, JudgeEffect DEF Judges, JudgeFrame
  <2>2. ReviewShaped(i)' <=> ReviewShaped(i)
    BY <2>1, PlaceStays
  <2>3. Knows(res.claim, task') /\ Knows(end'.claim, task')
    BY <1>1, <2>1, AllKnowAsBefore DEF WorkIsKnown, InSession, Knows
  <2>4. RunOf(res.claim) # RunOf(carried) \/ ReviewShaped(i) => Knows(carried, task')
    BY <1>1, <2>1, AllKnowAsBefore DEF WorkIsKnown, InSession
  <2> QED
    BY <2>1, <2>2, <2>3, <2>4 DEF WorkIsKnown, InSession, RunOf
<1>3. CASE peekCheckpointClaim
  <2>1. /\ pc = "handback" /\ pc' = "route" /\ UNCHANGED <<conf, i, carried, res>>
        /\ end'.claim.wip /\ end.claim = NoClaim
    BY <1>1, <1>3, PeekEffect DEF Peeks, Peeked
  <2>2. ReviewShaped(i)' <=> ReviewShaped(i)
    BY <2>1, PlaceStays
  <2>3. Knows(res.claim, task') /\ Knows(end'.claim, task')
    BY <1>1, <2>1, AllKnowAsBefore DEF WorkIsKnown, Knows
  <2>4. Knows(carried, task')
    <3>1. res.claim.task = NoTask
      BY <2>1 DEF ClaimsInv, EndsAgree, HandsBack, NoClaim
    <3>2. carried.task # NoTask => Knows(carried, task)
      BY <2>1, <3>1 DEF WorkIsKnown, RunOf
    <3> QED
      BY <1>1, <3>2, AllKnowAsBefore, NoClaimKnows
  <2> QED
    BY <2>1, <2>2, <2>3, <2>4 DEF WorkIsKnown, InSession, RunOf
<1>4. CASE Handback
  <2>1. pc = "handback" /\ pc' = "route" /\ UNCHANGED <<conf, i, carried, res>> /\ end'.claim = end.claim
    BY <1>1, <1>4, HandbackEffect
  <2>2. ReviewShaped(i)' <=> ReviewShaped(i)
    BY <2>1, PlaceStays
  <2> QED
    BY <1>1, <2>1, <2>2, AllKnowAsBefore DEF WorkIsKnown, InSession, RunOf
<1> QED
  BY <1>2, <1>3, <1>4

\* A phase that runs its session again is a review, which moves no branch.
LEMMA KnownWhenRouted ==
  ASSUME ClaimsInv, WorkIsKnown, ~Forgets, [Next]_vars, Route
  PROVE  WorkIsKnown'
<1>1. Inv /\ pc = "route" /\ UNCHANGED <<conf, i, carried, res>> /\ (RouteReturns \/ RouteRetries \/ RouteWaits)
  BY RouteEffect DEF ClaimsInv, RouteFrame
<1>2. ~SessionRecordsBranch /\ ~Salvage
  BY <1>1 DEF SessionRecordsBranch, Working, Salvage
<1>3. CASE RouteReturns
  <2>1. pc' = "seam" /\ end'.claim = end.claim
    BY <1>3 DEF RouteReturns, SameEnd
  <2> QED
    BY <1>1, <1>2, <2>1, AllKnowAsBefore DEF WorkIsKnown, InSession, RunOf
<1>4. CASE RouteRetries
  <2>1. ReviewShaped(i)
    BY <1>1, <1>4 DEF RouteRetries, ClaimsInv, EndsAgree, EndsAsListed, Forgets, Retried
  <2>2. pc' = "attempt" /\ end'.claim = end.claim
    BY <1>4 DEF RouteRetries
  <2> QED
    BY <1>1, <1>2, <2>1, <2>2, AllKnowAsBefore DEF WorkIsKnown, InSession, RunOf
<1>5. CASE RouteWaits
  <2>1. carried = NoClaim /\ pc' \in {"limited", "backoff", "seam"}
        /\ (end'.claim = end.claim \/ end'.claim = NoClaim)
    BY <1>5 DEF RouteWaits, SameEnd, EmptyEnd
  <2> QED
    BY <1>1, <1>2, <2>1, AllKnowAsBefore, NoClaimKnows DEF WorkIsKnown, InSession, RunOf
<1> QED
  BY <1>1, <1>3, <1>4, <1>5

LEMMA KnownAtSeam ==
  ASSUME ClaimsInv, WorkIsKnown, [Next]_vars, Seam \/ releaseCarried \/ EndWait
  PROVE  WorkIsKnown'
<1>1. Inv
  BY DEF ClaimsInv
<1>2. CASE Seam
  <2>1. pc = "seam" /\ (SeamGoesOn \/ SeamRefused \/ SeamStops)
    BY <1>1, <1>2, SeamEffect DEF SeamCommon
  <2>2. ~SessionRecordsBranch /\ ~Salvage
    BY <2>1 DEF SessionRecordsBranch, Working, Salvage
  <2>3. CASE SeamGoesOn
    <3>1. Knows(Taken, task')
      <4>1. Knows(end.claim, task') /\ (RunOf(end.claim) # RunOf(carried) => Knows(carried, task'))
        BY <2>1, <2>2, AllKnowAsBefore DEF WorkIsKnown
      <4>2. CASE Taken = carried
        <5>1. CASE end.claim.task = carried.task
          <6>1. (end.claim = NoClaim /\ carried.task = NoTask) \/ carried = NoClaim \/ Taken = end.claim
            BY <4>2, <5>1, NoClaimKnows DEF Taken
          <6> QED
            BY <4>1, <6>1, <4>2, NoClaimKnows
        <5>2. CASE end.claim.task # carried.task
          BY <4>1, <4>2, <5>2 DEF RunOf
        <5> QED
          BY <5>1, <5>2
      <4>3. Taken \in {carried, end.claim, NoClaim}
        BY DEF Taken
      <4> QED
        BY <4>1, <4>2, <4>3, NoClaimKnows
    <3>2. pc' \in {"boundary", "release"} /\ carried' = Taken
      BY <2>3 DEF SeamGoesOn
    <3> QED
      BY <3>1, <3>2 DEF WorkIsKnown, InSession
  <2>4. CASE SeamRefused
    <3>1. pc' = "seam" /\ end'.claim = end.claim /\ carried' = carried
      BY <2>4 DEF SeamRefused
    <3> QED
      BY <2>1, <2>2, <3>1, AllKnowAsBefore DEF WorkIsKnown, InSession
  <2>5. CASE SeamStops
    <3>1. pc' = "release" /\ carried' = NoClaim
      BY <2>5 DEF SeamStops
    <3> QED
      BY <3>1, NoClaimKnows DEF WorkIsKnown, InSession
  <2> QED
    BY <2>1, <2>3, <2>4, <2>5
<1>3. CASE releaseCarried \/ EndWait
  <2>1. pc' \in {"wait", "done"}
    BY <1>1, <1>3, ReleaseCarriedEffect DEF EndWait
  <2> QED
    BY <2>1 DEF WorkIsKnown, InSession
<1> QED
  BY <1>2, <1>3

LEMMA KnownMeanwhile ==
  ASSUME ClaimsInv, WorkIsKnown, [Next]_vars, Others \/ UNCHANGED vars
  PROVE  WorkIsKnown'
<1>1. UNCHANGED <<conf, pc, i, carried, cnt, try, res, end>>
  BY OthersEffect DEF ClaimsInv, vars
<1>2. ReviewShaped(i)' <=> ReviewShaped(i)
  BY <1>1, PlaceStays
<1>3. \A t \in Tasks : task'[t].tip = task[t].tip
  BY OthersEffect DEF ClaimsInv, vars, OnlyRow
<1>4. ASSUME NEW c \in {carried, res.claim, end.claim}, Knows(c, task) PROVE Knows(c, task')
  <2>1. c.task # NoTask => c.task \in Tasks
    BY ClaimsStayTyped DEF ClaimsInv, Claims
  <2> QED
    BY <1>3, <1>4, <2>1, KnowsStays
<1> QED
  BY <1>1, <1>2, <1>4 DEF WorkIsKnown, InSession, RunOf

\* A handback of a claim that knows its work leaves no work in the queue.
LEMMA ReleaseQueuesNoWork ==
  ASSUME TypeOK, QueueHoldsNoWork, NEW c, NEW b, Knows(c, task), Releases(c, b), conf' = conf
  PROVE  QueueHoldsNoWork'
<1> SUFFICES ASSUME NEW t \in Tasks, task'[t].lease = "queue" PROVE task'[t].tip = 0
  BY DEF QueueHoldsNoWork, Tasks
<1>1. task'[t].tip = task[t].tip /\ task[t].tip \in Nat /\ (task'[t].lease = task[t].lease \/ Freed(c, t))
  BY RowFacts DEF Releases, Alike
<1>2. CASE task'[t].lease = task[t].lease
  BY <1>1, <1>2 DEF QueueHoldsNoWork
<1>3. CASE Freed(c, t)
  BY <1>1, <1>3 DEF Freed, Knows, Holds
<1> QED
  BY <1>1, <1>2, <1>3

LEMMA QueueStaysEmptyOfWork ==
  ASSUME ClaimsInv, WorkIsKnown, QueueHoldsNoWork, [Next]_vars
  PROVE  QueueHoldsNoWork'
<1>1. Inv /\ TypeOK /\ conf' = conf /\ RowsMove
  BY ClaimsStayTyped DEF ClaimsInv
<1> DEFINE Quiet == \A t \in Tasks : task'[t].lease = "queue" => task'[t].tip = task[t].tip /\ task[t].lease = "queue"
<1>2. ASSUME Quiet PROVE QueueHoldsNoWork'
  BY <1>1, <1>2 DEF QueueHoldsNoWork, Tasks
<1>3. CASE SequenceOver \/ PhaseStarts \/ AttemptRefused \/ SessionSpawns \/ Waited \/ EndWait \/ UNCHANGED vars
  BY <1>1, <1>2, <1>3, PhaseStartsEffect DEF SequenceOver, AttemptRefused, SessionSpawns, Waited, EndWait, vars
<1>4. CASE PhaseRefused \/ releaseCarried
  <2>1. pc \in {"boundary", "release"} /\ Releases(carried, TRUE)
    BY <1>1, <1>4, PhaseRefusedEffect, ReleaseCarriedEffect
  <2> QED
    BY <1>1, <2>1, ReleaseQueuesNoWork DEF WorkIsKnown
<1>5. CASE Handback
  <2>1. pc = "handback" /\ Releases(res.claim, trusted)
    BY <1>1, <1>5, HandbackEffect
  <2> QED
    BY <1>1, <2>1, ReleaseQueuesNoWork DEF WorkIsKnown
<1>6. CASE JudgeVerification \/ JudgePhase \/ JudgeOther \/ peekCheckpointClaim
  <2>1. \E c \in {res.claim, end'.claim} : Closed(c)
    BY <1>1, <1>6, JudgeEffect, PeekEffect DEF Judges
  <2>2. Quiet
    BY <1>1, <2>1, CloseEffect, ClaimsStayTyped DEF Closed, Alike, TypeOK
  <2> QED
    BY <1>2, <2>2
<1>7. CASE Route
  <2>1. pc = "route" /\ (task' = task \/ Releases(end.claim, TRUE))
    BY <1>1, <1>7, RouteEffect DEF RouteReturns, RouteRetries, RouteWaits
  <2>2. CASE task' = task
    BY <1>2, <2>2
  <2>3. CASE Releases(end.claim, TRUE)
    BY <1>1, <2>1, <2>3, ReleaseQueuesNoWork DEF WorkIsKnown
  <2> QED
    BY <2>1, <2>2, <2>3
<1>8. CASE Seam
  <2>1. task' = task \/ Parks(end.claim) \/ Closed(end.claim)
    BY <1>1, <1>8, SeamEffect DEF SeamCommon, SeamGoesOn, SeamRefused, SeamStops
  <2>2. end.claim \in Claims
    BY <1>1 DEF TypeOK, PhaseEnds
  <2>3. Quiet
    BY <1>1, <2>1, <2>2, CloseEffect, ParksEffect DEF Closed, Alike, TypeOK
  <2> QED
    BY <1>2, <2>3
<1>9. ASSUME NEW t \in Tasks, SessionClaims(t) PROVE QueueHoldsNoWork'
  <2>1. OnlyRow(t) /\ task'[t].lease = "ours"
    BY <1>1, <1>9, SessionClaimsEffect
  <2> QED
    BY <1>2, <2>1 DEF OnlyRow
<1>10. CASE SessionRecordsBranch \/ SessionDeclaresNoCode \/ SessionReviews \/ SessionSettles
  <2>1. OnlyRow(res.on.task) /\ task'[res.on.task].lease # "queue"
    BY <1>1, <1>10, RecordsBranchEffect, DeclaresNoCodeEffect, ReviewsEffect, SettlesEffect
    DEF Works, Working, AlikeUnreviewed
  <2> QED
    BY <1>2, <2>1 DEF OnlyRow
<1>11. ASSUME NEW e \in Ends, SessionEnds(e) PROVE QueueHoldsNoWork'
  <2>1. task' = task
    BY <1>1, <1>11, SessionEndsEffect
  <2> QED
    BY <1>2, <2>1
<1>12. CASE Salvage
  <2>1. task' = task \/ (OnlyRow(res.claim.task) /\ task'[res.claim.task].lease = "ours")
    BY <1>1, <1>12, SalvageEffect DEF Holds
  <2> QED
    BY <1>2, <2>1 DEF OnlyRow
<1>13. CASE Others
  <2>1. PICK t \in Tasks :
          /\ OnlyRow(t) /\ task'[t].tip = task[t].tip
          /\ task'[t].lease = "queue" => ~(task[t].tip > 0)
    BY <1>1, <1>13, OthersEffect
  <2>2. task'[t].lease = "queue" => task'[t].tip = 0
    BY <1>1, <2>1, RowFacts
  <2> QED
    BY <1>1, <2>1, <2>2 DEF QueueHoldsNoWork, OnlyRow, Tasks
<1> QED
  BY <1>3, <1>4, <1>5, <1>6, <1>7, <1>8, <1>9, <1>10, <1>11, <1>12, <1>13, NextCases DEF DriverAlone, SessionStep

WorkInv ==
  /\ HoldingInv /\ OnIsClaimed
  /\ ~Forgets /\ "reply" \notin Faults => WorkIsKnown /\ QueueHoldsNoWork

LEMMA WorkInvInit == Init => WorkInv
<1> SUFFICES ASSUME Init PROVE WorkInv
  OBVIOUS
<1>1. pc = "boundary" /\ carried = NoClaim
  BY DEF Init
<1>2. WorkIsKnown /\ OnIsClaimed
  BY <1>1, NoClaimKnows DEF WorkIsKnown, InSession, OnIsClaimed
<1>3. QueueHoldsNoWork
  BY DEF Init, QueueHoldsNoWork
<1> QED
  BY <1>2, <1>3, HoldingInvInit DEF WorkInv

LEMMA WorkInvNext == WorkInv /\ [Next]_vars => WorkInv'
<1> SUFFICES ASSUME WorkInv, [Next]_vars PROVE WorkInv'
  OBVIOUS
<1>1. HoldingInv' /\ ClaimsInv /\ OnIsClaimed'
  BY HoldingInvNext, OnIsClaimedStep DEF WorkInv, HoldingInv, KeepsInv
<1>2. (Forgets' <=> Forgets) /\ Faults' = Faults
  BY NextKeepsConf, PlaceStays DEF Forgets
<1>3. ASSUME ~Forgets, "reply" \notin Faults PROVE WorkIsKnown' /\ QueueHoldsNoWork'
  <2>1. WorkIsKnown /\ QueueHoldsNoWork /\ OnIsClaimed
    BY <1>3 DEF WorkInv
  <2>2. QueueHoldsNoWork'
    BY <1>1, <2>1, QueueStaysEmptyOfWork
  <2> SUFFICES WorkIsKnown'
    BY <2>2
  <2>3. CASE SequenceOver \/ PhaseStarts \/ PhaseRefused \/ AttemptRefused \/ SessionSpawns \/ Waited
    BY <1>1, <2>1, <2>3, KnownAtStart
  <2>4. CASE SessionStep \/ Salvage
    BY <1>1, <1>3, <2>1, <2>4, KnownInSession
  <2>5. CASE JudgeVerification \/ JudgePhase \/ JudgeOther \/ peekCheckpointClaim \/ Handback
    BY <1>1, <2>1, <2>5, KnownAfterSession
  <2>6. CASE Route
    BY <1>1, <1>3, <2>1, <2>6, KnownWhenRouted
  <2>7. CASE Seam \/ releaseCarried \/ EndWait
    BY <1>1, <2>1, <2>7, KnownAtSeam
  <2>8. CASE Others \/ UNCHANGED vars
    BY <1>1, <2>1, <2>8, KnownMeanwhile
  <2> QED
    BY <2>3, <2>4, <2>5, <2>6, <2>7, <2>8, NextCases DEF DriverAlone
<1> QED
  BY <1>1, <1>2, <1>3 DEF WorkInv

\* The lease of a task is settled by whoever holds it: for every configuration and every
\* bound, no drain waits or ends with a lease nobody accounts for, resumes or hands back a
\* run that is not its to settle, or returns pushed work to the queue as if it were fresh
\* (loop.go drainPhases, drainPhase, releaseHeldClaim).
THEOREM SequenceLeasesAreSettled == Spec => []LeasesAreSettled
<1>1. Init => WorkInv
  BY WorkInvInit
<1>2. WorkInv /\ [Next]_vars => WorkInv'
  BY WorkInvNext
<1>3. WorkInv => LeasesAreSettled
  <2> SUFFICES ASSUME WorkInv, ~Forgets
               PROVE  /\ NeverResumesHandedBack /\ UntrustedSilent
                      /\ ~Strays => NothingLeftBehind
                      /\ "reply" \notin Faults => QueueHoldsNoWork
    BY DEF LeasesAreSettled
  <2>1. ClaimsInv /\ Keeps
    BY DEF WorkInv, HoldingInv, KeepsInv
  <2>2. NeverResumesHandedBack
    BY <2>1 DEF Keeps, CarriedIsKept, Kept, NeverResumesHandedBack, ClaimsInv, ClaimsAreSound, Sound
  <2>3. UntrustedSilent
    BY <2>1 DEF Keeps
  <2>4. ~Strays => NothingLeftBehind
    BY HoldingLeavesNothing DEF WorkInv
  <2>5. "reply" \notin Faults => QueueHoldsNoWork
    BY DEF WorkInv
  <2> QED
    BY <2>2, <2>3, <2>4, <2>5
<1> QED
  BY <1>1, <1>2, <1>3, PTL DEF Spec

=============================================================================
