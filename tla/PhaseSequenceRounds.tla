------------------------- MODULE PhaseSequenceRounds -------------------------
(***************************************************************************)
(* The rounds of a drain: the next phase starts on exit evidence, a fix is   *)
(* told what to fix, and the fixes are bounded by the rounds.                *)
(***************************************************************************)
EXTENDS PhaseSequenceClaims

-----------------------------------------------------------------------------
(* How the sequence starts a phase again, or the next one.                  *)

LEMMA SeamAgain ==
  ASSUME Inv, Seam, pc' = "boundary"
  PROVE  \/ i' = i /\ i = 1 /\ cnt'.verifyRoundsRun = cnt.verifyRoundsRun
         \/ i' = i /\ cnt'.respawn /\ cnt'.verifyRoundsRun = cnt.verifyRoundsRun
         \/ SeamAdvances \/ SeamVerifies
<1>1. cnt \in Counters /\ pc = "seam"
  BY SeamEffect DEF Inv, TypeOK, SeamCommon
<1>2. CASE SeamDies
  BY <1>1, <1>2 DEF SeamDies, First, Over, Counters
<1>3. CASE SeamHandsOff
  BY <1>1, <1>3 DEF SeamHandsOff, Counters
<1>4. CASE SeamEmpty
  BY <1>1, <1>4 DEF SeamEmpty, RetriesEmpty, First, Over, Counters
<1>5. ~(SeamEnds \/ SeamParksDead \/ SeamErrs \/ SeamRefuses \/ SeamNoCheckpoint \/ SeamVerified
        \/ SeamParksVerification)
  BY <1>1 DEF SeamEnds, SeamParksDead, SeamErrs, SeamRefuses, SeamNoCheckpoint, SeamVerified,
              SeamParksVerification, Over
<1> QED
  BY <1>2, <1>3, <1>4, <1>5 DEF Seam

LEMMA SeamStaysInPhase ==
  ASSUME Inv, Seam, pc' # "boundary"
  PROVE  i' = i /\ cnt'.verifyRoundsRun = cnt.verifyRoundsRun /\ pc' \in {"seam", "release"}
         /\ cnt'.respawn = cnt.respawn
<1>1. cnt \in Counters
  BY DEF Inv, TypeOK
<1>2. ~(SeamHandsOff \/ SeamAdvances \/ SeamVerifies)
  BY DEF SeamHandsOff, SeamAdvances, SeamVerifies, Again
<1> QED
  BY <1>1, <1>2
  DEF Seam, SeamEnds, SeamParksDead, SeamDies, SeamErrs, SeamRefuses, SeamEmpty, SeamNoCheckpoint,
      SeamVerified, SeamParksVerification, Over, Again, Counters

-----------------------------------------------------------------------------
(* The fixes add up.                                                        *)

\* The fix of the sequence has been spawned since the last verification round.
Begun ==
  \E j \in Positions : Phases[j] = "fix" /\ (i > j \/ (i = j /\ (pc # "boundary" \/ cnt.respawn)))

\* A MUST is fixed at most once per verification round, and once before the first.
FixesAddUp ==
  /\ cnt.verifyRoundsRun <= ReviewRoundCap - 2
  /\ \A t \in Tasks, r \in 1 .. MaxRound :
       hist.fixes[t][r] <= cnt.verifyRoundsRun + (IF Begun THEN 1 ELSE 0)

LEMMA FixFacts ==
  ASSUME TypeOK
  PROVE  /\ cnt.verifyRoundsRun \in Nat /\ ReviewRoundCap \in Nat
         /\ \A t \in Tasks, r \in 1 .. MaxRound : hist.fixes[t][r] \in Nat
<1>1. hist.fixes \in [Tasks -> [1 .. MaxRound -> Nat]] /\ cnt.verifyRoundsRun \in 0 .. ReviewRoundCap
  BY DEF TypeOK, Histories, Counters
<1>2. ReviewRoundCap \in Nat
  BY BoundsAssumption
<1>3. cnt.verifyRoundsRun \in Nat
  BY <1>1, <1>2
<1> QED
  BY <1>1, <1>2, <1>3

LEMMA FixesAreCounted ==
  ASSUME TypeOK, NEW t \in Tasks, NEW r \in 1 .. MaxRound
  PROVE  /\ CountFixes[t][r] \in {hist.fixes[t][r], hist.fixes[t][r] + 1}
         /\ Phases[i] # "fix" \/ cnt.respawn => CountFixes = hist.fixes
<1>1. hist.fixes \in [Tasks -> [1 .. MaxRound -> Nat]]
  BY DEF TypeOK, Histories
<1> QED
  BY <1>1 DEF CountFixes

\* Where the fixes and the rounds stand still, what has begun stays so.
LEMMA FixesStand ==
  ASSUME TypeOK, FixesAddUp, conf' = conf, hist'.fixes = hist.fixes,
         cnt'.verifyRoundsRun = cnt.verifyRoundsRun, Begun => Begun'
  PROVE  FixesAddUp'
<1>1. Tasks' = Tasks /\ MaxRound' = MaxRound
  BY DEF Tasks, MaxRound
<1> QED
  BY <1>1, FixFacts DEF FixesAddUp

LEMMA FixesAddUpStep ==
  ASSUME Inv, FixesAddUp, FixComesOnce, [Next]_vars
  PROVE  FixesAddUp'
<1>1. /\ TypeOK /\ conf' = conf /\ Tasks' = Tasks /\ MaxRound' = MaxRound /\ Phases' = Phases
      /\ Positions' = Positions /\ i \in Nat
  BY NextKeepsConf, ConfFacts DEF Inv, TypeOK, Tasks, MaxRound, Phases, Positions
<1>2. /\ cnt \in Counters /\ cnt.verifyRoundsRun \in Nat /\ ReviewRoundCap \in Nat
      /\ \A t \in Tasks, r \in 1 .. MaxRound : hist.fixes[t][r] \in Nat
      /\ Positions \subseteq Nat
  BY <1>1, FixFacts, ConfFacts DEF TypeOK
<1>3. ASSUME i' = i, pc # "boundary" => pc' # "boundary", hist'.fixes = hist.fixes,
             pc = "boundary" => pc' # "boundary" \/ cnt'.respawn = cnt.respawn,
             cnt'.verifyRoundsRun = cnt.verifyRoundsRun
      PROVE  FixesAddUp'
  BY <1>1, <1>3, FixesStand DEF Begun
<1>4. CASE PhaseStarts
  <2>1. /\ pc = "boundary" /\ pc' = "attempt" /\ i' = i /\ cnt'.verifyRoundsRun = cnt.verifyRoundsRun
        /\ hist'.fixes = CountFixes
    BY <1>4, PhaseStartsEffect
  <2>2. CASE Phases[i] # "fix" \/ cnt.respawn
    <3>1. hist'.fixes = hist.fixes
      BY <2>1, <2>2 DEF CountFixes
    <3> QED
      BY <1>3, <2>1, <3>1
  <2>3. CASE Phases[i] = "fix" /\ ~cnt.respawn
    <3>1. i \in Positions
      BY <1>4, PhaseStartsEffect
    <3>2. ~Begun /\ Begun'
      BY <1>1, <1>2, <2>1, <2>3, <3>1 DEF Begun, FixComesOnce
    <3>3. ASSUME NEW t \in Tasks, NEW r \in 1 .. MaxRound
          PROVE  hist'.fixes[t][r] <= cnt'.verifyRoundsRun + 1
      BY <1>1, <1>2, <2>1, <3>2, FixesAreCounted DEF FixesAddUp
    <3> QED
      BY <1>1, <1>2, <2>1, <3>2, <3>3 DEF FixesAddUp
  <2> QED
    BY <2>2, <2>3
<1>5. CASE PhaseRefused
  <2>1. pc = "boundary" /\ pc' = "seam" /\ i' = i /\ hist'.fixes = hist.fixes
    BY <1>5, PhaseRefusedEffect DEF Releases
  <2>2. cnt'.verifyRoundsRun = cnt.verifyRoundsRun
    BY <1>2, <1>5 DEF PhaseRefused, ChargeSpawn, Counters
  <2> QED
    BY <1>3, <2>1, <2>2
<1>6. CASE Seam
  <2>1. pc = "seam" /\ hist'.fixes = hist.fixes
    BY <1>6, SeamEffect DEF SeamCommon
  <2>2. CASE pc' # "boundary"
    BY <1>3, <1>6, <2>1, <2>2, SeamStaysInPhase
  <2>3. CASE pc' = "boundary" /\ i' = i /\ i = 1 /\ cnt'.verifyRoundsRun = cnt.verifyRoundsRun
    <3>1. ~Begun
      BY <1>1, <1>2, <2>3 DEF Begun, FixComesOnce
    <3> QED
      BY <1>1, <2>1, <2>3, <3>1, FixesStand
  <2>4. CASE pc' = "boundary" /\ i' = i /\ cnt'.respawn /\ cnt'.verifyRoundsRun = cnt.verifyRoundsRun
    BY <1>1, <2>1, <2>4, FixesStand DEF Begun
  <2>5. CASE SeamAdvances
    <3>1. i' = i + 1 /\ cnt'.verifyRoundsRun = cnt.verifyRoundsRun
      BY <1>2, <2>5 DEF SeamAdvances, Counters
    <3>2. Begun => Begun'
      BY <1>1, <1>2, <2>1, <3>1 DEF Begun
    <3> QED
      BY <1>1, <2>1, <3>1, <3>2, FixesStand
  <2>6. CASE SeamVerifies
    <3>1. cnt'.verifyRoundsRun = cnt.verifyRoundsRun + 1
      BY <1>2, <2>6 DEF SeamVerifies, Counters
    <3>2. cnt'.verifyRoundsRun <= ReviewRoundCap - 2
      BY <1>2, <2>6, <3>1 DEF SeamVerifies, CapHit
    <3>3. ASSUME NEW t \in Tasks, NEW r \in 1 .. MaxRound
          PROVE  hist'.fixes[t][r] <= cnt'.verifyRoundsRun
      <4>1. hist.fixes[t][r] <= cnt.verifyRoundsRun + (IF Begun THEN 1 ELSE 0) /\ hist.fixes[t][r] \in Nat
        BY <1>2 DEF FixesAddUp
      <4> QED
        BY <1>2, <2>1, <3>1, <4>1
    <3> QED
      BY <1>1, <1>2, <2>1, <3>1, <3>2, <3>3 DEF FixesAddUp
  <2> QED
    BY <1>6, <2>2, <2>3, <2>4, <2>5, <2>6, SeamAgain
<1>7. CASE SequenceOver \/ AttemptRefused \/ SessionSpawns \/ Waited \/ EndWait \/ UNCHANGED vars
  BY <1>3, <1>7 DEF SequenceOver, AttemptRefused, SessionSpawns, Waited, EndWait, vars
<1>8. CASE JudgeVerification \/ JudgePhase \/ JudgeOther \/ peekCheckpointClaim \/ Handback \/ releaseCarried
  <2>1. pc # "boundary" /\ pc' # "boundary" /\ UNCHANGED <<i, cnt>> /\ hist'.fixes = hist.fixes
    BY <1>8, JudgeEffect, PeekEffect, HandbackEffect, ReleaseCarriedEffect DEF Judges, JudgeFrame, Releases
  <2> QED
    BY <1>3, <2>1
<1>9. CASE Route
  <2>1. pc # "boundary" /\ pc' # "boundary" /\ UNCHANGED <<i, cnt>> /\ hist'.fixes = hist.fixes
    BY <1>9, RouteEffect DEF RouteFrame, RouteReturns, RouteRetries, RouteWaits, Releases
  <2> QED
    BY <1>3, <2>1
<1>10. CASE SessionStep \/ Salvage
  <2>1. /\ pc # "boundary" /\ pc' # "boundary" /\ i' = i /\ hist'.fixes = hist.fixes
        /\ cnt'.verifyRoundsRun = cnt.verifyRoundsRun
    BY <1>10, SessionClaimsEffect, RecordsBranchEffect, DeclaresNoCodeEffect, ReviewsEffect, SettlesEffect,
       SessionEndsEffect, SalvageEffect DEF SessionStep, Works, SessionSteps
  <2> QED
    BY <1>3, <2>1
<1>11. CASE Others
  BY <1>3, <1>11, OthersEffect
<1> QED
  BY <1>4, <1>5, <1>6, <1>7, <1>8, <1>9, <1>10, <1>11, NextCases DEF DriverAlone

-----------------------------------------------------------------------------
(* The evidence a phase ends on.                                            *)

\* What AdvanceHasExitEvidence asks of the plane.
Evident(t, rows) ==
  \/ rows[t].tip > 0 /\ (rows[t].pushed \/ "branch" \in Faults)
  \/ rows[t].nocode \/ rows[t].lease \in {"handed", "parked"}

EvidenceStands ==
  pc \in {"route", "attempt", "limited", "backoff", "seam"} /\ end.checkpoint /\ ~end.empty /\ ~Last(i)
    => Evident(end.claim.task, task)

LEMMA EvidenceIsThere ==
  ASSUME TypeOK, NEW c, c.task \in Tasks, NEW reported, NEW e \in checkpointEvidence(c, reported), e.ok,
         reported \/ c.wip => task[c.task].tip > 0
  PROVE  Evident(c.task, task)
<1>1. PICK read \in May("read"), known \in May("branch") : e = Verdict(c, reported, read, known)
  BY DEF checkpointEvidence
<1>2. known \/ "branch" \in Faults
  BY DEF May
<1>3. \/ (reported \/ c.wip) /\ (~known \/ task[c.task].pushed)
      \/ planeExitRecord(task[c.task], read)
  BY <1>1 DEF Verdict, BranchOnOrigin
<1> QED
  BY <1>2, <1>3 DEF Evident, planeExitRecord

\* Between sessions no evidence is lost.
LEMMA EvidentStays ==
  ASSUME Inv, [Next]_vars, pc \notin {"session", "salvage"}
  PROVE  \A t \in Tasks : Evident(t, task) => Evident(t, task')
<1> DEFINE Stood(t) == /\ task'[t].tip = task[t].tip /\ task'[t].pushed = task[t].pushed
                       /\ task'[t].nocode = task[t].nocode
                       /\ task[t].lease \in {"handed", "parked"} => task'[t].lease \in {"handed", "parked"}
           Goal == \A t \in Tasks : Stood(t)
<1>1. TypeOK /\ Faults' = Faults
  BY NextKeepsConf DEF Inv, Faults
<1> SUFFICES Goal
  BY <1>1 DEF Evident
<1>2. CASE SequenceOver \/ PhaseStarts \/ AttemptRefused \/ SessionSpawns \/ Waited \/ EndWait \/ UNCHANGED vars
  BY <1>2, PhaseStartsEffect DEF SequenceOver, AttemptRefused, SessionSpawns, Waited, EndWait, vars
<1>3. ASSUME NEW c \in Claims, NEW b, Releases(c, b) PROVE Goal
  <2> SUFFICES ASSUME NEW t \in Tasks PROVE Stood(t)
    OBVIOUS
  <2>1. task'[t].lease = task[t].lease \/ Freed(c, t)
    BY <1>3 DEF Releases
  <2>2. Freed(c, t) => task[t].lease = "ours"
    BY DEF Freed, Holds
  <2>3. Alike(task[t], task'[t])
    BY <1>3 DEF Releases
  <2> QED
    BY <2>1, <2>2, <2>3 DEF Alike
<1>4. CASE PhaseRefused \/ releaseCarried \/ Handback
  BY <1>1, <1>3, <1>4, PhaseRefusedEffect, ReleaseCarriedEffect, HandbackEffect DEF TypeOK, Sessions
<1>5. ASSUME NEW c \in Claims, Closed(c) PROVE Goal
  BY <1>1, <1>5, CloseEffect DEF Closed, Alike, TypeOK
<1>6. CASE JudgeVerification \/ JudgePhase \/ JudgeOther \/ peekCheckpointClaim
  <2>1. \E c \in {res.claim, end'.claim} : Closed(c)
    BY <1>6, JudgeEffect, PeekEffect DEF Judges
  <2> QED
    BY <1>5, <2>1, ClaimsStayTyped
<1>7. CASE Route
  <2>1. task' = task \/ Releases(end.claim, TRUE)
    BY <1>7, RouteEffect DEF RouteReturns, RouteRetries, RouteWaits
  <2> QED
    BY <1>3, <2>1, ClaimsStayTyped
<1>8. CASE Seam
  <2>1. task' = task \/ Parks(end.claim) \/ Closed(end.claim)
    BY <1>8, SeamEffect DEF SeamCommon, SeamGoesOn, SeamRefused, SeamStops
  <2>2. ASSUME Parks(end.claim) PROVE Goal
    BY <1>1, <2>2, ParksEffect, ClaimsStayTyped DEF Alike, TypeOK
  <2> QED
    BY <1>5, <2>1, <2>2, ClaimsStayTyped
<1>9. CASE SessionStep \/ Salvage
  BY <1>9 DEF SessionStep, Salvage, SessionClaims, SessionRecordsBranch, SessionDeclaresNoCode,
              SessionReviews, SessionSettles, SessionEnds, Working
<1>10. CASE Others
  <2>1. PICK t \in Tasks :
          /\ OnlyRow(t) /\ task'[t].tip = task[t].tip /\ task'[t].pushed = task[t].pushed
          /\ task'[t].nocode = task[t].nocode /\ task[t].lease \in {"ours", "queue", "takeover"}
    BY <1>10, OthersEffect
  <2> QED
    BY <2>1 DEF OnlyRow
<1> QED
  BY <1>2, <1>4, <1>6, <1>7, <1>8, <1>9, <1>10, NextCases DEF DriverAlone

LEMMA EvidenceStandsJudged ==
  ASSUME ClaimsInv, [Next]_vars, JudgeVerification \/ JudgePhase \/ JudgeOther
  PROVE  EvidenceStands'
<1>1. /\ Inv /\ TypeOK /\ conf \in Configs /\ conf' = conf /\ i' = i /\ pc = "judge" /\ i \in Positions
      /\ end'.claim.task = res.claim.task /\ (end'.checkpoint => canCheckpoint)
  BY JudgeEffect DEF ClaimsInv, Inv, TypeOK, Judges, JudgeFrame, InPhase, Ending
<1>2. (Last(i)' <=> Last(i)) /\ Faults' = Faults
  BY <1>1, PlaceStays
<1> SUFFICES ASSUME end'.checkpoint, ~end'.empty, ~Last(i) PROVE Evident(res.claim.task, task')
  BY <1>1, <1>2 DEF EvidenceStands, Evident
<1>3. canCheckpoint /\ reviewable /\ res.claim.task \in Tasks
  BY <1>1, HeldHasATask, ClaimsStayTyped DEF reviewable, canCheckpoint, Held
<1>4. JudgePhase
  <2>1. Phases[i] = "verify" => Last(i)
    BY <1>1, ConfigsAssumption DEF Last, Positions, Phases
  <2> QED
    BY <1>3, <2>1 DEF JudgeVerification, JudgeOther, judgeable
<1>5. PICK e \in checkpointEvidence(res.claim, res.reported), closed \in Closes(res.claim),
           j \in PhaseEnds :
        LET closes == e.ok /\ e.round > 0 /\ e.sealed /\ ~handoff /\ ~ReviewShaped(i + 1)
            ok == Accepted(e, closes, closed)
        IN /\ task' = IF closes /\ closed THEN CloseRound(res.claim) ELSE task
           /\ Decide(j, ok, e.branch, closes /\ ~closed)
           /\ Found(j) /\ j.musts = {}
           /\ j.round = IF e.sealed THEN e.round ELSE 0
  BY <1>1, <1>4, PhaseJudged
<1> DEFINE closes == e.ok /\ e.round > 0 /\ e.sealed /\ ~handoff /\ ~ReviewShaped(i + 1)
           ok == Accepted(e, closes, closed)
           failed == closes /\ ~closed
<1>6. e \in Verdicts
  BY <1>1, <1>3, EvidenceType, ConfFacts, ClaimsStayTyped DEF TypeOK, Sessions
<1>7. ok \in BOOLEAN /\ failed \in BOOLEAN /\ e.branch \in BOOLEAN /\ (ok => e.ok)
  BY <1>6 DEF Verdicts, Accepted
<1>8. Decide(j, ok, e.branch, failed) /\ j.musts = {}
  BY <1>5
<1> HIDE DEF ok, failed
<1>9. e.ok
  BY <1>1, <1>3, <1>7, <1>8, DecideEffect
<1>10. res.reported \/ res.claim.wip => task[res.claim.task].tip > 0
  BY <1>1, <1>3, ConfFacts DEF ClaimsInv, EndsAgree, Reported, InSession, ClaimsAreSound, Sound
<1>11. Evident(res.claim.task, task)
  BY <1>1, <1>3, <1>9, <1>10, EvidenceIsThere
<1> QED
  BY <1>1, <1>3, <1>11, EvidentStays

LEMMA EvidenceStandsPeeked ==
  ASSUME ClaimsInv, [Next]_vars, peekCheckpointClaim
  PROVE  EvidenceStands'
<1>1. /\ Inv /\ TypeOK /\ conf' = conf /\ i' = i /\ pc = "handback" /\ try.briefed \in Tasks
      /\ InCustody(try.briefed) /\ end'.claim.task = try.briefed /\ end'.claim.wip
  BY PeekEffect, ClaimsStayTyped DEF ClaimsInv, Peeked
<1> SUFFICES ASSUME end'.checkpoint PROVE Evident(end'.claim.task, task')
  BY <1>1, PlaceStays DEF EvidenceStands, Evident
<1> DEFINE c == [end'.claim EXCEPT !.branch = TRUE]
<1>2. PICK e \in checkpointEvidence(c, FALSE) : e.ok
  BY <1>1, PeekEffect DEF Accepted
<1>3. c.task = try.briefed
  BY <1>1, ClaimsStayTyped DEF Claims
<1>4. task[c.task].tip > 0
  BY <1>1, <1>3 DEF InCustody
<1> HIDE DEF c
<1>5. Evident(c.task, task)
  BY <1>1, <1>2, <1>3, <1>4, EvidenceIsThere
<1> QED
  BY <1>1, <1>3, <1>5, EvidentStays

LEMMA EvidenceStandsStep ==
  ASSUME ClaimsInv, EvidenceStands, [Next]_vars
  PROVE  EvidenceStands'
<1>1. Inv /\ TypeOK /\ conf' = conf /\ Faults' = Faults /\ end.claim \in Claims
  BY ClaimsStayTyped, PlaceStays DEF ClaimsInv
<1>2. ASSUME i' = i, pc \in {"route", "attempt", "limited", "backoff", "seam"},
             end'.claim = end.claim, end'.checkpoint = end.checkpoint, end'.empty = end.empty
      PROVE  EvidenceStands'
  <2> SUFFICES ASSUME end.checkpoint, ~end.empty, ~Last(i) PROVE Evident(end.claim.task, task')
    BY <1>1, <1>2, PlaceStays DEF EvidenceStands, Evident
  <2>1. end.claim.task \in Tasks
    BY <1>1, HeldHasATask DEF ClaimsInv, EndsAgree, EndHolds, Held
  <2> QED
    BY <1>1, <1>2, <2>1, EvidentStays DEF EvidenceStands
<1>3. CASE PhaseStarts \/ PhaseRefused
  <2>1. end' = NoEnd \/ ~end'.checkpoint
    BY <1>1, <1>3, PhaseStartsEffect, PhaseRefusedEffect
  <2> QED
    BY <2>1 DEF EvidenceStands, NoEnd
<1>4. CASE AttemptRefused \/ Waited
  <2>1. /\ pc \in {"attempt", "limited", "backoff"} /\ i' = i
        /\ end'.claim = end.claim /\ end'.checkpoint = end.checkpoint /\ end'.empty = end.empty
    BY <1>1, <1>4 DEF TypeOK, PhaseEnds, AttemptRefused, Waited
  <2> QED
    BY <1>2, <2>1
<1>5. CASE JudgeVerification \/ JudgePhase \/ JudgeOther
  BY <1>5, EvidenceStandsJudged
<1>6. CASE peekCheckpointClaim
  BY <1>6, EvidenceStandsPeeked
<1>7. CASE Handback
  <2>1. ~end'.checkpoint
    BY <1>1, <1>7, HandbackEffect DEF ClaimsInv, EndsAgree, HandsBack
  <2> QED
    BY <2>1 DEF EvidenceStands
<1>8. CASE Route
  <2>1. /\ pc = "route" /\ i' = i
        /\ \/ end'.claim = end.claim /\ end'.checkpoint = end.checkpoint /\ end'.empty = end.empty
           \/ ~end'.checkpoint
    BY <1>1, <1>8, RouteEffect DEF RouteFrame, RouteReturns, RouteRetries, RouteWaits, SameEnd, EmptyEnd
  <2> QED
    BY <1>2, <2>1 DEF EvidenceStands
<1>9. CASE Seam
  <2>1. CASE SeamRefused
    <3>1. pc = "seam" /\ i' = i /\ end'.claim = end.claim /\ end'.checkpoint = end.checkpoint
          /\ end'.empty = end.empty
      BY <1>1, <1>9, <2>1, SeamEffect DEF SeamRefused, SeamCommon
    <3> QED
      BY <1>2, <3>1
  <2>2. CASE ~SeamRefused
    <3>1. pc' \in {"boundary", "release"}
      BY <1>1, <1>9, <2>2, SeamEffect DEF SeamGoesOn, SeamStops
    <3> QED
      BY <3>1 DEF EvidenceStands
  <2> QED
    BY <2>1, <2>2
<1>10. CASE SequenceOver \/ SessionSpawns \/ SessionStep \/ Salvage \/ releaseCarried \/ EndWait
  <2>1. pc' \notin {"route", "attempt", "limited", "backoff", "seam"}
    <3>1. SessionStep \/ Salvage => pc' \in {"session", "salvage", "judge"}
      BY SessionReports, RowsMoveStep DEF ClaimsInv, Learns
    <3> QED
      BY <1>1, <1>10, <3>1, ReleaseCarriedEffect DEF SequenceOver, SessionSpawns, EndWait
  <2> QED
    BY <2>1 DEF EvidenceStands
<1>11. CASE Others \/ UNCHANGED vars
  <2>1. UNCHANGED <<pc, i, end>>
    BY <1>1, <1>11, OthersEffect DEF vars
  <2> QED
    BY <1>2, <2>1 DEF EvidenceStands
<1> QED
  BY <1>3, <1>4, <1>5, <1>6, <1>7, <1>8, <1>9, <1>10, <1>11, NextCases DEF DriverAlone

LEMMA SeamAdvancesAlone ==
  ASSUME Inv, [Next]_vars, pc = "seam", i' = i + 1, ~Last(i)
  PROVE  SeamAdvances
<1>1. i \in Positions /\ i \in Nat
  BY ConfFacts DEF Inv, TypeOK, InPhase, Ending
<1>2. Seam
  <2>1. i' # i
    BY <1>1
  <2> QED
    BY <2>1 DEF Next, Driver, SessionStep, Others, Finished, vars, Route, RouteFrame, JudgeFrame, SessionSteps,
         SequenceOver, PhaseStarts, PhaseRefused, AttemptRefused, SessionSpawns,
         SessionClaims, SessionRecordsBranch, SessionDeclaresNoCode, SessionReviews, SessionSettles,
         SessionEnds, LeaseLapses, OtherTakes, Salvage, JudgeVerification, JudgePhase,
         JudgeOther, peekCheckpointClaim, Handback, RouteUnstarted, RouteUntrusted,
         RouteNoMCP, RouteLimited, RouteFinished, RouteTransient, RouteFatal, Waited,
         releaseCarried, EndWait
<1>3. pc' = "boundary"
  BY <1>1, <1>2, SeamStaysInPhase
<1>4. ~SeamVerifies
  BY <1>1, ConfigsAssumption DEF SeamVerifies, Last, Positions, Phases, Inv, TypeOK
<1> QED
  BY <1>1, <1>2, <1>3, <1>4, SeamAgain

\* What goes on from a checkpoint is the claim it was reached with, where nothing strays.
LEMMA CheckpointIsTaken ==
  ASSUME ClaimsInv, Straight, pc = "seam", end.checkpoint
  PROVE  Taken = end.claim
<1>1. ~end.released /\ end.claim # NoClaim
  BY DEF ClaimsInv, EndsAgree, EndHolds, Held, NoClaim
<1> QED
  BY <1>1, TakenAlone

EarnedInv == HoldingInv /\ EvidenceStands

LEMMA EarnedInvInit == Init => EarnedInv
  BY HoldingInvInit DEF EarnedInv, Init, EvidenceStands

LEMMA EarnedInvNext == EarnedInv /\ [Next]_vars => EarnedInv'
  BY HoldingInvNext, EvidenceStandsStep DEF EarnedInv, HoldingInv, KeepsInv

\* The next phase starts on a branch that is on the origin, or on the plane's record that
\* the phase has ended, and on a run that this very drain claimed, whatever the sessions,
\* the plane and the other clankers do (loop.go checkpointEvidence, drainPhases).
THEOREM SequenceAdvancesAreEarned == Spec => AdvancesAreEarned
<1>1. Init => EarnedInv
  BY EarnedInvInit
<1>2. EarnedInv /\ [Next]_vars => EarnedInv'
  BY EarnedInvNext
<1>3. EarnedInv => ("take" \in Moves \/ SequenceStaysOnOwnRuns)
  BY DEF EarnedInv, HoldingInv, KeepsInv, ClaimsInv, ClaimsAreSound, Sound, OwnRuns, SequenceStaysOnOwnRuns
<1>4. ASSUME EarnedInv, [Next]_vars, pc = "seam", i' = i + 1, ~Last(i), ~Strays
      PROVE  LET row == task[carried'.task]
             IN \/ row.tip > 0 /\ (row.pushed \/ "branch" \in Faults)
                \/ row.nocode \/ row.lease \in {"handed", "parked"}
  <2>1. ClaimsInv /\ Straight /\ EvidenceStands
    BY <1>4 DEF EarnedInv, HoldingInv, KeepsInv
  <2>2. SeamAdvances
    BY <1>4, <2>1, SeamAdvancesAlone DEF ClaimsInv
  <2>3. end.checkpoint /\ ~end.empty /\ carried' = Taken
    BY <1>4, <2>2 DEF SeamAdvances, AtSeam, Passes
  <2>4. carried' = end.claim
    BY <1>4, <2>1, <2>3, CheckpointIsTaken
  <2> QED
    BY <1>4, <2>1, <2>3, <2>4 DEF EvidenceStands, Evident
<1>5. EarnedInv /\ [Next]_vars =>
        [pc = "seam" /\ i' = i + 1 /\ ~Last(i) /\ ~Strays =>
           LET row == task[carried'.task]
           IN \/ row.tip > 0 /\ (row.pushed \/ "branch" \in Faults)
              \/ row.nocode \/ row.lease \in {"handed", "parked"}]_vars
  BY <1>4
<1> QED
  BY <1>1, <1>2, <1>3, <1>5, PTL DEF Spec, AdvancesAreEarned, AdvanceHasExitEvidence

-----------------------------------------------------------------------------
(* The review records of the runs.                                          *)

\* The records of a row stand, are released, begin anew with the run, or go with it.
RecsMove(t) ==
  \/ task'[t].run = task[t].run /\ \A j \in Positions : task'[t].rec[j] = task[t].rec[j]
  \/ task'[t].run = task[t].run /\ \A j \in Positions : Opened(task[t], task'[t], j)
  \/ task'[t].run = task[t].run + 1 /\ \A j \in Positions : task'[t].rec[j] = NoRecord
  \/ /\ task'[t].lease = "handed"
     /\ \A j \in Positions : task'[t].rec[j] = task[t].rec[j] \/ Opened(task[t], task'[t], j)

\* Only a review writes a record, or a block in the outcome.
LEMMA RecordsMove ==
  ASSUME Inv, [Next]_vars, ~SessionReviews
  PROVE  \A t \in Tasks : RecsMove(t) /\ task'[t].notes = task[t].notes
<1> DEFINE Goal == \A t \in Tasks : RecsMove(t) /\ task'[t].notes = task[t].notes
<1>1. TypeOK
  BY DEF Inv
<1>2. CASE SequenceOver \/ PhaseStarts \/ AttemptRefused \/ SessionSpawns \/ Waited \/ EndWait \/ UNCHANGED vars
  BY <1>2, PhaseStartsEffect
  DEF SequenceOver, AttemptRefused, SessionSpawns, Waited, EndWait, vars, RecsMove
<1>3. ASSUME NEW c, NEW b, Releases(c, b) PROVE Goal
  BY <1>3 DEF Releases, Alike, RecsMove
<1>4. CASE PhaseRefused \/ releaseCarried \/ Handback
  BY <1>3, <1>4, PhaseRefusedEffect, ReleaseCarriedEffect, HandbackEffect
<1>5. ASSUME NEW c \in Claims, Closed(c) PROVE Goal
  <2>1. CASE task' = task
    BY <2>1 DEF RecsMove
  <2>2. CASE c.task \in Tasks /\ task' = CloseRound(c)
    <3>1. /\ \A t \in Tasks : Alike(task[t], task'[t])
          /\ \A j \in Positions : Opened(task[c.task], task'[c.task], j)
          /\ \A t \in Tasks \ {c.task} : task'[t] = task[t]
      BY <1>1, <2>2, CloseEffect DEF TypeOK
    <3> QED
      BY <3>1 DEF Alike, RecsMove
  <2> QED
    BY <1>5, <2>1, <2>2 DEF Closed
<1>6. CASE JudgeVerification \/ JudgePhase \/ JudgeOther \/ peekCheckpointClaim
  <2>1. \E c \in {res.claim, end'.claim} : Closed(c)
    BY <1>6, JudgeEffect, PeekEffect DEF Judges
  <2> QED
    BY <1>5, <2>1, ClaimsStayTyped
<1>7. CASE Route
  <2>1. task' = task \/ Releases(end.claim, TRUE)
    BY <1>7, RouteEffect DEF RouteReturns, RouteRetries, RouteWaits
  <2> QED
    BY <1>3, <2>1 DEF RecsMove
<1>8. CASE Seam
  <2>1. task' = task \/ Parks(end.claim) \/ Closed(end.claim)
    BY <1>8, SeamEffect DEF SeamCommon, SeamGoesOn, SeamRefused, SeamStops
  <2>2. ASSUME Parks(end.claim) PROVE Goal
    BY <1>1, <2>2, ParksEffect, ClaimsStayTyped DEF Alike, TypeOK, RecsMove
  <2>3. CASE task' = task
    BY <2>3 DEF RecsMove
  <2> QED
    BY <1>5, <2>1, <2>2, <2>3, ClaimsStayTyped
<1>9. ASSUME NEW t \in Tasks, SessionClaims(t) PROVE Goal
  <2>1. /\ OnlyRow(t) /\ task'[t].notes = task[t].notes /\ task'[t].run = task[t].run + 1
        /\ \A j \in Positions : task'[t].rec[j] = NoRecord
    BY <1>9, SessionClaimsEffect
  <2> QED
    BY <2>1 DEF OnlyRow, RecsMove
<1>10. CASE SessionRecordsBranch \/ SessionDeclaresNoCode
  <2>1. LET u == res.on.task
        IN /\ OnlyRow(u) /\ task'[u].notes = task[u].notes /\ task'[u].run = task[u].run
           /\ task'[u].rec = task[u].rec
    BY <1>10, RecordsBranchEffect, DeclaresNoCodeEffect DEF Works
  <2> QED
    BY <2>1 DEF OnlyRow, RecsMove
<1>11. CASE SessionSettles
  <2>1. LET u == res.on.task
        IN /\ OnlyRow(u) /\ task'[u].notes = task[u].notes /\ task'[u].lease = "handed"
           /\ \A j \in Positions : task'[u].rec[j] = task[u].rec[j] \/ Opened(task[u], task'[u], j)
    BY <1>11, SettlesEffect DEF Works
  <2> QED
    BY <2>1 DEF OnlyRow, RecsMove
<1>12. ASSUME NEW e \in Ends, SessionEnds(e) PROVE Goal
  <2>1. task' = task
    BY <1>12, SessionEndsEffect
  <2> QED
    BY <2>1 DEF RecsMove
<1>13. CASE Salvage
  <2>1. \/ task' = task
        \/ LET u == res.claim.task
           IN /\ OnlyRow(u) /\ task'[u].notes = task[u].notes /\ task'[u].run = task[u].run
              /\ task'[u].rec = task[u].rec
    BY <1>13, SalvageEffect
  <2> QED
    BY <2>1 DEF OnlyRow, RecsMove
<1>14. CASE Others
  <2>1. PICK t \in Tasks :
          /\ OnlyRow(t) /\ task'[t].notes = task[t].notes
          /\ \/ task'[t].run = task[t].run /\ task'[t].rec = task[t].rec
             \/ task'[t].run = task[t].run + 1 /\ \A j \in Positions : task'[t].rec[j] = NoRecord
    BY <1>14, OthersEffect
  <2> QED
    BY <2>1 DEF OnlyRow, RecsMove
<1> QED
  BY <1>2, <1>4, <1>6, <1>7, <1>8, <1>9, <1>10, <1>11, <1>12, <1>13, <1>14, NextCases
  DEF DriverAlone, SessionStep

\* A round that was counted has its record.
RecordsAreOne == \A t \in Tasks, j \in Positions : task[t].rec[j].round > 0 => task[t].rec[j].state # "none"

\* In a run of this drain no phase after the current one has a record, but the
\* verification it was sent back from, and what is sealed comes after what is released.
PastReviews ==
  \A t \in Tasks : task[t].lease = "ours" =>
    /\ \A j \in Positions : j > i /\ task[t].rec[j].state # "none" => j = i + 1 /\ Phases[j] = "verify"
    /\ \A j, k \in Positions : task[t].rec[k].state = "sealed" /\ task[t].rec[j].state = "open" => j < k

LEMMA RecFacts ==
  ASSUME TypeOK
  PROVE  \A t \in Tasks, j \in Positions :
           /\ task[t].rec[j] \in Records /\ task[t].rec[j].round \in Nat
           /\ task[t].rec[j].state \in {"none", "sealed", "open"} /\ task[t].notes \in Nat
<1>1. \A t \in Tasks, j \in Positions : task[t].rec[j] \in Records /\ task[t].notes \in Rounds
  BY DEF TypeOK, TaskRows
<1>2. Rounds \subseteq Nat
  BY ConfFacts DEF TypeOK, Rounds
<1> QED
  BY <1>1, <1>2 DEF Records

\* A round is closed without a record being lost or added.
LEMMA OpenedFacts ==
  ASSUME TypeOK, NEW t \in Tasks, NEW j \in Positions, Opened(task[t], task'[t], j)
  PROVE  /\ task'[t].rec[j].round = task[t].rec[j].round
         /\ task'[t].rec[j].state # "sealed"
         /\ task'[t].rec[j].state = "none" <=> task[t].rec[j].state = "none"
         /\ task[t].rec[j].state \in {"open", "none"} => task'[t].rec[j] = task[t].rec[j]
  BY RecFacts DEF Opened, Records

LEMMA RecordsAreOneStep ==
  ASSUME Inv, RecordsAreOne, [Next]_vars
  PROVE  RecordsAreOne'
<1>1. TypeOK /\ Tasks' = Tasks /\ Positions' = Positions
  BY NextKeepsConf, ConfStays DEF Inv
<1> SUFFICES ASSUME NEW t \in Tasks, NEW j \in Positions, task'[t].rec[j].round > 0
             PROVE  task'[t].rec[j].state # "none"
  BY <1>1 DEF RecordsAreOne
<1>2. task[t].rec[j].round > 0 => task[t].rec[j].state # "none"
  BY DEF RecordsAreOne
<1>3. CASE SessionReviews
  <2>1. \/ task'[t].rec[j] = task[t].rec[j]
        \/ task'[t].rec[j].state = "sealed"
    BY <1>3, ReviewsEffect DEF Works, OnlyRow
  <2> QED
    BY <1>2, <2>1
<1>4. CASE ~SessionReviews
  <2>1. RecsMove(t)
    BY <1>4, RecordsMove
  <2>2. \/ task'[t].rec[j] = task[t].rec[j]
        \/ Opened(task[t], task'[t], j)
        \/ task'[t].rec[j] = NoRecord
    BY <2>1 DEF RecsMove
  <2>3. NoRecord.round = 0
    BY DEF NoRecord
  <2> QED
    BY <1>1, <1>2, <2>2, <2>3, OpenedFacts
<1> QED
  BY <1>3, <1>4

\* The phase a verification sends the drain back to stands right before it.
LEMMA FixStandsBefore ==
  ASSUME conf \in Configs, i \in Positions, Phases[i] = "verify"
  PROVE  fixIdx + 1 = i /\ Last(i)
<1> DEFINE pairs == {j \in Positions : Phases[j] = "fix" /\ j < Len(Phases) /\ Phases[j + 1] = "verify"}
<1>1. Last(i) /\ i > 2 /\ Phases[i - 1] = "fix" /\ i \in Nat /\ Positions = 1 .. Len(Phases) /\ Len(Phases) \in Nat
  BY ConfFacts, ConfigsAssumption DEF Last, Phases, Positions
<1>2. i - 1 \in pairs
  BY <1>1 DEF Last
<1>3. \A j \in pairs : j + 1 = i
  BY <1>1, ConfigsAssumption DEF Last, Phases, Positions
<1>4. fixIdx = CHOOSE j \in pairs : \A k \in pairs : k <= j
  BY <1>2 DEF fixIdx
<1>5. fixIdx \in pairs
  <2>1. \E j \in pairs : \A k \in pairs : k <= j
    BY <1>1, <1>2, <1>3
  <2> QED
    BY <1>4, <2>1
<1> QED
  BY <1>1, <1>3, <1>5

LEMMA PastReviewsStep ==
  ASSUME ClaimsInv, PastReviews, [Next]_vars
  PROVE  PastReviews'
<1>1. /\ Inv /\ TypeOK /\ RowsMove /\ conf \in Configs /\ Tasks' = Tasks /\ Positions' = Positions
      /\ Phases' = Phases
  BY NextKeepsConf, ConfStays, ClaimsStayTyped DEF ClaimsInv, TypeOK
<1>2. Positions = 1 .. Len(Phases) /\ Len(Phases) \in Nat /\ i \in Nat
  BY <1>1, ConfFacts DEF TypeOK
<1>3. CASE i' = i /\ ~SessionReviews
  <2> SUFFICES ASSUME NEW t \in Tasks, task'[t].lease = "ours"
               PROVE  /\ \A j \in Positions : j > i /\ task'[t].rec[j].state # "none" => j = i + 1 /\ Phases[j] = "verify"
                      /\ \A j, k \in Positions : task'[t].rec[k].state = "sealed" /\ task'[t].rec[j].state = "open" => j < k
    BY <1>1, <1>3 DEF PastReviews
  <2>1. RecsMove(t)
    BY <1>1, <1>3, RecordsMove
  <2>2. CASE \A j \in Positions : task'[t].rec[j] = NoRecord
    BY <2>2 DEF NoRecord
  <2>3. ASSUME task'[t].run = task[t].run PROVE task[t].lease = "ours"
    BY <1>1, <2>3 DEF RowsMove
  <2>4. CASE task'[t].run = task[t].run /\ \A j \in Positions : task'[t].rec[j] = task[t].rec[j]
    BY <2>3, <2>4 DEF PastReviews
  <2>5. CASE task'[t].run = task[t].run /\ \A j \in Positions : Opened(task[t], task'[t], j)
    <3>1. \A j \in Positions : /\ task'[t].rec[j].state # "sealed"
                               /\ task'[t].rec[j].state # "none" => task[t].rec[j].state # "none"
      BY <1>1, <2>5, OpenedFacts
    <3> QED
      BY <2>3, <2>5, <3>1 DEF PastReviews
  <2> QED
    BY <2>1, <2>2, <2>4, <2>5 DEF RecsMove
<1>4. CASE SessionReviews
  <2>1. /\ pc = "session" /\ i' = i /\ ReviewShaped(i) /\ OnlyRow(res.on.task)
        /\ task'[res.on.task].lease = task[res.on.task].lease
        /\ \A j \in Positions : j # i => task'[res.on.task].rec[j] = task[res.on.task].rec[j]
        /\ task'[res.on.task].rec[i] = task[res.on.task].rec[i] \/ task'[res.on.task].rec[i].state = "sealed"
    <3> DEFINE a == task[res.on.task]
               b == task'[res.on.task]
    <3>1. /\ Works /\ ReviewShaped(i) /\ AlikeUnreviewed(a, b)
          /\ \A j \in Positions : j # i => b.rec[j] = a.rec[j]
          /\ IF carried.branch
             THEN b.rec[i] = [tip |-> a.tip, round |-> a.round + 1, state |-> "sealed"]
             ELSE b.rec = a.rec
      BY <1>1, <1>4, ReviewsEffect
    <3> HIDE DEF a, b
    <3>2. b.lease = a.lease
      BY <3>1 DEF AlikeUnreviewed
    <3>3. b.rec[i] = a.rec[i] \/ b.rec[i].state = "sealed"
      BY <3>1
    <3>4. pc = "session" /\ i' = i /\ OnlyRow(res.on.task)
      BY <3>1 DEF Works, SessionSteps
    <3> QED
      BY <3>1, <3>2, <3>3, <3>4 DEF a, b
  <2>2. \A t \in Tasks :
          /\ task'[t].lease = task[t].lease
          /\ \A j \in Positions : j # i => task'[t].rec[j] = task[t].rec[j]
          /\ task'[t].rec[i] = task[t].rec[i] \/ task'[t].rec[i].state = "sealed"
    BY <2>1 DEF OnlyRow
  <2> SUFFICES ASSUME NEW t \in Tasks, task[t].lease = "ours"
               PROVE  /\ \A j \in Positions : j > i /\ task'[t].rec[j].state # "none" => j = i + 1 /\ Phases[j] = "verify"
                      /\ \A j, k \in Positions : task'[t].rec[k].state = "sealed" /\ task'[t].rec[j].state = "open" => j < k
    BY <1>1, <2>1, <2>2 DEF PastReviews
  <2>3. \A j \in Positions : j > i /\ task'[t].rec[j].state # "none" => j = i + 1 /\ Phases[j] = "verify"
    BY <1>2, <2>2 DEF PastReviews
  <2>4. \A j \in Positions : j > i => task[t].rec[j].state = "none"
    <3>1. ASSUME NEW j \in Positions, j = i + 1, Phases[j] = "verify" PROVE FALSE
      <4>1. Phases[i] = "fix"
        BY <1>1, <1>2, <3>1, ConfigsAssumption DEF Phases, Positions
      <4> QED
        BY <2>1, <4>1 DEF ReviewShaped
    <3> QED
      BY <3>1 DEF PastReviews
  <2>5. ASSUME NEW j \in Positions, NEW k \in Positions, task'[t].rec[k].state = "sealed", task'[t].rec[j].state = "open"
        PROVE  j < k
    <3>1. CASE task'[t].rec[i] = task[t].rec[i] \/ (j # i /\ k # i)
      BY <2>2, <2>5, <3>1 DEF PastReviews
    <3>2. CASE k = i /\ j # i
      BY <1>2, <2>2, <2>4, <2>5, <3>2
    <3> QED
      BY <2>2, <2>5, <3>1, <3>2
  <2> QED
    BY <2>3, <2>5
<1>5. CASE i' # i
  <2>1. Seam
    BY <1>5 DEF Next, Driver, SessionStep, Others, Finished, vars, Route, RouteFrame, JudgeFrame, SessionSteps,
         SequenceOver, PhaseStarts, PhaseRefused, AttemptRefused, SessionSpawns,
         SessionClaims, SessionRecordsBranch, SessionDeclaresNoCode, SessionReviews, SessionSettles,
         SessionEnds, LeaseLapses, OtherTakes, Salvage, JudgeVerification, JudgePhase,
         JudgeOther, peekCheckpointClaim, Handback, RouteUnstarted, RouteUntrusted,
         RouteNoMCP, RouteLimited, RouteFinished, RouteTransient, RouteFatal, Waited,
         releaseCarried, EndWait
  <2>2. SeamAdvances \/ SeamVerifies
    BY <1>1, <1>5, <2>1, SeamAgain, SeamStaysInPhase
  <2>3. task' = task /\ pc = "seam"
    BY <2>2 DEF SeamAdvances, SeamVerifies, AtSeam
  <2>4. CASE SeamAdvances
    BY <1>1, <1>2, <2>3, <2>4 DEF SeamAdvances, PastReviews
  <2>5. CASE SeamVerifies
    <3>1. i \in Positions /\ Phases[i] = "verify" /\ i' = fixIdx
      BY <1>1, <2>3, <2>5 DEF SeamVerifies, Inv, InPhase, Ending
    <3>2. i' + 1 = i /\ i = Len(Phases)
      BY <1>1, <3>1, FixStandsBefore DEF Last
    <3>3. i' = i - 1
      BY <1>2, <3>1, <3>2, FixIsNotFirst, <1>1
    <3>4. ASSUME NEW j \in Positions, j > i' PROVE j = i
      <4>1. j \in Nat /\ j <= Len(Phases)
        BY <1>2
      <4>2. j <= i /\ j > i - 1
        BY <4>1, <3>2, <3>3, <3>4
      <4> QED
        BY <1>2, <4>1, <4>2
    <3> QED
      BY <1>1, <1>2, <2>3, <3>1, <3>2, <3>4 DEF PastReviews
  <2> QED
    BY <2>2, <2>4, <2>5
<1> QED
  <2>1. SessionReviews => i' = i
    BY DEF SessionReviews, SessionSteps
  <2> QED
    BY <1>3, <1>4, <1>5

-----------------------------------------------------------------------------
(* What a fix is told.                                                      *)

\* c holds its task, as rows have it.
Holder(c, rows) == c.task # NoTask /\ rows[c.task].lease = "ours" /\ rows[c.task].run = c.run

\* A released round and none still sealed, or, without a branch, a block in the outcome.
Findings(c, row) ==
  IF c.branch
  THEN /\ \E j \in Positions : row.rec[j].state = "open"
       /\ \A j \in Positions : row.rec[j].state # "sealed"
  ELSE row.notes > 0

Told(c, rows) == Holder(c, rows) => Findings(c, rows[c.task])

\* The round was reviewed, and what is still sealed of it is owed: round names it.
AlmostTold(c, rows, round) ==
  Holder(c, rows) =>
    IF c.branch
    THEN /\ \E j \in Positions : rows[c.task].rec[j].state # "none"
         /\ \A j \in Positions : rows[c.task].rec[j].state = "sealed" => round > 0
    ELSE rows[c.task].notes > 0

\* A claim that holds its task held it before, and only a review adds to what it finds.
LEMMA HoldingBefore ==
  ASSUME ClaimsInv, [Next]_vars, ~SessionReviews, NEW c \in {carried, res.claim, end.claim},
         Holder(c, task')
  PROVE  /\ c.task \in Tasks /\ Holder(c, task) /\ task'[c.task].notes = task[c.task].notes
         /\ \/ \A j \in Positions : task'[c.task].rec[j] = task[c.task].rec[j]
            \/ \A j \in Positions : Opened(task[c.task], task'[c.task], j)
<1>1. Inv /\ TypeOK /\ RowsMove /\ c \in Claims /\ Sound(c, task, OwnRuns)
  BY ClaimsStayTyped DEF ClaimsInv, ClaimsAreSound
<1>2. /\ c.task # NoTask /\ c.task \in Tasks /\ c.run <= task[c.task].run /\ c.run \in Nat
      /\ task'[c.task].lease = "ours" /\ task'[c.task].run = c.run
  BY <1>1, ConfFacts DEF Sound, Claims, Runs, TypeOK, Holder
<1>3. task[c.task].run \in Nat /\ task'[c.task].run >= task[c.task].run
  BY <1>1, <1>2, RowFacts DEF RowsMove
<1>4. task'[c.task].run = task[c.task].run
  BY <1>2, <1>3
<1>5. Holder(c, task)
  BY <1>1, <1>2, <1>4 DEF RowsMove, Holder
<1>6. RecsMove(c.task) /\ task'[c.task].notes = task[c.task].notes
  BY <1>1, <1>2, RecordsMove
<1>7. task[c.task].run # task[c.task].run + 1
  BY <1>3
<1> QED
  BY <1>2, <1>4, <1>5, <1>6, <1>7 DEF RecsMove

LEMMA ToldStays ==
  ASSUME ClaimsInv, [Next]_vars, ~SessionReviews, NEW c \in {carried, res.claim, end.claim},
         Told(c, task)
  PROVE  Told(c, task')
<1> SUFFICES ASSUME Holder(c, task') PROVE Findings(c, task'[c.task])
  BY DEF Told
<1>1. /\ c.task \in Tasks /\ Holder(c, task) /\ task'[c.task].notes = task[c.task].notes
      /\ \/ \A j \in Positions : task'[c.task].rec[j] = task[c.task].rec[j]
         \/ \A j \in Positions : Opened(task[c.task], task'[c.task], j)
  BY HoldingBefore
<1>2. Findings(c, task[c.task]) /\ TypeOK
  BY <1>1 DEF Told, ClaimsInv, Inv
<1>3. CASE c.branch
  <2>1. \A j \in Positions : task[c.task].rec[j].state # "sealed"
    BY <1>2, <1>3 DEF Findings
  <2>2. \A j \in Positions : task'[c.task].rec[j] = task[c.task].rec[j]
    BY <1>1, <2>1 DEF Opened
  <2> QED
    BY <1>2, <1>3, <2>2 DEF Findings
<1>4. CASE ~c.branch
  BY <1>1, <1>2, <1>4 DEF Findings
<1> QED
  BY <1>3, <1>4

LEMMA AlmostToldStays ==
  ASSUME ClaimsInv, [Next]_vars, ~SessionReviews, NEW c \in {carried, res.claim, end.claim},
         NEW round, AlmostTold(c, task, round)
  PROVE  AlmostTold(c, task', round)
<1> SUFFICES ASSUME Holder(c, task') PROVE AlmostTold(c, task', round)
  BY DEF AlmostTold
<1>1. /\ c.task \in Tasks /\ Holder(c, task) /\ task'[c.task].notes = task[c.task].notes
      /\ \/ \A j \in Positions : task'[c.task].rec[j] = task[c.task].rec[j]
         \/ \A j \in Positions : Opened(task[c.task], task'[c.task], j)
  BY HoldingBefore
<1>2. TypeOK
  BY DEF ClaimsInv, Inv
<1>3. \A j \in Positions : /\ task[c.task].rec[j].state # "none" => task'[c.task].rec[j].state # "none"
                           /\ task'[c.task].rec[j].state = "sealed" => task[c.task].rec[j].state = "sealed"
  BY <1>1, <1>2, OpenedFacts
<1> QED
  BY <1>1, <1>3 DEF AlmostTold

\* The evidence of a review is its own record of the run, or a block in the outcome; what an
\* earlier review sealed was released before its own round, or is covered by it.
LEMMA EvidenceTells ==
  ASSUME TypeOK, RecordsAreOne, PastReviews, i \in Positions, ReviewShaped(i), ~ReviewShaped(i + 1),
         NEW c \in Claims, c.task \in Tasks, NEW reported \in BOOLEAN,
         NEW e \in checkpointEvidence(c, reported), e.ok, Holder(c, task)
  PROVE  LET row == task[c.task]
         IN /\ e.branch => /\ e.round > 0 /\ row.rec[i].state # "none"
                           /\ ~e.sealed => /\ row.rec[i].state = "open"
                                           /\ \A j \in Positions : row.rec[j].state # "sealed"
            /\ ~e.branch => row.notes > 0 /\ ~e.sealed /\ e.round = 0
<1> DEFINE row == task[c.task]
<1>1. PICK read \in May("read"), known \in May("branch") : e = Verdict(c, reported, read, known)
  BY DEF checkpointEvidence
<1>2. /\ e.branch => row.rec[i].round > 0 /\ e.round = row.rec[i].round
                     /\ (row.rec[i].state = "sealed" => e.sealed)
      /\ ~e.branch => row.notes > try.notes /\ ~e.sealed /\ e.round = 0
  BY <1>1 DEF Verdict
<1>3. row.rec[i].state \in {"none", "sealed", "open"} /\ row.notes \in Nat /\ row.lease = "ours"
  BY RecFacts DEF Holder
<1>4. try.notes \in Nat
  BY ConfFacts DEF TypeOK, Tries, Rounds
<1>5. row.rec[i].round > 0 => row.rec[i].state # "none"
  BY DEF RecordsAreOne
<1>6. CASE e.branch
  <2>1. e.round > 0 /\ row.rec[i].state # "none"
    BY <1>2, <1>5, <1>6
  <2>2. ASSUME ~e.sealed
        PROVE  row.rec[i].state = "open" /\ \A j \in Positions : row.rec[j].state # "sealed"
    <3>1. row.rec[i].state = "open"
      BY <1>2, <1>3, <1>6, <2>1, <2>2
    <3>2. ASSUME NEW j \in Positions, row.rec[j].state = "sealed" PROVE FALSE
      <4>1. i < j
        BY <1>3, <3>1, <3>2 DEF PastReviews
      <4>2. j = i + 1 /\ Phases[j] = "verify"
        BY <1>3, <3>2, <4>1, ConfFacts DEF PastReviews, TypeOK
      <4> QED
        BY <4>2 DEF ReviewShaped
    <3> QED
      BY <3>1, <3>2
  <2> QED
    BY <1>6, <2>1, <2>2
<1>7. CASE ~e.branch
  BY <1>2, <1>3, <1>4, <1>7
<1> QED
  BY <1>6, <1>7

\* Once the round is closed, the claim that goes on from it is told.
LEMMA ClosedTells ==
  ASSUME TypeOK, RecordsAreOne, PastReviews, i \in Positions, ReviewShaped(i), ~ReviewShaped(i + 1),
         NEW c \in Claims, c.task \in Tasks, NEW reported \in BOOLEAN,
         NEW e \in checkpointEvidence(c, reported), e.ok,
         NEW d \in Claims, d.task = c.task, d.run = c.run, d.branch <=> e.branch,
         ~e.sealed => task' = task,
         e.sealed => task' = CloseRound(d)
  PROVE  Told(d, task')
<1> SUFFICES ASSUME Holder(d, task') PROVE Findings(d, task'[d.task])
  BY DEF Told
<1>1. CASE ~e.sealed
  <2>1. Holder(c, task)
    BY <1>1 DEF Holder
  <2> QED
    BY <1>1, <2>1, EvidenceTells DEF Findings
<1>2. CASE e.sealed
  <2>1. /\ \A t \in Tasks : task'[t].run = task[t].run /\ task'[t].lease = task[t].lease
        /\ \A j \in Positions : Opened(task[c.task], task'[c.task], j)
    BY <1>2, CloseEffect DEF Alike, TypeOK
  <2>2. Holder(c, task)
    BY <2>1 DEF Holder
  <2>3. e.branch /\ task[c.task].rec[i].state # "none"
    BY <1>2, <2>2, EvidenceTells
  <2>4. \A j \in Positions : /\ task'[c.task].rec[j].state # "sealed"
                             /\ task[c.task].rec[j].state # "none" => task'[c.task].rec[j].state # "none"
                             /\ task'[c.task].rec[j].state \in {"none", "sealed", "open"}
    <3> SUFFICES ASSUME NEW j \in Positions
                 PROVE  /\ task'[c.task].rec[j].state # "sealed"
                        /\ task[c.task].rec[j].state # "none" => task'[c.task].rec[j].state # "none"
                        /\ task'[c.task].rec[j].state \in {"none", "sealed", "open"}
      OBVIOUS
    <3>1. Opened(task[c.task], task'[c.task], j)
      BY <2>1
    <3>2. task[c.task].rec[j] \in Records /\ task[c.task].rec[j].state \in {"none", "sealed", "open"}
      BY RecFacts
    <3>3. task'[c.task].rec[j].state \in {"none", "sealed", "open"}
      BY <3>1, <3>2 DEF Opened, Records
    <3> QED
      BY <3>1, <3>3, OpenedFacts
  <2>5. task'[c.task].rec[i].state = "open"
    BY <2>3, <2>4
  <2> QED
    BY <2>3, <2>4, <2>5 DEF Findings
<1> QED
  BY <1>1, <1>2

\* A review before a fix has said what there is to fix, unless it hands off to a successor
\* that will.
ReviewTells ==
  /\ pc \in {"route", "attempt", "limited", "backoff", "seam"}
  /\ ReviewShaped(i) /\ ~Last(i) /\ ~ReviewShaped(i + 1) /\ end.checkpoint /\ ~end.empty
  => /\ end.handoff => AlmostTold(end.claim, task, end.round)
     /\ ~end.handoff => Told(end.claim, task)

\* A verification with open MUSTs has said which.
VerifyTells ==
  pc \in {"handback", "route", "attempt", "limited", "backoff", "seam"} /\ end.musts # {} =>
    Told(end.claim, task)

LEMMA ShapeStays ==
  ASSUME conf' = conf, i' = i
  PROVE  /\ ReviewShaped(i)' <=> ReviewShaped(i)
         /\ ReviewShaped(i + 1)' <=> ReviewShaped(i + 1)
         /\ (Last(i)' <=> Last(i)) /\ Phases' = Phases /\ Positions' = Positions
  BY DEF ReviewShaped, Last, Phases, Positions

\* A verdict on a sealed round names it.
LEMMA SealedIsARound ==
  ASSUME NEW c, NEW reported, NEW e \in checkpointEvidence(c, reported), e.sealed
  PROVE  e.round > 0 /\ e.branch /\ e.ok
<1>1. PICK read \in May("read"), known \in May("branch") : e = Verdict(c, reported, read, known)
  BY DEF checkpointEvidence
<1> QED
  BY <1>1 DEF Verdict

LEMMA ReviewTellsJudged ==
  ASSUME ClaimsInv, RecordsAreOne, PastReviews, [Next]_vars, JudgeVerification \/ JudgePhase \/ JudgeOther
  PROVE  ReviewTells'
<1>1. /\ Inv /\ TypeOK /\ conf \in Configs /\ conf' = conf /\ i' = i /\ pc = "judge" /\ i \in Positions
      /\ end'.claim.task = res.claim.task /\ end'.claim.run = res.claim.run
      /\ (end'.checkpoint => canCheckpoint)
      /\ res.claim \in Claims /\ end'.claim \in Claims /\ res.reported \in BOOLEAN
  BY JudgeEffect, ClaimsStayTyped DEF ClaimsInv, Inv, TypeOK, Judges, JudgeFrame, InPhase, Ending, Sessions
<1> SUFFICES ASSUME ReviewShaped(i), ~Last(i), ~ReviewShaped(i + 1), end'.checkpoint, ~end'.empty
             PROVE  /\ end'.handoff => AlmostTold(end'.claim, task', end'.round)
                    /\ ~end'.handoff => Told(end'.claim, task')
  <2>1. /\ ReviewShaped(i)' <=> ReviewShaped(i)
        /\ ReviewShaped(i + 1)' <=> ReviewShaped(i + 1)
        /\ (Last(i)' <=> Last(i)) /\ Positions' = Positions
    BY <1>1, ShapeStays
  <2>2. /\ Told(end.claim, task)' <=> Told(end'.claim, task')
        /\ AlmostTold(end.claim, task, end.round)' <=> AlmostTold(end'.claim, task', end'.round)
    BY <2>1 DEF Told, AlmostTold, Findings, Holder
  <2> QED
    BY <2>1, <2>2 DEF ReviewTells
<1>3. canCheckpoint /\ reviewable /\ res.claim.task \in Tasks
  BY <1>1, HeldHasATask, ClaimsStayTyped DEF reviewable, canCheckpoint, Held
<1>4. JudgePhase
  <2>1. Phases[i] = "verify" => Last(i)
    BY <1>1, ConfigsAssumption DEF Last, Positions, Phases
  <2> QED
    BY <1>3, <2>1 DEF JudgeVerification, JudgeOther, judgeable
<1>5. PICK e \in checkpointEvidence(res.claim, res.reported), closed \in Closes(res.claim),
           j \in PhaseEnds :
        LET closes == e.ok /\ e.round > 0 /\ e.sealed /\ ~handoff /\ ~ReviewShaped(i + 1)
            ok == Accepted(e, closes, closed)
        IN /\ task' = IF closes /\ closed THEN CloseRound(res.claim) ELSE task
           /\ Decide(j, ok, e.branch, closes /\ ~closed)
           /\ Found(j) /\ j.musts = {}
           /\ j.round = IF e.sealed THEN e.round ELSE 0
  BY <1>1, <1>4, PhaseJudged
<1> DEFINE closes == e.ok /\ e.round > 0 /\ e.sealed /\ ~handoff /\ ~ReviewShaped(i + 1)
           ok == Accepted(e, closes, closed)
           failed == closes /\ ~closed
<1>6. e \in Verdicts
  BY <1>1, <1>3, EvidenceType, ConfFacts DEF TypeOK
<1>7. /\ ok \in BOOLEAN /\ failed \in BOOLEAN /\ e.branch \in BOOLEAN /\ e.sealed \in BOOLEAN /\ (ok => e.ok)
      /\ ok /\ e.sealed /\ e.round > 0 /\ ~handoff => task' = CloseRound(res.claim)
      /\ ~e.sealed \/ handoff => task' = task
  BY <1>5, <1>6 DEF Verdicts, Accepted
<1>8. Decide(j, ok, e.branch, failed) /\ j.musts = {}
  BY <1>5
<1> HIDE DEF ok, failed
<1>9. /\ ok /\ end'.round = j.round /\ end'.claim.branch = e.branch
      /\ end'.handoff <=> handoff
  BY <1>1, <1>3, <1>7, <1>8, DecideEffect DEF SameFinding
<1>10. e.ok
  BY <1>7, <1>9
<1>11. ASSUME Holder(res.claim, task)
       PROVE  LET row == task[res.claim.task]
              IN /\ e.branch => /\ e.round > 0 /\ row.rec[i].state # "none"
                                /\ ~e.sealed => \A k \in Positions : row.rec[k].state # "sealed"
                 /\ ~e.branch => row.notes > 0 /\ ~e.sealed /\ e.round = 0
  BY <1>1, <1>3, <1>10, <1>11, EvidenceTells
<1>12. CASE handoff
  <2>1. task' = task
    BY <1>7, <1>12
  <2>2. AlmostTold(end'.claim, task, end'.round)
    <3> SUFFICES ASSUME Holder(res.claim, task) PROVE AlmostTold(end'.claim, task, end'.round)
      BY <1>1 DEF AlmostTold, Holder
    <3>1. CASE e.branch
      <4>1. e.sealed => end'.round > 0
        BY <1>5, <1>9, <1>11, <3>1
      <4> QED
        BY <1>1, <1>9, <1>11, <3>1, <4>1 DEF AlmostTold
    <3>2. CASE ~e.branch
      BY <1>1, <1>9, <1>11, <3>2 DEF AlmostTold
    <3> QED
      BY <3>1, <3>2
  <2> QED
    BY <1>9, <1>12, <2>1, <2>2
<1>13. CASE ~handoff
  <2>1. CASE ~e.sealed
    <3>1. task' = task
      BY <1>7, <2>1
    <3> QED
      BY <1>1, <1>3, <1>7, <1>9, <1>10, <1>13, <2>1, <3>1, ClosedTells
  <2>2. CASE e.sealed
    <3>1. e.round > 0
      BY <1>1, <1>3, <2>2, SealedIsARound
    <3>2. task' = CloseRound(end'.claim)
      BY <1>1, <1>7, <1>9, <1>13, <2>2, <3>1 DEF CloseRound
    <3> QED
      BY <1>1, <1>3, <1>7, <1>9, <1>10, <1>13, <2>2, <3>2, ClosedTells
  <2> QED
    BY <2>1, <2>2
<1> QED
  BY <1>12, <1>13

LEMMA ReviewTellsPeeked ==
  ASSUME ClaimsInv, RecordsAreOne, PastReviews, [Next]_vars, peekCheckpointClaim
  PROVE  ReviewTells'
<1>1. /\ Inv /\ TypeOK /\ conf' = conf /\ i' = i /\ pc = "handback" /\ i \in Positions
      /\ end'.claim.task \in Tasks /\ end'.handoff = end.handoff /\ end'.claim \in Claims
  BY PeekEffect, ClaimsStayTyped DEF ClaimsInv, Inv, InPhase, Ending
<1>2. ~end'.handoff
  BY <1>1 DEF ClaimsInv, EndsAgree, EndHolds, HandsBack
<1> SUFFICES ASSUME ReviewShaped(i), ~Last(i), ~ReviewShaped(i + 1), end'.checkpoint
             PROVE  Told(end'.claim, task')
  <2>1. /\ ReviewShaped(i)' <=> ReviewShaped(i)
        /\ ReviewShaped(i + 1)' <=> ReviewShaped(i + 1)
        /\ (Last(i)' <=> Last(i)) /\ Positions' = Positions
    BY <1>1, ShapeStays
  <2>2. Told(end.claim, task)' <=> Told(end'.claim, task')
    BY <2>1 DEF Told, Findings, Holder
  <2> QED
    BY <1>2, <2>1, <2>2 DEF ReviewTells
<1> DEFINE c == [end'.claim EXCEPT !.branch = TRUE]
<1>3. PICK e \in checkpointEvidence(c, FALSE), closed \in Closes(end'.claim) :
        LET closes == e.ok /\ e.sealed /\ ~ReviewShaped(i + 1)
        IN /\ task' = IF closes /\ closed THEN CloseRound(end'.claim) ELSE task
           /\ end'.checkpoint <=> Accepted(e, closes, closed)
           /\ end'.checkpoint => end'.claim.branch = e.branch
           /\ end'.round = e.round
  BY <1>1, PeekEffect
<1>4. c \in Claims /\ c.task = end'.claim.task /\ c.run = end'.claim.run
  BY <1>1 DEF Claims
<1> HIDE DEF c
<1>5. e \in Verdicts
  BY <1>1, <1>4, EvidenceType, ConfFacts DEF TypeOK
<1>6. /\ e.ok /\ (e.sealed => closed) /\ end'.claim.branch = e.branch
      /\ e.sealed \in BOOLEAN /\ e.branch \in BOOLEAN
  BY <1>3, <1>5 DEF Accepted, Verdicts
<1>7. /\ ~e.sealed => task' = task
      /\ e.sealed => task' = CloseRound(end'.claim)
  BY <1>3, <1>6
<1> QED
  BY <1>1, <1>4, <1>6, <1>7, ClosedTells

\* A handoff is refused for good once the round it left sealed is closed.
LEMMA SeamRefusesEffect ==
  ASSUME Inv, Seam, pc' = "seam"
  PROVE  /\ i' = i /\ end.handoff /\ ~end'.handoff /\ end'.claim = end.claim
         /\ end'.checkpoint = end.checkpoint /\ end'.empty = end.empty
         /\ task' = IF RoundOwed THEN CloseRound(end.claim) ELSE task
<1>1. SeamRefuses
  BY DEF Seam, SeamEnds, SeamParksDead, SeamDies, SeamErrs, SeamHandsOff, SeamEmpty, SeamNoCheckpoint,
         SeamVerified, SeamVerifies, SeamParksVerification, SeamAdvances, Over, Again
<1>2. end \in PhaseEnds
  BY DEF Inv, TypeOK
<1>3. PICK closed \in Closes(end.claim) :
        /\ task' = IF RoundOwed /\ closed THEN CloseRound(end.claim) ELSE task
        /\ IF (RoundOwed /\ ~closed) \/ (~Last(i) /\ end.empty)
           THEN pc' = "release" /\ carried' = Taken /\ UNCHANGED end
           ELSE end' = [end EXCEPT !.handoff = FALSE] /\ UNCHANGED <<pc, carried>>
  BY <1>1 DEF SeamRefuses
<1>4. end' = [end EXCEPT !.handoff = FALSE] /\ (RoundOwed => closed)
  BY <1>3
<1> QED
  BY <1>1, <1>2, <1>3, <1>4 DEF SeamRefuses, PhaseEnds

\* What a refused handoff leaves behind is told.
LEMMA RefusedTells ==
  ASSUME TypeOK, NEW c \in Claims, c.task # NoTask => c.task \in Tasks, NEW round \in Nat,
         AlmostTold(c, task, round),
         round > 0 => c.task \in Tasks /\ task' = CloseRound(c),
         ~(round > 0) => task' = task
  PROVE  Told(c, task')
<1> SUFFICES ASSUME Holder(c, task') PROVE Findings(c, task'[c.task])
  BY DEF Told
<1>1. \A j \in Positions : task[c.task].rec[j].state \in {"none", "sealed", "open"}
  BY RecFacts DEF Holder
<1>2. CASE ~(round > 0)
  <2>1. Holder(c, task)
    BY <1>2
  <2>2. CASE c.branch
    <3>1. /\ \E j \in Positions : task[c.task].rec[j].state # "none"
          /\ \A j \in Positions : task[c.task].rec[j].state # "sealed"
      BY <1>2, <2>1, <2>2 DEF AlmostTold
    <3> QED
      BY <1>1, <1>2, <2>2, <3>1 DEF Findings
  <2>3. CASE ~c.branch
    BY <1>2, <2>1, <2>3 DEF AlmostTold, Findings
  <2> QED
    BY <2>2, <2>3
<1>3. CASE round > 0
  <2>1. /\ \A t \in Tasks : Alike(task[t], task'[t]) /\ task'[t].lease = task[t].lease
        /\ \A j \in Positions : Opened(task[c.task], task'[c.task], j)
        /\ c.task \in Tasks
    BY <1>3, CloseEffect DEF TypeOK
  <2>2. Holder(c, task) /\ task'[c.task].notes = task[c.task].notes
    BY <2>1 DEF Holder, Alike
  <2>3. CASE c.branch
    <3>1. PICK j \in Positions : task[c.task].rec[j].state # "none"
      BY <2>2, <2>3 DEF AlmostTold
    <3>2. task[c.task].rec[j] \in Records
      BY <2>1, RecFacts
    <3>3. task'[c.task].rec[j].state = "open"
      BY <1>1, <2>1, <3>1, <3>2 DEF Opened, Records
    <3>4. \A k \in Positions : task'[c.task].rec[k].state # "sealed"
      BY <2>1, OpenedFacts
    <3> QED
      BY <2>3, <3>3, <3>4 DEF Findings
  <2>4. CASE ~c.branch
    BY <2>2, <2>4 DEF AlmostTold, Findings
  <2> QED
    BY <2>3, <2>4
<1> QED
  BY <1>2, <1>3

LEMMA ReviewTellsStep ==
  ASSUME ClaimsInv, RecordsAreOne, PastReviews, ReviewTells, [Next]_vars
  PROVE  ReviewTells'
<1>1. Inv /\ TypeOK /\ conf' = conf /\ end.claim \in Claims /\ end.round \in Nat
  BY ClaimsStayTyped, ConfFacts DEF ClaimsInv, TypeOK, PhaseEnds, Rounds
<1>2. ASSUME i' = i, pc \in {"route", "attempt", "limited", "backoff", "seam"},
             end'.claim = end.claim, end'.checkpoint = end.checkpoint, end'.empty = end.empty,
             end'.round = end.round, end'.handoff = end.handoff
      PROVE  ReviewTells'
  <2>1. ~SessionReviews
    BY <1>2 DEF SessionReviews, Working
  <2>2. /\ ReviewShaped(i)' <=> ReviewShaped(i)
        /\ ReviewShaped(i + 1)' <=> ReviewShaped(i + 1)
        /\ (Last(i)' <=> Last(i)) /\ Positions' = Positions
    BY <1>1, <1>2, ShapeStays
  <2>3. /\ Told(end.claim, task)' <=> Told(end.claim, task')
        /\ AlmostTold(end.claim, task, end.round)' <=> AlmostTold(end.claim, task', end.round)
    BY <1>2, <2>2 DEF Told, AlmostTold, Findings, Holder
  <2>4. /\ Told(end.claim, task) => Told(end.claim, task')
        /\ AlmostTold(end.claim, task, end.round) => AlmostTold(end.claim, task', end.round)
    BY <2>1, ToldStays, AlmostToldStays
  <2> QED
    BY <1>2, <2>2, <2>3, <2>4 DEF ReviewTells
<1>3. CASE PhaseStarts \/ PhaseRefused
  <2>1. end' = NoEnd \/ ~end'.checkpoint
    BY <1>1, <1>3, PhaseStartsEffect, PhaseRefusedEffect
  <2> QED
    BY <2>1 DEF ReviewTells, NoEnd
<1>4. CASE AttemptRefused \/ Waited
  <2>1. /\ pc \in {"attempt", "limited", "backoff"} /\ i' = i
        /\ end'.claim = end.claim /\ end'.checkpoint = end.checkpoint /\ end'.empty = end.empty
        /\ end'.round = end.round /\ end'.handoff = end.handoff
    BY <1>1, <1>4 DEF TypeOK, PhaseEnds, AttemptRefused, Waited
  <2> QED
    BY <1>2, <2>1
<1>5. CASE JudgeVerification \/ JudgePhase \/ JudgeOther
  BY <1>5, ReviewTellsJudged
<1>6. CASE peekCheckpointClaim
  BY <1>6, ReviewTellsPeeked
<1>7. CASE Handback
  <2>1. ~end'.checkpoint
    BY <1>1, <1>7, HandbackEffect DEF ClaimsInv, EndsAgree, HandsBack
  <2> QED
    BY <2>1 DEF ReviewTells
<1>8. CASE Route
  <2>1. /\ pc = "route" /\ i' = i
        /\ \/ SameEnd(end, end')
           \/ ~end'.checkpoint
    BY <1>1, <1>8, RouteEffect DEF RouteFrame, RouteReturns, RouteRetries, RouteWaits, SameEnd, EmptyEnd
  <2>2. CASE SameEnd(end, end')
    BY <1>2, <2>1, <2>2 DEF SameEnd
  <2> QED
    BY <2>1, <2>2 DEF ReviewTells
<1>9. CASE Seam
  <2>1. CASE pc' = "seam"
    <3>1. /\ i' = i /\ end.handoff /\ ~end'.handoff /\ end'.claim = end.claim /\ pc = "seam"
          /\ end'.checkpoint = end.checkpoint /\ end'.empty = end.empty
          /\ task' = IF RoundOwed THEN CloseRound(end.claim) ELSE task
      BY <1>1, <1>9, <2>1, SeamRefusesEffect, SeamEffect DEF SeamCommon
    <3>2. /\ ReviewShaped(i)' <=> ReviewShaped(i)
          /\ ReviewShaped(i + 1)' <=> ReviewShaped(i + 1)
          /\ (Last(i)' <=> Last(i)) /\ Positions' = Positions
      BY <1>1, <3>1, ShapeStays
    <3>3. Told(end.claim, task)' <=> Told(end.claim, task')
      BY <3>1, <3>2 DEF Told, Findings, Holder
    <3> SUFFICES ASSUME ReviewShaped(i), ~Last(i), ~ReviewShaped(i + 1), end.checkpoint, ~end.empty
                 PROVE  Told(end.claim, task')
      BY <3>1, <3>2, <3>3 DEF ReviewTells
    <3>4. end.claim.task \in Tasks
      BY <1>1, HeldHasATask DEF ClaimsInv, EndsAgree, EndHolds, Held
    <3>5. AlmostTold(end.claim, task, end.round)
      BY <3>1 DEF ReviewTells
    <3>6. /\ end.round > 0 => task' = CloseRound(end.claim)
          /\ ~(end.round > 0) => task' = task
      BY <3>1 DEF RoundOwed
    <3> QED
      BY <1>1, <3>4, <3>5, <3>6, RefusedTells
  <2>2. CASE pc' # "seam"
    <3>1. pc' \in {"boundary", "release"}
      BY <1>1, <1>9, <2>2, SeamEffect DEF SeamGoesOn, SeamRefused, SeamStops
    <3> QED
      BY <3>1 DEF ReviewTells
  <2> QED
    BY <2>1, <2>2
<1>10. CASE SequenceOver \/ SessionSpawns \/ SessionStep \/ Salvage \/ releaseCarried \/ EndWait
  <2>1. pc' \notin {"route", "attempt", "limited", "backoff", "seam"}
    <3>1. SessionStep \/ Salvage => pc' \in {"session", "salvage", "judge"}
      BY SessionReports, RowsMoveStep DEF ClaimsInv, Learns
    <3> QED
      BY <1>1, <1>10, <3>1, ReleaseCarriedEffect DEF SequenceOver, SessionSpawns, EndWait
  <2> QED
    BY <2>1 DEF ReviewTells
<1>11. CASE Others \/ UNCHANGED vars
  <2>1. UNCHANGED <<pc, i, end>>
    BY <1>1, <1>11, OthersEffect DEF vars
  <2>2. CASE pc \in {"route", "attempt", "limited", "backoff", "seam"}
    BY <1>2, <2>1, <2>2
  <2> QED
    BY <2>1, <2>2 DEF ReviewTells
<1> QED
  BY <1>3, <1>4, <1>5, <1>6, <1>7, <1>8, <1>9, <1>10, <1>11, NextCases DEF DriverAlone

LEMMA VerifyTellsJudged ==
  ASSUME ClaimsInv, RecordsAreOne, PastReviews, [Next]_vars, JudgeVerification \/ JudgePhase \/ JudgeOther
  PROVE  VerifyTells'
<1>1. /\ Inv /\ TypeOK /\ conf \in Configs /\ conf' = conf /\ i' = i /\ pc = "judge" /\ i \in Positions
      /\ end'.claim.task = res.claim.task /\ end'.claim.run = res.claim.run
      /\ res.claim \in Claims /\ end'.claim \in Claims /\ res.reported \in BOOLEAN
      /\ end'.musts # {} => /\ Phases[i] = "verify" /\ res.claim.task # NoTask
                            /\ orderlyExit \/ recoveredExit
  BY JudgeEffect, ClaimsStayTyped DEF ClaimsInv, Inv, TypeOK, Judges, JudgeFrame, InPhase, Ending, Sessions
<1> SUFFICES ASSUME end'.musts # {} PROVE Told(end'.claim, task')
  <2>1. Positions' = Positions
    BY <1>1, ConfStays
  <2>2. Told(end.claim, task)' <=> Told(end'.claim, task')
    BY <2>1 DEF Told, Findings, Holder
  <2> QED
    BY <2>2 DEF VerifyTells
<1>2. Last(i) /\ ReviewShaped(i) /\ ~ReviewShaped(i + 1) /\ res.claim.task \in Tasks
  <2>1. Last(i) /\ res.claim.task \in Tasks
    BY <1>1, HeldHasATask, ConfigsAssumption DEF Last, Positions, Phases
  <2>2. i + 1 \notin Positions
    BY <1>1, <2>1, ConfFacts DEF Last
  <2> QED
    BY <1>1, <2>1, <2>2 DEF ReviewShaped
<1>3. JudgeVerification
  BY <1>1, <1>2 DEF JudgePhase, JudgeOther, judgeable, reviewable
<1>4. PICK e \in checkpointEvidence(res.claim, res.reported), closed \in Closes(res.claim),
           read \in BOOLEAN, j \in PhaseEnds :
        LET closes == e.ok /\ e.round > 0 /\ e.sealed
            ok == Accepted(e, closes, closed) /\ read
        IN /\ task' = IF closes /\ closed THEN CloseRound(res.claim) ELSE task
           /\ Decide(j, ok, e.branch, FALSE)
           /\ Found(j) /\ j.checked /\ (j.failure <=> ~ok)
           /\ j.claim.branch = IF ok THEN e.branch ELSE res.claim.branch
           /\ j.musts = IF ok /\ e.round > 0 THEN task[res.claim.task].open ELSE {}
  BY <1>1, <1>3, VerificationJudged
<1> DEFINE closes == e.ok /\ e.round > 0 /\ e.sealed
           ok == Accepted(e, closes, closed) /\ read
<1>5. e \in Verdicts
  BY <1>1, <1>2, EvidenceType, ConfFacts DEF TypeOK
<1>6. /\ ok \in BOOLEAN /\ e.branch \in BOOLEAN /\ e.sealed \in BOOLEAN /\ (ok => e.ok)
      /\ ok /\ e.sealed /\ e.round > 0 => task' = CloseRound(res.claim)
      /\ ~e.sealed => task' = task
  BY <1>4, <1>5 DEF Verdicts, Accepted
<1>7. /\ Decide(j, ok, e.branch, FALSE)
      /\ j.claim.branch = IF ok THEN e.branch ELSE res.claim.branch
      /\ j.musts = IF ok /\ e.round > 0 THEN task[res.claim.task].open ELSE {}
  BY <1>4
<1> HIDE DEF ok
<1>8. end'.musts = j.musts /\ end'.claim.branch = IF end'.checkpoint THEN e.branch ELSE j.claim.branch
  <2>1. ok \in BOOLEAN /\ e.branch \in BOOLEAN /\ Decide(j, ok, e.branch, FALSE)
    BY <1>6, <1>7
  <2>2. /\ SameFinding(j, end')
        /\ end'.claim.branch = IF end'.checkpoint THEN e.branch ELSE j.claim.branch
    BY <1>1, <2>1, DecideEffect
  <2> QED
    BY <2>2 DEF SameFinding
<1>9. ok /\ e.round > 0 /\ end'.claim.branch = e.branch
  <2>1. end'.musts = j.musts
    BY <1>8
  <2>2. ok /\ e.round > 0
    BY <1>7, <2>1
  <2>3. j.claim.branch = e.branch
    BY <1>7, <2>2
  <2>4. end'.claim.branch = e.branch
    BY <1>8, <2>3
  <2> QED
    BY <2>2, <2>4
<1>10. /\ e.ok
       /\ ~e.sealed => task' = task
       /\ e.sealed => task' = CloseRound(end'.claim)
  BY <1>1, <1>6, <1>9 DEF CloseRound
<1> QED
  BY <1>1, <1>2, <1>6, <1>9, <1>10, ClosedTells

LEMMA VerifyTellsStep ==
  ASSUME ClaimsInv, RecordsAreOne, PastReviews, VerifyTells, [Next]_vars
  PROVE  VerifyTells'
<1>1. Inv /\ TypeOK /\ conf' = conf
  BY ClaimsStayTyped DEF ClaimsInv
<1>2. ASSUME pc \in {"handback", "route", "attempt", "limited", "backoff", "seam"},
             end'.claim = end.claim, end'.musts = end.musts
      PROVE  VerifyTells'
  <2>1. ~SessionReviews
    BY <1>2 DEF SessionReviews, Working
  <2>2. Positions' = Positions
    BY <1>1, ConfStays
  <2>3. Told(end.claim, task)' <=> Told(end.claim, task')
    BY <1>2, <2>2 DEF Told, Findings, Holder
  <2>4. Told(end.claim, task) => Told(end.claim, task')
    BY <2>1, ToldStays
  <2> QED
    BY <1>2, <2>3, <2>4 DEF VerifyTells
<1>3. CASE PhaseStarts \/ PhaseRefused
  <2>1. end' = NoEnd \/ end'.musts = {}
    BY <1>1, <1>3, PhaseStartsEffect, PhaseRefusedEffect
  <2> QED
    BY <2>1 DEF VerifyTells, NoEnd
<1>4. CASE AttemptRefused \/ Waited
  <2>1. pc \in {"attempt", "limited", "backoff"} /\ end'.claim = end.claim /\ end'.musts = end.musts
    BY <1>1, <1>4 DEF TypeOK, PhaseEnds, AttemptRefused, Waited
  <2> QED
    BY <1>2, <2>1
<1>5. CASE JudgeVerification \/ JudgePhase \/ JudgeOther
  BY <1>5, VerifyTellsJudged
<1>6. CASE peekCheckpointClaim
  <2>1. end'.musts = end.musts /\ end.claim = NoClaim
    BY <1>1, <1>6, PeekEffect DEF Peeks
  <2>2. end.musts = {}
    BY <2>1 DEF ClaimsInv, EndsAgree, EndHolds, NoClaim
  <2> QED
    BY <2>1, <2>2 DEF VerifyTells
<1>7. CASE Handback
  <2>1. pc = "handback" /\ end'.claim = end.claim /\ end'.musts = end.musts
    BY <1>1, <1>7, HandbackEffect
  <2> QED
    BY <1>2, <2>1
<1>8. CASE Route
  <2>1. pc = "route" /\ (SameEnd(end, end') \/ end'.musts = {})
    BY <1>1, <1>8, RouteEffect DEF RouteFrame, RouteReturns, RouteRetries, RouteWaits, SameEnd, EmptyEnd
  <2>2. CASE SameEnd(end, end')
    BY <1>2, <2>1, <2>2 DEF SameEnd
  <2> QED
    BY <2>1, <2>2 DEF VerifyTells
<1>9. CASE Seam
  <2>1. pc = "seam" /\ end'.claim = end.claim /\ end'.musts = end.musts
    BY <1>1, <1>9, SeamEffect DEF SeamCommon, SeamGoesOn, SeamRefused, SeamStops
  <2> QED
    BY <1>2, <2>1
<1>10. CASE SequenceOver \/ SessionSpawns \/ SessionStep \/ Salvage \/ releaseCarried \/ EndWait
  <2>1. pc' \notin {"handback", "route", "attempt", "limited", "backoff", "seam"}
    <3>1. SessionStep \/ Salvage => pc' \in {"session", "salvage", "judge"}
      BY SessionReports, RowsMoveStep DEF ClaimsInv, Learns
    <3> QED
      BY <1>1, <1>10, <3>1, ReleaseCarriedEffect DEF SequenceOver, SessionSpawns, EndWait
  <2> QED
    BY <2>1 DEF VerifyTells
<1>11. CASE Others \/ UNCHANGED vars
  <2>1. UNCHANGED <<pc, i, end>>
    BY <1>1, <1>11, OthersEffect DEF vars
  <2>2. CASE pc \in {"handback", "route", "attempt", "limited", "backoff", "seam"}
    BY <1>2, <2>1, <2>2
  <2> QED
    BY <2>1, <2>2 DEF VerifyTells
<1> QED
  BY <1>3, <1>4, <1>5, <1>6, <1>7, <1>8, <1>9, <1>10, <1>11, NextCases DEF DriverAlone

\* A fix that follows a review is told from the seam on, but for one that a handoff respawned.
FixIsTold ==
  /\ i \in Positions /\ Phases[i] = "fix" /\ ReviewShaped(i - 1) /\ cnt.chain = 0
  /\ \/ pc \in {"attempt", "session", "salvage", "judge", "handback", "route", "limited", "backoff"}
     \/ pc = "boundary" /\ ~cnt.respawn
  => Told(carried, task)

LEMMA FixIsToldStep ==
  ASSUME ClaimsInv, Straight, ReviewTells, VerifyTells, FixIsTold, [Next]_vars
  PROVE  FixIsTold'
<1>1. /\ Inv /\ TypeOK /\ conf \in Configs /\ conf' = conf /\ i \in Nat /\ cnt.chain \in Nat
      /\ Positions' = Positions /\ Phases' = Phases
  <2>1. Inv /\ TypeOK /\ conf \in Configs /\ conf' = conf
    BY NextKeepsConf DEF ClaimsInv, Inv, TypeOK
  <2>2. i \in Nat /\ cnt.chain \in Nat
    BY <2>1, ConfFacts, BoundsAssumption DEF TypeOK, Counters
  <2>3. Positions' = Positions /\ Phases' = Phases
    BY <2>1, ConfStays
  <2> QED
    BY <2>1, <2>2, <2>3
<1>3. ASSUME i' = i, carried' = carried, cnt'.chain = 0 => cnt.chain = 0,
             \/ pc' \in {"attempt", "session", "salvage", "judge", "handback", "route", "limited", "backoff"}
             \/ pc' = "boundary" /\ ~cnt'.respawn,
             \/ pc \in {"attempt", "session", "salvage", "judge", "handback", "route", "limited", "backoff"}
             \/ pc = "boundary" /\ (cnt'.chain = 0 => ~cnt.respawn)
      PROVE  FixIsTold'
  <2> SUFFICES ASSUME i \in Positions, Phases[i] = "fix", ReviewShaped(i - 1), cnt'.chain = 0
               PROVE  Told(carried, task')
    <3>1. ReviewShaped(i - 1)' <=> ReviewShaped(i - 1)
      BY <1>1, <1>3 DEF ReviewShaped, Last
    <3>2. Told(carried, task)' <=> Told(carried, task')
      BY <1>1, <1>3 DEF Told, Findings, Holder
    <3> QED
      BY <1>1, <1>3, <3>1, <3>2 DEF FixIsTold
  <2>1. Told(carried, task)
    BY <1>3 DEF FixIsTold
  <2>2. ~SessionReviews
    BY DEF SessionReviews, ReviewShaped
  <2> QED
    BY <2>1, <2>2, ToldStays
<1>4. ASSUME pc' \notin {"attempt", "session", "salvage", "judge", "handback", "route", "limited", "backoff",
                         "boundary"}
      PROVE  FixIsTold'
  BY <1>4 DEF FixIsTold
<1>5. CASE SequenceOver \/ PhaseRefused \/ AttemptRefused \/ releaseCarried \/ EndWait
  <2>1. pc' \in {"release", "seam", "wait", "done"}
    BY <1>1, <1>5, PhaseRefusedEffect, ReleaseCarriedEffect DEF SequenceOver, AttemptRefused, EndWait
  <2> QED
    BY <1>4, <2>1
<1>6. CASE PhaseStarts
  <2>1. /\ pc = "boundary" /\ pc' = "attempt" /\ i' = i /\ carried' = carried
        /\ cnt'.chain = IF cnt.respawn THEN cnt.chain + 1 ELSE cnt.chain
    BY <1>1, <1>6, PhaseStartsEffect
  <2>2. cnt'.chain = 0 => cnt.chain = 0 /\ ~cnt.respawn
    BY <1>1, <2>1
  <2> QED
    BY <1>3, <2>1, <2>2
<1>7. ASSUME i' = i, carried' = carried, cnt'.chain = cnt.chain,
             pc \in {"attempt", "session", "salvage", "judge", "handback", "route", "limited", "backoff"},
             pc' # "boundary"
      PROVE  FixIsTold'
  BY <1>3, <1>4, <1>7
<1>8. CASE SessionSpawns \/ Waited
  BY <1>7, <1>8 DEF SessionSpawns, Waited
<1>9. CASE JudgeVerification \/ JudgePhase \/ JudgeOther \/ peekCheckpointClaim \/ Handback
  <2>1. pc \in {"judge", "handback"} /\ pc' \in {"route", "handback"} /\ UNCHANGED <<i, carried, cnt>>
    BY <1>1, <1>9, JudgeEffect, PeekEffect, HandbackEffect DEF Judges, JudgeFrame
  <2> QED
    BY <1>7, <2>1
<1>10. CASE Route
  <2>1. pc = "route" /\ pc' # "boundary" /\ UNCHANGED <<i, carried, cnt>>
    BY <1>1, <1>10, RouteEffect DEF RouteFrame, RouteReturns, RouteRetries, RouteWaits
  <2> QED
    BY <1>7, <2>1
<1>11. CASE SessionStep \/ Salvage
  <2>1. pc \in {"session", "salvage"} /\ pc' # "boundary" /\ i' = i /\ carried' = carried /\ cnt'.chain = cnt.chain
    BY <1>1, <1>11, SessionClaimsEffect, RecordsBranchEffect, DeclaresNoCodeEffect, ReviewsEffect, SettlesEffect,
       SessionEndsEffect, SalvageEffect DEF SessionStep, Works, SessionSteps
  <2> QED
    BY <1>7, <2>1
<1>12. CASE Others \/ UNCHANGED vars
  <2>1. UNCHANGED <<pc, i, carried, cnt>>
    BY <1>1, <1>12, OthersEffect DEF vars
  <2>2. CASE \/ pc \in {"attempt", "session", "salvage", "judge", "handback", "route", "limited", "backoff"}
             \/ pc = "boundary" /\ ~cnt.respawn
    BY <1>3, <2>1, <2>2
  <2> QED
    BY <2>1, <2>2 DEF FixIsTold
<1>13. CASE Seam
  <2>1. CASE pc' # "boundary"
    BY <1>1, <1>4, <1>13, <2>1, SeamStaysInPhase
  <2>2. CASE pc' = "boundary" /\ i' = i /\ i = 1
    <3>1. 1 - 1 \notin Positions
      BY <1>1, ConfFacts
    <3>2. ~ReviewShaped(i - 1)'
      BY <1>1, <2>2, <3>1 DEF ReviewShaped
    <3> QED
      BY <3>2 DEF FixIsTold
  <2>3. CASE pc' = "boundary" /\ cnt'.respawn
    BY <2>3 DEF FixIsTold
  <2>4. CASE SeamAdvances
    <3>1. /\ pc = "seam" /\ i' = i + 1 /\ task' = task /\ carried' = Taken /\ ~end.handoff /\ ~end.empty
          /\ Last(i) \/ end.checkpoint
      BY <2>4 DEF SeamAdvances, AtSeam, Passes, Settled
    <3> SUFFICES ASSUME i + 1 \in Positions, Phases[i + 1] = "fix", ReviewShaped(i)
                 PROVE  Told(carried', task)
      <4>1. i' - 1 = i
        BY <1>1, <3>1
      <4>2. ReviewShaped(i - 1)' <=> ReviewShaped(i)
        BY <1>1, <4>1 DEF ReviewShaped, Last
      <4>3. Told(carried, task)' <=> Told(carried', task)
        BY <1>1, <3>1 DEF Told, Findings, Holder
      <4> QED
        BY <1>1, <3>1, <4>2, <4>3 DEF FixIsTold
    <3>2. ~Last(i) /\ ~ReviewShaped(i + 1)
      BY <1>1, ConfFacts DEF Last, ReviewShaped
    <3>3. end.checkpoint /\ Told(end.claim, task)
      BY <3>1, <3>2 DEF ReviewTells
    <3> QED
      BY <3>1, <3>3, CheckpointIsTaken
  <2>5. CASE SeamVerifies
    <3>1. /\ pc = "seam" /\ task' = task /\ carried' = Taken /\ end.musts # {} /\ end.checkpoint
      BY <2>5 DEF SeamVerifies, AtSeam
    <3>2. Told(end.claim, task) /\ carried' = end.claim
      BY <3>1, CheckpointIsTaken DEF VerifyTells
    <3>3. Told(carried, task)' <=> Told(carried', task)
      BY <1>1, <3>1 DEF Told, Findings, Holder
    <3> QED
      BY <3>2, <3>3 DEF FixIsTold
  <2> QED
    BY <1>1, <1>13, <2>1, <2>2, <2>3, <2>4, <2>5, SeamAgain
<1> QED
  BY <1>5, <1>6, <1>8, <1>9, <1>10, <1>11, <1>12, <1>13, NextCases DEF DriverAlone

ToldInv ==
  /\ EarnedInv /\ RecordsAreOne /\ PastReviews /\ ReviewTells /\ VerifyTells
  /\ ~Strays => FixIsTold
  /\ FixComesOnce => FixesAddUp

LEMMA ToldInvInit == Init => ToldInv
<1> SUFFICES ASSUME Init PROVE ToldInv
  OBVIOUS
<1>1. EarnedInv /\ TypeOK /\ conf \in Configs
  BY EarnedInvInit, InitInv DEF Inv, Init
<1>2. RecordsAreOne /\ PastReviews
  <2>1. \A t \in Tasks : task[t].lease # "ours" /\ \A j \in Positions : task[t].rec[j] = NoRecord
    BY DEF Init
  <2> QED
    BY <2>1 DEF RecordsAreOne, PastReviews, NoRecord
<1>3. ReviewTells /\ VerifyTells
  BY DEF Init, ReviewTells, VerifyTells
<1>4. FixIsTold
  <2>1. i = 1 /\ 1 - 1 \notin Positions
    BY <1>1, ConfFacts DEF Init
  <2> QED
    BY <2>1 DEF FixIsTold, ReviewShaped
<1>5. FixesAddUp
  <2>1. /\ cnt.verifyRoundsRun = 0
        /\ \A t \in Tasks, r \in 1 .. MaxRound : hist.fixes[t][r] = 0
    BY DEF Init
  <2>2. ReviewRoundCap \in Nat \ {0, 1}
    BY BoundsAssumption
  <2> QED
    BY <2>1, <2>2 DEF FixesAddUp
<1> QED
  BY <1>1, <1>2, <1>3, <1>4, <1>5 DEF ToldInv

LEMMA ToldInvNext == ToldInv /\ [Next]_vars => ToldInv'
<1> SUFFICES ASSUME ToldInv, [Next]_vars PROVE ToldInv'
  OBVIOUS
<1>1. /\ EarnedInv /\ ClaimsInv /\ Inv /\ RecordsAreOne /\ PastReviews /\ ReviewTells /\ VerifyTells
      /\ ~Strays => Straight /\ FixIsTold
  BY DEF ToldInv, EarnedInv, HoldingInv, KeepsInv, ClaimsInv
<1>2. EarnedInv'
  BY <1>1, EarnedInvNext
<1>3. RecordsAreOne' /\ PastReviews' /\ ReviewTells' /\ VerifyTells'
  BY <1>1, RecordsAreOneStep, PastReviewsStep, ReviewTellsStep, VerifyTellsStep
<1>4. (Strays' <=> Strays) /\ (FixComesOnce' <=> FixComesOnce)
  BY NextKeepsConf DEF Strays, Moves, FixComesOnce, Positions, Phases
<1>5. ~Strays => FixIsTold'
  BY <1>1, FixIsToldStep
<1>6. FixComesOnce => FixesAddUp'
  BY <1>1, FixesAddUpStep DEF ToldInv
<1> QED
  BY <1>2, <1>3, <1>4, <1>5, <1>6 DEF ToldInv

\* The rounds of review, fix and verify come to an end: the fix that follows a review finds
\* what it is to apply, no MUST is fixed as often as the cap, whatever the plane counts and
\* however often the drain respawns, and what is left open goes to the operator and never
\* back to the queue (loop.go drainPhases, checkpointEvidence, nonConvergenceReason).
THEOREM SequenceRoundsConverge == Spec => []RoundsConverge
<1>1. Init => ToldInv
  BY ToldInvInit
<1>2. ToldInv /\ [Next]_vars => ToldInv'
  BY ToldInvNext
<1>3. ASSUME ToldInv PROVE RoundsConverge
  <2>1. Inv /\ TypeOK /\ (~Forgets => MustsReachTheOperator)
    BY <1>3 DEF ToldInv, EarnedInv, HoldingInv, KeepsInv, ClaimsInv, Inv, Keeps
  <2>2. ASSUME ~Strays PROVE FixHasFindings
    <3> SUFFICES ASSUME pc = "session", Phases[i] = "fix", cnt.chain = 0, ReviewShaped(i - 1), Holds(carried)
                 PROVE  Findings(carried, task[carried.task])
      BY DEF FixHasFindings, Findings
    <3>1. i \in Positions
      BY <2>1 DEF Inv, InPhase, Ending
    <3>2. Told(carried, task)
      BY <1>3, <2>2, <3>1 DEF ToldInv, FixIsTold
    <3> QED
      BY <3>2 DEF Told, Holder, Holds
  <2>3. ASSUME FixComesOnce PROVE FixesAreBounded
    <3> SUFFICES ASSUME NEW t \in Tasks, NEW r \in 1 .. MaxRound PROVE hist.fixes[t][r] < ReviewRoundCap
      BY DEF FixesAreBounded
    <3>1. /\ cnt.verifyRoundsRun <= ReviewRoundCap - 2
          /\ hist.fixes[t][r] <= cnt.verifyRoundsRun + (IF Begun THEN 1 ELSE 0)
      BY <1>3, <2>3 DEF ToldInv, FixesAddUp
    <3>2. cnt.verifyRoundsRun \in Nat /\ ReviewRoundCap \in Nat /\ hist.fixes[t][r] \in Nat
      BY <2>1, FixFacts
    <3> QED
      BY <3>1, <3>2
  <2> QED
    BY <2>1, <2>2, <2>3 DEF RoundsConverge
<1> QED
  BY <1>1, <1>2, <1>3, PTL DEF Spec

=============================================================================
