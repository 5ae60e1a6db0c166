------------------------- MODULE PhaseSequenceProofs -------------------------
(***************************************************************************)
(* What sends a phase of a drain round again is bounded, for any phases    *)
(* and tasks, whatever calls fail, however sessions end, and whatever      *)
(* others do to the tasks meanwhile.  After it, what every step does, said *)
(* of the fields it can disturb: the rows of the plane, the session's      *)
(* result, and the phaseEnd on its way from the verdict to the seam.       *)
(***************************************************************************)
EXTENDS PhaseSequence, TLAPS

Ending == pc \in {"release", "wait", "done"}

\* A phase that has started is one of the sequence.
InPhase == pc # "boundary" /\ ~Ending => i \in Positions

\* A handoff is granted under its bounds, and charged before anything else happens.
HandoffsAreGranted == cnt.respawn => MayRespawn /\ (pc = "boundary" \/ Ending)

\* A dead phase names the task that died with it.
DeathHasATask == end.dead => end.claim.task \in Tasks

\* In the first phase each death of a task is a retry of it, or another task has died
\* since and the target has counted one more.
DeathsAddUp ==
  /\ ~Ending => fleetDead < FleetDeadBound
  /\ i = 1 /\ ~Ending =>
       /\ cnt.deadRetries < PerTaskDeadBound
       /\ \A t \in Tasks :
            /\ hist.deaths[t] <= fleetDead
            /\ \/ hist.deaths[t] = 0 \/ hist.deaths[t] < fleetDead
               \/ t = cnt.deadTask /\ hist.deaths[t] <= cnt.deadRetries

Inv ==
  /\ TypeOK /\ InPhase /\ HandoffsAreGranted /\ HandoffsWithinCeiling
  /\ DeathHasATask /\ DeathsAddUp /\ DeathsAreBounded

-----------------------------------------------------------------------------
(* The configuration, the claims and the calls to the plane.               *)

\* What ConfigsAssumption says of the drain's own configuration.
LEMMA ConfFacts ==
  ASSUME conf \in Configs
  PROVE  /\ Phases \in Seq(Kinds) /\ Len(Phases) \in Nat \ {0} /\ Positions = 1 .. Len(Phases)
         /\ \A j \in Positions : Phases[j] \in Kinds
         /\ NoTask \notin Tasks
         /\ Ends \subseteq ExitKinds /\ CountsSpend \in BOOLEAN /\ MaxIterations \in Nat
         /\ MaxTip \in Nat \ {0} /\ MaxRun \in Nat /\ MaxRound \in Nat \ {0}
  BY ConfigsAssumption
     DEF Phases, Positions, Tasks, Ends, CountsSpend, MaxIterations, MaxTip, MaxRun, MaxRound

\* The fix a verification sends the drain back to is never its first phase.
LEMMA FixIsNotFirst ==
  ASSUME conf \in Configs, i \in Positions, Phases[i] = "verify"
  PROVE  fixIdx \in Positions /\ fixIdx > 1
<1> DEFINE pairs == {j \in Positions : Phases[j] = "fix" /\ j < Len(Phases) /\ Phases[j + 1] = "verify"}
<1>1. \A j \in Positions : Phases[j] = "verify" => j > 2 /\ j = Len(Phases) /\ Phases[j - 1] = "fix"
  BY ConfigsAssumption DEF Phases, Positions
<1>2. Len(Phases) \in Nat
  BY ConfFacts
<1>3. i - 1 \in pairs
  BY <1>1, <1>2 DEF Positions
<1>4. \A j \in pairs : j = Len(Phases) - 1 /\ j > 1
  BY <1>1, <1>2 DEF Positions
<1>5. \A k \in pairs : k <= i - 1
  BY <1>3, <1>4, <1>2
<1>6. pairs # {} /\ fixIdx = CHOOSE j \in pairs : \A k \in pairs : k <= j
  BY <1>3 DEF fixIdx
<1>7. fixIdx \in pairs
  <2> HIDE DEF pairs
  <2> QED
    BY <1>3, <1>5, <1>6
<1> QED
  BY <1>4, <1>7

LEMMA MayIsBoolean == \A fault : May(fault) \subseteq BOOLEAN
  BY DEF May

LEMMA CanIsBoolean == \A move : Can(move) \subseteq BOOLEAN
  BY DEF Can

LEMMA HeldHasATask ==
  ASSUME NEW c \in Claims, c.task # NoTask
  PROVE  c.task \in Tasks /\ c.run \in Runs /\ RunOf(c) \in RunIds
  BY DEF Claims, RunOf, RunIds

LEMMA RunsAreIds == \A c \in Claims : RunOf(c) \in RunIds
  BY DEF Claims, RunOf, RunIds

LEMMA NoClaimIsAClaim == ASSUME MaxRun \in Nat PROVE NoClaim \in Claims
  BY DEF NoClaim, Claims, Runs

LEMMA ReturnedType ==
  ASSUME task \in [Tasks -> TaskRows], NEW c \in Claims, c.task \in Tasks
  PROVE  Returned(c) \in [Tasks -> TaskRows]
<1> DEFINE lease == IF ~c.wip THEN "queue" ELSE IF task[c.task].tip = 0 THEN "queue" ELSE "takeover"
<1>1. lease \in Leases
  BY DEF Leases
<1>2. Returned(c) = [task EXCEPT ![c.task].lease = lease]
  BY DEF Returned
<1> HIDE DEF lease
<1>3. [task[c.task] EXCEPT !.lease = lease] \in TaskRows
  BY <1>1 DEF TaskRows
<1> QED
  BY <1>2, <1>3

LEMMA CloseRoundType ==
  ASSUME task \in [Tasks -> TaskRows], NEW c \in Claims, c.task \in Tasks
  PROVE  CloseRound(c) \in [Tasks -> TaskRows]
<1> DEFINE old == task[c.task].rec
           rec == [j \in Positions |->
                     IF old[j].state = "sealed" THEN [old[j] EXCEPT !.state = "open"] ELSE old[j]]
<1>1. old \in [Positions -> Records]
  BY DEF TaskRows
<1>2. rec \in [Positions -> Records]
  BY <1>1 DEF Records
<1>3. CloseRound(c) = [task EXCEPT ![c.task].rec = rec]
  BY DEF CloseRound
<1> HIDE DEF rec
<1> QED
  BY <1>2, <1>3, SMTT(30) DEF TaskRows

\* Whatever becomes of the handback, rows stay rows, and fixes and deaths are as they were.
LEMMA ReleaseType ==
  ASSUME task \in [Tasks -> TaskRows], hist \in Histories, MaxRun \in Nat,
         NEW c \in Claims, NEW b \in BOOLEAN, NEW q \in BOOLEAN, releaseHeldClaim(c, b, q)
  PROVE  /\ task' \in [Tasks -> TaskRows]
         /\ hist' \in Histories /\ hist'.deaths = hist.deaths /\ hist'.fixes = hist.fixes
<1>1. CASE b /\ Held(c)
  <2>1. c.task \in Tasks /\ RunOf(c) \in RunIds
    BY <1>1, HeldHasATask DEF Held
  <2>2. Returned(c) \in [Tasks -> TaskRows]
    BY <2>1, ReturnedType
  <2>3. PICK ok \in May("release") :
          LET done == ok /\ Holds(c)
          IN /\ task' = IF done THEN Returned(c) ELSE task
             /\ q = (done /\ ~c.wip)
             /\ hist' = [hist EXCEPT !.back = @ \cup {RunOf(c)},
                                     !.ended = IF done THEN @ \cup {RunOf(c)} ELSE @]
    BY <1>1 DEF releaseHeldClaim
  <2>4. task' \in [Tasks -> TaskRows]
    BY <2>2, <2>3
  <2>5. PICK back \in SUBSET RunIds, ended \in SUBSET RunIds :
          hist' = [hist EXCEPT !.back = back, !.ended = ended]
    <3>1. hist.back \cup {RunOf(c)} \in SUBSET RunIds /\ hist.ended \cup {RunOf(c)} \in SUBSET RunIds
          /\ hist.ended \in SUBSET RunIds
      BY <2>1 DEF Histories
    <3>2. \/ hist' = [hist EXCEPT !.back = @ \cup {RunOf(c)}, !.ended = @ \cup {RunOf(c)}]
          \/ hist' = [hist EXCEPT !.back = @ \cup {RunOf(c)}, !.ended = @]
      BY <2>3
    <3> QED
      BY <3>1, <3>2
  <2> QED
    BY <2>4, <2>5 DEF Histories
<1>2. CASE ~(b /\ Held(c))
  BY <1>2 DEF releaseHeldClaim
<1> QED
  BY <1>1, <1>2

LEMMA ParksType ==
  ASSUME task \in [Tasks -> TaskRows], NEW c \in Claims, Parks(c)
  PROVE  task' \in [Tasks -> TaskRows]
<1>1. "parked" \in Leases
  BY DEF Leases
<1>2. task' = task \/ (c.task # NoTask /\ task' = [task EXCEPT ![c.task].lease = "parked"])
  BY DEF Parks
<1>3. CASE c.task # NoTask /\ task' = [task EXCEPT ![c.task].lease = "parked"]
  <2>1. c.task \in Tasks
    BY <1>3, HeldHasATask
  <2>2. [task[c.task] EXCEPT !.lease = "parked"] \in TaskRows
    BY <1>1, <2>1 DEF TaskRows
  <2> DEFINE row == [task[c.task] EXCEPT !.lease = "parked"]
  <2>3. task' = [task EXCEPT ![c.task] = row]
    BY <1>3
  <2>4. row \in TaskRows
    BY <2>2
  <2> HIDE DEF row
  <2> QED
    BY <2>1, <2>3, <2>4
<1> QED
  BY <1>2, <1>3

\* What the evidence of a phase may come to.
Verdicts == [ok : BOOLEAN, branch : BOOLEAN, round : Rounds, sealed : BOOLEAN]

LEMMA EvidenceType ==
  ASSUME task \in [Tasks -> TaskRows], MaxRound \in Nat, i \in Positions,
         NEW c \in Claims, c.task \in Tasks, NEW reported \in BOOLEAN,
         NEW e \in checkpointEvidence(c, reported)
  PROVE  e \in Verdicts
<1>1. PICK read \in BOOLEAN, known \in BOOLEAN : e = Verdict(c, reported, read, known)
  BY MayIsBoolean DEF checkpointEvidence
<1>2. task[c.task] \in TaskRows
  OBVIOUS
<1>3. task[c.task].rec[i] \in Records
  BY <1>2 DEF TaskRows
<1>4. 0 \in Rounds
  BY DEF Rounds
<1>5. task[c.task].rec[i].round \in Rounds
  BY <1>3 DEF Records
<1> QED
  BY <1>1, <1>4, <1>5 DEF Verdict, Verdicts

-----------------------------------------------------------------------------
(* A step keeps the types when every variable keeps its own, and the       *)
(* bounds when it neither starts, ends nor respawns a phase.               *)

LEMMA ConfStays ==
  ASSUME conf' = conf
  PROVE  /\ Phases' = Phases /\ Tasks' = Tasks /\ Positions' = Positions /\ MaxIterations' = MaxIterations
         /\ Claims' = Claims /\ RunIds' = RunIds /\ TaskRows' = TaskRows /\ Counters' = Counters
         /\ Tries' = Tries /\ Sessions' = Sessions /\ PhaseEnds' = PhaseEnds /\ Histories' = Histories
<1>1. /\ Phases' = Phases /\ Tasks' = Tasks /\ Positions' = Positions /\ MaxIterations' = MaxIterations
      /\ MaxTip' = MaxTip /\ MaxRun' = MaxRun /\ MaxRound' = MaxRound
  BY DEF Phases, Tasks, Positions, MaxIterations, MaxTip, MaxRun, MaxRound
<1>2. Runs' = Runs /\ Rounds' = Rounds /\ Records' = Records
  BY <1>1 DEF Runs, Rounds, Records
<1>3. Claims' = Claims /\ RunIds' = RunIds
  BY <1>1, <1>2 DEF Claims, RunIds
<1>4. TaskRows' = TaskRows /\ Counters' = Counters /\ Tries' = Tries
  BY <1>1, <1>2 DEF TaskRows, Counters, Tries
<1>5. Sessions' = Sessions /\ PhaseEnds' = PhaseEnds /\ Histories' = Histories
  BY <1>1, <1>2, <1>3 DEF Sessions, PhaseEnds, Histories
<1> QED
  BY <1>1, <1>3, <1>4, <1>5

LEMMA TypeStep ==
  ASSUME TypeOK, conf' = conf, task' \in [Tasks -> TaskRows], pc' \in Places,
         i' \in 1 .. Len(Phases) + 1, carried' \in Claims, cnt' \in Counters, try' \in Tries,
         res' \in Sessions, end' \in PhaseEnds, stop' \in {"no", "stop", "error"},
         fleetDead' \in 0 .. FleetDeadBound, hist' \in Histories
  PROVE  TypeOK'
  BY ConfStays DEF TypeOK

\* The step leaves the phase, the deaths and the counts of respawns as they were.
SameCounts ==
  /\ conf' = conf /\ i' = i /\ fleetDead' = fleetDead /\ hist'.deaths = hist.deaths
  /\ cnt'.chain = cnt.chain /\ cnt'.handoffs = cnt.handoffs /\ cnt'.respawn = cnt.respawn
  /\ cnt'.deadTask = cnt.deadTask /\ cnt'.deadRetries = cnt.deadRetries

\* The step goes on within the phase, or ends the drain.
GoesOn ==
  /\ pc' # "boundary"
  /\ pc = "boundary" => Ending' \/ (i \in Positions /\ ~cnt.respawn)
  /\ Ending => Ending'

LEMMA QuietStep ==
  ASSUME Inv, TypeOK', SameCounts, GoesOn, DeathHasATask'
  PROVE  Inv'
<1>1. Positions' = Positions /\ Tasks' = Tasks /\ MaxIterations' = MaxIterations
  BY ConfStays DEF SameCounts
<1>2. InPhase'
  BY <1>1 DEF Inv, InPhase, SameCounts, GoesOn
<1>3. HandoffsAreGranted' /\ HandoffsWithinCeiling'
  BY <1>1 DEF Inv, HandoffsAreGranted, HandoffsWithinCeiling, MayRespawn, SameCounts, GoesOn, Ending
<1>4. DeathsAddUp' /\ DeathsAreBounded'
  BY <1>1 DEF Inv, DeathsAddUp, DeathsAreBounded, SameCounts, GoesOn, Ending
<1> QED
  BY <1>2, <1>3, <1>4 DEF Inv

-----------------------------------------------------------------------------
(* A drain starts with nothing held and nothing counted.                   *)

LEMMA NothingIsTyped ==
  ASSUME conf \in Configs
  PROVE  /\ NoClaim \in Claims /\ NoEnd \in PhaseEnds /\ NoTry \in Tries
         /\ NoSession \in Sessions /\ NoRecord \in Records
<1>1. MaxRun \in Nat /\ MaxRound \in Nat /\ MaxTip \in Nat
  BY ConfFacts
<1>2. 0 \in Runs /\ 0 \in Rounds /\ 0 \in 0 .. MaxTip
  BY <1>1 DEF Runs, Rounds
<1>3. NoClaim \in Claims
  BY <1>2 DEF NoClaim, Claims
<1>4. NoEnd \in PhaseEnds
  BY <1>2, <1>3 DEF NoEnd, PhaseEnds
<1>5. NoTry \in Tries
  BY <1>2 DEF NoTry, Tries
<1>6. NoRun \in RunIds
  BY <1>2 DEF NoRun, RunIds
<1>7. <<"clean", "fine">> \in ExitKinds
  BY DEF ExitKinds
<1>8. "clean" \in {e[1] : e \in ExitKinds} /\ "fine" \in {e[2] : e \in ExitKinds}
  BY <1>7
<1>9. NoSession \in Sessions
  BY <1>3, <1>6, <1>8 DEF NoSession, Sessions
<1>10. NoRecord \in Records
  BY <1>2 DEF NoRecord, Records
<1> QED
  BY <1>3, <1>4, <1>5, <1>9, <1>10

LEMMA InitInv == Init => Inv
<1> SUFFICES ASSUME Init PROVE Inv
  OBVIOUS
<1>1. conf \in Configs
  BY DEF Init
<1>2. Len(Phases) \in Nat \ {0} /\ MaxTip \in Nat \ {0} /\ MaxRun \in Nat /\ MaxRound \in Nat \ {0}
  BY <1>1, ConfFacts
<1>3. task \in [Tasks -> TaskRows]
  <2>1. PICK wip \in {0, 1}, before \in {0, 1} :
          task = [t \in Tasks |->
            [lease |-> IF wip = 1 THEN "takeover" ELSE "queue", run |-> 0, tip |-> wip,
             pushed |-> TRUE, nocode |-> FALSE, notes |-> 0,
             rec |-> [j \in Positions |-> NoRecord], round |-> before,
             open |-> {}, resolved |-> {}]]
    BY DEF Init
  <2>2. [j \in Positions |-> NoRecord] \in [Positions -> Records]
    BY <1>1, NothingIsTyped
  <2>3. /\ (IF wip = 1 THEN "takeover" ELSE "queue") \in Leases
        /\ 0 \in Runs /\ wip \in 0 .. MaxTip /\ 0 \in Rounds /\ before \in Rounds
    BY <1>2 DEF Leases, Runs, Rounds
  <2> QED
    BY <2>1, <2>2, <2>3 DEF TaskRows
<1>4. cnt \in Counters
  BY BoundsAssumption DEF Init, Counters
<1>5. hist \in Histories
  BY DEF Init, Histories
<1>6. TypeOK
  <2>1. i \in 1 .. Len(Phases) + 1
    BY <1>2 DEF Init
  <2>2. fleetDead \in 0 .. FleetDeadBound
    BY BoundsAssumption DEF Init
  <2>3. carried \in Claims /\ try \in Tries /\ res \in Sessions /\ end \in PhaseEnds
    BY <1>1, NothingIsTyped DEF Init
  <2>4. pc \in Places /\ stop \in {"no", "stop", "error"}
    BY DEF Init, Places
  <2> QED
    BY <1>1, <1>3, <1>4, <1>5, <2>1, <2>2, <2>3, <2>4 DEF TypeOK
<1>7. InPhase /\ HandoffsAreGranted /\ DeathHasATask
  BY DEF Init, InPhase, HandoffsAreGranted, DeathHasATask, NoEnd
<1>8. HandoffsWithinCeiling
  BY BoundsAssumption, <1>1, ConfFacts DEF Init, HandoffsWithinCeiling
<1>9. DeathsAddUp /\ DeathsAreBounded
  BY BoundsAssumption DEF Init, DeathsAddUp, DeathsAreBounded
<1> QED
  BY <1>6, <1>7, <1>8, <1>9 DEF Inv

-----------------------------------------------------------------------------
(* The head of the sequence's loop.                                        *)

LEMMA SequenceOverStep ==
  ASSUME Inv, SequenceOver
  PROVE  Inv'
<1>1. TypeOK'
  BY TypeStep DEF Inv, TypeOK, SequenceOver, Places
<1>2. SameCounts /\ GoesOn
  BY DEF SequenceOver, SameCounts, GoesOn, Ending
<1>3. DeathHasATask'
  BY ConfStays DEF Inv, DeathHasATask, SequenceOver
<1> QED
  BY <1>1, <1>2, <1>3, QuietStep

\* A respawn is charged to the chain and to the run.
LEMMA ChargedStep ==
  ASSUME Inv, pc = "boundary", i \in Positions, ChargeSpawn, TypeOK', DeathHasATask', conf' = conf,
         i' = i, fleetDead' = fleetDead, hist'.deaths = hist.deaths, pc' # "boundary"
  PROVE  Inv'
<1>1. Positions' = Positions /\ Tasks' = Tasks /\ MaxIterations' = MaxIterations
  BY ConfStays
<1>2. InPhase'
  BY <1>1 DEF InPhase
<1>3. cnt \in Counters /\ MaxIterations \in Nat /\ DrainNum \in Nat
  BY ConfFacts, BoundsAssumption DEF Inv, TypeOK
<1>4. /\ ~cnt'.respawn /\ cnt'.handoffs = cnt.handoffs + (IF cnt.respawn THEN 1 ELSE 0)
      /\ cnt'.deadTask = cnt.deadTask /\ cnt'.deadRetries = cnt.deadRetries
  BY <1>3 DEF ChargeSpawn, Counters
<1>5. HandoffsAreGranted'
  BY <1>4 DEF HandoffsAreGranted
<1>6. HandoffsWithinCeiling'
  BY <1>1, <1>3, <1>4 DEF Inv, HandoffsWithinCeiling, Counters
<1>7. DeathsAddUp' /\ DeathsAreBounded'
  BY <1>1, <1>4 DEF Inv, DeathsAddUp, DeathsAreBounded, Ending
<1> QED
  BY <1>2, <1>5, <1>6, <1>7 DEF Inv

LEMMA ChargedType ==
  ASSUME Inv, pc = "boundary", ChargeSpawn
  PROVE  cnt' \in Counters
<1>1. cnt \in Counters /\ HandoffChainCap \in Nat
  BY BoundsAssumption DEF Inv, TypeOK
<1>2. cnt.respawn => cnt.chain < HandoffChainCap
  BY DEF Inv, HandoffsAreGranted, MayRespawn
<1> DEFINE one == IF cnt.respawn THEN 1 ELSE 0
           chain == cnt.chain + one
           handoffs == cnt.handoffs + one
<1>3. one \in {0, 1} /\ (one = 1 => cnt.respawn)
  OBVIOUS
<1>4. cnt.chain \in 0 .. HandoffChainCap /\ cnt.handoffs \in Nat
  BY <1>1 DEF Counters
<1>5. chain \in 0 .. HandoffChainCap /\ handoffs \in Nat
  <2> HIDE DEF one
  <2> QED
    BY <1>1, <1>2, <1>3, <1>4
<1>6. cnt' = [cnt EXCEPT !.spawned = TRUE, !.respawn = FALSE, !.handoffs = handoffs, !.chain = chain]
  <2> HIDE DEF one
  <2>1. cnt' = [cnt EXCEPT !.spawned = TRUE, !.respawn = FALSE, !.handoffs = @ + one, !.chain = @ + one]
    BY DEF ChargeSpawn, one
  <2> QED
    BY <2>1, <1>1 DEF Counters
<1> HIDE DEF chain, handoffs
<1> QED
  BY <1>1, <1>5, <1>6 DEF Counters

LEMMA PhaseStartsStep ==
  ASSUME Inv, PhaseStarts
  PROVE  Inv'
<1>1. conf \in Configs /\ TypeOK
  BY DEF Inv, TypeOK
<1>2. i \in Positions
  BY <1>1, ConfFacts DEF TypeOK, PhaseStarts
<1>3. try' \in Tries
  <2>1. PICK b \in Tasks \cup {NoTask} :
          try' = [NoTry EXCEPT
            !.briefed = IF Held(carried) THEN carried.task ELSE b,
            !.notes = IF ReviewShaped(i) THEN task[carried.task].notes ELSE 0]
    BY DEF PhaseStarts
  <2>2. carried \in Claims
    BY <1>1 DEF TypeOK
  <2>3. (IF Held(carried) THEN carried.task ELSE b) \in Tasks \cup {NoTask}
    BY <2>2, HeldHasATask DEF Held
  <2>4. ReviewShaped(i) => carried.task \in Tasks
    BY <2>2, HeldHasATask DEF PhaseStarts
  <2>5. (IF ReviewShaped(i) THEN task[carried.task].notes ELSE 0) \in Rounds
    BY <1>1, <2>4, ConfFacts DEF TypeOK, TaskRows, Rounds
  <2> QED
    BY <1>1, <2>1, <2>3, <2>5, NothingIsTyped DEF Tries
<1>4. hist' \in Histories /\ hist'.deaths = hist.deaths
  <2>1. CountFixes \in [Tasks -> [1 .. MaxRound -> Nat]]
    <3>1. hist.fixes \in [Tasks -> [1 .. MaxRound -> Nat]]
      BY <1>1 DEF TypeOK, Histories
    <3>2. CASE Phases[i] # "fix" \/ cnt.respawn \/ carried.task = NoTask
      BY <3>1, <3>2 DEF CountFixes
    <3>3. CASE ~(Phases[i] # "fix" \/ cnt.respawn \/ carried.task = NoTask)
      <4>1. carried.task \in Tasks
        BY <1>1, <3>3, HeldHasATask DEF TypeOK
      <4> DEFINE more == [r \in 1 .. MaxRound |->
                            IF r \in task[carried.task].open THEN hist.fixes[carried.task][r] + 1
                            ELSE hist.fixes[carried.task][r]]
      <4>2. more \in [1 .. MaxRound -> Nat]
        <5>1. hist.fixes[carried.task] \in [1 .. MaxRound -> Nat]
          BY <3>1, <4>1
        <5>2. \A r \in 1 .. MaxRound : hist.fixes[carried.task][r] \in Nat
          BY <5>1
        <5>3. \A r \in 1 .. MaxRound : hist.fixes[carried.task][r] + 1 \in Nat
          BY <5>2
        <5> QED
          BY <5>2, <5>3
      <4>3. CountFixes = [hist.fixes EXCEPT ![carried.task] = more]
        BY <3>3 DEF CountFixes
      <4> HIDE DEF more
      <4> QED
        BY <3>1, <4>2, <4>3
    <3> QED
      BY <3>2, <3>3
  <2>2. hist' = [hist EXCEPT !.fixes = CountFixes]
    BY DEF PhaseStarts
  <2> QED
    BY <1>1, <2>1, <2>2 DEF TypeOK, Histories
<1>5. end' = NoEnd /\ pc' = "attempt"
  BY DEF PhaseStarts
<1>6. cnt' \in Counters
  BY ChargedType DEF PhaseStarts
<1>7. TypeOK'
  BY <1>1, <1>3, <1>4, <1>5, <1>6, TypeStep, NothingIsTyped DEF TypeOK, PhaseStarts, Places
<1>8. DeathHasATask'
  BY <1>5 DEF DeathHasATask, NoEnd
<1> QED
  BY <1>2, <1>4, <1>7, <1>8, ChargedStep DEF PhaseStarts

LEMMA PhaseRefusedStep ==
  ASSUME Inv, PhaseRefused
  PROVE  Inv'
<1>1. conf \in Configs /\ TypeOK
  BY DEF Inv, TypeOK
<1>2. i \in Positions
  BY <1>1, ConfFacts DEF TypeOK, PhaseRefused
<1>3. PICK toQueue \in BOOLEAN :
        /\ releaseHeldClaim(carried, TRUE, toQueue)
        /\ end' = [NoEnd EXCEPT !.claim = carried, !.empty = TRUE,
                                !.released = Held(carried), !.toQueue = toQueue]
  BY DEF PhaseRefused
<1>4. /\ task' \in [Tasks -> TaskRows]
      /\ hist' \in Histories /\ hist'.deaths = hist.deaths
  BY <1>1, <1>3, ReleaseType, ConfFacts DEF TypeOK
<1>5. end' \in PhaseEnds /\ ~end'.dead
  <2>1. Held(carried) \in BOOLEAN
    BY <1>1 DEF Held, TypeOK, Claims
  <2>2. carried \in Claims /\ NoEnd \in PhaseEnds
    BY <1>1, NothingIsTyped DEF TypeOK
  <2>3. end' \in PhaseEnds
    BY <1>3, <2>1, <2>2 DEF PhaseEnds
  <2> QED
    BY <1>3, <2>3 DEF NoEnd
<1>6. cnt' \in Counters
  BY ChargedType DEF PhaseRefused
<1>7. TypeOK'
  BY <1>1, <1>4, <1>5, <1>6, TypeStep DEF TypeOK, PhaseRefused, Places
<1>8. DeathHasATask'
  BY <1>5 DEF DeathHasATask
<1> QED
  BY <1>2, <1>4, <1>7, <1>8, ChargedStep DEF PhaseRefused

LEMMA AttemptStep ==
  ASSUME Inv, AttemptRefused \/ SessionSpawns
  PROVE  Inv'
<1>1. conf \in Configs /\ TypeOK
  BY DEF Inv, TypeOK
<1>2. SameCounts /\ GoesOn
  BY DEF AttemptRefused, SessionSpawns, SameCounts, GoesOn, Ending
<1>3. CASE AttemptRefused
  <2>1. end' = [end EXCEPT !.stop = TRUE] \/ end' = [end EXCEPT !.err = TRUE]
    BY <1>3 DEF AttemptRefused
  <2>2. end' \in PhaseEnds /\ end'.dead = end.dead /\ end'.claim = end.claim
    BY <1>1, <2>1, ZenonT(40) DEF TypeOK, PhaseEnds
  <2>3. TypeOK'
    BY <1>1, <1>3, <2>2, TypeStep DEF TypeOK, AttemptRefused, Places
  <2>4. DeathHasATask'
    BY <1>3, <2>2, ConfStays DEF Inv, DeathHasATask, AttemptRefused
  <2> QED
    BY <1>2, <2>3, <2>4, QuietStep
<1>4. CASE SessionSpawns
  <2>1. res' \in Sessions
    BY <1>1, <1>4, NothingIsTyped, RunsAreIds DEF TypeOK, SessionSpawns, Sessions
  <2>2. TypeOK'
    BY <1>1, <1>4, <2>1, TypeStep DEF TypeOK, SessionSpawns, Places
  <2>3. DeathHasATask'
    BY <1>4, ConfStays DEF Inv, DeathHasATask, SessionSpawns
  <2> QED
    BY <1>2, <2>2, <2>3, QuietStep
<1> QED
  BY <1>3, <1>4

-----------------------------------------------------------------------------
(* The session and the others.  They move rows of the plane and what the    *)
(* driver observes; no count and no phase is theirs.                        *)

LEMMA OthersStep ==
  ASSUME Inv, NEW t \in Tasks, LeaseLapses(t) \/ OtherTakes(t)
  PROVE  Inv'
<1>1. conf \in Configs /\ TypeOK
  BY DEF Inv, TypeOK
<1>2. task[t] \in TaskRows
  BY <1>1 DEF TypeOK
<1>3. task' \in [Tasks -> TaskRows]
  <2>1. CASE LeaseLapses(t)
    <3>1. PICK lease \in Leases : task' = [task EXCEPT ![t].lease = lease]
      BY <2>1 DEF LeaseLapses, Leases
    <3>2. [task[t] EXCEPT !.lease = lease] \in TaskRows
      BY <1>2, <3>1 DEF TaskRows
    <3> QED
      BY <1>1, <3>1, <3>2 DEF TypeOK
  <2>2. CASE OtherTakes(t)
    <3>1. task[t].run + 1 \in Runs
      BY <1>1, <1>2, <2>2, ConfFacts DEF OtherTakes, TaskRows, Runs
    <3>2. [j \in Positions |-> NoRecord] \in [Positions -> Records]
      BY <1>1, NothingIsTyped
    <3> DEFINE row == [task[t] EXCEPT !.lease = "other", !.run = task[t].run + 1,
                                      !.rec = [j \in Positions |-> NoRecord]]
    <3>3. row \in TaskRows
      BY <1>2, <3>1, <3>2 DEF TaskRows, Leases
    <3>4. task' = [task EXCEPT ![t] = row]
      BY <2>2 DEF OtherTakes
    <3> HIDE DEF row
    <3> QED
      BY <1>1, <3>3, <3>4 DEF TypeOK
  <2> QED
    BY <2>1, <2>2
<1>4. UNCHANGED <<conf, pc, i, carried, cnt, try, res, end, stop, fleetDead, hist>>
  BY DEF LeaseLapses, OtherTakes
<1>5. TypeOK'
  BY <1>1, <1>3, <1>4, TypeStep DEF TypeOK
<1> QED
  BY <1>4, <1>5, ConfStays
  DEF Inv, InPhase, HandoffsAreGranted, HandoffsWithinCeiling, DeathHasATask, DeathsAddUp,
      DeathsAreBounded, MayRespawn, Ending

LEMMA WorkingStep ==
  ASSUME Inv, pc = "session", SessionSteps, task' \in [Tasks -> TaskRows], res' \in Sessions,
         hist' \in Histories, hist'.deaths = hist.deaths
  PROVE  Inv'
<1>1. TypeOK'
  BY TypeStep DEF Inv, TypeOK, SessionSteps
<1>2. SameCounts /\ GoesOn
  BY DEF SessionSteps, SameCounts, GoesOn, Ending
<1>3. DeathHasATask'
  BY ConfStays DEF Inv, DeathHasATask, SessionSteps
<1> QED
  BY <1>1, <1>2, <1>3, QuietStep

LEMMA SessionClaimsStep ==
  ASSUME Inv, NEW t \in Tasks, SessionClaims(t)
  PROVE  Inv'
<1>1. conf \in Configs /\ TypeOK
  BY DEF Inv, TypeOK
<1>2. task[t] \in TaskRows
  BY <1>1 DEF TypeOK
<1> DEFINE run == task[t].run + 1
           wip == task[t].tip > 0
           id == [task |-> t, run |-> run]
           claim == [task |-> t, run |-> run, settled |-> FALSE, wip |-> wip, branch |-> wip]
<1>3. run \in Runs
  BY <1>1, <1>2, ConfFacts DEF SessionClaims, TaskRows, Runs
<1>4. id \in RunIds
  BY <1>3 DEF RunIds
<1>5. claim \in Claims
  BY <1>3 DEF Claims
<1>6. PICK unseen \in BOOLEAN :
        /\ task' = [task EXCEPT ![t] =
             [@ EXCEPT !.lease = "ours", !.run = run, !.rec = [j \in Positions |-> NoRecord]]]
        /\ res' = [res EXCEPT !.on = id, !.mcp = ~unseen, !.reported = FALSE,
                              !.claim = IF unseen THEN @ ELSE claim]
        /\ hist' = [hist EXCEPT !.mine = @ \cup {id},
                                !.hidden = IF unseen THEN @ \cup {id} ELSE @]
  BY CanIsBoolean DEF SessionClaims
<1> HIDE DEF run, wip, id, claim
<1>7. task' \in [Tasks -> TaskRows]
  <2>1. [j \in Positions |-> NoRecord] \in [Positions -> Records]
    BY <1>1, NothingIsTyped
  <2>2. [task[t] EXCEPT !.lease = "ours", !.run = run,
                        !.rec = [j \in Positions |-> NoRecord]] \in TaskRows
    BY <1>2, <1>3, <2>1 DEF TaskRows, Leases
  <2> QED
    BY <1>1, <1>6, <2>2 DEF TypeOK
<1>8. res' \in Sessions
  <2>1. res \in Sessions /\ (IF unseen THEN res.claim ELSE claim) \in Claims
    BY <1>1, <1>5 DEF TypeOK, Sessions
  <2> QED
    BY <1>4, <1>6, <2>1 DEF Sessions
<1>9. hist' \in Histories /\ hist'.deaths = hist.deaths
  <2>1. hist \in Histories /\ hist.mine \cup {id} \in SUBSET RunIds
        /\ hist.hidden \cup {id} \in SUBSET RunIds
    BY <1>1, <1>4 DEF TypeOK, Histories
  <2> QED
    BY <1>6, <2>1 DEF Histories
<1> QED
  BY <1>7, <1>8, <1>9, WorkingStep DEF SessionClaims

\* The row a session moves is one of the tasks.
LEMMA WorkingOnATask ==
  ASSUME TypeOK, Working
  PROVE  res.on.task \in Tasks /\ task[res.on.task] \in TaskRows
  BY DEF TypeOK, Working, Sessions, RunIds

LEMMA SessionRecordsBranchStep ==
  ASSUME Inv, SessionRecordsBranch
  PROVE  Inv'
<1>1. conf \in Configs /\ TypeOK
  BY DEF Inv, TypeOK
<1>2. res.on.task \in Tasks /\ task[res.on.task] \in TaskRows
  BY <1>1, WorkingOnATask DEF SessionRecordsBranch
<1>3. task' \in [Tasks -> TaskRows]
  <2>1. task[res.on.task].tip + 1 \in 0 .. MaxTip
    BY <1>1, <1>2, ConfFacts DEF SessionRecordsBranch, TaskRows
  <2>2. PICK pushed \in BOOLEAN :
          task' = [task EXCEPT ![res.on.task] =
            [task[res.on.task] EXCEPT !.tip = task[res.on.task].tip + 1, !.pushed = pushed]]
    BY DEF SessionRecordsBranch
  <2> DEFINE row == [task[res.on.task] EXCEPT !.tip = task[res.on.task].tip + 1, !.pushed = pushed]
  <2>3. row \in TaskRows
    BY <1>2, <2>1, <2>2 DEF TaskRows
  <2>4. task' = [task EXCEPT ![res.on.task] = row]
    BY <2>2
  <2> HIDE DEF row
  <2> QED
    BY <1>1, <1>2, <2>3, <2>4 DEF TypeOK
<1>4. res' \in Sessions
  <2>1. res \in Sessions /\ seen \in BOOLEAN
    BY <1>1 DEF TypeOK, seen
  <2>2. PICK b \in BOOLEAN, claim \in Claims :
          res' = [res EXCEPT !.reported = b, !.mcp = TRUE, !.claim = claim]
    <3>1. [res.claim EXCEPT !.wip = TRUE, !.branch = TRUE] \in Claims /\ res.claim \in Claims
      BY <2>1 DEF Sessions, Claims
    <3> QED
      BY <2>1, <3>1 DEF SessionRecordsBranch
  <2> QED
    BY <2>1, <2>2 DEF Sessions
<1> QED
  BY <1>1, <1>3, <1>4, WorkingStep DEF TypeOK, SessionRecordsBranch, Working

LEMMA SessionDeclaresNoCodeStep ==
  ASSUME Inv, SessionDeclaresNoCode
  PROVE  Inv'
<1>1. conf \in Configs /\ TypeOK
  BY DEF Inv, TypeOK
<1>2. res.on.task \in Tasks /\ task[res.on.task] \in TaskRows
  BY <1>1, WorkingOnATask DEF SessionDeclaresNoCode
<1>3. [task[res.on.task] EXCEPT !.nocode = TRUE] \in TaskRows
  BY <1>2 DEF TaskRows
<1>4. task' \in [Tasks -> TaskRows]
  BY <1>1, <1>2, <1>3 DEF TypeOK, SessionDeclaresNoCode
<1>5. res' \in Sessions
  BY <1>1 DEF TypeOK, SessionDeclaresNoCode, Sessions
<1> QED
  BY <1>1, <1>4, <1>5, WorkingStep DEF TypeOK, SessionDeclaresNoCode, Working

\* What a review leaves in the session's result.
LEMMA ReviewedStep ==
  ASSUME Inv, SessionReviews, task' \in [Tasks -> TaskRows]
  PROVE  Inv'
<1>1. res' \in Sessions
  BY DEF Inv, TypeOK, SessionReviews, Sessions
<1> QED
  BY <1>1, WorkingStep DEF Inv, TypeOK, SessionReviews, Working

LEMMA SessionReviewsStep ==
  ASSUME Inv, SessionReviews
  PROVE  Inv'
<1>1. conf \in Configs /\ TypeOK
  BY DEF Inv, TypeOK
<1> DEFINE t == res.on.task
           row == task[t]
<1>2. t \in Tasks /\ row \in TaskRows
  BY <1>1, WorkingOnATask DEF SessionReviews
<1>3. MaxRound \in Nat
  BY <1>1, ConfFacts
<1>4. CASE ~carried.branch
  <2>1. row.notes < MaxRound /\ task' = [task EXCEPT ![t].notes = @ + 1]
    BY <1>4 DEF SessionReviews
  <2>2. row.notes + 1 \in Rounds
    BY <1>2, <1>3, <2>1 DEF TaskRows, Rounds
  <2>3. [row EXCEPT !.notes = @ + 1] \in TaskRows
    BY <1>2, <2>2 DEF TaskRows
  <2>4. task' \in [Tasks -> TaskRows]
    BY <1>1, <1>2, <2>1, <2>3 DEF TypeOK
  <2> QED
    BY <1>1, <2>4, ReviewedStep
<1>5. CASE carried.branch
  <2>1. row.round < MaxRound
    BY <1>5 DEF SessionReviews
  <2>2. PICK raised \in SUBSET {row.round + 1}, met \in SUBSET row.open, again \in SUBSET row.resolved :
          task' = [task EXCEPT ![t] =
            [row EXCEPT
                      !.round = row.round + 1,
                      !.open = (row.open \ met) \cup again \cup raised,
                      !.resolved = (row.resolved \ again) \cup met,
                      !.rec[i] = [tip |-> row.tip, round |-> row.round + 1, state |-> "sealed"]]]
    BY <1>5 DEF SessionReviews
  <2> DEFINE round == row.round + 1
             open == (row.open \ met) \cup again \cup raised
             resolved == (row.resolved \ again) \cup met
             record == [tip |-> row.tip, round |-> row.round + 1, state |-> "sealed"]
  <2>3. round \in Rounds /\ round \in 1 .. MaxRound
    BY <1>2, <1>3, <2>1 DEF TaskRows, Rounds
  <2>4. open \in SUBSET (1 .. MaxRound) /\ resolved \in SUBSET (1 .. MaxRound)
    <3>1. row.open \in SUBSET (1 .. MaxRound) /\ row.resolved \in SUBSET (1 .. MaxRound)
      BY <1>2 DEF TaskRows
    <3>2. raised \in SUBSET (1 .. MaxRound)
      BY <2>3
    <3> QED
      BY <3>1, <3>2
  <2>5. record \in Records
    BY <1>2, <2>3 DEF TaskRows, Records
  <2>6. row.rec \in [Positions -> Records]
    BY <1>2 DEF TaskRows
  <2>7. task' = [task EXCEPT ![t] = [row EXCEPT !.round = round, !.open = open, !.resolved = resolved,
                                              !.rec = [row.rec EXCEPT ![i] = record]]]
    BY <2>2
  <2>8. [row.rec EXCEPT ![i] = record] \in [Positions -> Records]
    BY <2>5, <2>6
  <2> HIDE DEF round, open, resolved, record
  <2> DEFINE rec == [row.rec EXCEPT ![i] = record]
  <2>9. rec \in [Positions -> Records]
    BY <2>8
  <2> HIDE DEF rec
  <2>10. [row EXCEPT !.round = round, !.open = open, !.resolved = resolved, !.rec = rec] \in TaskRows
    BY <1>2, <2>3, <2>4, <2>9 DEF TaskRows
  <2>11. task' \in [Tasks -> TaskRows]
    BY <1>1, <1>2, <2>7, <2>10 DEF TypeOK, rec
  <2> QED
    BY <1>1, <2>11, ReviewedStep
<1> QED
  BY <1>4, <1>5

LEMMA SessionSettlesStep ==
  ASSUME Inv, SessionSettles
  PROVE  Inv'
<1>1. conf \in Configs /\ TypeOK
  BY DEF Inv, TypeOK
<1> DEFINE t == res.on.task
           row == task[t]
           sealed == row.rec[i]
           record == IF Phases[i] = "verify" /\ sealed.state = "sealed"
                     THEN [sealed EXCEPT !.state = "open"] ELSE sealed
           rec == [row.rec EXCEPT ![i] = record]
<1>2. t \in Tasks /\ row \in TaskRows /\ row.rec \in [Positions -> Records]
  BY <1>1, WorkingOnATask DEF SessionSettles, TaskRows
<1>3. i \in Positions => record \in Records
  BY <1>2 DEF Records
<1>4. rec \in [Positions -> Records]
  <2> HIDE DEF record
  <2> QED
    BY <1>2, <1>3
<1>5. task' = [task EXCEPT ![t] = [@ EXCEPT !.lease = "handed", !.rec = rec]]
  BY DEF SessionSettles
<1>6. task' \in [Tasks -> TaskRows]
  <2> HIDE DEF rec
  <2>1. [row EXCEPT !.lease = "handed", !.rec = rec] \in TaskRows
    BY <1>2, <1>4 DEF TaskRows, Leases
  <2> QED
    BY <1>1, <1>2, <1>5, <2>1 DEF TypeOK
<1>7. res' \in Sessions
  <2>1. res \in Sessions /\ res.claim \in Claims /\ [res.claim EXCEPT !.settled = TRUE] \in Claims
    BY <1>1 DEF TypeOK, Sessions, Claims
  <2>2. PICK claim \in Claims : res' = [res EXCEPT !.mcp = TRUE, !.claim = claim]
    BY <2>1 DEF SessionSettles
  <2> QED
    BY <2>1, <2>2 DEF Sessions
<1> QED
  BY <1>1, <1>6, <1>7, WorkingStep DEF TypeOK, SessionSettles, Working

\* A session ends on what the driver observed of it; whatever it spent is accounted.
LEMMA SessionEndsStep ==
  ASSUME Inv, NEW e \in Ends, SessionEnds(e)
  PROVE  Inv'
<1>1. conf \in Configs /\ TypeOK
  BY DEF Inv, TypeOK
<1>2. e \in ExitKinds
  BY <1>1, ConfFacts
<1>3. NoClaim \in Claims
  BY <1>1, NothingIsTyped
<1>4. /\ Zeroes(e) \subseteq BOOLEAN /\ May("budget") \subseteq BOOLEAN
      /\ Can("handoff") \subseteq BOOLEAN /\ Can("nomcp") \subseteq BOOLEAN
  BY MayIsBoolean, CanIsBoolean DEF Zeroes
<1>5. PICK zero \in BOOLEAN, within \in BOOLEAN, block \in BOOLEAN, quiet \in BOOLEAN :
        /\ res' = [res EXCEPT !.how = e[1], !.after = e[2], !.zero = zero, !.handoff = block,
                              !.mcp = @ \/ ~quiet,
                              !.claim = IF Unlaunched(e) THEN NoClaim ELSE @]
        /\ cnt' = [cnt EXCEPT !.spent = @ \/ ~within]
  <2>1. PICK zero \in Zeroes(e), within \in May("budget"), block \in Can("handoff"),
             quiet \in Can("nomcp") :
          /\ block => zero /\ e[1] \notin {"untrusted", "nostart"} /\ Held(res.claim)
          /\ Unlaunched(e) => zero
          /\ res' = [res EXCEPT !.how = e[1], !.after = e[2], !.zero = zero, !.handoff = block,
                                !.mcp = @ \/ ~quiet,
                                !.claim = IF Unlaunched(e) THEN NoClaim ELSE @]
          /\ cnt' = [cnt EXCEPT !.spent = @ \/ ~within]
    BY DEF SessionEnds
  <2>2. zero \in BOOLEAN /\ within \in BOOLEAN /\ block \in BOOLEAN /\ quiet \in BOOLEAN
    BY <1>4
  <2> QED
    BY <2>1, <2>2
<1>6. res' \in Sessions
  <2>1. PICK how \in {x[1] : x \in ExitKinds}, after \in {x[2] : x \in ExitKinds} :
          how = e[1] /\ after = e[2]
    BY <1>2
  <2>2. res \in Sessions
    BY <1>1 DEF TypeOK
  <2>3. PICK mcp \in BOOLEAN : mcp = (res.mcp \/ ~quiet)
    BY <2>2 DEF Sessions
  <2>4. PICK claim \in Claims : claim = IF Unlaunched(e) THEN NoClaim ELSE res.claim
    BY <1>3, <2>2 DEF Sessions
  <2>5. res' = [res EXCEPT !.how = how, !.after = after, !.zero = zero, !.handoff = block,
                           !.mcp = mcp, !.claim = claim]
    BY <1>5, <2>1, <2>3, <2>4
  <2> QED
    BY <2>2, <2>5 DEF Sessions
<1>7. cnt' \in Counters
  <2>1. cnt \in Counters
    BY <1>1 DEF TypeOK
  <2>2. PICK spent \in BOOLEAN : spent = (cnt.spent \/ ~within)
    BY <2>1 DEF Counters
  <2> QED
    BY <1>5, <2>1, <2>2 DEF Counters
<1>8. hist' \in Histories /\ hist'.deaths = hist.deaths
  <2>1. hist.unread \cup ({RunOf(res.claim)} \ {NoRun}) \in SUBSET RunIds /\ hist.unread \in SUBSET RunIds
    BY <1>1, RunsAreIds DEF TypeOK, Histories, Sessions
  <2>2. PICK unread \in SUBSET RunIds : hist' = [hist EXCEPT !.unread = unread]
    BY <2>1 DEF SessionEnds
  <2> QED
    BY <1>1, <2>2 DEF TypeOK, Histories
<1>9. TypeOK'
  BY <1>1, <1>6, <1>7, <1>8, TypeStep DEF TypeOK, SessionEnds, Places
<1>10. SameCounts /\ GoesOn
  <2>1. /\ cnt'.chain = cnt.chain /\ cnt'.handoffs = cnt.handoffs /\ cnt'.respawn = cnt.respawn
        /\ cnt'.deadTask = cnt.deadTask /\ cnt'.deadRetries = cnt.deadRetries
    BY <1>1, <1>5 DEF TypeOK, Counters
  <2> QED
    BY <1>8, <2>1 DEF SessionEnds, SameCounts, GoesOn, Ending
<1>11. DeathHasATask'
  BY ConfStays DEF Inv, DeathHasATask, SessionEnds
<1> QED
  BY <1>9, <1>10, <1>11, QuietStep

-----------------------------------------------------------------------------
(* drainPhase after the session.                                           *)

LEMMA CallStep ==
  ASSUME Inv, pc \notin {"boundary", "release", "wait", "done"}, pc' \in Places \ {"boundary"},
         UNCHANGED <<conf, i, carried, cnt, stop, fleetDead>>,
         task' \in [Tasks -> TaskRows], try' \in Tries, res' \in Sessions, end' \in PhaseEnds,
         hist' \in Histories, hist'.deaths = hist.deaths,
         end'.dead => end'.claim.task \in Tasks
  PROVE  Inv'
<1>1. TypeOK'
  BY TypeStep DEF Inv, TypeOK
<1>2. SameCounts /\ GoesOn
  BY DEF SameCounts, GoesOn, Ending
<1>3. DeathHasATask'
  BY ConfStays DEF DeathHasATask
<1> QED
  BY <1>1, <1>2, <1>3, QuietStep

LEMMA SalvageStep ==
  ASSUME Inv, Salvage
  PROVE  Inv'
<1>1. conf \in Configs /\ TypeOK
  BY DEF Inv, TypeOK
<1>2. CASE UNCHANGED <<task, res>>
  BY <1>1, <1>2, CallStep DEF Inv, TypeOK, DeathHasATask, Salvage, Places
<1>3. CASE ~(UNCHANGED <<task, res>>)
  <2> DEFINE t == res.claim.task
  <2>1. t \in Tasks /\ task[t] \in TaskRows /\ task[t].tip < MaxTip
    BY <1>1, <1>3, HeldHasATask DEF TypeOK, Salvage, Held, Sessions
  <2> DEFINE row == [task[t] EXCEPT !.tip = task[t].tip + 1, !.pushed = TRUE]
  <2>2. task[t].tip + 1 \in 0 .. MaxTip
    BY <1>1, <2>1, ConfFacts, SMTT(30) DEF TaskRows
  <2>3. row \in TaskRows
    BY <2>1, <2>2 DEF TaskRows
  <2>4. task' = [task EXCEPT ![t] = row]
    BY <1>3 DEF Salvage
  <2>5. task' \in [Tasks -> TaskRows]
    <3> HIDE DEF row
    <3> QED
      BY <1>1, <2>1, <2>3, <2>4 DEF TypeOK
  <2>6. res' = res \/ res' = [res EXCEPT !.claim.wip = TRUE, !.claim.branch = TRUE]
    BY <1>3 DEF Salvage
  <2>7. res' \in Sessions
    <3>1. res \in Sessions /\ [res.claim EXCEPT !.wip = TRUE, !.branch = TRUE] \in Claims
      BY <1>1 DEF TypeOK, Sessions, Claims
    <3>2. PICK claim \in Claims : res' = [res EXCEPT !.claim = claim]
      <4>1. CASE res' = res
        <5>1. res.claim \in Claims /\ res = [res EXCEPT !.claim = res.claim]
          BY <3>1 DEF Sessions
        <5> QED
          BY <4>1, <5>1
      <4>2. CASE res' = [res EXCEPT !.claim.wip = TRUE, !.claim.branch = TRUE]
        <5>1. res' = [res EXCEPT !.claim = [res.claim EXCEPT !.wip = TRUE, !.branch = TRUE]]
          BY <3>1, <4>2 DEF Sessions
        <5> QED
          BY <3>1, <5>1
      <4> QED
        BY <2>6, <4>1, <4>2
    <3> QED
      BY <3>1, <3>2 DEF Sessions
  <2> QED
    BY <1>1, <2>5, <2>7, CallStep DEF Inv, TypeOK, DeathHasATask, Salvage, Places
<1> QED
  BY <1>2, <1>3

\* Whatever the evidence came to, a dead phase is one whose session held a task.
LEMMA DecideType ==
  ASSUME TypeOK, NEW j \in PhaseEnds, j.claim.task = res.claim.task,
         NEW ok \in BOOLEAN, NEW branch \in BOOLEAN, NEW closeFailed \in BOOLEAN,
         Decide(j, ok, branch, closeFailed)
  PROVE  /\ end' \in PhaseEnds /\ try' \in Tries /\ pc' \in Places \ {"boundary"}
         /\ end'.dead => end'.claim.task \in Tasks
<1> DEFINE recorded == reviewable /\ ReviewShaped(i) /\ ok
           noMCPNow == /\ ReviewShaped(i) /\ Phases[i] # "verify" /\ ~recorded /\ ~closeFailed /\ ~res.mcp
                       /\ ~res.claim.settled /\ ~res.handoff /\ trusted /\ res.zero
                       /\ ~producedNothing
           checkpoint == /\ canCheckpoint
                         /\ \/ (~Last(i) \/ handoff) /\ (handoff \/ ok)
                            \/ NeedsHold(j)
           retryNoMCP == noMCPNow /\ ~try.mcpRetried
           noMCP == noMCPNow /\ try.mcpRetried
           empty == reviewable /\ ~ok /\ ~noMCP
           handed == checkpoint /\ handoff
           released == ~checkpoint /\ ~retryNoMCP /\ Held(res.claim)
           died == ~checkpoint /\ ~noMCP /\ dead
           kept == IF checkpoint THEN branch ELSE j.claim.branch
<1>1. /\ end' = [j EXCEPT !.empty = empty, !.noMCP = noMCP, !.checkpoint = checkpoint,
                          !.handoff = handed, !.claim.branch = kept, !.released = released,
                          !.dead = died]
      /\ try' = [try EXCEPT !.noMCPNow = noMCPNow]
      /\ pc' = IF checkpoint \/ retryNoMCP THEN "route" ELSE "handback"
  BY DEF Decide
<1>2. /\ noMCPNow \in BOOLEAN /\ checkpoint \in BOOLEAN /\ noMCP \in BOOLEAN /\ empty \in BOOLEAN
      /\ handed \in BOOLEAN /\ released \in BOOLEAN /\ died \in BOOLEAN
  OBVIOUS
<1>3. died => res.claim.task \in Tasks
  BY HeldHasATask DEF dead, Held, TypeOK, Sessions
<1>4. kept \in BOOLEAN
  <2> HIDE DEF checkpoint
  <2> QED
    BY DEF PhaseEnds, Claims
<1> HIDE DEF noMCPNow, checkpoint, noMCP, empty, handed, released, died, kept
<1>5. end' \in PhaseEnds
  <2> DEFINE claim == [j.claim EXCEPT !.branch = kept]
  <2>1. claim \in Claims
    BY <1>4 DEF PhaseEnds, Claims
  <2>2. end' = [j EXCEPT !.empty = empty, !.noMCP = noMCP, !.checkpoint = checkpoint,
                         !.handoff = handed, !.claim = claim, !.released = released,
                         !.dead = died]
    BY <1>1 DEF PhaseEnds
  <2> HIDE DEF claim
  <2> DEFINE k == [j EXCEPT !.empty = empty, !.noMCP = noMCP, !.checkpoint = checkpoint,
                            !.handoff = handed]
  <2>3. end' = [k EXCEPT !.claim = claim, !.released = released, !.dead = died]
    BY <2>2
  <2>4. k \in PhaseEnds
    BY <1>2 DEF PhaseEnds
  <2> HIDE DEF k
  <2> QED
    BY <1>2, <2>1, <2>3, <2>4, ZenonT(40) DEF PhaseEnds
<1>6. end'.dead = died /\ end'.claim.task = res.claim.task
  BY <1>1 DEF PhaseEnds, Claims
<1>7. try' \in Tries
  BY <1>1, <1>2 DEF TypeOK, Tries
<1>8. pc' \in Places \ {"boundary"}
  BY <1>1 DEF Places
<1> QED
  BY <1>3, <1>5, <1>6, <1>7, <1>8

LEMMA ClosesIsBoolean == \A c : Closes(c) \subseteq BOOLEAN
  BY MayIsBoolean DEF Closes

LEMMA JudgedType ==
  ASSUME TypeOK
  PROVE  Judged \in PhaseEnds /\ Judged.claim = res.claim /\ ~Judged.toQueue /\ Judged.musts = {}
<1>1. NoEnd \in PhaseEnds /\ res.claim \in Claims
  BY NothingIsTyped DEF TypeOK, Sessions
<1> QED
  BY <1>1 DEF Judged, PhaseEnds, NoEnd

\* The phaseEnd that goes into the verdict: the session's claim, and nothing decided yet.
Found(j) ==
  /\ j \in PhaseEnds /\ ~j.toQueue
  /\ j.claim.task = res.claim.task /\ j.claim.run = res.claim.run
  /\ j.claim.settled = res.claim.settled /\ j.claim.wip = res.claim.wip

LEMMA VerificationJudged ==
  ASSUME Inv, JudgeVerification
  PROVE  \E e \in checkpointEvidence(res.claim, res.reported), closed \in Closes(res.claim),
            read \in BOOLEAN, j \in PhaseEnds :
           LET closes == e.ok /\ e.round > 0 /\ e.sealed
               ok == Accepted(e, closes, closed) /\ read
           IN /\ task' = IF closes /\ closed THEN CloseRound(res.claim) ELSE task
              /\ Decide(j, ok, e.branch, FALSE)
              /\ Found(j) /\ j.checked /\ (j.failure <=> ~ok)
              /\ j.claim.branch = IF ok THEN e.branch ELSE res.claim.branch
              /\ j.musts = IF ok /\ e.round > 0 THEN task[res.claim.task].open ELSE {}
<1>1. conf \in Configs /\ TypeOK /\ i \in Positions
  BY DEF Inv, TypeOK, InPhase, Ending, JudgeVerification
<1>2. res.claim \in Claims /\ res.claim.task \in Tasks /\ res.reported \in BOOLEAN
  BY <1>1, HeldHasATask DEF TypeOK, Sessions, JudgeVerification
<1> DEFINE row == task[res.claim.task]
<1>3. row \in TaskRows
  BY <1>1, <1>2 DEF TypeOK
<1>4. PICK e \in checkpointEvidence(res.claim, res.reported), closed \in Closes(res.claim),
           read \in May("read") :
        LET closes == e.ok /\ e.round > 0 /\ e.sealed
            done == Accepted(e, closes, closed)
            ok == done /\ read
            counts == ok /\ e.round > 0
        IN /\ task' = IF closes /\ closed THEN CloseRound(res.claim) ELSE task
           /\ Decide([Judged EXCEPT
                !.checked = TRUE, !.failure = ~ok,
                !.claim.branch = IF ok THEN e.branch ELSE @,
                !.round = IF e.sealed /\ ~(closes /\ closed) THEN e.round ELSE 0,
                !.vround = IF done THEN e.round ELSE 0,
                !.musts = IF counts THEN row.open ELSE {},
                !.counted = IF counts THEN row.round ELSE 0,
                !.resolved = IF counts THEN row.resolved ELSE {}],
                ok, e.branch, FALSE)
  BY DEF JudgeVerification
<1>5. e \in Verdicts
  BY <1>1, <1>2, EvidenceType, ConfFacts DEF TypeOK
<1> DEFINE closes == e.ok /\ e.round > 0 /\ e.sealed
           done == Accepted(e, closes, closed)
           ok == done /\ read
           counts == ok /\ e.round > 0
           branch == IF ok THEN e.branch ELSE Judged.claim.branch
           round == IF e.sealed /\ ~(closes /\ closed) THEN e.round ELSE 0
           vround == IF done THEN e.round ELSE 0
           musts == IF counts THEN row.open ELSE {}
           counted == IF counts THEN row.round ELSE 0
           resolved == IF counts THEN row.resolved ELSE {}
           j == [Judged EXCEPT !.checked = TRUE, !.failure = ~ok, !.claim.branch = branch,
                               !.round = round, !.vround = vround, !.musts = musts,
                               !.counted = counted, !.resolved = resolved]
<1>6. /\ task' = IF closes /\ closed THEN CloseRound(res.claim) ELSE task
      /\ Decide(j, ok, e.branch, FALSE)
  BY <1>4
<1>8. ok \in BOOLEAN /\ (~ok) \in BOOLEAN /\ e.branch \in BOOLEAN
  BY <1>5 DEF Verdicts
<1>9. /\ branch \in BOOLEAN /\ round \in Rounds /\ vround \in Rounds /\ counted \in Rounds
      /\ musts \in SUBSET (1 .. MaxRound) /\ resolved \in SUBSET (1 .. MaxRound)
  <2>1. e.branch \in BOOLEAN /\ e.round \in Rounds /\ row.round \in Rounds
        /\ row.open \in SUBSET (1 .. MaxRound) /\ row.resolved \in SUBSET (1 .. MaxRound)
    BY <1>3, <1>5 DEF Verdicts, TaskRows
  <2>2. 0 \in Rounds /\ {} \in SUBSET (1 .. MaxRound)
    BY <1>1, ConfFacts DEF Rounds
  <2>3. Judged.claim.branch \in BOOLEAN
    BY <1>1, <1>2, JudgedType DEF Claims
  <2> HIDE DEF closes, done, ok, counts
  <2> QED
    BY <2>1, <2>2, <2>3
<1> DEFINE failure == ~ok
<1>10. failure \in BOOLEAN
  BY <1>8
<1>11. j \in PhaseEnds /\ Found(j) /\ j.checked /\ j.failure = failure /\ j.claim.branch = branch
       /\ j.musts = musts
  <2> HIDE DEF failure
  <2> HIDE DEF branch, round, vround, musts, counted, resolved
  <2>1. j = [Judged EXCEPT !.checked = TRUE, !.failure = failure, !.claim.branch = branch,
                           !.round = round, !.vround = vround, !.musts = musts,
                           !.counted = counted, !.resolved = resolved]
    BY DEF failure
  <2> HIDE DEF ok, j
  <2>2. Judged \in PhaseEnds /\ Judged.claim = res.claim /\ ~Judged.toQueue
    BY <1>1, JudgedType
  <2> DEFINE claim == [res.claim EXCEPT !.branch = branch]
  <2>3. /\ claim \in Claims /\ claim.task = res.claim.task /\ claim.run = res.claim.run
        /\ claim.settled = res.claim.settled /\ claim.wip = res.claim.wip /\ claim.branch = branch
    BY <1>2, <1>9 DEF Claims
  <2>4. j = [Judged EXCEPT !.checked = TRUE, !.failure = failure, !.claim = claim,
                           !.round = round, !.vround = vround, !.musts = musts,
                           !.counted = counted, !.resolved = resolved]
    BY <2>1, <2>2 DEF PhaseEnds
  <2> HIDE DEF claim
  <2>5. j \in PhaseEnds
    BY <1>9, <1>10, <2>2, <2>3, <2>4, ZenonT(40) DEF PhaseEnds
  <2>6. j.claim = claim /\ j.checked = TRUE /\ j.failure = failure /\ j.musts = musts /\ ~j.toQueue
    BY <2>2, <2>4 DEF PhaseEnds
  <2> QED
    BY <2>3, <2>5, <2>6 DEF Found
<1>12. branch = IF ok THEN e.branch ELSE res.claim.branch
  BY <1>1, JudgedType
<1> HIDE DEF j
<1> QED
  BY <1>6, <1>8, <1>11, <1>12

LEMMA JudgeVerificationStep ==
  ASSUME Inv, JudgeVerification
  PROVE  Inv'
<1>1. conf \in Configs /\ TypeOK /\ i \in Positions
  BY DEF Inv, TypeOK, InPhase, Ending, JudgeVerification
<1>2. res.claim \in Claims /\ res.claim.task \in Tasks /\ res.reported \in BOOLEAN
  BY <1>1, HeldHasATask DEF TypeOK, Sessions, JudgeVerification
<1>3. PICK e \in checkpointEvidence(res.claim, res.reported), closed \in Closes(res.claim),
           read \in BOOLEAN, j \in PhaseEnds :
        LET closes == e.ok /\ e.round > 0 /\ e.sealed
            ok == Accepted(e, closes, closed) /\ read
        IN /\ task' = IF closes /\ closed THEN CloseRound(res.claim) ELSE task
           /\ Decide(j, ok, e.branch, FALSE)
           /\ Found(j) /\ j.checked /\ (j.failure <=> ~ok)
           /\ j.claim.branch = IF ok THEN e.branch ELSE res.claim.branch
           /\ j.musts = IF ok /\ e.round > 0 THEN task[res.claim.task].open ELSE {}
  BY VerificationJudged
<1>4. e \in Verdicts
  BY <1>1, <1>2, EvidenceType, ConfFacts DEF TypeOK
<1> DEFINE ok == Accepted(e, e.ok /\ e.round > 0 /\ e.sealed, closed) /\ read
<1>5. ok \in BOOLEAN /\ e.branch \in BOOLEAN
  BY <1>4 DEF Verdicts
<1>6. task' = task \/ task' = CloseRound(res.claim)
  BY <1>3
<1>7. Decide(j, ok, e.branch, FALSE) /\ j.claim.task = res.claim.task
  BY <1>3 DEF Found
<1> HIDE DEF ok
<1>8. task' \in [Tasks -> TaskRows]
  BY <1>1, <1>2, <1>6, CloseRoundType DEF TypeOK
<1>9. /\ end' \in PhaseEnds /\ try' \in Tries /\ pc' \in Places \ {"boundary"}
      /\ end'.dead => end'.claim.task \in Tasks
  BY <1>1, <1>5, <1>7, DecideType
<1> QED
  BY <1>1, <1>8, <1>9, CallStep DEF TypeOK, JudgeVerification, JudgeFrame

LEMMA PhaseJudged ==
  ASSUME Inv, JudgePhase
  PROVE  \E e \in checkpointEvidence(res.claim, res.reported), closed \in Closes(res.claim),
            j \in PhaseEnds :
           LET closes == e.ok /\ e.round > 0 /\ e.sealed /\ ~handoff /\ ~ReviewShaped(i + 1)
               ok == Accepted(e, closes, closed)
           IN /\ task' = IF closes /\ closed THEN CloseRound(res.claim) ELSE task
              /\ Decide(j, ok, e.branch, closes /\ ~closed)
              /\ Found(j) /\ j.musts = {}
              /\ j.round = IF e.sealed THEN e.round ELSE 0
<1>1. conf \in Configs /\ TypeOK /\ i \in Positions
  BY DEF Inv, TypeOK, InPhase, Ending, JudgePhase
<1>2. res.claim \in Claims /\ res.claim.task \in Tasks /\ res.reported \in BOOLEAN
  BY <1>1, HeldHasATask DEF TypeOK, Sessions, JudgePhase, reviewable, canCheckpoint, Held
<1>3. PICK e \in checkpointEvidence(res.claim, res.reported), closed \in Closes(res.claim) :
        LET closes == e.ok /\ e.round > 0 /\ e.sealed /\ ~handoff /\ ~ReviewShaped(i + 1)
            ok == Accepted(e, closes, closed)
        IN /\ task' = IF closes /\ closed THEN CloseRound(res.claim) ELSE task
           /\ Decide([Judged EXCEPT !.round = IF e.sealed THEN e.round ELSE 0],
                     ok, e.branch, closes /\ ~closed)
  BY DEF JudgePhase
<1>4. e \in Verdicts
  BY <1>1, <1>2, EvidenceType, ConfFacts DEF TypeOK
<1> DEFINE round == IF e.sealed THEN e.round ELSE 0
           j == [Judged EXCEPT !.round = round]
<1>5. j \in PhaseEnds /\ Found(j) /\ j.musts = {} /\ j.round = round
  <2>1. round \in Rounds
    BY <1>1, <1>4, ConfFacts DEF Verdicts, Rounds
  <2>2. Judged \in PhaseEnds /\ Judged.claim = res.claim /\ ~Judged.toQueue /\ Judged.musts = {}
    BY <1>1, JudgedType
  <2> HIDE DEF round
  <2> QED
    BY <2>1, <2>2 DEF PhaseEnds, Found
<1> HIDE DEF j
<1> QED
  BY <1>3, <1>5 DEF j

LEMMA JudgePhaseStep ==
  ASSUME Inv, JudgePhase
  PROVE  Inv'
<1>1. conf \in Configs /\ TypeOK /\ i \in Positions
  BY DEF Inv, TypeOK, InPhase, Ending, JudgePhase
<1>2. res.claim \in Claims /\ res.claim.task \in Tasks /\ res.reported \in BOOLEAN
  BY <1>1, HeldHasATask DEF TypeOK, Sessions, JudgePhase, reviewable, canCheckpoint, Held
<1>3. PICK e \in checkpointEvidence(res.claim, res.reported), closed \in Closes(res.claim),
           j \in PhaseEnds :
        LET closes == e.ok /\ e.round > 0 /\ e.sealed /\ ~handoff /\ ~ReviewShaped(i + 1)
            ok == Accepted(e, closes, closed)
        IN /\ task' = IF closes /\ closed THEN CloseRound(res.claim) ELSE task
           /\ Decide(j, ok, e.branch, closes /\ ~closed)
           /\ Found(j)
  BY PhaseJudged
<1>4. e \in Verdicts
  BY <1>1, <1>2, EvidenceType, ConfFacts DEF TypeOK
<1> DEFINE closes == e.ok /\ e.round > 0 /\ e.sealed /\ ~handoff /\ ~ReviewShaped(i + 1)
           ok == Accepted(e, closes, closed)
           failed == closes /\ ~closed
<1>5. ok \in BOOLEAN /\ failed \in BOOLEAN /\ e.branch \in BOOLEAN
  BY <1>4 DEF Verdicts, Accepted
<1>6. task' = task \/ task' = CloseRound(res.claim)
  BY <1>3
<1>7. Decide(j, ok, e.branch, failed) /\ j.claim.task = res.claim.task
  BY <1>3 DEF Found
<1> HIDE DEF ok, failed
<1>8. task' \in [Tasks -> TaskRows]
  BY <1>1, <1>2, <1>6, CloseRoundType DEF TypeOK
<1>9. /\ end' \in PhaseEnds /\ try' \in Tries /\ pc' \in Places \ {"boundary"}
      /\ end'.dead => end'.claim.task \in Tasks
  BY <1>1, <1>5, <1>7, DecideType
<1> QED
  BY <1>1, <1>8, <1>9, CallStep DEF TypeOK, JudgePhase, JudgeFrame

LEMMA JudgeOtherStep ==
  ASSUME Inv, JudgeOther
  PROVE  Inv'
<1>1. TypeOK
  BY DEF Inv
<1> DEFINE j == [Judged EXCEPT !.checked = judgeable, !.failure = judgeable]
<1>2. j \in PhaseEnds /\ j.claim.task = res.claim.task
  <2>1. judgeable \in BOOLEAN
    BY DEF judgeable
  <2>2. Judged \in PhaseEnds /\ Judged.claim = res.claim
    BY <1>1, JudgedType
  <2> QED
    BY <2>1, <2>2 DEF PhaseEnds
<1>3. Decide(j, TRUE, FALSE, FALSE)
  BY DEF JudgeOther
<1> HIDE DEF j
<1>4. /\ end' \in PhaseEnds /\ try' \in Tries /\ pc' \in Places \ {"boundary"}
      /\ end'.dead => end'.claim.task \in Tasks
  BY <1>1, <1>2, <1>3, DecideType
<1> QED
  BY <1>1, <1>4, CallStep DEF TypeOK, JudgeOther, JudgeFrame

LEMMA PeekStep ==
  ASSUME Inv, peekCheckpointClaim
  PROVE  Inv'
<1>1. conf \in Configs /\ TypeOK /\ i \in Positions
  BY DEF Inv, TypeOK, InPhase, Ending, peekCheckpointClaim
<1> DEFINE t == try.briefed
           claim == [task |-> t, run |-> task[t].run, settled |-> FALSE, wip |-> TRUE, branch |-> TRUE]
<1>2. t \in Tasks
  BY <1>1 DEF TypeOK, Tries, peekCheckpointClaim, Peeks
<1>3. claim \in Claims /\ claim.task = t
  BY <1>1, <1>2 DEF TypeOK, TaskRows, Claims
<1>4. PICK e \in checkpointEvidence(claim, FALSE), closed \in Closes(claim) :
        LET closes == e.ok /\ e.sealed /\ ~ReviewShaped(i + 1)
            ok == Accepted(e, closes, closed)
        IN /\ task' = IF closes /\ closed THEN CloseRound(claim) ELSE task
           /\ end' = [end EXCEPT !.claim = [claim EXCEPT !.branch = IF ok THEN e.branch ELSE @],
                                 !.round = e.round, !.checkpoint = ok]
           /\ hist' = [hist EXCEPT !.hidden = IF ok THEN @ \ {RunOf(claim)} ELSE @]
  BY DEF peekCheckpointClaim
<1> HIDE DEF claim
<1>5. e \in Verdicts
  BY <1>1, <1>2, <1>3, EvidenceType, ConfFacts DEF TypeOK
<1> DEFINE closes == e.ok /\ e.sealed /\ ~ReviewShaped(i + 1)
           ok == Accepted(e, closes, closed)
           kept == IF ok THEN e.branch ELSE claim.branch
<1>6. /\ task' = IF closes /\ closed THEN CloseRound(claim) ELSE task
      /\ end' = [end EXCEPT !.claim = [claim EXCEPT !.branch = kept],
                            !.round = e.round, !.checkpoint = ok]
      /\ \/ hist' = [hist EXCEPT !.hidden = @ \ {RunOf(claim)}]
         \/ hist' = [hist EXCEPT !.hidden = @]
  BY <1>4
<1>7. task' \in [Tasks -> TaskRows]
  <2> HIDE DEF closes
  <2> QED
    BY <1>1, <1>2, <1>3, <1>6, CloseRoundType DEF TypeOK
<1>8. ok \in BOOLEAN /\ e.branch \in BOOLEAN /\ e.round \in Rounds
  BY <1>5 DEF Verdicts, Accepted
<1> HIDE DEF ok
<1>9. kept \in BOOLEAN
  BY <1>3, <1>8 DEF Claims
<1> HIDE DEF kept
<1>10. [claim EXCEPT !.branch = kept] \in Claims /\ [claim EXCEPT !.branch = kept].task = t
  BY <1>3, <1>9 DEF Claims
<1>11. end' \in PhaseEnds /\ end'.claim.task = t
  BY <1>1, <1>6, <1>8, <1>10 DEF TypeOK, PhaseEnds
<1>12. hist' \in Histories /\ hist'.deaths = hist.deaths
  <2>1. PICK hidden \in SUBSET RunIds : hist' = [hist EXCEPT !.hidden = hidden]
    <3>1. hist.hidden \in SUBSET RunIds /\ hist.hidden \ {RunOf(claim)} \in SUBSET RunIds
      BY <1>1 DEF TypeOK, Histories
    <3> QED
      BY <1>6, <3>1
  <2> QED
    BY <1>1, <2>1 DEF TypeOK, Histories
<1> QED
  BY <1>1, <1>2, <1>7, <1>11, <1>12, CallStep DEF TypeOK, peekCheckpointClaim, Places

LEMMA HandbackStep ==
  ASSUME Inv, Handback
  PROVE  Inv'
<1>1. conf \in Configs /\ TypeOK
  BY DEF Inv, TypeOK
<1>2. res.claim \in Claims /\ trusted \in BOOLEAN /\ MaxRun \in Nat
  BY <1>1, ConfFacts DEF TypeOK, Sessions, trusted
<1>3. PICK toQueue \in BOOLEAN :
        releaseHeldClaim(res.claim, trusted, toQueue) /\ end' = [end EXCEPT !.toQueue = toQueue]
  BY DEF Handback
<1>4. task' \in [Tasks -> TaskRows] /\ hist' \in Histories /\ hist'.deaths = hist.deaths
  BY <1>1, <1>2, <1>3, ReleaseType DEF TypeOK
<1>5. end' \in PhaseEnds /\ end'.dead = end.dead /\ end'.claim = end.claim
  BY <1>1, <1>3 DEF TypeOK, PhaseEnds
<1> QED
  BY <1>1, <1>4, <1>5, CallStep DEF Inv, TypeOK, DeathHasATask, Handback, Places

\* What the phase returns after its own handback of a claim it kept for the next one.
LEMMA CarriedEndType ==
  ASSUME Inv, NEW err \in BOOLEAN, releaseCarriedEnd(err)
  PROVE  /\ task' \in [Tasks -> TaskRows] /\ hist' \in Histories /\ hist'.deaths = hist.deaths
         /\ end' \in PhaseEnds /\ (end'.dead => end'.claim.task \in Tasks)
<1>1. conf \in Configs /\ TypeOK
  BY DEF Inv, TypeOK
<1> DEFINE owed == end.checkpoint /\ end.claim # NoClaim
           c == IF owed THEN end.claim ELSE NoClaim
<1>2. PICK toQueue \in BOOLEAN : releaseHeldClaim(c, TRUE, toQueue)
  BY DEF releaseCarriedEnd
<1>3. c \in Claims /\ NoEnd \in PhaseEnds /\ end \in PhaseEnds
  BY <1>1, NothingIsTyped DEF TypeOK, PhaseEnds
<1>4. end' = [(IF owed THEN [NoEnd EXCEPT !.released = Held(c)] ELSE end) EXCEPT !.err = err]
  BY DEF releaseCarriedEnd
<1>5. Held(c) \in BOOLEAN
  BY DEF Held
<1> HIDE DEF c
<1>6. task' \in [Tasks -> TaskRows] /\ hist' \in Histories /\ hist'.deaths = hist.deaths
  BY <1>1, <1>2, <1>3, ReleaseType, ConfFacts DEF TypeOK
<1>7. CASE owed
  <2>1. PICK held \in BOOLEAN : end' = [NoEnd EXCEPT !.released = held, !.err = err]
    BY <1>4, <1>5, <1>7
  <2>2. end' \in PhaseEnds
    BY <1>3, <2>1, ZenonT(40) DEF PhaseEnds
  <2>3. ~end'.dead
    BY <2>1 DEF NoEnd
  <2> QED
    BY <1>6, <2>2, <2>3
<1>8. CASE ~owed
  <2>1. end' = [end EXCEPT !.err = err]
    BY <1>4, <1>8
  <2>2. end' \in PhaseEnds /\ end'.dead = end.dead /\ end'.claim = end.claim
    BY <1>3, <2>1 DEF PhaseEnds
  <2> QED
    BY <1>6, <2>2 DEF Inv, DeathHasATask
<1> QED
  BY <1>7, <1>8

LEMMA RouteStep ==
  ASSUME Inv, Route
  PROVE  Inv'
<1>1. conf \in Configs /\ TypeOK /\ (end.dead => end.claim.task \in Tasks)
  BY DEF Inv, TypeOK, DeathHasATask
<1>2. pc = "route"
  BY DEF Route, RouteUnstarted, RouteUntrusted, RouteNoMCP, RouteLimited, RouteFinished,
         RouteTransient, RouteFatal, Started, Failed
<1>3. UNCHANGED <<conf, i, carried, cnt, stop, fleetDead>> /\ UNCHANGED res
  BY DEF Route, RouteUnstarted, RouteUntrusted, RouteNoMCP, RouteLimited, RouteFinished,
         RouteTransient, RouteFatal, RouteFrame
<1>4. CASE \E b \in BOOLEAN :
             /\ \/ end' = [end EXCEPT !.err = b] \/ end' = [end EXCEPT !.stop = b]
                \/ end' = [end EXCEPT !.seqEnd = "limit"]
                \/ end' = [end EXCEPT !.seqEnd = "transient"] \/ end' = end
             /\ try' = try \/ try' = [try EXCEPT !.mcpRetried = TRUE]
             /\ pc' \in {"seam", "attempt"} /\ UNCHANGED <<task, hist>>
  <2>1. end' \in PhaseEnds /\ end'.dead = end.dead /\ end'.claim = end.claim
    BY <1>1, <1>4 DEF TypeOK, PhaseEnds
  <2>2. try' \in Tries
    BY <1>1, <1>4 DEF TypeOK, Tries
  <2> QED
    BY <1>1, <1>2, <1>3, <1>4, <2>1, <2>2, CallStep DEF TypeOK, Places
<1>5. CASE /\ \E b \in BOOLEAN : releaseCarriedEnd(b)
           /\ try' \in Tries /\ pc' \in {"seam", "limited", "backoff"}
  <2>1. PICK b \in BOOLEAN : releaseCarriedEnd(b)
    BY <1>5
  <2>2. /\ task' \in [Tasks -> TaskRows] /\ hist' \in Histories /\ hist'.deaths = hist.deaths
        /\ end' \in PhaseEnds /\ (end'.dead => end'.claim.task \in Tasks)
    BY <2>1, CarriedEndType
  <2> QED
    BY <1>1, <1>2, <1>3, <1>5, <2>2, CallStep DEF TypeOK, Places
<1>6. CASE RouteUnstarted
  BY <1>6, <1>4 DEF RouteUnstarted, Returns
<1>7. CASE RouteUntrusted
  <2>1. CountsSpend \in BOOLEAN
    BY <1>1, ConfFacts
  <2> QED
    BY <1>7, <2>1, <1>4 DEF RouteUntrusted, Returns
<1>8. CASE RouteNoMCP
  BY <1>8, <1>4 DEF RouteNoMCP
<1>9. CASE RouteLimited
  <2>1. try' = try /\ try \in Tries
    BY <1>1, <1>9 DEF RouteLimited, TypeOK
  <2>2. CASE releaseCarriedEnd(FALSE) /\ pc' = "limited"
    BY <2>1, <2>2, <1>5
  <2>3. CASE ~(releaseCarriedEnd(FALSE) /\ pc' = "limited")
    BY <2>1, <2>3, <1>4, <1>9 DEF RouteLimited, Returns
  <2> QED
    BY <2>2, <2>3
<1>10. CASE RouteFinished
  BY <1>10, <1>4 DEF RouteFinished, Returns
<1>11. CASE RouteTransient
  <2>1. CASE Resumed
    BY <1>11, <2>1, <1>4 DEF RouteTransient, Returns
  <2>2. CASE ~Resumed
    <3> DEFINE odd == try.unclassified + (IF res.after = "odd" THEN 1 ELSE 0)
               retries == try.retries + 1
               over == MaxRetries > 0 /\ retries > MaxRetries
               left == IF MaxRetries > 0 THEN retries ELSE 0
    <3>1. PICK quiet \in {FALSE, res.after = "transient"} :
            IF odd > UnclassifiedBound
            THEN Returns([end EXCEPT !.err = TRUE]) /\ UNCHANGED <<task, try, hist>>
            ELSE /\ releaseCarriedEnd(over) /\ pc' = IF over THEN "seam" ELSE "backoff"
                 /\ try' = [try EXCEPT !.unclassified = odd, !.retries = left,
                                       !.noUsage = IF quiet THEN @ + 1 ELSE 0]
      BY <1>11, <2>2 DEF RouteTransient
    <3>2. CASE odd > UnclassifiedBound
      BY <3>1, <3>2, <1>4 DEF Returns
    <3>3. CASE ~(odd > UnclassifiedBound)
      <4> DEFINE idle == IF quiet THEN try.noUsage + 1 ELSE 0
      <4>1. try \in Tries /\ try.unclassified \in Nat /\ try.retries \in Nat /\ try.noUsage \in Nat
        BY <1>1 DEF TypeOK, Tries
      <4>2. odd \in Nat /\ left \in Nat /\ idle \in Nat
        BY <4>1
      <4>3. over \in BOOLEAN
        OBVIOUS
      <4>4. /\ releaseCarriedEnd(over) /\ pc' = IF over THEN "seam" ELSE "backoff"
            /\ try' = [try EXCEPT !.unclassified = odd, !.retries = left, !.noUsage = idle]
        BY <3>1, <3>3
      <4> HIDE DEF odd, left, idle, over
      <4>5. try' \in Tries
        BY <4>1, <4>2, <4>4 DEF Tries
      <4> QED
        BY <4>3, <4>4, <4>5, <1>5
    <3> QED
      BY <3>2, <3>3
  <2> QED
    BY <2>1, <2>2
<1>12. CASE RouteFatal
  BY <1>12, <1>4 DEF RouteFatal, Returns
<1> QED
  BY <1>6, <1>7, <1>8, <1>9, <1>10, <1>11, <1>12 DEF Route

LEMMA WaitedStep ==
  ASSUME Inv, Waited
  PROVE  Inv'
<1>1. TypeOK
  BY DEF Inv
<1>2. end' = end \/ end' = [end EXCEPT !.stop = TRUE]
  BY DEF Waited
<1>3. end' \in PhaseEnds /\ end'.dead = end.dead /\ end'.claim = end.claim
  BY <1>1, <1>2 DEF TypeOK, PhaseEnds
<1> QED
  BY <1>1, <1>3, CallStep DEF Inv, DeathHasATask, TypeOK, Waited, Places

-----------------------------------------------------------------------------
(* The seam: what becomes of the sequence after a phase.                   *)

LEMMA TakenType == TypeOK => Taken \in Claims
  BY NothingIsTyped DEF TypeOK, Taken, PhaseEnds

\* A step of the seam that neither respawns a phase nor counts a death.
LEMMA SeamStays ==
  ASSUME Inv, pc = "seam", pc' \in {"seam", "release"}, SeamFrame, i' = i, fleetDead' = fleetDead,
         task' \in [Tasks -> TaskRows], carried' \in Claims, end' \in PhaseEnds, cnt' \in Counters,
         stop' \in {"no", "stop", "error"}, hist' \in Histories, hist'.deaths = hist.deaths,
         end'.dead => end'.claim.task \in Tasks,
         /\ cnt'.chain = cnt.chain /\ cnt'.handoffs = cnt.handoffs /\ cnt'.respawn = cnt.respawn
         /\ cnt'.deadTask = cnt.deadTask /\ cnt'.deadRetries = cnt.deadRetries
  PROVE  Inv'
<1>1. TypeOK'
  BY TypeStep DEF Inv, TypeOK, SeamFrame, Places
<1>2. SameCounts /\ GoesOn
  BY DEF SeamFrame, SameCounts, GoesOn, Ending
<1>3. DeathHasATask'
  BY ConfStays DEF DeathHasATask, SeamFrame
<1> QED
  BY <1>1, <1>2, <1>3, QuietStep

\* A step that ends the sequence, or starts a phase again.
LEMMA SeamMoves ==
  ASSUME Inv, pc = "seam", pc' \in {"boundary", "release"}, SeamFrame, end' = end,
         i' \in 1 .. Len(Phases) + 1, fleetDead' \in 0 .. FleetDeadBound,
         task' \in [Tasks -> TaskRows], carried' \in Claims, cnt' \in Counters,
         stop' \in {"no", "stop", "error"}, hist' \in Histories,
         cnt'.handoffs = cnt.handoffs, cnt'.respawn => MayRespawn' /\ MayRespawn,
         DeathsAddUp', DeathsAreBounded'
  PROVE  Inv'
<1>1. MaxIterations' = MaxIterations /\ Tasks' = Tasks /\ TypeOK'
  BY TypeStep, ConfStays DEF Inv, TypeOK, SeamFrame, Places
<1>2. InPhase' /\ HandoffsAreGranted' /\ DeathHasATask'
  BY <1>1 DEF Inv, InPhase, HandoffsAreGranted, DeathHasATask, Ending
<1>3. DrainNum \in Nat /\ cnt.handoffs \in Nat /\ cnt'.handoffs \in Nat /\ MaxIterations \in Nat
  BY BoundsAssumption, ConfFacts DEF Inv, TypeOK, Counters
<1>4. ~cnt.respawn
  BY DEF Inv, HandoffsAreGranted, Ending
<1>5. HandoffsWithinCeiling'
  BY <1>1, <1>3, <1>4 DEF Inv, HandoffsWithinCeiling, MayRespawn
<1> QED
  BY <1>1, <1>2, <1>5 DEF Inv

LEMMA SeamQuietSteps ==
  ASSUME Inv, SeamEnds \/ SeamErrs \/ SeamRefuses \/ SeamNoCheckpoint \/ SeamVerified
              \/ SeamParksVerification
  PROVE  Inv'
<1>1. conf \in Configs /\ TypeOK /\ pc = "seam"
  BY DEF Inv, TypeOK, SeamEnds, SeamErrs, SeamRefuses, SeamNoCheckpoint, SeamVerified,
         SeamParksVerification, AtSeam
<1>2. Taken \in Claims /\ NoClaim \in Claims /\ carried \in Claims
  BY <1>1, TakenType, NothingIsTyped DEF TypeOK
<1>3. /\ cnt \in Counters /\ end \in PhaseEnds /\ task \in [Tasks -> TaskRows] /\ hist \in Histories
      /\ stop \in {"no", "stop", "error"} /\ (end.dead => end.claim.task \in Tasks)
  BY <1>1 DEF Inv, TypeOK, DeathHasATask
<1>4. CASE SeamEnds
  <2>1. end.seqEnd \in {"none", "limit", "transient"} /\ cnt.wait \in {"none", "limit", "transient"}
    BY <1>3 DEF PhaseEnds, Counters
  <2>2. PICK wait \in {"none", "limit", "transient"} : cnt' = [cnt EXCEPT !.wait = wait]
    BY <1>4, <2>1 DEF SeamEnds
  <2>3. /\ cnt' \in Counters
        /\ cnt'.chain = cnt.chain /\ cnt'.handoffs = cnt.handoffs /\ cnt'.respawn = cnt.respawn
        /\ cnt'.deadTask = cnt.deadTask /\ cnt'.deadRetries = cnt.deadRetries
    BY <1>3, <2>2 DEF Counters
  <2> QED
    BY <1>1, <1>2, <1>3, <1>4, <2>3, SeamStays DEF SeamEnds, AtSeam, Over
<1>5. CASE SeamErrs \/ SeamNoCheckpoint \/ SeamVerified
  BY <1>1, <1>2, <1>3, <1>5, SeamStays DEF SeamErrs, SeamNoCheckpoint, SeamVerified, AtSeam, Over
<1>6. CASE SeamRefuses
  <2>1. PICK closed \in Closes(end.claim) :
          /\ task' = IF RoundOwed /\ closed THEN CloseRound(end.claim) ELSE task
          /\ \/ pc' = "release" /\ carried' = Taken /\ UNCHANGED end
             \/ end' = [end EXCEPT !.handoff = FALSE] /\ UNCHANGED <<pc, carried>>
    BY <1>6 DEF SeamRefuses
  <2>2. task' \in [Tasks -> TaskRows]
    <3>1. CASE end.claim.task = NoTask
      <4>1. closed = FALSE
        BY <3>1 DEF Closes, Holds
      <4> QED
        BY <1>3, <2>1, <4>1
    <3>2. CASE end.claim.task # NoTask
      <4>1. end.claim \in Claims /\ end.claim.task \in Tasks
        BY <1>3, <3>2, HeldHasATask DEF PhaseEnds
      <4> QED
        BY <1>3, <2>1, <4>1, CloseRoundType
    <3> QED
      BY <3>1, <3>2
  <2>3. end' \in PhaseEnds /\ end'.dead = end.dead /\ end'.claim = end.claim
    BY <1>3, <2>1 DEF PhaseEnds
  <2>4. pc' \in {"seam", "release"} /\ carried' \in Claims
    BY <1>1, <1>2, <2>1
  <2>5. UNCHANGED <<i, cnt, stop, fleetDead, hist>> /\ SeamFrame
    BY <1>6 DEF SeamRefuses
  <2> QED
    BY <1>1, <1>3, <2>2, <2>3, <2>4, <2>5, SeamStays
<1>7. CASE SeamParksVerification
  <2>1. end.claim \in Claims /\ RunOf(end.claim) \in RunIds
    BY <1>3, RunsAreIds DEF PhaseEnds
  <2>2. task' \in [Tasks -> TaskRows]
    BY <1>3, <1>7, <2>1, ParksType DEF SeamParksVerification
  <2>3. hist' \in Histories /\ hist'.deaths = hist.deaths
    <3>1. PICK must \in SUBSET RunIds : hist' = [hist EXCEPT !.must = must]
      <4>1. hist.must \cup {RunOf(end.claim)} \in SUBSET RunIds
        BY <1>3, <2>1 DEF Histories
      <4> QED
        BY <1>7, <4>1 DEF SeamParksVerification
    <3> QED
      BY <1>3, <3>1 DEF Histories
  <2> QED
    BY <1>1, <1>2, <1>3, <1>7, <2>2, <2>3, SeamStays DEF SeamParksVerification, Over
<1> QED
  BY <1>4, <1>5, <1>6, <1>7

\* What a death in the first phase adds to the history.
LEMMA DiedType ==
  ASSUME hist \in Histories, NEW t \in Tasks, hist' = [hist EXCEPT !.deaths[t] = @ + 1]
  PROVE  /\ hist' \in Histories
         /\ hist'.deaths = [hist.deaths EXCEPT ![t] = @ + 1]
<1>1. hist.deaths \in [Tasks -> Nat]
  BY DEF Histories
<1> DEFINE deaths == [hist.deaths EXCEPT ![t] = @ + 1]
<1>2. deaths \in [Tasks -> Nat]
  <2>1. hist.deaths[t] + 1 \in Nat
    BY <1>1
  <2> QED
    BY <1>1, <2>1
<1>3. hist' = [hist EXCEPT !.deaths = deaths]
  BY DEF Histories
<1> HIDE DEF deaths
<1>4. hist' \in Histories /\ hist'.deaths = deaths
  BY <1>2, <1>3 DEF Histories
<1> QED
  BY <1>4 DEF deaths

\* The counts of deaths where a phase has run: the numbers, out of their records.
LEMMA DeathFacts ==
  ASSUME Inv, pc = "seam"
  PROVE  /\ hist.deaths \in [Tasks -> Nat] /\ cnt.deadRetries \in Nat
         /\ fleetDead \in Nat /\ fleetDead < FleetDeadBound
         /\ FleetDeadBound \in Nat /\ PerTaskDeadBound \in Nat /\ PerTaskDeadBound > 1
         /\ FleetDeadBound > 0 /\ FleetDeadBound <= PerTaskDeadBound + 1
         /\ \A t \in Tasks : hist.deaths[t] <= PerTaskDeadBound
         /\ i = 1 =>
              /\ cnt.deadRetries < PerTaskDeadBound
              /\ \A t \in Tasks :
                   /\ hist.deaths[t] <= fleetDead
                   /\ \/ hist.deaths[t] = 0 \/ hist.deaths[t] < fleetDead
                      \/ t = cnt.deadTask /\ hist.deaths[t] <= cnt.deadRetries
<1>1. PerTaskDeadBound \in Nat \ {0, 1} /\ FleetDeadBound \in 1 .. PerTaskDeadBound + 1
  BY BoundsAssumption
<1>2. hist \in Histories /\ cnt \in Counters /\ fleetDead \in 0 .. FleetDeadBound
  BY DEF Inv, TypeOK
<1>3. hist.deaths \in [Tasks -> Nat] /\ cnt.deadRetries \in 0 .. PerTaskDeadBound
  BY <1>2 DEF Histories, Counters
<1>4. /\ fleetDead < FleetDeadBound /\ \A t \in Tasks : hist.deaths[t] <= PerTaskDeadBound
      /\ i = 1 => 
           /\ cnt.deadRetries < PerTaskDeadBound
           /\ \A t \in Tasks :
                /\ hist.deaths[t] <= fleetDead
                /\ \/ hist.deaths[t] = 0 \/ hist.deaths[t] < fleetDead
                   \/ t = cnt.deadTask /\ hist.deaths[t] <= cnt.deadRetries
  BY DEF Inv, DeathsAddUp, DeathsAreBounded, Ending
<1> QED
  BY <1>1, <1>2, <1>3, <1>4

LEMMA SeamParksDeadStep ==
  ASSUME Inv, SeamParksDead
  PROVE  Inv'
<1>1. conf \in Configs /\ TypeOK /\ pc = "seam" /\ i = 1
  BY DEF Inv, TypeOK, SeamParksDead, AtSeam, DeadTooOften, First
<1> DEFINE t == end.claim.task
<1>2. t \in Tasks /\ end.claim \in Claims
  BY <1>1 DEF Inv, TypeOK, DeathHasATask, PhaseEnds, SeamParksDead
<1>3. /\ hist' \in Histories /\ hist'.deaths = [hist.deaths EXCEPT ![t] = @ + 1]
  BY <1>1, <1>2, DiedType DEF TypeOK, SeamParksDead
<1>4. t = cnt.deadTask /\ cnt.deadRetries <= PerTaskDeadBound - 1
  BY <1>1, DeathFacts DEF SeamParksDead, DeadTooOften
<1>5. \A u \in Tasks : hist'.deaths[u] <= PerTaskDeadBound
  <2>1. hist.deaths[t] + 1 <= PerTaskDeadBound
    BY <1>1, <1>2, <1>4, DeathFacts
  <2> QED
    BY <1>1, <1>2, <1>3, <2>1, DeathFacts
<1>6. Tasks' = Tasks /\ task' \in [Tasks -> TaskRows]
  BY <1>1, <1>2, ParksType, ConfStays DEF TypeOK, SeamParksDead, SeamFrame
<1>7. pc' = "release" /\ DeathsAddUp' /\ DeathsAreBounded'
  BY <1>5, <1>6 DEF SeamParksDead, Over, DeathsAddUp, DeathsAreBounded, Ending
<1>8. ~cnt'.respawn
  BY <1>1 DEF Inv, HandoffsAreGranted, Ending, SeamParksDead
<1> QED
  BY <1>1, <1>3, <1>6, <1>7, <1>8, TakenType, SeamMoves DEF TypeOK, SeamParksDead, AtSeam, Over

LEMMA SeamDiesStep ==
  ASSUME Inv, SeamDies
  PROVE  Inv'
<1>1. conf \in Configs /\ TypeOK /\ pc = "seam"
  BY DEF Inv, TypeOK, SeamDies, AtSeam
<1> DEFINE t == end.claim.task
<1>2. t \in Tasks
  BY DEF Inv, DeathHasATask, SeamDies
<1>3. /\ hist' \in Histories
      /\ First => hist'.deaths = [hist.deaths EXCEPT ![t] = @ + 1]
      /\ ~First => hist' = hist
  BY <1>1, <1>2, DiedType DEF TypeOK, SeamDies
<1>4. fleetDead' = fleetDead + 1 /\ fleetDead' \in 0 .. FleetDeadBound
  BY <1>1, DeathFacts DEF SeamDies
<1> DEFINE atBound == FleetAtBound(fleetDead')
<1>5. (atBound => fleetDead' = FleetDeadBound) /\ (~atBound => fleetDead' < FleetDeadBound)
  BY <1>1, <1>4, DeathFacts DEF FleetAtBound
<1>6. Tasks' = Tasks /\ MaxIterations' = MaxIterations
  BY ConfStays DEF SeamDies, SeamFrame
<1>7. ~cnt.respawn
  BY <1>1 DEF Inv, HandoffsAreGranted, Ending
<1>8. First =>
        /\ t = cnt.deadTask => cnt.deadRetries + 1 < PerTaskDeadBound
        /\ \A u \in Tasks : hist'.deaths[u] <= fleetDead' /\ hist'.deaths[u] \in Nat
        /\ \A u \in Tasks \ {t} : hist'.deaths[u] < fleetDead'
        /\ \/ hist'.deaths[t] < fleetDead' \/ hist'.deaths[t] = 1
           \/ t = cnt.deadTask /\ hist'.deaths[t] <= cnt.deadRetries + 1
  <2> SUFFICES ASSUME First PROVE <1>8!2
    OBVIOUS
  <2>1. i = 1
    BY DEF First
  <2>2. t = cnt.deadTask => cnt.deadRetries + 1 < PerTaskDeadBound
    BY <1>1, DeathFacts DEF SeamDies, DeadTooOften
  <2>3. hist.deaths[t] \in Nat /\ hist'.deaths[t] = hist.deaths[t] + 1
    BY <1>1, <1>2, <1>3, DeathFacts
  <2>4. \A u \in Tasks \ {t} : hist'.deaths[u] = hist.deaths[u]
    BY <1>1, <1>3, DeathFacts
  <2>5. \A u \in Tasks \ {t} : hist'.deaths[u] < fleetDead' /\ hist'.deaths[u] \in Nat
    BY <1>1, <1>4, <2>1, <2>4, DeathFacts
  <2>6. hist'.deaths[t] <= fleetDead' /\ hist'.deaths[t] \in Nat
    BY <1>1, <1>2, <1>4, <2>1, <2>3, DeathFacts
  <2>7. \/ hist'.deaths[t] < fleetDead' \/ hist'.deaths[t] = 1
        \/ t = cnt.deadTask /\ hist'.deaths[t] <= cnt.deadRetries + 1
    BY <1>1, <1>2, <1>4, <2>1, <2>3, DeathFacts
  <2> QED
    BY <2>2, <2>5, <2>6, <2>7, <1>4, DeathFacts, <1>1
<1>9. DeathsAreBounded' /\ (~(First /\ ~atBound) => pc' = "release")
  <2>1. ~(First /\ ~atBound) => pc' = "release"
    BY DEF SeamDies, Over
  <2>2. ASSUME NEW u \in Tasks PROVE hist'.deaths[u] <= PerTaskDeadBound
    <3>1. CASE First /\ u = t
      BY <1>1, <1>4, <1>8, <3>1, DeathFacts
    <3>2. CASE First /\ u # t
      BY <1>1, <1>4, <1>8, <3>2, DeathFacts
    <3>3. CASE ~First
      BY <1>1, <1>3, <3>3, DeathFacts
    <3> QED
      BY <3>1, <3>2, <3>3
  <2>3. fleetDead' = FleetDeadBound => pc' = "release"
    BY <2>1, <1>1, <1>5, DeathFacts
  <2> QED
    BY <1>6, <2>1, <2>2, <2>3 DEF DeathsAreBounded
<1>10. CASE First /\ ~atBound
  <2> DEFINE again == IF t = cnt.deadTask THEN cnt.deadRetries + 1 ELSE 1
  <2>1. again \in 0 .. PerTaskDeadBound /\ again < PerTaskDeadBound
    BY <1>1, <1>8, <1>10, DeathFacts
  <2>2. cnt' = [cnt EXCEPT !.deadTask = t, !.deadRetries = again]
    BY <1>10 DEF SeamDies
  <2>3. hist'.deaths[t] < fleetDead' \/ hist'.deaths[t] <= again
    BY <1>1, <1>8, <1>10, DeathFacts
  <2> HIDE DEF again
  <2>4. /\ cnt' \in Counters /\ cnt'.deadTask = t /\ cnt'.deadRetries = again
        /\ cnt'.handoffs = cnt.handoffs /\ cnt'.respawn = cnt.respawn
    BY <1>1, <1>2, <2>1, <2>2 DEF TypeOK, Counters
  <2>5. DeathsAddUp'
    <3>1. \A u \in Tasks :
            /\ hist'.deaths[u] <= fleetDead'
            /\ \/ hist'.deaths[u] = 0 \/ hist'.deaths[u] < fleetDead'
               \/ u = cnt'.deadTask /\ hist'.deaths[u] <= cnt'.deadRetries
      BY <1>8, <1>10, <2>3, <2>4
    <3> QED
      BY <1>6, <1>10, <1>5, <2>1, <2>4, <3>1 DEF DeathsAddUp
  <2>6. pc' = "boundary" /\ i' = i /\ stop' = stop
    BY <1>10 DEF SeamDies, Again
  <2> QED
    BY <1>1, <1>3, <1>4, <1>7, <1>9, <2>4, <2>5, <2>6, TakenType, SeamMoves
    DEF TypeOK, SeamDies, AtSeam
<1>11. CASE ~(First /\ ~atBound)
  <2>1. pc' = "release" /\ i' = i /\ cnt' = cnt /\ stop' \in {"no", "stop", "error"}
    BY <1>1, <1>11 DEF SeamDies, Over, TypeOK
  <2>2. DeathsAddUp'
    BY <2>1 DEF DeathsAddUp, Ending
  <2> QED
    BY <1>1, <1>3, <1>4, <1>7, <1>9, <2>1, <2>2, TakenType, SeamMoves
    DEF TypeOK, SeamDies, AtSeam
<1> QED
  BY <1>10, <1>11

\* A phase is started again, or the next one, and nothing has died.
LEMMA AliveStep ==
  ASSUME Inv, SeamHandsOff \/ SeamEmpty \/ SeamVerifies \/ SeamAdvances
  PROVE  Inv'
<1>1. conf \in Configs /\ TypeOK /\ pc = "seam" /\ i \in Positions /\ ~cnt.respawn
  BY DEF Inv, TypeOK, InPhase, HandoffsAreGranted, Ending, AtSeam,
         SeamHandsOff, SeamEmpty, SeamVerifies, SeamAdvances
<1>2. /\ cnt \in Counters /\ 0 \in 0 .. HandoffChainCap /\ 0 \in 0 .. PerTaskDeadBound
      /\ Len(Phases) \in Nat
  BY <1>1, BoundsAssumption, ConfFacts DEF TypeOK
<1>3. Tasks' = Tasks /\ MaxIterations' = MaxIterations
  BY ConfStays DEF SeamHandsOff, SeamEmpty, SeamVerifies, SeamAdvances, SeamFrame
<1>4. /\ hist' = hist /\ task' = task /\ end' = end /\ stop' = stop
      /\ carried' = Taken /\ SeamFrame
  BY DEF SeamHandsOff, SeamEmpty, SeamVerifies, SeamAdvances, AtSeam
<1>5. CASE SeamHandsOff
  <2>1. /\ cnt' \in Counters /\ cnt'.handoffs = cnt.handoffs /\ cnt'.chain = cnt.chain
        /\ cnt'.deadTask = cnt.deadTask /\ cnt'.deadRetries = cnt.deadRetries
    BY <1>2, <1>5 DEF SeamHandsOff, Counters
  <2>2. MayRespawn /\ MayRespawn'
    BY <1>3, <1>5, <2>1 DEF SeamHandsOff, MayRespawn
  <2>3. DeathsAddUp' /\ DeathsAreBounded'
    BY <1>1, <1>3, <1>5, <2>1, DeathFacts
    DEF SeamHandsOff, Again, Inv, DeathsAddUp, DeathsAreBounded, Ending
  <2> QED
    BY <1>1, <1>4, <1>5, <2>1, <2>2, <2>3, TakenType, SeamMoves
    DEF TypeOK, SeamHandsOff, Again
<1>6. CASE SeamEmpty
  <2>1. /\ cnt' \in Counters /\ cnt'.handoffs = cnt.handoffs /\ cnt'.respawn = cnt.respawn
        /\ cnt'.deadTask = cnt.deadTask /\ cnt'.deadRetries = cnt.deadRetries
    <3>1. CASE RetriesEmpty
      <4>1. cnt.emptyRetries \in {0, 1} /\ cnt.emptyRetries < 1
        BY <1>2, <3>1 DEF Counters, RetriesEmpty
      <4> DEFINE retries == cnt.emptyRetries + 1
      <4>2. cnt' = [cnt EXCEPT !.chain = 0, !.emptyRetries = retries]
        BY <1>6, <3>1 DEF SeamEmpty
      <4>3. retries = 1
        BY <4>1
      <4> HIDE DEF retries
      <4> QED
        BY <1>2, <4>2, <4>3 DEF Counters
    <3>2. CASE ~RetriesEmpty
      BY <1>2, <1>6, <3>2 DEF SeamEmpty
    <3> QED
      BY <3>1, <3>2
  <2>2. pc' \in {"boundary", "release"} /\ i' = i /\ fleetDead' = fleetDead
    BY <1>6 DEF SeamEmpty, Again, Over
  <2>3. DeathsAddUp' /\ DeathsAreBounded'
    BY <1>1, <1>3, <1>4, <2>1, <2>2, DeathFacts
    DEF Inv, DeathsAddUp, DeathsAreBounded, Ending
  <2> QED
    BY <1>1, <1>4, <2>1, <2>2, <2>3, TakenType, SeamMoves DEF TypeOK
<1>7. CASE SeamVerifies
  <2>1. i' \in Positions /\ i' > 1 /\ fleetDead' = fleetDead /\ pc' = "boundary"
    BY <1>1, <1>7, FixIsNotFirst DEF SeamVerifies, Again
  <2>2. /\ cnt' \in Counters /\ cnt'.handoffs = cnt.handoffs /\ cnt'.respawn = cnt.respawn
    <3>1. cnt.verifyRoundsRun + 1 \in 0 .. ReviewRoundCap
      <4>1. cnt.verifyRoundsRun \in 0 .. ReviewRoundCap /\ ReviewRoundCap \in Nat
        BY <1>2, BoundsAssumption DEF Counters
      <4>2. ~(cnt.verifyRoundsRun + 2 >= ReviewRoundCap)
        BY <1>7 DEF SeamVerifies, CapHit
      <4> QED
        BY <4>1, <4>2
    <3>2. cnt.verifyResolved \cup end.resolved \in SUBSET (1 .. MaxRound)
      BY <1>1, <1>2 DEF Counters, TypeOK, PhaseEnds
    <3> DEFINE rounds == cnt.verifyRoundsRun + 1
               known == cnt.verifyResolved \cup end.resolved
    <3>3. cnt' = [cnt EXCEPT !.chain = 0, !.verifyRoundsRun = rounds, !.verifyResolved = known]
      BY <1>7 DEF SeamVerifies
    <3> HIDE DEF rounds, known
    <3>4. rounds \in 0 .. ReviewRoundCap /\ known \in SUBSET (1 .. MaxRound)
      BY <3>1, <3>2 DEF rounds, known
    <3> QED
      BY <1>2, <3>3, <3>4 DEF Counters
  <2>3. DeathsAddUp' /\ DeathsAreBounded'
    BY <1>1, <1>3, <1>4, <2>1, DeathFacts DEF DeathsAddUp, DeathsAreBounded, Ending
  <2> QED
    BY <1>1, <1>2, <1>4, <2>1, <2>2, <2>3, TakenType, SeamMoves DEF TypeOK, Positions
<1>8. CASE SeamAdvances
  <2>1. i' = i + 1 /\ i' \in 1 .. Len(Phases) + 1 /\ i' > 1 /\ pc' = "boundary"
    BY <1>1, <1>2, <1>8 DEF SeamAdvances, Again, Positions
  <2>2. /\ cnt' \in Counters /\ cnt'.handoffs = cnt.handoffs /\ cnt'.respawn = cnt.respawn
    BY <1>2, <1>8 DEF SeamAdvances, Counters
  <2>3. fleetDead' \in 0 .. FleetDeadBound /\ fleetDead' < FleetDeadBound
    BY <1>1, <1>8, DeathFacts DEF SeamAdvances
  <2>4. DeathsAddUp' /\ DeathsAreBounded'
    BY <1>1, <1>3, <1>4, <2>1, <2>3, DeathFacts DEF DeathsAddUp, DeathsAreBounded, Ending
  <2> QED
    BY <1>1, <1>4, <2>1, <2>2, <2>3, <2>4, TakenType, SeamMoves DEF TypeOK
<1> QED
  BY <1>5, <1>6, <1>7, <1>8

-----------------------------------------------------------------------------
(* The sequence is over.                                                   *)

LEMMA OverStep ==
  ASSUME Inv, releaseCarried \/ EndWait
  PROVE  Inv'
<1>1. conf \in Configs /\ TypeOK /\ Ending /\ Ending' /\ pc' # "boundary" /\ pc # "boundary"
  BY DEF Inv, TypeOK, Ending, releaseCarried, EndWait
<1>2. task' \in [Tasks -> TaskRows] /\ hist' \in Histories /\ hist'.deaths = hist.deaths
  <2>1. CASE releaseCarried
    BY <1>1, <2>1, ReleaseType, ConfFacts DEF TypeOK, releaseCarried
  <2>2. CASE EndWait
    BY <1>1, <2>2 DEF TypeOK, EndWait
  <2> QED
    BY <2>1, <2>2
<1>3. TypeOK'
  BY <1>1, <1>2, TypeStep, NothingIsTyped DEF TypeOK, releaseCarried, EndWait, Places
<1>4. SameCounts /\ GoesOn
  BY <1>1, <1>2 DEF SameCounts, GoesOn, releaseCarried, EndWait
<1>5. DeathHasATask'
  <2>1. end' = end /\ Tasks' = Tasks
    BY ConfStays DEF releaseCarried, EndWait
  <2> QED
    BY <2>1 DEF Inv, DeathHasATask
<1> QED
  BY <1>3, <1>4, <1>5, QuietStep

-----------------------------------------------------------------------------
(* The theorem.                                                            *)

LEMMA NextInv == Inv /\ [Next]_vars => Inv'
<1> SUFFICES ASSUME Inv, [Next]_vars PROVE Inv'
  OBVIOUS
<1>1. CASE Driver
  <2>1. CASE SequenceOver \/ PhaseStarts \/ PhaseRefused \/ AttemptRefused \/ SessionSpawns
    BY <2>1, SequenceOverStep, PhaseStartsStep, PhaseRefusedStep, AttemptStep
  <2>2. CASE Salvage \/ JudgeVerification \/ JudgePhase \/ JudgeOther \/ peekCheckpointClaim \/ Handback
    BY <2>2, SalvageStep, JudgeVerificationStep, JudgePhaseStep, JudgeOtherStep, PeekStep, HandbackStep
  <2>3. CASE Route \/ Waited \/ releaseCarried \/ EndWait
    BY <2>3, RouteStep, WaitedStep, OverStep
  <2>4. CASE Seam
    BY <2>4, SeamQuietSteps, SeamParksDeadStep, SeamDiesStep, AliveStep DEF Seam
  <2> QED
    BY <1>1, <2>1, <2>2, <2>3, <2>4 DEF Driver
<1>2. CASE SessionStep
  BY <1>2, SessionClaimsStep, SessionRecordsBranchStep, SessionDeclaresNoCodeStep,
     SessionReviewsStep, SessionSettlesStep, SessionEndsStep DEF SessionStep
<1>3. CASE Others
  BY <1>3, OthersStep DEF Others
<1>4. CASE Finished \/ UNCHANGED vars
  <2>1. UNCHANGED vars
    BY <1>4 DEF Finished
  <2>2. TypeOK'
    BY <2>1, TypeStep DEF Inv, TypeOK, vars
  <2> QED
    BY <2>1, <2>2, ConfStays
    DEF vars, Inv, InPhase, HandoffsAreGranted, HandoffsWithinCeiling, DeathHasATask, DeathsAddUp,
        DeathsAreBounded, MayRespawn, Ending
<1> QED
  BY <1>1, <1>2, <1>3, <1>4 DEF Next

\* Every variable keeps its type, for any phases, tasks, environments and bounds.
THEOREM SequenceTypeCorrect == Spec => []TypeOK
<1>1. Inv => TypeOK
  BY DEF Inv
<1> QED
  BY <1>1, InitInv, NextInv, PTL DEF Spec

\* Whatever sends a phase of a round again counts against its bound: a task dies at most
\* PerTaskDeadBound times in the first phase and a target FleetDeadBound times before the
\* round ends, and the respawns of a handoff stay within the run's ceiling of iterations
\* (loop.go: drainPhases).
THEOREM SequenceRespawnsAreBounded == Spec => []RespawnsAreBounded
<1>1. Inv => RespawnsAreBounded
  BY DEF Inv, RespawnsAreBounded
<1> QED
  BY <1>1, InitInv, NextInv, PTL DEF Spec

-----------------------------------------------------------------------------
(* What an operation does to the rows of the plane.                        *)

\* Everything of a row but its lease and its records.
Alike(a, b) ==
  /\ b.run = a.run /\ b.tip = a.tip /\ b.pushed = a.pushed /\ b.nocode = a.nocode /\ b.notes = a.notes
  /\ b.round = a.round /\ b.open = a.open /\ b.resolved = a.resolved

\* A handback of c frees its task, with the work that is known in a takeover.
Freed(c, t) ==
  /\ Held(c) /\ Holds(c) /\ t = c.task /\ task'[t].lease \in {"queue", "takeover"}
  /\ task'[t].lease = "queue" => ~c.wip \/ task[t].tip = 0

LEMMA ReturnedEffect ==
  ASSUME task \in [Tasks -> TaskRows], NEW c \in Claims, c.task \in Tasks, task' = Returned(c)
  PROVE  /\ task'[c.task].lease \in {"queue", "takeover"}
         /\ task'[c.task].lease = "queue" => ~c.wip \/ task[c.task].tip = 0
         /\ \A t \in Tasks : Alike(task[t], task'[t]) /\ task'[t].rec = task[t].rec
         /\ \A t \in Tasks \ {c.task} : task'[t] = task[t]
<1> DEFINE lease == IF ~c.wip THEN "queue" ELSE IF task[c.task].tip = 0 THEN "queue" ELSE "takeover"
<1>1. lease \in {"queue", "takeover"} /\ (lease = "queue" => ~c.wip \/ task[c.task].tip = 0)
  OBVIOUS
<1>2. task' = [task EXCEPT ![c.task].lease = lease]
  BY DEF Returned
<1> HIDE DEF lease
<1>3. task'[c.task] = [task[c.task] EXCEPT !.lease = lease] /\ task[c.task] \in TaskRows
  BY <1>2
<1>4. \A t \in Tasks \ {c.task} : task'[t] = task[t]
  BY <1>2
<1>5. task'[c.task].lease = lease /\ Alike(task[c.task], task'[c.task]) /\ task'[c.task].rec = task[c.task].rec
  BY <1>3 DEF TaskRows, Alike
<1> QED
  BY <1>1, <1>4, <1>5 DEF Alike

\* What a handback of c does to the plane, and to the books; nothing when it is not tried.
Releases(c, tried) ==
  /\ \A t \in Tasks : Alike(task[t], task'[t]) /\ task'[t].rec = task[t].rec
  /\ \A t \in Tasks : task'[t].lease = task[t].lease \/ (tried /\ Freed(c, t))
  /\ hist'.mine = hist.mine /\ hist'.hidden = hist.hidden /\ hist'.unread = hist.unread
  /\ hist'.must = hist.must /\ hist'.fixes = hist.fixes
  /\ hist'.back = IF tried /\ Held(c) THEN hist.back \cup {RunOf(c)} ELSE hist.back
  /\ \/ hist'.ended = hist.ended
     \/ tried /\ Freed(c, c.task) /\ hist'.ended = hist.ended \cup {RunOf(c)}

LEMMA ReleaseEffect ==
  ASSUME TypeOK, NEW c \in Claims, NEW b \in BOOLEAN, NEW q \in BOOLEAN, releaseHeldClaim(c, b, q)
  PROVE  Releases(c, b) /\ (q => b /\ Held(c))
<1>1. task \in [Tasks -> TaskRows] /\ hist \in Histories
  BY DEF TypeOK
<1>2. CASE b /\ Held(c)
  <2>1. c.task \in Tasks
    BY <1>2, HeldHasATask DEF Held
  <2>2. PICK ok \in May("release") :
          LET done == ok /\ Holds(c)
          IN /\ task' = IF done THEN Returned(c) ELSE task
             /\ q = (done /\ ~c.wip)
             /\ hist' = [hist EXCEPT !.back = @ \cup {RunOf(c)},
                                     !.ended = IF done THEN @ \cup {RunOf(c)} ELSE @]
    BY <1>2 DEF releaseHeldClaim
  <2>3. CASE ok /\ Holds(c)
    <3>1. task' = Returned(c) /\ hist' = [hist EXCEPT !.back = @ \cup {RunOf(c)}, !.ended = @ \cup {RunOf(c)}]
      BY <2>2, <2>3
    <3>2. Freed(c, c.task)
      BY <1>1, <1>2, <2>1, <2>3, <3>1, ReturnedEffect DEF Freed
    <3> QED
      BY <1>1, <1>2, <2>1, <3>1, <3>2, ReturnedEffect DEF Histories, Freed, Releases
  <2>4. CASE ~(ok /\ Holds(c))
    <3>1. task' = task /\ hist' = [hist EXCEPT !.back = @ \cup {RunOf(c)}, !.ended = @]
      BY <2>2, <2>4
    <3> QED
      BY <1>1, <1>2, <3>1 DEF Histories, Alike, Releases
  <2> QED
    BY <2>3, <2>4
<1>3. CASE ~(b /\ Held(c))
  <2>1. task' = task /\ hist' = hist /\ ~q
    BY <1>3 DEF releaseHeldClaim
  <2> QED
    BY <1>3, <2>1 DEF Alike, Releases
<1> QED
  BY <1>2, <1>3

\* The sealed records of a closed round are released, and nothing else moves.
Opened(a, b, j) == b.rec[j] = IF a.rec[j].state = "sealed" THEN [a.rec[j] EXCEPT !.state = "open"] ELSE a.rec[j]

LEMMA CloseEffect ==
  ASSUME task \in [Tasks -> TaskRows], NEW c \in Claims, c.task \in Tasks, task' = CloseRound(c)
  PROVE  /\ \A t \in Tasks : Alike(task[t], task'[t]) /\ task'[t].lease = task[t].lease
         /\ \A j \in Positions : Opened(task[c.task], task'[c.task], j)
         /\ \A t \in Tasks \ {c.task} : task'[t] = task[t]
<1> DEFINE old == task[c.task].rec
           rec == [j \in Positions |->
                     IF old[j].state = "sealed" THEN [old[j] EXCEPT !.state = "open"] ELSE old[j]]
<1>1. CloseRound(c) = [task EXCEPT ![c.task].rec = rec]
  BY DEF CloseRound
<1>2. \A j \in Positions : rec[j] = IF old[j].state = "sealed" THEN [old[j] EXCEPT !.state = "open"] ELSE old[j]
  OBVIOUS
<1> HIDE DEF rec
<1>3. task'[c.task] = [task[c.task] EXCEPT !.rec = rec] /\ task[c.task] \in TaskRows
  BY <1>1
<1>4. \A t \in Tasks \ {c.task} : task'[t] = task[t]
  BY <1>1
<1>5. Alike(task[c.task], task'[c.task]) /\ task'[c.task].lease = task[c.task].lease /\ task'[c.task].rec = rec
  BY <1>3 DEF TaskRows, Alike
<1> QED
  BY <1>2, <1>4, <1>5 DEF Alike, Opened

LEMMA ParksEffect ==
  ASSUME task \in [Tasks -> TaskRows], NEW c \in Claims, Parks(c)
  PROVE  /\ \A t \in Tasks : Alike(task[t], task'[t]) /\ task'[t].rec = task[t].rec
         /\ \A t \in Tasks :
              \/ task'[t].lease = task[t].lease
              \/ task'[t].lease = "parked" /\ task[t].lease \in {"ours", "queue", "takeover"}
<1>1. \/ task' = task
      \/ /\ c.task # NoTask /\ task' = [task EXCEPT ![c.task].lease = "parked"]
         /\ task[c.task].lease \in {"ours", "queue", "takeover"}
  BY DEF Parks
<1>2. CASE c.task # NoTask /\ task' = [task EXCEPT ![c.task].lease = "parked"]
           /\ task[c.task].lease \in {"ours", "queue", "takeover"}
  <2>1. c.task \in Tasks
    BY <1>2, HeldHasATask
  <2>2. task'[c.task] = [task[c.task] EXCEPT !.lease = "parked"] /\ task[c.task] \in TaskRows
    BY <1>2, <2>1
  <2>3. \A t \in Tasks \ {c.task} : task'[t] = task[t]
    BY <1>2
  <2>4. Alike(task[c.task], task'[c.task]) /\ task'[c.task].rec = task[c.task].rec
        /\ task'[c.task].lease = "parked"
    BY <2>2 DEF TaskRows, Alike
  <2> QED
    BY <1>2, <2>3, <2>4 DEF Alike
<1> QED
  BY <1>1, <1>2 DEF Alike

-----------------------------------------------------------------------------
(* The verdict on a session.                                               *)

\* The parts of a phaseEnd that a verdict leaves as they were when it was reached.
SameFinding(a, b) ==
  /\ b.claim.task = a.claim.task /\ b.claim.run = a.claim.run
  /\ b.claim.settled = a.claim.settled /\ b.claim.wip = a.claim.wip
  /\ b.toQueue = a.toQueue /\ b.round = a.round /\ b.checked = a.checked
  /\ b.failure = a.failure /\ b.vround = a.vround /\ b.musts = a.musts
  /\ b.counted = a.counted /\ b.resolved = a.resolved

LEMMA DecideEffect ==
  ASSUME TypeOK, NEW j \in PhaseEnds, j.musts # {} => Phases[i] = "verify",
         NEW ok \in BOOLEAN, NEW branch \in BOOLEAN, NEW closeFailed \in BOOLEAN,
         Decide(j, ok, branch, closeFailed)
  PROVE  /\ SameFinding(j, end')
         /\ end'.claim.branch = IF end'.checkpoint THEN branch ELSE j.claim.branch
         /\ end'.checkpoint => canCheckpoint /\ (NeedsHold(j) \/ handoff \/ (ok /\ ~Last(i)))
         /\ canCheckpoint /\ NeedsHold(j) => end'.checkpoint
         /\ end'.handoff <=> end'.checkpoint /\ handoff
         /\ end'.checkpoint /\ ~end'.empty /\ reviewable => ok
         /\ end'.dead => ~end'.checkpoint /\ dead
         /\ RetriesNoMCP' => /\ ~end'.checkpoint /\ ReviewShaped(i) /\ ~res.mcp /\ trusted
                             /\ ~producedNothing
         /\ end'.released <=> ~end'.checkpoint /\ ~RetriesNoMCP' /\ Held(res.claim)
         /\ pc' = IF end'.checkpoint \/ RetriesNoMCP' THEN "route" ELSE "handback"
         /\ try'.briefed = try.briefed /\ try'.notes = try.notes /\ try'.mcpRetried = try.mcpRetried
<1> DEFINE recorded == reviewable /\ ReviewShaped(i) /\ ok
           noMCPNow == /\ ReviewShaped(i) /\ Phases[i] # "verify" /\ ~recorded /\ ~closeFailed /\ ~res.mcp
                       /\ ~res.claim.settled /\ ~res.handoff /\ trusted /\ res.zero
                       /\ ~producedNothing
           checkpoint == /\ canCheckpoint
                         /\ \/ (~Last(i) \/ handoff) /\ (handoff \/ ok)
                            \/ NeedsHold(j)
           retryNoMCP == noMCPNow /\ ~try.mcpRetried
           noMCP == noMCPNow /\ try.mcpRetried
           empty == reviewable /\ ~ok /\ ~noMCP
           handed == checkpoint /\ handoff
           released == ~checkpoint /\ ~retryNoMCP /\ Held(res.claim)
           died == ~checkpoint /\ ~noMCP /\ dead
           kept == IF checkpoint THEN branch ELSE j.claim.branch
<1>1. /\ end' = [j EXCEPT !.empty = empty, !.noMCP = noMCP, !.checkpoint = checkpoint,
                          !.handoff = handed, !.claim.branch = kept, !.released = released,
                          !.dead = died]
      /\ try' = [try EXCEPT !.noMCPNow = noMCPNow]
      /\ pc' = IF checkpoint \/ retryNoMCP THEN "route" ELSE "handback"
  BY DEF Decide
<1>2. noMCPNow => ReviewShaped(i) /\ ~res.mcp /\ trusted /\ ~producedNothing
  OBVIOUS
<1>3. checkpoint => canCheckpoint /\ (NeedsHold(j) \/ handoff \/ (ok /\ ~Last(i)))
  OBVIOUS
<1>4. canCheckpoint /\ NeedsHold(j) => checkpoint
  OBVIOUS
<1>5. ~(checkpoint /\ noMCPNow)
  BY DEF NeedsHold, handoff, reviewable
<1>6. checkpoint /\ ~empty /\ reviewable => ok
  BY <1>5
<1>7. /\ noMCPNow \in BOOLEAN /\ checkpoint \in BOOLEAN /\ noMCP \in BOOLEAN /\ empty \in BOOLEAN
      /\ handed \in BOOLEAN /\ released \in BOOLEAN /\ died \in BOOLEAN
  OBVIOUS
<1>8. /\ handed <=> checkpoint /\ handoff
      /\ died => ~checkpoint /\ dead
      /\ released <=> ~checkpoint /\ ~retryNoMCP /\ Held(res.claim)
      /\ retryNoMCP <=> noMCPNow /\ ~try.mcpRetried
      /\ kept = IF checkpoint THEN branch ELSE j.claim.branch
  OBVIOUS
<1> HIDE DEF noMCPNow, checkpoint, noMCP, retryNoMCP, empty, handed, released, died, kept
<1>9. /\ end'.empty = empty /\ end'.checkpoint = checkpoint /\ end'.handoff = handed
      /\ end'.released = released /\ end'.dead = died /\ end'.claim.branch = kept
      /\ SameFinding(j, end')
  <2> DEFINE claim == [j.claim EXCEPT !.branch = kept]
             k == [j EXCEPT !.empty = empty, !.noMCP = noMCP, !.checkpoint = checkpoint,
                            !.handoff = handed]
  <2>1. /\ claim.task = j.claim.task /\ claim.run = j.claim.run /\ claim.settled = j.claim.settled
        /\ claim.wip = j.claim.wip /\ claim.branch = kept
    BY DEF PhaseEnds, Claims
  <2>2. end' = [k EXCEPT !.claim = claim, !.released = released, !.dead = died]
    BY <1>1 DEF PhaseEnds
  <2>3. /\ DOMAIN k = DOMAIN j
        /\ k.empty = empty /\ k.checkpoint = checkpoint /\ k.handoff = handed
        /\ k.toQueue = j.toQueue /\ k.round = j.round /\ k.checked = j.checked
        /\ k.failure = j.failure /\ k.vround = j.vround /\ k.musts = j.musts
        /\ k.counted = j.counted /\ k.resolved = j.resolved
    BY DEF PhaseEnds
  <2>4. DOMAIN j = {"claim", "checkpoint", "handoff", "released", "toQueue", "empty", "dead", "noMCP",
                    "round", "seqEnd", "checked", "failure", "vround", "musts", "counted", "resolved",
                    "stop", "err"}
    BY DEF PhaseEnds
  <2> HIDE DEF claim, k
  <2> QED
    BY <2>1, <2>2, <2>3, <2>4 DEF SameFinding
<1>10. /\ try'.noMCPNow = noMCPNow /\ try'.mcpRetried = try.mcpRetried
       /\ try'.briefed = try.briefed /\ try'.notes = try.notes
  BY <1>1 DEF TypeOK, Tries
<1>11. RetriesNoMCP' <=> retryNoMCP
  BY <1>8, <1>10 DEF RetriesNoMCP
<1>12. RetriesNoMCP' => ~end'.checkpoint /\ ReviewShaped(i) /\ ~res.mcp /\ trusted /\ ~producedNothing
  BY <1>2, <1>5, <1>8, <1>9, <1>11
<1>13. /\ end'.claim.branch = IF end'.checkpoint THEN branch ELSE j.claim.branch
       /\ end'.released <=> ~end'.checkpoint /\ ~RetriesNoMCP' /\ Held(res.claim)
       /\ end'.handoff <=> end'.checkpoint /\ handoff
       /\ pc' = IF end'.checkpoint \/ RetriesNoMCP' THEN "route" ELSE "handback"
  BY <1>1, <1>8, <1>9, <1>11
<1> QED
  BY <1>3, <1>4, <1>6, <1>8, <1>9, <1>10, <1>12, <1>13

\* A review record in evidence belongs to a branch that the claim names.
LEMMA VerdictFacts ==
  ASSUME NEW c, NEW reported, NEW e \in checkpointEvidence(c, reported)
  PROVE  e.round # 0 => ReviewShaped(i) /\ (reported \/ c.wip)
<1>1. PICK read \in BOOLEAN, known \in BOOLEAN : e = Verdict(c, reported, read, known)
  BY MayIsBoolean DEF checkpointEvidence
<1> QED
  BY <1>1 DEF Verdict

\* A judgement closes the round of the session's own claim, or leaves the rows alone.
Closed(c) == task' = task \/ (c.task \in Tasks /\ Holds(c) /\ task' = CloseRound(c))

\* What every verdict does, whichever way the session was judged.
Judges ==
  /\ JudgeFrame /\ pc = "judge" /\ Closed(res.claim)
  /\ end'.claim.task = res.claim.task /\ end'.claim.run = res.claim.run
  /\ end'.claim.settled = res.claim.settled /\ end'.claim.wip = res.claim.wip
  /\ res.claim.task = NoTask => end'.claim.branch = res.claim.branch
  /\ ~end'.toQueue
  /\ end'.checkpoint => canCheckpoint /\ ~end'.released /\ ~RetriesNoMCP'
  /\ end'.musts # {} => /\ Phases[i] = "verify" /\ res.claim.task # NoTask
                        /\ canCheckpoint => end'.checkpoint
                        /\ orderlyExit \/ recoveredExit
                        /\ res.reported \/ res.claim.wip
  /\ end'.handoff => end'.checkpoint
  /\ end'.dead => end'.released /\ producedNothing
  /\ end'.empty => reviewable
  /\ RetriesNoMCP' => ~end'.checkpoint /\ ReviewShaped(i) /\ ~res.mcp /\ trusted
  /\ end'.released <=> ~end'.checkpoint /\ ~RetriesNoMCP' /\ Held(res.claim)
  /\ pc' = IF end'.checkpoint \/ RetriesNoMCP' THEN "route" ELSE "handback"
  /\ try'.briefed = try.briefed /\ try'.notes = try.notes /\ try'.mcpRetried = try.mcpRetried

LEMMA DecideJudges ==
  ASSUME Inv, JudgeFrame, pc = "judge", Closed(res.claim),
         NEW j \in PhaseEnds, j.claim.task = res.claim.task, j.claim.run = res.claim.run,
         j.claim.settled = res.claim.settled, j.claim.wip = res.claim.wip, ~j.toQueue,
         res.claim.task = NoTask => j.claim.branch = res.claim.branch,
         j.musts # {} => /\ Phases[i] = "verify" /\ res.claim.task # NoTask /\ NeedsHold(j) /\ judgeable
                         /\ res.reported \/ res.claim.wip,
         NEW ok \in BOOLEAN, NEW branch \in BOOLEAN, NEW closeFailed \in BOOLEAN,
         Decide(j, ok, branch, closeFailed)
  PROVE  Judges
<1>1. TypeOK
  BY DEF Inv
<1>2. /\ SameFinding(j, end')
      /\ end'.checkpoint => canCheckpoint
      /\ canCheckpoint /\ NeedsHold(j) => end'.checkpoint
      /\ end'.handoff <=> end'.checkpoint /\ handoff
      /\ end'.dead => ~end'.checkpoint /\ dead
      /\ RetriesNoMCP' => /\ ~end'.checkpoint /\ ReviewShaped(i) /\ ~res.mcp /\ trusted
                          /\ ~producedNothing
      /\ end'.released <=> ~end'.checkpoint /\ ~RetriesNoMCP' /\ Held(res.claim)
      /\ pc' = IF end'.checkpoint \/ RetriesNoMCP' THEN "route" ELSE "handback"
      /\ try'.briefed = try.briefed /\ try'.notes = try.notes /\ try'.mcpRetried = try.mcpRetried
  BY <1>1, DecideEffect
<1>3. end'.empty => reviewable
  BY DEF Decide, PhaseEnds
<1>4. judgeable => orderlyExit \/ recoveredExit
  BY DEF judgeable
<1>5. end'.dead => end'.released /\ producedNothing
  BY <1>2 DEF dead
<1>6. res.claim.task = NoTask => end'.claim.branch = res.claim.branch
  <2>1. end'.claim.branch = IF end'.checkpoint THEN branch ELSE j.claim.branch
    BY <1>1, DecideEffect
  <2> QED
    BY <1>2, <2>1 DEF canCheckpoint, Held
<1> QED
  BY <1>2, <1>3, <1>4, <1>5, <1>6 DEF SameFinding, Judges

LEMMA JudgeEffect ==
  ASSUME Inv, JudgeVerification \/ JudgePhase \/ JudgeOther
  PROVE  Judges
<1>1. conf \in Configs /\ TypeOK /\ i \in Positions /\ JudgeFrame /\ pc = "judge" /\ res.claim \in Claims
      /\ res.reported \in BOOLEAN
  BY DEF Inv, TypeOK, Sessions, InPhase, Ending, JudgeVerification, JudgePhase, JudgeOther
<1>2. CASE JudgeVerification
  <2>1. res.claim.task \in Tasks /\ judgeable /\ Phases[i] = "verify"
    BY <1>1, <1>2, HeldHasATask DEF JudgeVerification, judgeable
  <2>2. PICK e \in checkpointEvidence(res.claim, res.reported), closed \in Closes(res.claim),
             read \in BOOLEAN, j \in PhaseEnds :
          LET closes == e.ok /\ e.round > 0 /\ e.sealed
              ok == Accepted(e, closes, closed) /\ read
          IN /\ task' = IF closes /\ closed THEN CloseRound(res.claim) ELSE task
             /\ Decide(j, ok, e.branch, FALSE)
             /\ Found(j) /\ j.checked /\ (j.failure <=> ~ok)
             /\ j.claim.branch = IF ok THEN e.branch ELSE res.claim.branch
             /\ j.musts = IF ok /\ e.round > 0 THEN task[res.claim.task].open ELSE {}
    BY <1>2, VerificationJudged
  <2> DEFINE ok == Accepted(e, e.ok /\ e.round > 0 /\ e.sealed, closed) /\ read
  <2>3. e \in Verdicts
    BY <1>1, <2>1, EvidenceType, ConfFacts DEF TypeOK
  <2>4. ok \in BOOLEAN /\ e.branch \in BOOLEAN
    BY <2>3 DEF Verdicts
  <2>5. Closed(res.claim)
    BY <2>1, <2>2 DEF Closed, Closes
  <2>6. Found(j) /\ Decide(j, ok, e.branch, FALSE) /\ (j.musts # {} => NeedsHold(j) /\ e.round > 0)
    BY <2>2 DEF NeedsHold
  <2> HIDE DEF ok
  <2>7. NoTask \notin Tasks
    BY <1>1, ConfFacts
  <2>8. e.round > 0 => res.reported \/ res.claim.wip
    BY VerdictFacts
  <2> QED
    BY <1>1, <2>1, <2>4, <2>5, <2>6, <2>7, <2>8, DecideJudges DEF Found
<1>3. CASE JudgePhase
  <2>1. res.claim.task \in Tasks /\ res.claim.task # NoTask
    BY <1>1, <1>3, HeldHasATask DEF JudgePhase, reviewable, canCheckpoint, Held
  <2>2. PICK e \in checkpointEvidence(res.claim, res.reported), closed \in Closes(res.claim),
             j \in PhaseEnds :
          LET closes == e.ok /\ e.round > 0 /\ e.sealed /\ ~handoff /\ ~ReviewShaped(i + 1)
              ok == Accepted(e, closes, closed)
          IN /\ task' = IF closes /\ closed THEN CloseRound(res.claim) ELSE task
             /\ Decide(j, ok, e.branch, closes /\ ~closed)
             /\ Found(j) /\ j.musts = {}
             /\ j.round = IF e.sealed THEN e.round ELSE 0
    BY <1>3, PhaseJudged
  <2> DEFINE closes == e.ok /\ e.round > 0 /\ e.sealed /\ ~handoff /\ ~ReviewShaped(i + 1)
             ok == Accepted(e, closes, closed)
             failed == closes /\ ~closed
  <2>3. e \in Verdicts
    BY <1>1, <2>1, EvidenceType, ConfFacts DEF TypeOK
  <2>4. ok \in BOOLEAN /\ failed \in BOOLEAN /\ e.branch \in BOOLEAN
    BY <2>3 DEF Verdicts, Accepted
  <2>5. Closed(res.claim)
    BY <2>1, <2>2 DEF Closed, Closes
  <2>6. Found(j) /\ Decide(j, ok, e.branch, failed) /\ j.musts = {}
    BY <2>2
  <2> HIDE DEF ok, failed
  <2> QED
    BY <1>1, <2>1, <2>4, <2>5, <2>6, DecideJudges DEF Found
<1>4. CASE JudgeOther
  <2> DEFINE j == [Judged EXCEPT !.checked = judgeable, !.failure = judgeable]
  <2>1. /\ j \in PhaseEnds /\ Found(j) /\ j.musts = {} /\ j.claim = res.claim
    <3>1. judgeable \in BOOLEAN
      BY DEF judgeable
    <3>2. Judged \in PhaseEnds /\ Judged.claim = res.claim /\ ~Judged.toQueue /\ Judged.musts = {}
      BY <1>1, JudgedType
    <3> QED
      BY <3>1, <3>2 DEF PhaseEnds, Found
  <2>2. Decide(j, TRUE, FALSE, FALSE) /\ Closed(res.claim)
    BY <1>4 DEF JudgeOther, Closed
  <2> HIDE DEF j
  <2> QED
    BY <1>1, <2>1, <2>2, DecideJudges DEF Found
<1> QED
  BY <1>2, <1>3, <1>4

\* The peek takes the run the plane names for the session's claim.
Peeked(c) ==
  /\ c.task = try.briefed /\ c.run = task[try.briefed].run /\ ~c.settled /\ c.wip

LEMMA PeekEffect ==
  ASSUME Inv, peekCheckpointClaim
  PROVE  /\ pc = "handback" /\ pc' = "route" /\ Peeks
         /\ UNCHANGED <<conf, i, carried, cnt, try, res, stop, fleetDead>>
         /\ try.briefed \in Tasks /\ InCustody(try.briefed)
         /\ Peeked(end'.claim) /\ end'.claim.task \in Tasks /\ Closed(end'.claim)
         /\ end'.handoff = end.handoff /\ end'.released = end.released /\ end'.toQueue = end.toQueue
         /\ end'.empty = end.empty /\ end'.dead = end.dead /\ end'.musts = end.musts
         /\ hist'.mine = hist.mine /\ hist'.back = hist.back /\ hist'.ended = hist.ended
         /\ hist'.unread = hist.unread /\ hist'.must = hist.must /\ hist'.fixes = hist.fixes
         /\ hist'.hidden = IF end'.checkpoint THEN hist.hidden \ {RunOf(end'.claim)} ELSE hist.hidden
         /\ \E e \in checkpointEvidence([end'.claim EXCEPT !.branch = TRUE], FALSE),
               closed \in Closes(end'.claim) :
              LET closes == e.ok /\ e.sealed /\ ~ReviewShaped(i + 1)
              IN /\ task' = IF closes /\ closed THEN CloseRound(end'.claim) ELSE task
                 /\ end'.checkpoint <=> Accepted(e, closes, closed)
                 /\ end'.checkpoint => end'.claim.branch = e.branch
                 /\ end'.round = e.round
<1>1. conf \in Configs /\ TypeOK /\ i \in Positions
  BY DEF Inv, TypeOK, InPhase, Ending, peekCheckpointClaim
<1> DEFINE t == try.briefed
           claim == [task |-> t, run |-> task[t].run, settled |-> FALSE, wip |-> TRUE, branch |-> TRUE]
<1>2. t \in Tasks
  BY <1>1 DEF TypeOK, Tries, peekCheckpointClaim, Peeks
<1>3. /\ claim \in Claims /\ claim.task = t /\ claim.run = task[t].run
      /\ claim.settled = FALSE /\ claim.wip = TRUE /\ claim.branch = TRUE
  BY <1>1, <1>2 DEF TypeOK, TaskRows, Claims
<1>4. PICK e \in checkpointEvidence(claim, FALSE), closed \in Closes(claim) :
        LET closes == e.ok /\ e.sealed /\ ~ReviewShaped(i + 1)
            ok == Accepted(e, closes, closed)
        IN /\ task' = IF closes /\ closed THEN CloseRound(claim) ELSE task
           /\ end' = [end EXCEPT !.claim = [claim EXCEPT !.branch = IF ok THEN e.branch ELSE @],
                                 !.round = e.round, !.checkpoint = ok]
           /\ hist' = [hist EXCEPT !.hidden = IF ok THEN @ \ {RunOf(claim)} ELSE @]
  BY DEF peekCheckpointClaim
<1> HIDE DEF claim
<1>5. e \in Verdicts
  BY <1>1, <1>2, <1>3, EvidenceType, ConfFacts DEF TypeOK
<1> DEFINE closes == e.ok /\ e.sealed /\ ~ReviewShaped(i + 1)
           ok == Accepted(e, closes, closed)
           kept == IF ok THEN e.branch ELSE claim.branch
           hidden == IF ok THEN hist.hidden \ {RunOf(claim)} ELSE hist.hidden
           new == [claim EXCEPT !.branch = kept]
<1>6. /\ task' = IF closes /\ closed THEN CloseRound(claim) ELSE task
      /\ end' = [end EXCEPT !.claim = new, !.round = e.round, !.checkpoint = ok]
      /\ hist' = [hist EXCEPT !.hidden = hidden]
  BY <1>4
<1>7. ok \in BOOLEAN /\ e.branch \in BOOLEAN /\ e.round \in Rounds /\ closes \in BOOLEAN
  BY <1>5 DEF Verdicts, Accepted
<1>8. (ok => kept = e.branch) /\ kept \in BOOLEAN
  BY <1>3, <1>7
<1>9. hidden = IF ok THEN hist.hidden \ {RunOf(claim)} ELSE hist.hidden
  OBVIOUS
<1>10. ok <=> Accepted(e, closes, closed)
  OBVIOUS
<1> HIDE DEF ok, kept, hidden
<1>11. /\ new \in Claims /\ new.task = t /\ new.run = claim.run /\ new.settled = FALSE /\ new.wip = TRUE
       /\ new.branch = kept /\ RunOf(new) = RunOf(claim) /\ claim = [new EXCEPT !.branch = TRUE]
  BY <1>3, <1>8 DEF Claims, RunOf
<1> HIDE DEF new
<1>12. /\ end'.claim = new /\ end'.round = e.round /\ end'.checkpoint = ok
       /\ end'.handoff = end.handoff /\ end'.released = end.released /\ end'.toQueue = end.toQueue
       /\ end'.empty = end.empty /\ end'.dead = end.dead /\ end'.musts = end.musts
  BY <1>1, <1>6 DEF TypeOK, PhaseEnds
<1>13. /\ hist'.mine = hist.mine /\ hist'.back = hist.back /\ hist'.ended = hist.ended
       /\ hist'.unread = hist.unread /\ hist'.must = hist.must /\ hist'.fixes = hist.fixes
       /\ hist'.hidden = hidden
  BY <1>1, <1>6 DEF TypeOK, Histories
<1>14. CloseRound(claim) = CloseRound(new) /\ Closes(claim) = Closes(new) /\ (Holds(claim) <=> Holds(new))
  BY <1>3, <1>11 DEF CloseRound, Closes, Holds
<1>15. Closed(new)
  BY <1>2, <1>6, <1>11, <1>14 DEF Closed, Closes
<1>16. \E f \in checkpointEvidence([new EXCEPT !.branch = TRUE], FALSE), shut \in Closes(new) :
              LET due == f.ok /\ f.sealed /\ ~ReviewShaped(i + 1)
              IN /\ task' = IF due /\ shut THEN CloseRound(new) ELSE task
                 /\ end'.checkpoint <=> Accepted(f, due, shut)
                 /\ end'.checkpoint => new.branch = f.branch
                 /\ end'.round = f.round
  <2>1. e \in checkpointEvidence([new EXCEPT !.branch = TRUE], FALSE) /\ closed \in Closes(new)
    BY <1>11, <1>14
  <2>2. LET due == e.ok /\ e.sealed /\ ~ReviewShaped(i + 1)
        IN /\ task' = IF due /\ closed THEN CloseRound(new) ELSE task
           /\ end'.checkpoint <=> Accepted(e, due, closed)
           /\ end'.checkpoint => new.branch = e.branch
           /\ end'.round = e.round
    BY <1>6, <1>8, <1>10, <1>11, <1>12, <1>14
  <2> QED
    BY <2>1, <2>2
<1>17. Peeks /\ InCustody(try.briefed) /\ pc = "handback" /\ pc' = "route"
       /\ UNCHANGED <<conf, i, carried, cnt, try, res, stop, fleetDead>>
  BY DEF peekCheckpointClaim, Peeks
<1> QED
  BY <1>2, <1>3, <1>9, <1>11, <1>12, <1>13, <1>15, <1>16, <1>17 DEF Peeked

-----------------------------------------------------------------------------
(* From the verdict to the seam.                                           *)

LEMMA HandbackEffect ==
  ASSUME Inv, Handback
  PROVE  /\ pc = "handback" /\ pc' = "route" /\ (Peeks => "read" \in Faults)
         /\ UNCHANGED <<conf, i, carried, cnt, try, res, stop, fleetDead>>
         /\ Releases(res.claim, trusted)
         /\ end'.toQueue => trusted /\ Held(res.claim)
         /\ end'.claim = end.claim /\ end'.checkpoint = end.checkpoint /\ end'.handoff = end.handoff
         /\ end'.released = end.released /\ end'.empty = end.empty /\ end'.dead = end.dead
         /\ end'.musts = end.musts /\ end'.round = end.round
<1>1. TypeOK /\ res.claim \in Claims /\ trusted \in BOOLEAN /\ end \in PhaseEnds
  BY DEF Inv, TypeOK, Sessions, trusted
<1>2. PICK toQueue \in BOOLEAN :
        releaseHeldClaim(res.claim, trusted, toQueue) /\ end' = [end EXCEPT !.toQueue = toQueue]
  BY DEF Handback
<1>3. Releases(res.claim, trusted) /\ (toQueue => trusted /\ Held(res.claim))
  BY <1>1, <1>2, ReleaseEffect
<1> QED
  BY <1>1, <1>2, <1>3 DEF Handback, PhaseEnds

\* What the seam looks at, but for the stops.
SameEnd(a, b) ==
  /\ b.claim = a.claim /\ b.checkpoint = a.checkpoint /\ b.handoff = a.handoff
  /\ b.released = a.released /\ b.toQueue = a.toQueue /\ b.empty = a.empty /\ b.dead = a.dead
  /\ b.round = a.round /\ b.musts = a.musts

\* Nothing of the phase is left for the next one.
EmptyEnd(e) ==
  e.claim = NoClaim /\ ~e.checkpoint /\ ~e.handoff /\ ~e.toQueue /\ ~e.empty /\ ~e.dead /\ e.musts = {}

LEMMA CarriedEndEffect ==
  ASSUME Inv, NEW err \in BOOLEAN, releaseCarriedEnd(err)
  PROVE  \/ /\ end.checkpoint /\ end.claim # NoClaim /\ Releases(end.claim, TRUE)
            /\ EmptyEnd(end') /\ end'.released = Held(end.claim)
         \/ /\ ~(end.checkpoint /\ end.claim # NoClaim)
            /\ task' = task /\ hist' = hist /\ SameEnd(end, end')
<1>1. TypeOK /\ end \in PhaseEnds /\ end.claim \in Claims
  BY DEF Inv, TypeOK, PhaseEnds
<1>2. CASE end.checkpoint /\ end.claim # NoClaim
  <2>1. PICK toQueue \in BOOLEAN : releaseHeldClaim(end.claim, TRUE, toQueue)
    BY <1>2 DEF releaseCarriedEnd
  <2>2. Releases(end.claim, TRUE)
    BY <1>1, <2>1, ReleaseEffect
  <2>3. end' = [[NoEnd EXCEPT !.released = Held(end.claim)] EXCEPT !.err = err]
    BY <1>2 DEF releaseCarriedEnd
  <2>4. EmptyEnd(end') /\ end'.released = Held(end.claim)
    BY <2>3 DEF NoEnd, EmptyEnd
  <2> QED
    BY <1>2, <2>2, <2>4
<1>3. CASE ~(end.checkpoint /\ end.claim # NoClaim)
  <2>1. end' = [end EXCEPT !.err = err] /\ \E q \in BOOLEAN : releaseHeldClaim(NoClaim, TRUE, q)
    BY <1>3 DEF releaseCarriedEnd
  <2>2. ~Held(NoClaim)
    BY DEF Held, NoClaim
  <2>3. task' = task /\ hist' = hist
    BY <2>1, <2>2 DEF releaseHeldClaim
  <2>4. SameEnd(end, end')
    BY <1>1, <2>1 DEF SameEnd, PhaseEnds
  <2> QED
    BY <1>3, <2>3, <2>4
<1> QED
  BY <1>2, <1>3

\* The phase returns to drainPhases; its session is run again; or it waits first.
RouteReturns ==
  /\ pc' = "seam" /\ UNCHANGED <<task, hist, try>> /\ SameEnd(end, end')
RouteRetries ==
  /\ pc' = "attempt" /\ UNCHANGED <<task, hist, end>>
  /\ (res.how = "nostart" /\ res.after = "preflight") \/ (Started /\ RetriesNoMCP)
RouteWaits ==
  /\ pc' \in {"limited", "backoff", "seam"} /\ Started /\ ~RetriesNoMCP /\ carried = NoClaim
  /\ \/ /\ end.checkpoint /\ end.claim # NoClaim /\ Releases(end.claim, TRUE)
        /\ EmptyEnd(end') /\ end'.released = Held(end.claim)
     \/ /\ ~(end.checkpoint /\ end.claim # NoClaim)
        /\ task' = task /\ hist' = hist /\ SameEnd(end, end')

LEMMA RouteEffect ==
  ASSUME Inv, Route
  PROVE  /\ pc = "route" /\ RouteFrame
         /\ try'.briefed = try.briefed /\ try'.notes = try.notes
         /\ RouteReturns \/ RouteRetries \/ RouteWaits
<1>1. TypeOK /\ end \in PhaseEnds /\ try \in Tries
  BY DEF Inv, TypeOK
<1>2. CASE RouteUnstarted
  <2>1. CASE RetriesMCP
    BY <1>1, <1>2, <2>1 DEF RouteUnstarted, RouteRetries, RetriesMCP, Tries
  <2>2. CASE ~RetriesMCP
    BY <1>1, <1>2, <2>2 DEF RouteUnstarted, RouteReturns, Returns, SameEnd, PhaseEnds
  <2> QED
    BY <2>1, <2>2
<1>3. CASE RouteUntrusted \/ RouteFatal \/ RouteFinished
  <2>1. SameEnd(end, end') /\ pc' = "seam"
    BY <1>1, <1>3 DEF RouteUntrusted, RouteFatal, RouteFinished, Returns, SameEnd, PhaseEnds
  <2> QED
    BY <1>3, <2>1 DEF RouteUntrusted, RouteFatal, RouteFinished, Failed, Started, RouteReturns
<1>4. CASE RouteNoMCP
  BY <1>1, <1>4 DEF RouteNoMCP, RouteRetries, Started, Tries
<1>5. CASE RouteLimited
  <2>1. CASE res.after = "credit" \/ Resumed
    <3>1. SameEnd(end, end') /\ pc' = "seam" /\ UNCHANGED <<task, hist>>
      BY <1>1, <1>5, <2>1 DEF RouteLimited, Returns, SameEnd, PhaseEnds
    <3> QED
      BY <1>5, <3>1 DEF RouteLimited, Started, RouteReturns
  <2>2. CASE ~(res.after = "credit" \/ Resumed)
    <3>1. releaseCarriedEnd(FALSE) /\ pc' = "limited" /\ carried = NoClaim
      BY <1>5, <2>2 DEF RouteLimited, Resumed
    <3>2. RouteWaits
      BY <1>5, <3>1, CarriedEndEffect DEF RouteLimited, RouteWaits
    <3> QED
      BY <1>5, <3>2 DEF RouteLimited, Started
  <2> QED
    BY <2>1, <2>2
<1>6. CASE RouteTransient
  <2>1. Started /\ pc = "route" /\ ~RetriesNoMCP /\ RouteFrame
    BY <1>6 DEF RouteTransient, Failed, Started
  <2>2. CASE Resumed
    <3>1. SameEnd(end, end') /\ pc' = "seam" /\ UNCHANGED <<task, hist, try>>
      BY <1>1, <1>6, <2>2 DEF RouteTransient, Returns, SameEnd, PhaseEnds
    <3> QED
      BY <2>1, <3>1 DEF RouteReturns
  <2>3. CASE ~Resumed
    <3> DEFINE odd == try.unclassified + (IF res.after = "odd" THEN 1 ELSE 0)
               retries == try.retries + 1
               over == MaxRetries > 0 /\ retries > MaxRetries
    <3>1. PICK quiet \in {FALSE, res.after = "transient"} :
            IF odd > UnclassifiedBound
            THEN Returns([end EXCEPT !.err = TRUE]) /\ UNCHANGED <<task, try, hist>>
            ELSE /\ releaseCarriedEnd(over) /\ pc' = IF over THEN "seam" ELSE "backoff"
                 /\ try' = [try EXCEPT !.unclassified = odd,
                              !.retries = IF MaxRetries > 0 THEN retries ELSE 0,
                              !.noUsage = IF quiet THEN @ + 1 ELSE 0]
      BY <1>6, <2>3 DEF RouteTransient
    <3>2. CASE odd > UnclassifiedBound
      <4>1. SameEnd(end, end') /\ pc' = "seam" /\ UNCHANGED <<task, hist, try>>
        BY <1>1, <3>1, <3>2 DEF Returns, SameEnd, PhaseEnds
      <4> QED
        BY <2>1, <4>1 DEF RouteReturns
    <3>3. CASE ~(odd > UnclassifiedBound)
      <4>1. over \in BOOLEAN
        OBVIOUS
      <4>2. releaseCarriedEnd(over) /\ pc' \in {"seam", "backoff"} /\ carried = NoClaim
        BY <2>3, <3>1, <3>3 DEF Resumed
      <4>3. try'.briefed = try.briefed /\ try'.notes = try.notes
        BY <1>1, <3>1, <3>3 DEF Tries
      <4> HIDE DEF over
      <4>4. RouteWaits
        BY <2>1, <4>1, <4>2, CarriedEndEffect DEF RouteWaits
      <4> QED
        BY <2>1, <4>3, <4>4
    <3> QED
      BY <3>2, <3>3
  <2> QED
    BY <2>2, <2>3
<1> QED
  BY <1>2, <1>3, <1>4, <1>5, <1>6 DEF Route

-----------------------------------------------------------------------------
(* The session.                                                            *)

\* The other tasks are left alone.
OnlyRow(t) == \A u \in Tasks \ {t} : task'[u] = task[u]

\* A row but for what a review writes.
AlikeUnreviewed(a, b) ==
  /\ b.lease = a.lease /\ b.run = a.run /\ b.tip = a.tip /\ b.pushed = a.pushed /\ b.nocode = a.nocode

LEMMA SessionClaimsEffect ==
  ASSUME Inv, NEW t \in Tasks, SessionClaims(t)
  PROVE  /\ pc = "session" /\ SessionSteps /\ ~res.mcp
         /\ res.on.task = NoTask \/ (Strays /\ res.on.task # t)
         /\ task[t].lease \in {"queue", "takeover"} /\ OnlyRow(t)
         /\ task'[t].lease = "ours" /\ task'[t].run = task[t].run + 1
         /\ task'[t].tip = task[t].tip /\ task'[t].pushed = task[t].pushed
         /\ task'[t].nocode = task[t].nocode /\ task'[t].notes = task[t].notes
         /\ \A j \in Positions : task'[t].rec[j] = NoRecord
         /\ res'.on = [task |-> t, run |-> task[t].run + 1] /\ ~res'.reported /\ res'.wrote = res.wrote
         /\ hist'.mine = hist.mine \cup {[task |-> t, run |-> task[t].run + 1]}
         /\ hist'.back = hist.back /\ hist'.ended = hist.ended /\ hist'.unread = hist.unread
         /\ hist'.must = hist.must /\ hist'.fixes = hist.fixes
         /\ \/ /\ res'.claim = res.claim /\ ~res'.mcp
               /\ hist'.hidden = hist.hidden \cup {[task |-> t, run |-> task[t].run + 1]}
            \/ /\ RunOf(res'.claim) = [task |-> t, run |-> task[t].run + 1]
               /\ res'.claim.task = t /\ res'.claim.run = task[t].run + 1 /\ ~res'.claim.settled
               /\ (res'.claim.wip <=> task[t].tip > 0) /\ (res'.claim.branch <=> task[t].tip > 0)
               /\ res'.mcp /\ hist'.hidden = hist.hidden
<1>1. conf \in Configs /\ TypeOK /\ task[t] \in TaskRows /\ res \in Sessions /\ hist \in Histories
  BY DEF Inv, TypeOK
<1> DEFINE run == task[t].run + 1
           wip == task[t].tip > 0
           id == [task |-> t, run |-> run]
           claim == [task |-> t, run |-> run, settled |-> FALSE, wip |-> wip, branch |-> wip]
           recs == [j \in Positions |-> NoRecord]
<1>2. PICK unseen \in BOOLEAN :
        /\ task' = [task EXCEPT ![t] =
             [@ EXCEPT !.lease = "ours", !.run = run, !.rec = [j \in Positions |-> NoRecord]]]
        /\ res' = [res EXCEPT !.on = id, !.mcp = ~unseen, !.reported = FALSE,
                              !.claim = IF unseen THEN @ ELSE claim]
        /\ hist' = [hist EXCEPT !.mine = @ \cup {id},
                                !.hidden = IF unseen THEN @ \cup {id} ELSE @]
  BY CanIsBoolean DEF SessionClaims
<1>3. RunOf(claim) = id /\ claim.task = t /\ claim.run = run /\ claim.settled = FALSE
      /\ claim.wip = wip /\ claim.branch = wip
  BY DEF RunOf
<1>4. \A j \in Positions : recs[j] = NoRecord
  OBVIOUS
<1> HIDE DEF run, wip, id, claim, recs
<1>5. task'[t] = [task[t] EXCEPT !.lease = "ours", !.run = run, !.rec = recs] /\ OnlyRow(t)
  BY <1>1, <1>2 DEF TypeOK, OnlyRow, recs
<1>6. /\ task'[t].lease = "ours" /\ task'[t].run = run
      /\ task'[t].tip = task[t].tip /\ task'[t].pushed = task[t].pushed
      /\ task'[t].nocode = task[t].nocode /\ task'[t].notes = task[t].notes
      /\ task'[t].rec = recs
  BY <1>1, <1>5 DEF TaskRows
<1>7. res'.on = id /\ ~res'.reported /\ res'.wrote = res.wrote /\ (res'.mcp <=> ~unseen)
      /\ res'.claim = IF unseen THEN res.claim ELSE claim
  BY <1>1, <1>2 DEF Sessions
<1>8. /\ hist'.mine = hist.mine \cup {id}
      /\ hist'.back = hist.back /\ hist'.ended = hist.ended /\ hist'.unread = hist.unread
      /\ hist'.must = hist.must /\ hist'.fixes = hist.fixes
      /\ hist'.hidden = IF unseen THEN hist.hidden \cup {id} ELSE hist.hidden
  BY <1>1, <1>2 DEF Histories
<1>9. /\ pc = "session" /\ SessionSteps /\ ~res.mcp /\ task[t].lease \in {"queue", "takeover"}
      /\ res.on.task = NoTask \/ (Strays /\ res.on.task # t)
  BY DEF SessionClaims, Strays
<1>10. run = task[t].run + 1 /\ (wip <=> task[t].tip > 0) /\ id = [task |-> t, run |-> task[t].run + 1]
  BY DEF run, wip, id
<1> QED
  BY <1>3, <1>4, <1>5, <1>6, <1>7, <1>8, <1>9, <1>10

\* A session moves the row it works on.
Works ==
  /\ pc = "session" /\ SessionSteps /\ UNCHANGED hist
  /\ Working /\ res.on.task \in Tasks /\ OnlyRow(res.on.task)
  /\ res'.on = res.on /\ res'.mcp
  /\ RunOf(res'.claim) = RunOf(res.claim) /\ res'.claim.task = res.claim.task
  /\ res'.claim.run = res.claim.run

LEMMA RecordsBranchEffect ==
  ASSUME Inv, SessionRecordsBranch
  PROVE  /\ Works /\ ~ReviewShaped(i) /\ res'.wrote = res.wrote
         /\ LET a == task[res.on.task] b == task'[res.on.task]
            IN /\ b.lease = a.lease /\ b.run = a.run /\ b.tip = a.tip + 1 /\ b.nocode = a.nocode
               /\ b.notes = a.notes /\ b.rec = a.rec
         /\ res'.reported <=> seen
         /\ res'.claim.settled = res.claim.settled
         /\ IF seen THEN res'.claim.wip /\ res'.claim.branch ELSE res'.claim = res.claim
<1>1. TypeOK /\ res \in Sessions /\ Working /\ res.claim \in Claims
  BY DEF Inv, TypeOK, SessionRecordsBranch, Sessions
<1>2. res.on.task \in Tasks /\ task[res.on.task] \in TaskRows
  BY <1>1, WorkingOnATask
<1> DEFINE t == res.on.task
           a == task[t]
<1>3. PICK pushed \in BOOLEAN :
        task' = [task EXCEPT ![t] = [a EXCEPT !.tip = a.tip + 1, !.pushed = pushed]]
  BY DEF SessionRecordsBranch
<1>4. task'[t] = [a EXCEPT !.tip = a.tip + 1, !.pushed = pushed] /\ OnlyRow(t)
  BY <1>1, <1>2, <1>3 DEF TypeOK, OnlyRow
<1>5. LET b == task'[t]
      IN /\ b.lease = a.lease /\ b.run = a.run /\ b.tip = a.tip + 1 /\ b.nocode = a.nocode
         /\ b.notes = a.notes /\ b.rec = a.rec
  BY <1>2, <1>4 DEF TaskRows
<1> DEFINE claim == IF seen THEN [res.claim EXCEPT !.wip = TRUE, !.branch = TRUE] ELSE res.claim
<1>6. res' = [res EXCEPT !.reported = seen, !.mcp = TRUE, !.claim = claim]
  BY DEF SessionRecordsBranch
<1>7. /\ claim.task = res.claim.task /\ claim.run = res.claim.run /\ claim.settled = res.claim.settled
      /\ RunOf(claim) = RunOf(res.claim)
      /\ IF seen THEN claim.wip /\ claim.branch ELSE claim = res.claim
  BY <1>1 DEF Claims, RunOf
<1> HIDE DEF claim
<1>8. res'.claim = claim /\ res'.reported = seen /\ res'.mcp = TRUE /\ res'.on = res.on
      /\ res'.wrote = res.wrote
  BY <1>1, <1>6 DEF Sessions
<1>9. SessionSteps /\ UNCHANGED hist /\ ~ReviewShaped(i) /\ pc = "session"
  BY DEF SessionRecordsBranch, Working
<1> QED
  BY <1>1, <1>2, <1>4, <1>5, <1>7, <1>8, <1>9 DEF Works

LEMMA DeclaresNoCodeEffect ==
  ASSUME Inv, SessionDeclaresNoCode
  PROVE  /\ Works /\ Phases[i] = "implement"
         /\ LET a == task[res.on.task] b == task'[res.on.task]
            IN /\ b.lease = a.lease /\ b.run = a.run /\ b.tip = a.tip /\ b.pushed = a.pushed
               /\ b.notes = a.notes /\ b.rec = a.rec /\ b.nocode
         /\ res'.claim = res.claim /\ res'.reported = res.reported /\ res'.wrote = res.wrote
<1>1. TypeOK /\ res \in Sessions /\ Working /\ res.claim \in Claims
  BY DEF Inv, TypeOK, SessionDeclaresNoCode, Sessions
<1>2. res.on.task \in Tasks /\ task[res.on.task] \in TaskRows
  BY <1>1, WorkingOnATask
<1>3. task'[res.on.task] = [task[res.on.task] EXCEPT !.nocode = TRUE] /\ OnlyRow(res.on.task)
  BY <1>1, <1>2 DEF TypeOK, OnlyRow, SessionDeclaresNoCode
<1>4. LET a == task[res.on.task] b == task'[res.on.task]
      IN /\ b.lease = a.lease /\ b.run = a.run /\ b.tip = a.tip /\ b.pushed = a.pushed
         /\ b.notes = a.notes /\ b.rec = a.rec /\ b.nocode
  BY <1>2, <1>3 DEF TaskRows
<1>5. res'.claim = res.claim /\ res'.mcp = TRUE /\ res'.on = res.on /\ res'.reported = res.reported
      /\ res'.wrote = res.wrote
  BY <1>1 DEF Sessions, SessionDeclaresNoCode
<1> QED
  BY <1>1, <1>2, <1>3, <1>4, <1>5 DEF Works, SessionDeclaresNoCode, Working

\* A review leaves a block in the outcome, or a sealed record of the tip as it is.
LEMMA ReviewsEffect ==
  ASSUME Inv, SessionReviews
  PROVE  /\ Works /\ ReviewShaped(i)
         /\ LET a == task[res.on.task] b == task'[res.on.task]
            IN /\ AlikeUnreviewed(a, b)
               /\ \A j \in Positions : j # i => b.rec[j] = a.rec[j]
               /\ IF carried.branch
                  THEN /\ b.rec[i] = [tip |-> a.tip, round |-> a.round + 1, state |-> "sealed"]
                       /\ a.tip > 0 /\ b.notes = a.notes
                  ELSE b.rec = a.rec /\ b.notes = a.notes + 1
         /\ res'.claim = res.claim /\ res'.reported = res.reported
<1>1. TypeOK /\ res \in Sessions /\ Working /\ res.claim \in Claims
  BY DEF Inv, TypeOK, SessionReviews, Sessions
<1>2. res.on.task \in Tasks /\ task[res.on.task] \in TaskRows
  BY <1>1, WorkingOnATask
<1> DEFINE t == res.on.task
           a == task[t]
<1>3. LET b == task'[t]
      IN /\ OnlyRow(t) /\ AlikeUnreviewed(a, b)
         /\ \A j \in Positions : j # i => b.rec[j] = a.rec[j]
         /\ IF carried.branch
            THEN /\ b.rec[i] = [tip |-> a.tip, round |-> a.round + 1, state |-> "sealed"]
                 /\ a.tip > 0 /\ b.notes = a.notes
            ELSE b.rec = a.rec /\ b.notes = a.notes + 1
  <2>1. CASE ~carried.branch
    <3>1. task' = [task EXCEPT ![t].notes = @ + 1]
      BY <2>1 DEF SessionReviews
    <3>2. task'[t] = [a EXCEPT !.notes = a.notes + 1] /\ OnlyRow(t)
      BY <1>1, <1>2, <3>1 DEF TypeOK, OnlyRow
    <3>3. LET b == task'[t] IN AlikeUnreviewed(a, b) /\ b.rec = a.rec /\ b.notes = a.notes + 1
      BY <1>2, <3>2 DEF TaskRows, AlikeUnreviewed
    <3> QED
      BY <2>1, <3>2, <3>3
  <2>2. CASE carried.branch
    <3> DEFINE new == [tip |-> a.tip, round |-> a.round + 1, state |-> "sealed"]
               recs == [a.rec EXCEPT ![i] = new]
    <3>1. PICK open, resolved :
            task' = [task EXCEPT ![t] =
                       [a EXCEPT
                         !.round = a.round + 1,
                         !.open = open,
                         !.resolved = resolved,
                         !.rec[i] = new]]
      BY <2>2 DEF SessionReviews
    <3>2. a.tip > 0 /\ i \in Positions
      BY <2>2 DEF SessionReviews, ReviewShaped
    <3>3. task' = [task EXCEPT ![t] =
                       [a EXCEPT !.round = a.round + 1, !.open = open, !.resolved = resolved, !.rec = recs]]
      BY <1>2, <3>1 DEF TaskRows
    <3>4. recs[i] = new /\ \A j \in Positions : j # i => recs[j] = a.rec[j]
      BY <1>2, <3>2 DEF TaskRows
    <3> HIDE DEF recs
    <3>5. task'[t] = [a EXCEPT !.round = a.round + 1, !.open = open, !.resolved = resolved, !.rec = recs]
          /\ OnlyRow(t)
      BY <1>1, <1>2, <3>3 DEF TypeOK, OnlyRow
    <3>6. task'[t].rec = recs /\ AlikeUnreviewed(a, task'[t]) /\ task'[t].notes = a.notes
      BY <1>2, <3>5 DEF TaskRows, AlikeUnreviewed
    <3> QED
      BY <2>2, <3>2, <3>4, <3>5, <3>6
  <2> QED
    BY <2>1, <2>2
<1>4. res'.claim = res.claim /\ res'.mcp = TRUE /\ res'.on = res.on /\ res'.reported = res.reported
  BY <1>1 DEF Sessions, SessionReviews
<1>5. pc = "session" /\ ReviewShaped(i) /\ SessionSteps /\ UNCHANGED hist
  BY DEF SessionReviews, Working
<1> QED
  BY <1>1, <1>2, <1>3, <1>4, <1>5 DEF Works

LEMMA SettlesEffect ==
  ASSUME Inv, SessionSettles
  PROVE  /\ Works
         /\ LET a == task[res.on.task] b == task'[res.on.task]
            IN /\ b.lease = "handed" /\ b.run = a.run /\ b.tip = a.tip /\ b.pushed = a.pushed
               /\ b.nocode = a.nocode /\ b.notes = a.notes
               /\ \A j \in Positions : \/ b.rec[j] = a.rec[j]
                                       \/ Opened(a, b, j)
         /\ res'.reported = res.reported /\ res'.wrote = res.wrote
         /\ res'.claim.wip = res.claim.wip /\ res'.claim.branch = res.claim.branch
         /\ IF seen THEN res'.claim.settled ELSE res'.claim = res.claim
<1>1. TypeOK /\ res \in Sessions /\ Working /\ res.claim \in Claims /\ i \in Positions
  BY DEF Inv, TypeOK, InPhase, Ending, SessionSettles, Working, Sessions
<1>2. res.on.task \in Tasks /\ task[res.on.task] \in TaskRows
  BY <1>1, WorkingOnATask
<1> DEFINE t == res.on.task
           a == task[t]
           released == Phases[i] = "verify" /\ a.rec[i].state = "sealed"
           new == IF released THEN [a.rec[i] EXCEPT !.state = "open"] ELSE a.rec[i]
           recs == [a.rec EXCEPT ![i] = new]
<1>3. task' = [task EXCEPT ![t] = [@ EXCEPT !.lease = "handed", !.rec[i] = new]]
  BY DEF SessionSettles
<1>4. new = a.rec[i] \/ (a.rec[i].state = "sealed" /\ new = [a.rec[i] EXCEPT !.state = "open"])
  OBVIOUS
<1> HIDE DEF new
<1>5. task' = [task EXCEPT ![t] = [a EXCEPT !.lease = "handed", !.rec = recs]]
  BY <1>1, <1>2, <1>3 DEF TypeOK, TaskRows
<1>6. recs[i] = new /\ \A j \in Positions : j # i => recs[j] = a.rec[j]
  BY <1>1, <1>2 DEF TaskRows
<1> HIDE DEF recs
<1>7. task'[t] = [a EXCEPT !.lease = "handed", !.rec = recs] /\ OnlyRow(t)
  BY <1>1, <1>2, <1>5 DEF TypeOK, OnlyRow
<1>8. LET b == task'[t]
      IN /\ b.lease = "handed" /\ b.run = a.run /\ b.tip = a.tip /\ b.pushed = a.pushed
         /\ b.nocode = a.nocode /\ b.notes = a.notes /\ b.rec = recs
  BY <1>2, <1>7 DEF TaskRows
<1>9. \A j \in Positions : task'[t].rec[j] = a.rec[j] \/ Opened(a, task'[t], j)
  BY <1>4, <1>6, <1>8 DEF Opened
<1> DEFINE claim == IF seen THEN [res.claim EXCEPT !.settled = TRUE] ELSE res.claim
<1>10. res' = [res EXCEPT !.mcp = TRUE, !.claim = claim]
  BY DEF SessionSettles
<1>11. /\ claim.task = res.claim.task /\ claim.run = res.claim.run /\ RunOf(claim) = RunOf(res.claim)
       /\ claim.wip = res.claim.wip /\ claim.branch = res.claim.branch
       /\ IF seen THEN claim.settled ELSE claim = res.claim
  BY <1>1 DEF Claims, RunOf
<1> HIDE DEF claim
<1>12. res'.claim = claim /\ res'.reported = res.reported /\ res'.mcp = TRUE /\ res'.on = res.on
       /\ res'.wrote = res.wrote
  BY <1>1, <1>10 DEF Sessions
<1>13. SessionSteps /\ UNCHANGED hist /\ pc = "session"
  BY DEF SessionSettles, Working
<1> QED
  BY <1>1, <1>2, <1>7, <1>8, <1>9, <1>11, <1>12, <1>13 DEF Works

LEMMA SessionEndsEffect ==
  ASSUME Inv, NEW e \in Ends, SessionEnds(e)
  PROVE  /\ pc = "session" /\ pc' = "salvage"
         /\ UNCHANGED <<conf, task, i, carried, try, end, stop, fleetDead>>
         /\ res'.how = e[1] /\ res'.after = e[2] /\ res'.reported = res.reported
         /\ res'.wrote = res.wrote /\ res'.on = res.on
         /\ res.mcp => res'.mcp
         /\ \/ res'.claim = res.claim
            \/ res'.claim = NoClaim /\ ~res.mcp /\ e[1] = "nostart"
         /\ hist'.mine = hist.mine /\ hist'.hidden = hist.hidden /\ hist'.back = hist.back
         /\ hist'.ended = hist.ended /\ hist'.must = hist.must /\ hist'.fixes = hist.fixes
         /\ hist'.unread = IF e[1] = "untrusted" THEN hist.unread \cup ({RunOf(res.claim)} \ {NoRun})
                           ELSE hist.unread
         /\ cnt'.chain = cnt.chain /\ cnt'.respawn = cnt.respawn
         /\ cnt'.verifyRoundsRun = cnt.verifyRoundsRun
<1>1. TypeOK /\ res \in Sessions /\ cnt \in Counters /\ hist \in Histories
  BY DEF Inv, TypeOK
<1>2. PICK zero \in Zeroes(e), within \in May("budget"), block \in Can("handoff"),
           quiet \in Can("nomcp") :
        /\ block => zero /\ e[1] \notin {"untrusted", "nostart"} /\ Held(res.claim)
        /\ Unlaunched(e) => zero
        /\ res' = [res EXCEPT !.how = e[1], !.after = e[2], !.zero = zero, !.handoff = block,
                              !.mcp = @ \/ ~quiet,
                              !.claim = IF Unlaunched(e) THEN NoClaim ELSE @]
        /\ cnt' = [cnt EXCEPT !.spent = @ \/ ~within]
  BY DEF SessionEnds
<1> DEFINE mcp == res.mcp \/ ~quiet
           claim == IF Unlaunched(e) THEN NoClaim ELSE res.claim
           spent == cnt.spent \/ ~within
           unread == IF e[1] = "untrusted" THEN hist.unread \cup ({RunOf(res.claim)} \ {NoRun})
                     ELSE hist.unread
<1>3. /\ res' = [res EXCEPT !.how = e[1], !.after = e[2], !.zero = zero, !.handoff = block,
                            !.mcp = mcp, !.claim = claim]
      /\ cnt' = [cnt EXCEPT !.spent = spent]
  BY <1>2
<1>4. hist' = [hist EXCEPT !.unread = unread]
  BY DEF SessionEnds
<1>5. (res.mcp => mcp) /\ (claim = res.claim \/ (claim = NoClaim /\ ~res.mcp /\ e[1] = "nostart"))
  BY DEF Unlaunched
<1> HIDE DEF mcp, claim, spent, unread
<1>6. /\ res'.how = e[1] /\ res'.after = e[2] /\ res'.mcp = mcp /\ res'.claim = claim
      /\ res'.reported = res.reported /\ res'.wrote = res.wrote /\ res'.on = res.on
  BY <1>1, <1>3 DEF Sessions
<1>7. cnt'.chain = cnt.chain /\ cnt'.respawn = cnt.respawn /\ cnt'.verifyRoundsRun = cnt.verifyRoundsRun
  BY <1>1, <1>3 DEF Counters
<1>8. /\ hist'.mine = hist.mine /\ hist'.hidden = hist.hidden /\ hist'.back = hist.back
      /\ hist'.ended = hist.ended /\ hist'.must = hist.must /\ hist'.fixes = hist.fixes
      /\ hist'.unread = unread
  BY <1>1, <1>4 DEF Histories
<1> QED
  BY <1>5, <1>6, <1>7, <1>8 DEF SessionEnds, unread

LEMMA SalvageEffect ==
  ASSUME Inv, Salvage
  PROVE  /\ pc = "salvage" /\ pc' = "judge"
         /\ UNCHANGED <<conf, i, carried, cnt, try, end, stop, fleetDead, hist>>
         /\ \/ UNCHANGED <<task, res>>
            \/ LET t == res.claim.task a == task[t] b == task'[t]
               IN /\ ~ReviewShaped(i) /\ Held(res.claim) /\ Holds(res.claim) /\ t \in Tasks /\ OnlyRow(t)
                  /\ b.lease = a.lease /\ b.run = a.run /\ b.tip = a.tip + 1 /\ b.nocode = a.nocode
                  /\ b.notes = a.notes /\ b.rec = a.rec
                  /\ res'.how = res.how /\ res'.after = res.after /\ res'.on = res.on
                  /\ res'.reported = res.reported /\ res'.mcp = res.mcp /\ res'.wrote = res.wrote
                  /\ res'.claim.task = res.claim.task /\ res'.claim.run = res.claim.run
                  /\ res'.claim.settled = res.claim.settled /\ RunOf(res'.claim) = RunOf(res.claim)
                  /\ \/ res'.claim = res.claim /\ "reply" \in Faults
                     \/ res'.claim.wip /\ res'.claim.branch
<1>1. TypeOK /\ res \in Sessions /\ res.claim \in Claims
  BY DEF Inv, TypeOK, Sessions
<1>2. CASE ~UNCHANGED <<task, res>>
  <2> DEFINE t == res.claim.task
             a == task[t]
  <2>1. t \in Tasks /\ a \in TaskRows /\ ~ReviewShaped(i) /\ Held(res.claim) /\ Holds(res.claim)
    BY <1>1, <1>2, HeldHasATask DEF TypeOK, Salvage, Held
  <2>2. task' = [task EXCEPT ![t] = [a EXCEPT !.tip = a.tip + 1, !.pushed = TRUE]]
    BY <1>2 DEF Salvage
  <2>3. task'[t] = [a EXCEPT !.tip = a.tip + 1, !.pushed = TRUE] /\ OnlyRow(t)
    BY <1>1, <2>1, <2>2 DEF TypeOK, OnlyRow
  <2>4. LET b == task'[t]
        IN /\ b.lease = a.lease /\ b.run = a.run /\ b.tip = a.tip + 1 /\ b.nocode = a.nocode
           /\ b.notes = a.notes /\ b.rec = a.rec
    BY <2>1, <2>3 DEF TaskRows
  <2>5. PICK answered \in May("reply") :
          res' = IF answered THEN [res EXCEPT !.claim.wip = TRUE, !.claim.branch = TRUE] ELSE res
    BY <1>2 DEF Salvage
  <2>6. CASE answered
    <3> DEFINE claim == [res.claim EXCEPT !.wip = TRUE, !.branch = TRUE]
    <3>1. res' = [res EXCEPT !.claim = claim]
      BY <1>1, <2>5, <2>6 DEF Sessions
    <3>2. /\ claim.task = res.claim.task /\ claim.run = res.claim.run
          /\ claim.settled = res.claim.settled /\ RunOf(claim) = RunOf(res.claim)
          /\ claim.wip /\ claim.branch
      BY <1>1 DEF Claims, RunOf
    <3> HIDE DEF claim
    <3>3. /\ res'.claim = claim /\ res'.how = res.how /\ res'.after = res.after /\ res'.on = res.on
          /\ res'.reported = res.reported /\ res'.mcp = res.mcp /\ res'.wrote = res.wrote
      BY <1>1, <3>1 DEF Sessions
    <3> QED
      BY <2>1, <2>3, <2>4, <3>2, <3>3 DEF Salvage
  <2>7. CASE ~answered
    <3>1. res' = res /\ "reply" \in Faults
      BY <2>5, <2>7 DEF May
    <3> QED
      BY <2>1, <2>3, <2>4, <3>1 DEF Salvage
  <2> QED
    BY <2>6, <2>7
<1> QED
  BY <1>2 DEF Salvage

-----------------------------------------------------------------------------
(* The seam.                                                               *)

\* The sequence ends, or a phase starts again, with the claim the phase left.
SeamGoesOn ==
  /\ pc' \in {"boundary", "release"} /\ carried' = Taken /\ end' = end
  /\ pc' = "boundary" =>
       /\ task' = task
       /\ \/ i' = i /\ end.dead
          \/ i' = i /\ end.handoff
          \/ i' = i /\ end.toQueue
          \/ Phases[i] = "verify" /\ end.checkpoint /\ end.musts # {}
          \/ i' = i + 1 /\ ~end.handoff /\ ~end.empty /\ (Last(i) \/ end.checkpoint)
  /\ task' = task \/ Parks(end.claim) \/ (end.checkpoint /\ Closed(end.claim))
  /\ hist'.must = hist.must

\* A refused handoff: the phase is judged as one without.
SeamRefused ==
  /\ pc' = "seam" /\ carried' = carried /\ i' = i /\ hist' = hist
  /\ task' = task \/ (end.checkpoint /\ Closed(end.claim))
  /\ ~end'.handoff /\ end.handoff /\ end'.claim = end.claim /\ end'.checkpoint = end.checkpoint
  /\ end'.released = end.released /\ end'.toQueue = end.toQueue /\ end'.empty = end.empty
  /\ end'.dead = end.dead /\ end'.round = end.round /\ end'.musts = end.musts

\* Open MUSTs go to the operator.
SeamStops ==
  /\ pc' = "release" /\ carried' = NoClaim /\ end' = end /\ Parks(end.claim) /\ end.musts # {}
  /\ hist'.must = hist.must \cup {RunOf(end.claim)}

SeamCommon ==
  /\ pc = "seam" /\ SeamFrame
  /\ hist'.mine = hist.mine /\ hist'.hidden = hist.hidden /\ hist'.back = hist.back
  /\ hist'.ended = hist.ended /\ hist'.unread = hist.unread /\ hist'.fixes = hist.fixes

LEMMA SeamEffect ==
  ASSUME Inv, Seam
  PROVE  SeamCommon /\ (SeamGoesOn \/ SeamRefused \/ SeamStops)
<1>1. TypeOK /\ end \in PhaseEnds /\ hist \in Histories /\ end.claim \in Claims /\ conf \in Configs
  BY DEF Inv, TypeOK, PhaseEnds
<1>2. CASE SeamParksDead
  BY <1>1, <1>2 DEF SeamParksDead, AtSeam, Over, SeamCommon, SeamGoesOn, Histories
<1>3. CASE SeamDies
  <2>1. SeamCommon /\ hist'.must = hist.must
    BY <1>1, <1>3 DEF SeamDies, AtSeam, SeamCommon, Histories
  <2>2. pc' \in {"boundary", "release"} /\ carried' = Taken /\ end' = end /\ task' = task
        /\ (pc' = "boundary" => i' = i)
    BY <1>3 DEF SeamDies, AtSeam, Over, Again
  <2> QED
    BY <1>3, <2>1, <2>2 DEF SeamDies, SeamGoesOn
<1>4. CASE SeamEnds \/ SeamErrs \/ SeamNoCheckpoint \/ SeamVerified
  BY <1>4 DEF SeamEnds, SeamErrs, SeamNoCheckpoint, SeamVerified, AtSeam, Over, SeamCommon, SeamGoesOn
<1>5. CASE SeamHandsOff \/ SeamEmpty \/ SeamVerifies \/ SeamAdvances
  <2>1. SeamCommon /\ hist'.must = hist.must /\ carried' = Taken /\ end' = end /\ task' = task
    BY <1>5 DEF SeamHandsOff, SeamEmpty, SeamVerifies, SeamAdvances, AtSeam, SeamCommon
  <2>2. CASE SeamHandsOff
    BY <2>1, <2>2 DEF SeamHandsOff, Again, SeamGoesOn
  <2>3. CASE SeamEmpty
    BY <2>1, <2>3 DEF SeamEmpty, RetriesEmpty, Again, Over, SeamGoesOn
  <2>4. CASE SeamVerifies
    BY <2>1, <2>4 DEF SeamVerifies, Again, SeamGoesOn
  <2>5. CASE SeamAdvances
    BY <2>1, <2>5 DEF SeamAdvances, Passes, Settled, Again, SeamGoesOn
  <2> QED
    BY <1>5, <2>2, <2>3, <2>4, <2>5
<1>6. CASE SeamRefuses
  <2>1. SeamCommon /\ hist' = hist /\ i' = i /\ end.handoff
    BY <1>6 DEF SeamRefuses, SeamCommon
  <2>2. task' = task \/ (end.checkpoint /\ Closed(end.claim))
    <3>1. PICK closed \in Closes(end.claim) :
            task' = IF RoundOwed /\ closed THEN CloseRound(end.claim) ELSE task
      BY <1>6 DEF SeamRefuses
    <3>2. Holds(end.claim) => end.claim.task \in Tasks
      BY <1>1, HeldHasATask DEF Holds
    <3> QED
      BY <3>1, <3>2 DEF Closed, Closes, RoundOwed
  <2>3. \/ pc' = "release" /\ carried' = Taken /\ end' = end
        \/ end' = [end EXCEPT !.handoff = FALSE] /\ pc' = "seam" /\ carried' = carried
    BY <1>6 DEF SeamRefuses
  <2>4. end' = [end EXCEPT !.handoff = FALSE] =>
          /\ ~end'.handoff /\ end'.claim = end.claim /\ end'.checkpoint = end.checkpoint
          /\ end'.released = end.released /\ end'.toQueue = end.toQueue /\ end'.empty = end.empty
          /\ end'.dead = end.dead /\ end'.round = end.round /\ end'.musts = end.musts
    BY <1>1 DEF PhaseEnds
  <2> QED
    BY <2>1, <2>2, <2>3, <2>4 DEF SeamGoesOn, SeamRefused
<1>7. CASE SeamParksVerification
  <2>1. SeamCommon /\ hist'.must = hist.must \cup {RunOf(end.claim)}
    BY <1>1, <1>7 DEF SeamParksVerification, SeamCommon, Histories
  <2> QED
    BY <1>7, <2>1 DEF SeamParksVerification, Over, SeamStops
<1> QED
  BY <1>2, <1>3, <1>4, <1>5, <1>6, <1>7 DEF Seam

LEMMA ReleaseCarriedEffect ==
  ASSUME Inv, releaseCarried
  PROVE  /\ pc = "release" /\ pc' \in {"wait", "done"} /\ carried' = NoClaim
         /\ UNCHANGED <<conf, i, cnt, try, res, end, stop, fleetDead>>
         /\ Releases(carried, TRUE)
<1>1. TypeOK /\ carried \in Claims
  BY DEF Inv, TypeOK
<1>2. PICK q \in BOOLEAN : releaseHeldClaim(carried, TRUE, q)
  BY DEF releaseCarried
<1>3. Releases(carried, TRUE)
  BY <1>1, <1>2, ReleaseEffect
<1> QED
  BY <1>3 DEF releaseCarried

LEMMA PhaseRefusedEffect ==
  ASSUME Inv, PhaseRefused
  PROVE  /\ pc = "boundary" /\ pc' = "seam" /\ UNCHANGED <<conf, i, carried, try, res, stop, fleetDead>>
         /\ Releases(carried, TRUE) /\ ReviewShaped(i) /\ i \in Positions
         /\ end'.claim = carried /\ end'.empty /\ end'.released = Held(carried)
         /\ end'.toQueue => Held(carried)
         /\ ~end'.checkpoint /\ ~end'.handoff /\ ~end'.dead /\ end'.musts = {} /\ end'.round = 0
<1>1. TypeOK /\ carried \in Claims /\ conf \in Configs
  BY DEF Inv, TypeOK
<1>2. PICK toQueue \in BOOLEAN :
       /\ releaseHeldClaim(carried, TRUE, toQueue)
       /\ end' = [NoEnd EXCEPT !.claim = carried, !.empty = TRUE,
                               !.released = Held(carried), !.toQueue = toQueue]
  BY DEF PhaseRefused
<1>3. Releases(carried, TRUE) /\ (toQueue => Held(carried))
  BY <1>1, <1>2, ReleaseEffect
<1>4. /\ end'.claim = carried /\ end'.empty /\ end'.released = Held(carried) /\ end'.toQueue = toQueue
      /\ ~end'.checkpoint /\ ~end'.handoff /\ ~end'.dead /\ end'.musts = {} /\ end'.round = 0
  BY <1>2 DEF NoEnd
<1>5. i \in Positions
  BY <1>1 DEF PhaseRefused, ReviewShaped
<1> QED
  BY <1>3, <1>4, <1>5 DEF PhaseRefused

LEMMA PhaseStartsEffect ==
  ASSUME Inv, PhaseStarts
  PROVE  /\ pc = "boundary" /\ pc' = "attempt" /\ i \in Positions /\ end' = NoEnd
         /\ UNCHANGED <<conf, task, i, carried, res, stop, fleetDead>>
         /\ ReviewShaped(i) => carried.task # NoTask
         /\ Held(carried) => try'.briefed = carried.task
         /\ ReviewShaped(i) => try'.notes = task[carried.task].notes
         /\ ~try'.noMCPNow
         /\ cnt'.chain = IF cnt.respawn THEN cnt.chain + 1 ELSE cnt.chain
         /\ cnt'.verifyRoundsRun = cnt.verifyRoundsRun /\ ~cnt'.respawn
         /\ hist'.mine = hist.mine /\ hist'.hidden = hist.hidden /\ hist'.back = hist.back
         /\ hist'.ended = hist.ended /\ hist'.unread = hist.unread /\ hist'.must = hist.must
         /\ hist'.fixes = CountFixes
<1>1. TypeOK /\ conf \in Configs /\ cnt \in Counters /\ hist \in Histories
  BY DEF Inv, TypeOK
<1>2. PICK b : try' = [NoTry EXCEPT
         !.briefed = IF Held(carried) THEN carried.task ELSE b,
         !.notes = IF ReviewShaped(i) THEN task[carried.task].notes ELSE 0]
  BY DEF PhaseStarts
<1>3. /\ Held(carried) => try'.briefed = carried.task
      /\ ReviewShaped(i) => try'.notes = task[carried.task].notes
      /\ ~try'.noMCPNow
  BY <1>2 DEF NoTry
<1>4. /\ hist'.mine = hist.mine /\ hist'.hidden = hist.hidden /\ hist'.back = hist.back
      /\ hist'.ended = hist.ended /\ hist'.unread = hist.unread /\ hist'.must = hist.must
      /\ hist'.fixes = CountFixes
  BY <1>1 DEF PhaseStarts, Histories
<1>5. /\ cnt'.chain = IF cnt.respawn THEN cnt.chain + 1 ELSE cnt.chain
      /\ cnt'.verifyRoundsRun = cnt.verifyRoundsRun /\ ~cnt'.respawn
  <2> DEFINE one == IF cnt.respawn THEN 1 ELSE 0
             n == cnt.handoffs + one
             m == cnt.chain + one
  <2>1. cnt' = [cnt EXCEPT !.spawned = TRUE, !.respawn = FALSE, !.handoffs = n, !.chain = m]
    BY DEF PhaseStarts, ChargeSpawn
  <2>2. cnt'.chain = m /\ cnt'.verifyRoundsRun = cnt.verifyRoundsRun /\ ~cnt'.respawn
    BY <1>1, <2>1 DEF Counters
  <2>3. cnt.chain \in Nat
    BY <1>1, BoundsAssumption DEF Counters
  <2> QED
    BY <2>2, <2>3
<1>6. i \in Positions
  BY <1>1 DEF PhaseStarts, TypeOK, Positions
<1> QED
  BY <1>3, <1>4, <1>5, <1>6 DEF PhaseStarts

=============================================================================
