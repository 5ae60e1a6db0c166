------------------------------- MODULE Digests -------------------------------
(***************************************************************************)
(* What a fix and a verification session are told of the findings.  The    *)
(* plane keeps a task's review records, withholds a sealed round's, and    *)
(* serves the newest records with as many findings as its budget allows;   *)
(* the driver reads them before each brief and after each verification     *)
(* round, and makes lists of them.  A read before a fix may fail, and the  *)
(* fix begins all the same.                                                *)
(*                                                                         *)
(* A record is <<round, role>>, a finding <<round, role, severity>>: one   *)
(* of each severity a record.  The marks fixed, refuted and filed are one. *)
(***************************************************************************)
EXTENDS Integers, FiniteSets, FiniteSetsExt

\* The seats of the review, how many records the plane serves, the driver's cap on rounds
\* of a cycle; whether a verification follows the fix; the bounds.
CONSTANTS Seats, Shelf, RoundCap, Verified, MaxRound, MaxCycle, Verifier, None

SeatsAssumption == Seats # {} /\ Verifier \notin Seats /\ Shelf \in Nat \ {0}
BoundsAssumption == {RoundCap, MaxRound, MaxCycle} \subseteq Nat

VARIABLES
  round,     \* per round [cycle, state, by]; state "none", "sealed", "open" or "void"
  now,       \* the newest round
  cycle,     \* the review cycle: a human verdict starts the next one
  status,    \* per finding "none", "open" or "settled"
  step,      \* where the driver is
  driver,    \* its memory: [panel, rounds, resolved, block]
  brief,     \* what the running session was told, of the reads that were answered, or None
  confirmed  \* history: the MUSTs that were settled when a verification round closed

vars == <<round, now, cycle, status, step, driver, brief, confirmed>>
plane == <<round, now, cycle, status>>

Severities == {"must", "should"}
Roles == Seats \cup {Verifier}
Rounds == 1 .. MaxRound
Ids == Rounds \X Roles \X Severities
Panel == Cardinality(Seats) > 1

Unused == [cycle |-> 0, state |-> "none", by |-> {}]
Memory == [panel |-> 0, rounds |-> 0, resolved |-> {}, block |-> {}]

Init ==
  /\ round = [r \in Rounds |-> Unused] /\ now = 0 /\ cycle = 1
  /\ status = [f \in Ids |-> "none"]
  /\ step = "review" /\ driver = Memory /\ brief = None /\ confirmed = {}

(***************************************************************************)
(* The plane                                                               *)
(***************************************************************************)
Records == {<<r, role>> \in Rounds \X Roles : role \in round[r].by}
Of(record) == {f \in Ids : f[1] = record[1] /\ f[2] = record[2] /\ status[f] # "none"}

Released(r) == round[r].state = "open"

With(s) == {f \in Ids : Released(f[1]) /\ status[f] = s}
Must(findings) == {f \in findings : f[3] = "must"}

\* The released MUSTs that are open, whichever findings are served.
OpenMustIDs == Must(With("open"))

\* The newest records, and some of the findings of those that are released.
Shelves ==
  {shelf \in kSubset(Min({Shelf, Cardinality(Records)}), Records) :
     \A x \in shelf, y \in Records \ shelf : x[1] >= y[1]}
Servable(shelf) == UNION {Of(record) : record \in {x \in shelf : Released(x[1])}}

\* Findings of a cycle, or of any when no released record is served.
NewestCycle(shelf) == Max({0} \cup {round[x[1]].cycle : x \in {y \in shelf : Released(y[1])}})

(***************************************************************************)
(* The lists                                                               *)
(***************************************************************************)
InForce(shelf, r) == {x \in shelf : Released(x[1]) /\ (r > 0 => x[1] = r)}
Unserved(records, served) == {x \in records : ~(Of(x) \subseteq served)}

RecordedSeats(records, served) == {x[2] : x \in records}

Nothing == [open |-> {}, settled |-> {}, missing |-> {}, partial |-> FALSE, merged |-> FALSE, heard |-> {}]

\* The panel's list: the open findings of its round, and the seats that have no record in
\* it.  Nothing to list, no seat missing and nothing settled is no list at all.
MergedFindingsDigest(shelf, served, r) ==
  LET records == InForce(shelf, r)
      listed == {f \in served : <<f[1], f[2]>> \in records}
      open == {f \in listed : status[f] = "open"}
      missing == Seats \ RecordedSeats(records, listed)
  IN IF listed = {} /\ missing = {} THEN None
     ELSE [Nothing EXCEPT !.open = open, !.missing = missing, !.merged = TRUE,
                          !.partial = Unserved(records, served) # {}]

\* What is read before a fix: the outcome, the records of a panel's round, the open MUSTs.
\* Each is one read, and the fix begins with the lists of those that were answered.
FixReads ==
  {"outcome"} \cup {read \in {"panel"} : Panel /\ driver.panel > 0} \cup {read \in {"musts"} : Verified}

\* The newest block of the outcome is graded; the panel's list, if there is one, replaces
\* it; a fix that a verification follows is given every open MUST as well.
FixList(shelf, served, heard) ==
  LET merged == IF "panel" \in heard THEN MergedFindingsDigest(shelf, served, driver.panel) ELSE None
      graded == [Nothing EXCEPT !.open = IF "outcome" \in heard THEN driver.block ELSE {}]
      list == IF merged = None THEN graded ELSE merged
  IN [list EXCEPT !.open = @ \cup (IF "musts" \in heard THEN OpenMustIDs ELSE {}), !.heard = heard]

OfTheCycle(shelf, f) == NewestCycle(shelf) > 0 => round[f[1]].cycle = NewestCycle(shelf)

\* Records of the cycle with findings that were not served, or older records.
LeftOut(shelf, served) ==
  \/ \E x \in Unserved(InForce(shelf, 0), served) : OfTheCycle(shelf, x)
  \/ Cardinality(Records) > Cardinality(shelf)

\* Slip: the open MUSTs are those served.
ServedMusts(served) == {f \in Must(served) : status[f] = "open"}

OpenMusts(served) == OpenMustIDs \cup {f \in Must(served) : status[f] = "open"}

\* The open MUSTs, those of the cycle that are marked settled, and whether that is all.
VerificationDigest(shelf, served) ==
  [Nothing EXCEPT !.open = OpenMusts(served),
                  !.settled = {f \in Must(served) : status[f] = "settled" /\ OfTheCycle(shelf, f)},
                  !.partial = LeftOut(shelf, served)]

ResolvedFindingIDs(served) == {f \in Must(served) : status[f] = "settled"}

(***************************************************************************)
(* The review                                                              *)
(***************************************************************************)
\* The seats that record, and what they find.
Review ==
  /\ step = "review" /\ now < MaxRound
  /\ \E by \in SUBSET Seats \ {{}} : \E raised \in SUBSET ({now + 1} \X by \X Severities) :
       /\ round' = [round EXCEPT ![now + 1] = [cycle |-> cycle, state |-> "sealed", by |-> by]]
       /\ status' = [f \in Ids |-> IF f \in raised THEN "open" ELSE status[f]]
       /\ driver' = [driver EXCEPT !.block = IF Panel THEN @ ELSE raised]
  /\ now' = now + 1 /\ step' = "recorded"
  /\ UNCHANGED <<cycle, brief, confirmed>>

CloseReviewRound ==
  /\ step \in {"recorded", "verified"}
  /\ round' = [round EXCEPT ![now].state = "open"]
  /\ driver' = [driver EXCEPT !.panel = IF step = "recorded" THEN now ELSE @]
  /\ step' = IF step = "recorded" THEN "fix" ELSE "judge"
  /\ UNCHANGED <<now, cycle, status, brief, confirmed>>

(***************************************************************************)
(* The fix and the verification                                            *)
(***************************************************************************)
BriefFix ==
  /\ step = "fix" /\ step' = "fixing"
  /\ \E shelf \in Shelves, heard \in SUBSET FixReads :
       \E served \in SUBSET Servable(shelf) : brief' = FixList(shelf, served, heard)
  /\ UNCHANGED <<plane, driver, confirmed>>

\* The fix marks what it answers.
FixEnds ==
  /\ step = "fixing" /\ step' = IF Verified THEN "verify" ELSE "done"
  /\ \E met \in SUBSET With("open") : status' = [f \in Ids |-> IF f \in met THEN "settled" ELSE status[f]]
  /\ brief' = None
  /\ UNCHANGED <<round, now, cycle, driver, confirmed>>

\* The verification is not begun unless its read is answered, and neither is its round
\* judged: after three failures the sequence ends, and a later run starts over.  That is
\* Takeover, of a task with no sealed round.
BriefVerify ==
  /\ step = "verify" /\ step' = "verifying"
  /\ \E shelf \in Shelves : \E served \in SUBSET Servable(shelf) : brief' = VerificationDigest(shelf, served)
  /\ UNCHANGED <<plane, driver, confirmed>>

\* The verifier settles and reopens, and records what it finds itself.
VerifyEnds ==
  /\ step = "verifying" /\ step' = "verified" /\ now < MaxRound
  /\ LET mine == {<<now + 1, Verifier, "must">>} IN
     \E met \in SUBSET OpenMustIDs, again \in SUBSET Must(With("settled")), raised \in SUBSET mine :
       /\ status' = [f \in Ids |-> IF f \in again \cup raised THEN "open" ELSE IF f \in met THEN "settled" ELSE status[f]]
       /\ driver' = [driver EXCEPT !.block = raised]
  /\ round' = [round EXCEPT ![now + 1] = [cycle |-> cycle, state |-> "sealed", by |-> {Verifier}]]
  /\ now' = now + 1 /\ brief' = None
  /\ UNCHANGED <<cycle, confirmed>>

(***************************************************************************)
(* After the round                                                         *)
(***************************************************************************)
\* A MUST open again, or open after two fixes.
NonConvergence(open) == open \cap driver.resolved # {} \/ \E f \in open : now - f[1] >= 2

Counted == Cardinality({r \in Rounds : round[r].state \in {"sealed", "open"} /\ round[r].cycle = round[now].cycle})
CapHit == Counted >= RoundCap \/ driver.rounds + 2 >= RoundCap

Judge ==
  /\ step = "judge"
  /\ \E shelf \in Shelves : \E served \in SUBSET Servable(shelf) :
       IF OpenMustIDs = {} THEN step' = "done" /\ UNCHANGED driver
       ELSE IF NonConvergence(OpenMustIDs) \/ CapHit
            THEN step' = "parked" /\ UNCHANGED driver
            ELSE /\ step' = "fix"
                 /\ driver' = [driver EXCEPT !.panel = 0, !.rounds = @ + 1, !.resolved = @ \cup ResolvedFindingIDs(served)]
  /\ confirmed' = confirmed \cup Must(With("settled"))
  /\ UNCHANGED <<plane, brief>>

\* A takeover voids a sealed round; the next run begins with the review.
Takeover ==
  /\ step \notin {"review", "done", "parked"}
  /\ round' = [r \in Rounds |-> IF round[r].state = "sealed" THEN [round[r] EXCEPT !.state = "void"] ELSE round[r]]
  /\ step' = "review" /\ driver' = [Memory EXCEPT !.block = driver.block] /\ brief' = None
  /\ UNCHANGED <<now, cycle, status, confirmed>>

\* A human asks for changes.
Verdict ==
  /\ step \in {"done", "parked"} /\ cycle < MaxCycle
  /\ cycle' = cycle + 1 /\ step' = "review" /\ driver' = [Memory EXCEPT !.block = driver.block] /\ brief' = None
  /\ UNCHANGED <<round, now, status, confirmed>>

Next ==
  \/ Review \/ CloseReviewRound \/ BriefFix \/ FixEnds \/ BriefVerify \/ VerifyEnds
  \/ Judge \/ Takeover \/ Verdict

Spec == Init /\ [][Next]_vars

(***************************************************************************)
(* Properties                                                              *)
(***************************************************************************)
TypeOK ==
  /\ status \in [Ids -> {"none", "open", "settled"}] /\ now \in 0 .. MaxRound /\ cycle \in 1 .. MaxCycle
  /\ \A r \in Rounds : (round[r].state = "none") = (r > now) /\ (round[r].state = "none" => round[r] = Unused)
  /\ \A f \in Ids : status[f] # "none" => f[2] \in round[f[1]].by
  /\ (brief # None) = (step \in {"fixing", "verifying"})
  /\ driver.resolved \subseteq Must(With("settled")) \cup Must(With("open")) /\ driver.panel \in 0 .. now

\* Nobody at work on the task's MUSTs is left in the dark about an open one, however
\* little of the records was served: no verifier, and no fix whose read of the open MUSTs
\* was answered (loop.go:4601-4606).
OpenMustsAreBriefed ==
  step = "verifying" \/ (step = "fixing" /\ "musts" \in brief.heard) => OpenMustIDs \subseteq brief.open

\* Every MUST of the cycle that somebody marked settled is put before the verifier, or it
\* is told that it does not see all.
SettledMustsAreTold ==
  step = "verifying" =>
    \/ brief.partial
    \/ {f \in Must(With("settled")) : round[f[1]].cycle = cycle} \subseteq brief.settled

\* A human verdict has judged the cycles before: the verifier is not asked to confirm them.
OldCyclesRest ==
  step = "verifying" => \A f \in brief.settled : round[f[1]].cycle = cycle

\* A round that a takeover voided never happened: no session is given its findings.
VoidRoundsRest ==
  brief # None => \A f \in brief.open \cup brief.settled : round[f[1]].state = "open"

\* The first fix after a panel hears of the seats that recorded nothing in its round, and
\* of no other; one whose read of the round failed hears of none (loop.go:4578-4587).
LostSeatsAreNamed ==
  step = "fixing" /\ Panel /\ driver.panel > 0 =>
    brief.missing = IF "panel" \in brief.heard THEN Seats \ round[driver.panel].by ELSE {}

\* A merged list holds every open finding of the panel's round, or says that it does not:
\* "The plane did not serve every finding" (loop.go:3903).
MergedListIsWhole ==
  step = "fixing" /\ brief.merged =>
    brief.partial \/ {f \in With("open") : f[1] = driver.panel} \subseteq brief.open

\* The fix after a verification is told every open MUST, its reads answered or not:
\* "Prepend the plane's own open list" (loop.go:4604-4605).
FixHearsOfMusts == step = "fixing" /\ Verified => OpenMustIDs \subseteq brief.open

\* And the first fix after a panel, "the members that never recorded named as incomplete"
\* (loop.go:4580-4581).
FixHearsOfSeats ==
  step = "fixing" /\ Panel /\ driver.panel > 0 => brief.missing = Seats \ round[driver.panel].by

\* A MUST that was settled when a verification round closed, and is open again, goes to
\* the operator: no fix is spawned for it, whatever a takeover forgot.
ReopenedIsParked ==
  step \in {"fix", "fixing"} /\ driver.rounds > 0 => OpenMustIDs \cap confirmed = {}

\* "every MUST from ANY member is open and is yours to fix" and "The plane did not serve
\* every finding ...; read the full records" (loop.go:3874, 3903): the fix after a panel is
\* given each open finding of the round, or told that there are more.
PanelFindingsAreTold ==
  step = "fixing" /\ Panel /\ driver.panel > 0 =>
    brief.partial \/ {f \in With("open") : f[1] = driver.panel} \subseteq brief.open

\* "the fixer must not be handed one reviewer's list as though it were the panel's"
\* (loop.go:4584-4585): after a panel the list is of its round, with the open MUSTs.
ListIsThePanels ==
  step = "fixing" /\ Panel /\ driver.panel > 0 =>
    \A f \in brief.open : f[1] = driver.panel \/ (Verified /\ f \in OpenMustIDs)
=============================================================================
