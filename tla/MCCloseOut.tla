----------------------------- MODULE MCCloseOut -----------------------------
(***************************************************************************)
(* The close-out of one supervisor and one task, of two supervisors at one *)
(* task, and of one supervisor and two tasks.                              *)
(***************************************************************************)
EXTENDS Integers, Sequences, FiniteSets

CONSTANTS s1, s2, t1, t2

Calls == {"policy", "queue", "pr", "probe", "paths", "claim", "merge", "verify", "complete", "release", "state"}
Marks == {"mechanical", "failed", "behavioural"}

Quiet ==
  [override |-> "none", onOrigin |-> TRUE, default |-> "main", ready |-> {t1, t2},
   conflicting |-> {}, harness |-> "opencode", calls |-> {}, marks |-> Marks, fails |-> 0,
   pushes |-> 0, retargets |-> 0, moves |-> 0, dials |-> 0, agents |-> 0, lapses |-> 0,
   crashes |-> 0, stops |-> 0]
OfOne(configs) ==
  {[c EXCEPT !.ready = @ \cap {t1}, !.conflicting = @ \cap {t1}] : c \in configs}
Conflicting == [Quiet EXCEPT !.conflicting = {t1, t2}]

\* One supervisor against an author who pushes and retargets, an agent, the dial, stops
\* and crashes; calls that fail; every way to resolve the base; no checkout.
MergeConfigs == OfOne({
  [Quiet EXCEPT !.pushes = 1, !.retargets = 1, !.agents = 1, !.fails = 1, !.calls = Calls \ {"merge", "complete"}],
  [Quiet EXCEPT !.stops = 2, !.dials = 2, !.agents = 1, !.calls = {"verify", "claim", "release"}, !.fails = 1],
  [Quiet EXCEPT !.crashes = 1, !.moves = 1, !.pushes = 1, !.agents = 1],
  [Quiet EXCEPT !.onOrigin = FALSE, !.retargets = 1, !.calls = {"probe"}, !.fails = 1],
  [Quiet EXCEPT !.override = "other", !.retargets = 1],
  [Quiet EXCEPT !.ready = {}, !.agents = 1]})

\* Two supervisors and an agent at one task; conflicts: a base that moves, leases that
\* end under a session, one that leaves nothing, harnesses that cannot.
RaceConfigs == OfOne({
  [Quiet EXCEPT !.agents = 2, !.retargets = 1],
  [Quiet EXCEPT !.agents = 1, !.crashes = 1],
  [Quiet EXCEPT !.fails = 1, !.calls = {"verify", "claim", "release"}],
  [Conflicting EXCEPT !.marks = {"mechanical"}, !.stops = 1, !.calls = {"paths", "claim", "release"}, !.fails = 1],
  [Conflicting EXCEPT !.marks = {"failed"}, !.lapses = 1],
  [Conflicting EXCEPT !.marks = {"behavioural"}, !.agents = 1],
  [Conflicting EXCEPT !.harness = "codex"]})

\* Two tasks of one supervisor, one of them conflicting, or both.
QueueConfigs == {
  [Quiet EXCEPT !.conflicting = {t1}, !.marks = {"mechanical", "failed"}],
  [Conflicting EXCEPT !.marks = {"mechanical"}]}

\* Completing the task fails after the merge.
CompleteFails == OfOne({[Quiet EXCEPT !.calls = {"complete"}, !.fails = 1]})

-----------------------------------------------------------------------------
VARIABLES
  part,   \* which of them this behaviour is about
  \* those of CloseOut, by their names there
  conf, dial, task, pr, pass, sess, orphan, slot, sup, left, past

Alone == INSTANCE CloseOut WITH Sups <- {s1}, Tasks <- {t1}, Configs <- MergeConfigs
Race == INSTANCE CloseOut WITH Sups <- {s1, s2}, Tasks <- {t1}, Configs <- RaceConfigs
Queue == INSTANCE CloseOut WITH Sups <- {s1}, Tasks <- {t1, t2}, Configs <- QueueConfigs
Strand == INSTANCE CloseOut WITH Sups <- {s1}, Tasks <- {t1}, Configs <- CompleteFails

ASSUME CloseOutAssumption ==
  Alone!ConfigsAssumption /\ Race!ConfigsAssumption /\ Queue!ConfigsAssumption /\ Strand!ConfigsAssumption

vars == <<part, conf, dial, task, pr, pass, sess, orphan, slot, sup, left, past>>

Init ==
  \/ part = "alone" /\ Alone!Init
  \/ part = "race" /\ Race!Init
  \/ part = "queue" /\ Queue!Init

AloneStep == part = "alone" /\ Alone!Next /\ UNCHANGED part
RaceStep == part = "race" /\ Race!Next /\ UNCHANGED part
QueueStep == part = "queue" /\ Queue!Next /\ UNCHANGED part

Next == AloneStep \/ RaceStep \/ QueueStep

Spec == Init /\ [][Next]_vars

StrandSpec == part = "alone" /\ Strand!Init /\ [][AloneStep]_vars

-----------------------------------------------------------------------------
(* Properties                                                              *)

\* What the pass puts on a branch passed its checks, on the branch it judged, and by the
\* run that holds the task, whoever pushes, retargets or merges meanwhile
\* (closeout.go:390, 417; prclose.go:183).
MergesAreJudged ==
  /\ [][part = "alone" => Alone!LandsWhatItJudged]_vars
  /\ [][part = "race" => Race!LandsWhatItJudged /\ Race!MergesOnItsClaim]_vars

\* A claim is worked by the goroutine that has it or was given up for lost, a task that
\* is done was delivered, and none is handed back with its pull request gone
\* (closeout.go:46, 398, 429); no call fails after its effect (see NotStranded below).
NothingIsStranded ==
  /\ [](part = "alone" => Alone!TypeOK /\ Alone!ClaimsAreWorked /\ Alone!NotStranded)
  /\ [](part = "race" => Race!ClaimsAreWorked /\ Race!NotStranded)
  /\ [](part = "queue" => Queue!ClaimsAreWorked /\ Queue!NotStranded)

\* One conflict session on the state root, its slot held for as long as it is used, no
\* more than two per task and lifetime, and green attested for what was resolved
\* mechanically (conflictlock.go:5, 20; conflict.go:71, 343).
SessionsAreBounded ==
  /\ [](part = "race" => Race!OneSession /\ Race!SlotIsUsed /\ Race!AttemptsBounded)
  /\ [](part = "queue" => Queue!AttemptsBounded /\ Queue!GreenMeansResolved)

\* closeout.go:46-48: "a merged PR is no longer OPEN and releasing would strand the task
\* forever".
NotStranded == Strand!NotStranded
=============================================================================
