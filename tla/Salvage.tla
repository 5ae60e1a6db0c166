------------------------------- MODULE Salvage -------------------------------
(***************************************************************************)
(* What becomes of the work a session leaves in its worktree: the driver   *)
(* finds the one tree whose branch carries the task's id, commits and      *)
(* pushes what is uncommitted there, records the branch on the task, and   *)
(* only then hands the claim back; others push to the same remote, git and *)
(* the network fail at every step, the three minutes run out in the middle *)
(* of one, and the daemon dies between two.                                *)
(*                                                                         *)
(* A commit is the history it ends: a sequence of who made each step of it *)
(* ("s" the session, "w" a salvage, "x" a salvage of a tree in conflict or *)
(* known to be in the middle of an operation, "i" one of a tree in an      *)
(* operation that git was asked about in vain, "o" others).                *)
(***************************************************************************)
EXTENDS Integers, Sequences, SequencesExt, FiniteSets

CONSTANTS Trees, Repos, Branches, Work, None, Configs

\* The repositories that list each tree, the branch checked out there and whether it
\* carries the task's id; what fails; whether others push, how often the session may
\* change something, how many sessions and crashes there are.
Failures == {"list", "probe", "status", "lsremote", "add", "commit", "readback", "push", "http2", "unheard",
             "record", "lost"}
ConfigsAssumption ==
  /\ Work \in Trees /\ None \notin Branches
  /\ \A c \in Configs :
       /\ c.repos \in [Trees -> SUBSET Repos] /\ c.branch \in [Trees -> Branches]
       /\ c.ours \subseteq Trees /\ Work \in c.ours
       /\ c.fails \subseteq Failures /\ c.pushes \in Nat /\ c.acts \in Nat
       /\ c.sessions \in Nat /\ c.crashes \in Nat

VARIABLES
  conf,    \* the member of Configs this behaviour is about
  tree,    \* per worktree: the commit checked out, its dirt, whether an operation is under way
  remote,  \* per branch: its tip on the remote
  plane,   \* the task: its status and the branch recorded on it
  claim,   \* what the driver observed of the session's claim
  file,    \* CURRENT_CLAIM: the branch in it, or that it is not there
  run,     \* where the salvage is, and what it read
  past     \* what happened, for the bounds and the properties

vars == <<conf, tree, remote, plane, claim, file, run, past>>

Dirt == {"tracked", "untracked", "unmerged"}
History == Seq({"s", "w", "x", "i", "o"})
Tips == History \cup {None}
Git == {"list", "probe", "status", "ask", "add", "commit", "readback", "push", "retry"}
PCs == Git \cup {"session", "record", "note", "back", "idle", "dead"}
Outs == {"none", "nothing", "empty", "refused", "untracked", "failed", "saved"}

TypeOK ==
  /\ conf \in Configs
  /\ tree \in [Trees -> [head : History, dirt : SUBSET Dirt, op : BOOLEAN]]
  /\ remote \in [Branches -> Tips]
  /\ plane \in [status : {"held", "ready", "takeover"}, branch : Branches \cup {None}]
  /\ claim \in [wip : BOOLEAN, branch : Branches \cup {None}, recorded : SUBSET Branches]
  /\ file \in [there : BOOLEAN, branch : Branches \cup {None}]
  /\ run \in [pc : PCs, late : BOOLEAN, dead : BOOLEAN, at : Trees, out : Outs]
  /\ past \in [acts : Nat, pushes : Nat, sessions : Nat, crashes : Nat, start : History,
               handed : [branch : Branches \cup {None}, tip : History],
               delivered : SUBSET Branches, blind : BOOLEAN, unprobed : BOOLEAN]

Idle == [pc |-> "session", late |-> FALSE, dead |-> FALSE, at |-> Work, out |-> "none"]

Init ==
  /\ conf \in Configs
  /\ tree = [t \in Trees |-> [head |-> <<>>, dirt |-> {}, op |-> FALSE]]
  /\ remote = [b \in Branches |-> None]
  /\ plane = [status |-> "held", branch |-> None]
  /\ claim = [wip |-> FALSE, branch |-> None, recorded |-> {}]
  /\ file = [there |-> TRUE, branch |-> None]
  /\ run = Idle
  /\ past = [acts |-> 0, pushes |-> 0, sessions |-> 1, crashes |-> 0, start |-> <<>>,
             handed |-> [branch |-> None, tip |-> <<>>], delivered |-> {}, blind |-> FALSE, unprobed |-> FALSE]

At(pc) == run.pc = pc
Tip(t) == tree[t].head
Goes(pc) == run' = [run EXCEPT !.pc = pc]
Outcome(out) == run' = [run EXCEPT !.pc = "back", !.out = out]
Fails(f) == f \in conf.fails \/ run.late

(***************************************************************************)
(* The session, and the others                                             *)
(***************************************************************************)
Acts == At("session") /\ past.acts < conf.acts /\ past' = [past EXCEPT !.acts = @ + 1]

Edits ==
  /\ Acts
  /\ \E t \in conf.ours, d \in Dirt : tree' = [tree EXCEPT ![t].dirt = @ \cup {d}]
  /\ UNCHANGED <<conf, remote, plane, claim, file, run>>

\* A merge, a rebase or their like that the session has not finished.
BeginsOperation ==
  /\ Acts
  /\ tree' = [tree EXCEPT ![Work].op = TRUE, ![Work].dirt = @ \cup {"tracked"}]
  /\ UNCHANGED <<conf, remote, plane, claim, file, run>>

\* What is untracked may be left out of the session's own commit.
SessionCommits ==
  /\ Acts /\ tree[Work].dirt # {}
  /\ \E left \in SUBSET {"untracked"} :
       tree' = [tree EXCEPT ![Work] = [head |-> Append(@.head, "s"), dirt |-> left \cap @.dirt, op |-> FALSE]]
  /\ UNCHANGED <<conf, remote, plane, claim, file, run>>

FastForwards(b, tip) == remote[b] # None => IsPrefix(remote[b], tip)

SessionPushes ==
  /\ Acts /\ FastForwards(conf.branch[Work], Tip(Work))
  /\ remote' = [remote EXCEPT ![conf.branch[Work]] = Tip(Work)]
  /\ UNCHANGED <<conf, tree, plane, claim, file, run>>

SessionRecords ==
  /\ Acts /\ remote[conf.branch[Work]] # None
  /\ LET b == conf.branch[Work] IN
     /\ plane' = [plane EXCEPT !.branch = b]
     /\ claim' = [wip |-> TRUE, branch |-> b, recorded |-> claim.recorded \cup {b}]
     /\ file' = [file EXCEPT !.branch = b]
  /\ UNCHANGED <<conf, tree, remote, run>>

OthersPush ==
  /\ past.pushes < conf.pushes
  /\ \E b \in Branches : remote[b] # None /\ remote' = [remote EXCEPT ![b] = Append(@, "o")]
  /\ past' = [past EXCEPT !.pushes = @ + 1]
  /\ UNCHANGED <<conf, tree, plane, claim, file, run>>

\* The session is over, dead (it produced nothing that was seen) or not; what it
\* delivered is a recorded branch whose tip on the remote is the commit checked out,
\* with nothing but untracked files beside it.
SessionEnds ==
  /\ At("session")
  /\ \E dead \in {FALSE, ~claim.wip} : run' = [Idle EXCEPT !.pc = "list", !.dead = dead]
  /\ past' = [past EXCEPT !.blind = FALSE, !.unprobed = FALSE, !.delivered =
                         {b \in claim.recorded : remote[b] = Tip(Work) /\ tree[Work].dirt = {"untracked"}}]
  /\ UNCHANGED <<conf, tree, remote, plane, claim, file>>

(***************************************************************************)
(* Salvage: every guard, then the one mutating path                        *)
(***************************************************************************)
\* One tree carries the task, none does, or it cannot be told which.
Verdict(found) == IF found = {} THEN "none" ELSE IF Cardinality(found) = 1 THEN "one" ELSE "many"

\* A repository whose listing fails is passed over.
FindWorktrees ==
  /\ At("list")
  /\ \E heard \in IF run.late THEN {{}} ELSE IF "list" \in conf.fails THEN SUBSET Repos ELSE {Repos} :
       LET found == {t \in conf.ours : conf.repos[t] \cap heard # {}} IN
       \/ Verdict(found) = "none" /\ Outcome("nothing")
       \/ Verdict(found) = "many" /\ Outcome("refused")
       \/ Verdict(found) = "one" /\ \E t \in found : run' = [run EXCEPT !.pc = "probe", !.at = t]
  /\ UNCHANGED <<conf, tree, remote, plane, claim, file, past>>

\* A git that does not say where it keeps its state is taken for one busy with nothing,
\* and the rescue goes on.
InProgressOp ==
  /\ At("probe")
  /\ \/ ~run.late /\ tree[run.at].op /\ Outcome("refused") /\ UNCHANGED past
     \/ ~run.late /\ ~tree[run.at].op /\ Goes("status") /\ UNCHANGED past
     \/ Fails("probe") /\ Goes("status") /\ past' = [past EXCEPT !.unprobed = TRUE]
  /\ UNCHANGED <<conf, tree, remote, plane, claim, file>>

UnmergedPaths(dirt) == "unmerged" \in dirt

UntrackedOnly(dirt) == dirt = {"untracked"}

Status ==
  /\ At("status")
  /\ LET dirt == tree[run.at].dirt IN
     \/ Fails("status") /\ Outcome("failed")
     \/ ~run.late /\ dirt = {} /\ Outcome(IF run.dead THEN "empty" ELSE "nothing")
     \/ ~run.late /\ UnmergedPaths(dirt) /\ Outcome("refused")
     \/ ~run.late /\ dirt # {} /\ ~UnmergedPaths(dirt) /\ Goes(IF UntrackedOnly(dirt) THEN "ask" ELSE "add")
  /\ UNCHANGED <<conf, tree, remote, plane, claim, file, past>>

\* A branch the session recorded is on the remote at exactly the commit checked out.
Delivered == \E b \in claim.recorded : remote[b] = Tip(run.at)

AsksRemote ==
  /\ At("ask")
  /\ \/ ~run.late /\ Delivered /\ Outcome("untracked") /\ UNCHANGED past
     \/ ~run.late /\ ~Delivered /\ Goes("add") /\ UNCHANGED past
     \/ Fails("lsremote") /\ Goes("add") /\ past' = [past EXCEPT !.blind = TRUE]
  /\ UNCHANGED <<conf, tree, remote, plane, claim, file>>

\* A staged file is a tracked one from here on.
Adds ==
  /\ At("add")
  /\ \/ ~run.late /\ Goes("commit")
        /\ tree' = [tree EXCEPT ![run.at].dirt = {IF d = "untracked" THEN "tracked" ELSE d : d \in @}]
     \/ Fails("add") /\ Outcome("failed") /\ UNCHANGED tree
  /\ UNCHANGED <<conf, remote, plane, claim, file, past>>

\* What kind of commit it is.
Salvage(t) == IF "unmerged" \in t.dirt \/ (t.op /\ ~past.unprobed) THEN "x" ELSE IF t.op THEN "i" ELSE "w"
Salvaged(t) == [head |-> Append(t.head, Salvage(t)), dirt |-> {}, op |-> FALSE]

\* A commit that is killed may have been made.
Commits ==
  /\ At("commit")
  /\ \/ ~run.late /\ Goes("readback") /\ tree' = [tree EXCEPT ![run.at] = Salvaged(@)]
     \/ run.late /\ Outcome("failed") /\ tree' = [tree EXCEPT ![run.at] = Salvaged(@)]
     \/ Fails("commit") /\ Outcome("failed") /\ UNCHANGED tree
  /\ UNCHANGED <<conf, remote, plane, claim, file, past>>

ReadsBack ==
  /\ At("readback")
  /\ \/ ~run.late /\ Goes("push")
     \/ Fails("readback") /\ Outcome("failed")
  /\ UNCHANGED <<conf, tree, remote, plane, claim, file, past>>

TreeBranch == conf.branch[run.at]
Moves == remote' = [remote EXCEPT ![TreeBranch] = Tip(run.at)]

\* The remote takes what its tip is an ancestor of, and nothing else.
PushTaken == FastForwards(TreeBranch, Tip(run.at)) /\ Moves

\* Slip: a push that failed is a hand-off all the same.
PushFailedOnwards == Goes("record") /\ UNCHANGED remote

\* Refused, or taken and not heard of: the branch stays unrecorded.
PushFailed ==
  /\ Outcome("failed")
  /\ \/ UNCHANGED remote
     \/ Fails("unheard") /\ PushTaken

Pushed == run' = [run EXCEPT !.pc = "record", !.out = "saved"]

Refusable == Fails("push") \/ ~FastForwards(TreeBranch, Tip(run.at))

Pushes ==
  /\ At("push")
  /\ \/ ~run.late /\ PushTaken /\ Pushed
     \/ (Refusable \/ Fails("unheard")) /\ PushFailed
     \/ "http2" \in conf.fails /\ Goes("retry") /\ UNCHANGED remote
  /\ UNCHANGED <<conf, tree, plane, claim, file, past>>

\* Once, over HTTP/1.1.
Retries ==
  /\ At("retry")
  /\ \/ ~run.late /\ PushTaken /\ Pushed
     \/ (Refusable \/ Fails("unheard")) /\ PushFailed
  /\ UNCHANGED <<conf, tree, plane, claim, file, past>>

(***************************************************************************)
(* The hand-off: the branch on the task, then in CURRENT_CLAIM, then the   *)
(* claim                                                                   *)
(***************************************************************************)
Hands == past' = [past EXCEPT !.handed = [branch |-> TreeBranch, tip |-> Tip(run.at)]]

\* Refused, the claim stays releasable; accepted and not answered, too.
RecordBranch ==
  /\ At("record")
  /\ \/ /\ plane' = [plane EXCEPT !.branch = TreeBranch] /\ Hands
        /\ claim' = [claim EXCEPT !.wip = TRUE, !.branch = TreeBranch]
        /\ Goes("note")
     \/ /\ "lost" \in conf.fails
        /\ plane' = [plane EXCEPT !.branch = TreeBranch] /\ Hands
        /\ Goes("back") /\ UNCHANGED claim
     \/ "record" \in conf.fails /\ Goes("back") /\ UNCHANGED <<plane, claim, past>>
  /\ UNCHANGED <<conf, tree, remote, file>>

NoteCurrentClaim ==
  /\ At("note") /\ Goes("back")
  /\ file' = [file EXCEPT !.branch = claim.branch]
  /\ UNCHANGED <<conf, tree, remote, plane, claim, past>>

\* A claim with pushed work is expired for a takeover, one without is released; what the
\* plane refuses, and a claim whose stream could not be read whole, is left to expire.
ReleaseHeldClaim ==
  /\ At("back") /\ Goes("idle")
  /\ \E status \in {"takeover", IF claim.wip THEN "takeover" ELSE "ready"} :
       plane' = [plane EXCEPT !.status = status]
  /\ file' = [there |-> FALSE, branch |-> None]
  /\ UNCHANGED <<conf, tree, remote, claim, past>>

(***************************************************************************)
(* Time, deaths and the next session                                       *)
(***************************************************************************)
\* salvageTimeout: whatever git does then is killed.
Deadline ==
  /\ run.pc \in Git /\ ~run.late
  /\ run' = [run EXCEPT !.late = TRUE]
  /\ UNCHANGED <<conf, tree, remote, plane, claim, file, past>>

Crash ==
  /\ run.pc \notin {"dead", "idle"} /\ past.crashes < conf.crashes
  /\ Goes("dead")
  /\ past' = [past EXCEPT !.crashes = @ + 1]
  /\ UNCHANGED <<conf, tree, remote, plane, claim, file>>

\* The supervisor hands a dead daemon's claim back by what CURRENT_CLAIM says; when the
\* plane is not there or refuses, the lease expires.
HandBackDeadClaim ==
  /\ At("dead") /\ Goes("idle")
  /\ \E status \in {"takeover", IF file.branch = None THEN "ready" ELSE "takeover"} :
       plane' = [plane EXCEPT !.status = status]
  /\ file' = [there |-> FALSE, branch |-> None]
  /\ UNCHANGED <<conf, tree, remote, claim, past>>

\* The task is claimed again on this machine: in the tree it was worked in before.
Reclaims ==
  /\ At("idle") /\ past.sessions < conf.sessions
  /\ plane' = [plane EXCEPT !.status = "held"]
  /\ LET b == plane.branch IN
     /\ claim' = [wip |-> b # None, branch |-> b, recorded |-> {b} \ {None}]
     /\ file' = [there |-> TRUE, branch |-> b]
  /\ run' = Idle
  /\ past' = [past EXCEPT !.sessions = @ + 1, !.start = Tip(Work), !.delivered = {}]
  /\ UNCHANGED <<conf, tree, remote>>

Rescue ==
  \/ FindWorktrees \/ InProgressOp \/ Status \/ AsksRemote \/ Adds \/ Commits \/ ReadsBack
  \/ Pushes \/ Retries
HandOff == RecordBranch \/ NoteCurrentClaim \/ ReleaseHeldClaim

Next ==
  \/ Edits \/ BeginsOperation \/ SessionCommits \/ SessionPushes \/ SessionRecords \/ OthersPush
  \/ SessionEnds \/ Rescue \/ HandOff \/ Deadline \/ Crash \/ HandBackDeadClaim \/ Reclaims

Spec == Init /\ [][Next]_vars

\* A git command may hang; the deadline comes, and then it is killed.  The plane's
\* calls have a bound of their own.
FairSpec ==
  /\ Spec
  /\ WF_vars(Deadline) /\ WF_vars(run.late /\ Rescue) /\ WF_vars(HandOff)

(***************************************************************************)
(* Properties                                                              *)
(***************************************************************************)
\* A branch the driver hands off is on the remote with all that was rescued, whatever
\* others push: "a recorded branch nobody can fetch is worse than none at all"
\* (salvage.go:36-38).
HandOffIsFetchable ==
  past.handed.branch # None =>
    /\ remote[past.handed.branch] # None
    /\ IsPrefix(past.handed.tip, remote[past.handed.branch])

\* Nothing is ever forced: what any clanker pushed stays in the history of its branch.
ForcesNothing == \A b \in Branches : remote[b] # None => IsPrefix(remote[b], remote'[b])
NothingForced == [][ForcesNothing]_vars

\* No salvage records a tree in conflict, with an operation under way or without one
\* (salvage.go:211-220), nor one in the middle of an operation that git told it of.
NoConflictIsWork ==
  \A t \in Trees : \A i \in DOMAIN Tip(t) : Tip(t)[i] # "x"

\* Nor one in the middle of any: "committing it would record a state nobody chose"
\* (salvage.go:194).
NoOperationIsWork ==
  \A t \in Trees : \A i \in DOMAIN Tip(t) : Tip(t)[i] \notin {"x", "i"}

\* The tip a session delivered, with nothing but untracked files beside it, is the one
\* its reviewers read: the driver does not move it, unless the remote could not be asked.
KeepsTheTip ==
  ~past.blind => \A b \in past.delivered : remote'[b] = remote[b] \/ Last(remote'[b]) \notin {"w", "i"}
DeliveredTipStands == [][KeepsTheTip]_vars

\* Untracked files are left alone only beside a tip that everyone can fetch: "a local tip
\* AHEAD of the remote is the CLA-134 failure" (salvage.go:326-328).
LeftMeansPushed ==
  run.out = "untracked" => \E b \in Branches : remote[b] # None /\ IsPrefix(Tip(run.at), remote[b])

\* A task is offered as new work only while no branch is recorded on it: a release over a
\* recorded branch strands it (loop.go:6030-6035).
ReadyHasNoBranch == plane.status = "ready" => plane.branch = None

\* "the worktree is clean because no work was ever written to it, not because it was
\* committed" (loop.go:6064).
EmptyMeansNothingWritten == run.out = "empty" => Tip(run.at) = past.start

\* "Two worktrees answering to the same task is an ambiguity, not a coin toss: it is
\* reported and nothing is touched" (salvage.go:33-34).
NoCoinToss == run.pc \in Git \ {"list"} => Cardinality({t \in conf.ours : conf.repos[t] # {}}) = 1

\* A rescue ends, and the claim is handed back, however long git hangs.
RescueEnds == run.pc \in Git ~> At("idle") \/ At("dead")
=============================================================================
