------------------------------- MODULE MCWork -------------------------------
(***************************************************************************)
(* What is around the sessions of a drain: the review panel, the digests   *)
(* the driver briefs a session with, the check of what a session says it   *)
(* delivered, the salvage of what it left behind, and what the daemon says *)
(* of itself, to the fleet and to its log.  They share no state, so a      *)
(* behaviour is about one of them.                                         *)
(***************************************************************************)
EXTENDS Integers, Sequences, FiniteSets

CONSTANTS
  Blank,            \* nothing; also a variable of a component this behaviour is not about
  t1, t2, r1, r2,  \* worktrees and repositories
  b1, b2           \* branches

-----------------------------------------------------------------------------
(* Panels                                                                  *)

\* Three required seats two at a time, a fix to follow, and nothing goes wrong.
Panel3 ==
  [seats |-> 3, optional |-> {}, cap |-> 2, fix |-> TRUE, ceiling |-> 0,
   exits |-> {"orderly"}, faults |-> {}, settles |-> FALSE]
\* One after another, the trial seat last.
Alone ==
  [Panel3 EXCEPT !.cap = 1, !.optional = {3}, !.exits = {"orderly", "limited", "limit", "dead"}, !.faults = {"read", "close"}]
Exits ==
  {"orderly", "limited", "nocall", "dead", "limit", "transient", "credit", "fatal", "untrusted", "nostart", "preflight"}
\* The pool with a trial seat, whose worktrees, baseline reads and sessions fail; two seats
\* at once, and every way a session ends, with closes that fail or whose reply is lost,
\* leases that lapse, a run let go of; a ceiling the second session reaches; one after
\* another, with and without a fix.
PanelConfigs ==
  {[Panel3 EXCEPT !.optional = {2}, !.exits = {"orderly", "dead", "limit"}, !.faults = {"tree", "read"}],
   [Panel3 EXCEPT !.seats = 2, !.optional = {2}, !.cap = 0, !.exits = Exits \ {"nostart", "untrusted", "dead"},
                  !.faults = {"probe", "read", "close", "reply", "lapse"}, !.settles = TRUE],
   [Panel3 EXCEPT !.ceiling = 2, !.exits = {"orderly", "nocall"}],
   Alone,
   [Alone EXCEPT !.seats = 2, !.optional = {1}, !.fix = FALSE, !.ceiling = 2, !.exits = Exits,
                 !.faults = {"read", "close", "reply", "lapse"}, !.settles = TRUE]}

-----------------------------------------------------------------------------
(* Deliveries: a workdir above two clones of one project and a clone of    *)
(* another, small histories, one or two events of each kind.               *)

Dir(up, k) == [up |-> up, clone |-> k, root |-> k /= "none", hidden |-> FALSE]
\* ~/dev with the session's tree, its worktree and one clone of another project below it.
Parent == <<Dir(0, "none"), Dir(1, "tree"), Dir(1, "site")>>
\* The single-project case: a directory inside the checkout.
Inside == <<[Dir(0, "tree") EXCEPT !.root = FALSE], Dir(1, "site")>>
\* A review clone of the same project beside the session's tree.
Review == <<Dir(0, "none"), Dir(1, "none"), Dir(1, "site"), Dir(2, "tree"), Dir(2, "review")>>
\* A worktree beside the repository, a dot directory, one directory too many.
Crowd == <<Dir(0, "none"), Dir(1, "tree"), [Dir(1, "review") EXCEPT !.hidden = TRUE], Dir(1, "tree"),
           Dir(1, "site")>>

Tree == [slug |-> "own/app", tip |-> "w2", has |-> {"base", "w1", "w2"}]
Site == [slug |-> "own/site", tip |-> "none", has |-> {"other"}]
MergedHistory == {"base", "w1", "w2", "other", "merge"}
Clones == [tree |-> Tree, site |-> Site, review |-> [Tree EXCEPT !.tip = "w1"]]
Pushed(b, m) == [s \in {"own/app", "own/site"} |->
                   IF s = "own/app" THEN [branch |-> b, main |-> m] ELSE [branch |-> "none", main |-> "base"]]

Claim0 ==
  [dirs |-> Parent, clones |-> Clones, origin |-> Pushed("w1", "base"),
   branch |-> TRUE, commit |-> "none", pr |-> "none",
   row |-> "own/app", declared |-> "none", primary |-> "own/app",
   hub |-> {"own/app", "own/site"}, ssh |-> {}, sees |-> {"own/app", "own/site"},
   tokens |-> {"own/app", "own/site"}, prs |-> {"own/app"},
   tools |-> {"git", "gh"}, calls |-> {}, unchecked |-> FALSE, expires |-> FALSE, budget |-> 2,
   onto |-> {"w2", "squash", "merge", "none"},
   fails |-> 0, pushes |-> 0, merges |-> 0, commits |-> 0, ci |-> 0]

LocalCalls == {"repoAt", "remoteURL", "revParse", "lsRemote", "haveObject", "fetch", "isAncestor", "attest"}

\* Branches under every layout, pushed late or not at all, of one or another repository,
\* also when two carry it, with any call failing or the deadline striking anywhere.
BranchConfigs ==
  {[Claim0 EXCEPT !.dirs = d, !.origin = Pushed(b, "merge"), !.commit = c, !.calls = LocalCalls, !.fails = 1, !.pushes = 1] :
     d \in {Parent, Review, Crowd}, b \in {"w1", "w2", "none"}, c \in {"none", "w2"}}
  \cup {[Claim0 EXCEPT !.clones = [Clones EXCEPT !.site.tip = "other"], !.dirs = d, !.calls = LocalCalls, !.fails = 2,
                       !.commit = "w2", !.expires = TRUE] :
          d \in {Parent, Review}}
  \cup {[Claim0 EXCEPT !.onto = {"merge", "squash"}, !.pushes = 2, !.commits = 1]}
  \cup {[Claim0 EXCEPT !.clones = [Clones EXCEPT !.site.tip = "other", !.tree.tip = t], !.row = r, !.declared = e] :
          t \in {"none", "w2"}, r \in {"own/app", "none"}, e \in {"own/site", "own/none"}}

\* Merges by commit, abbreviated or not, with histories that hold them or not.
MergeConfigs ==
  {[Claim0 EXCEPT !.dirs = d, !.branch = FALSE, !.commit = c, !.origin = Pushed("w2", m), !.calls = LocalCalls,
                !.clones = [Clones EXCEPT !.tree.has = h], !.ssh = IF d = Parent THEN {} ELSE {"own/app"}, !.tokens = {}, !.fails = 1, !.merges = 1] :
     d \in {Parent, Inside}, c \in {"w2", "w1", "HEAD"}, m \in {"base", "squash", "merge"},
     h \in {Tree.has, MergedHistory}}
  \cup {[Claim0 EXCEPT !.dirs = Review, !.branch = FALSE, !.commit = "w2", !.origin = Pushed("w2", "merge"), !.calls = LocalCalls,
                       !.fails = 1, !.expires = TRUE],
        [Claim0 EXCEPT !.commit = "w2", !.tools = {}]}

\* Pull requests whose checks come and go, and none.
PRConfigs ==
  {[Claim0 EXCEPT !.branch = b, !.origin = Pushed("w2", "base"), !.pr = "42", !.prs = e, !.sees = {"own/site"},
                !.unchecked = u, !.calls = {"gh", "garbled"}, !.onto = {"merge"}, !.fails = 1, !.ci = 3, !.pushes = 1] :
     b \in BOOLEAN, u \in BOOLEAN, e \in {{}, {"own/app"}}}
  \cup {[Claim0 EXCEPT !.origin = Pushed("w2", "base"), !.pr = p, !.tools = {"git"}] : p \in {"42", "my-branch"}}

DeliveryConfigs == BranchConfigs \cup MergeConfigs \cup PRConfigs

-----------------------------------------------------------------------------
(* Salvages                                                                *)

Trees == {t1, t2}
Repos == {r1, r2}
\* One tree of the task, listed by both repositories.
Rescue1 ==
  [repos |-> [t \in Trees |-> Repos], branch |-> [t \in Trees |-> IF t = t1 THEN b1 ELSE b2], ours |-> {t1},
   fails |-> {}, pushes |-> 1, acts |-> 5, sessions |-> 1, crashes |-> 0]
\* Git and the network fail in every way, across two sessions; the session changes much; it
\* worked in two trees; in one no repository lists; the daemon dies anywhere.
SalvageConfigs ==
  {[Rescue1 EXCEPT !.fails = {"probe", "status", "lsremote", "add", "commit", "readback", "push", "http2", "unheard", "record"},
                   !.acts = 4, !.sessions = 2],
   [Rescue1 EXCEPT !.acts = 6],
   [Rescue1 EXCEPT !.ours = Trees, !.acts = 3, !.fails = {"push"}],
   [Rescue1 EXCEPT !.repos = [t \in Trees |-> IF t = t1 THEN {} ELSE {r1}], !.acts = 2],
   [Rescue1 EXCEPT !.crashes = 1, !.sessions = 2, !.acts = 3, !.fails = {"push", "unheard"}]}

-----------------------------------------------------------------------------
(* Reports                                                                 *)

Try(u, c) == [usage |-> u, cost |-> c]
Reports0 ==
  [iterations |-> 1, phases |-> 1, cap |-> 2, outcome |-> "checkpoint", attempts |-> <<Try(TRUE, TRUE)>>,
   sessions |-> 1, limit |-> FALSE, wedges |-> FALSE, fails |-> 0, absent |-> 0, claims |-> 1, ticks |-> 1, budget |-> 0,
   unwritten |-> 0]
\* Reports lost on the way, on a full queue and to the budget; what a record says of
\* outcomes in prose, too many sessions, costs nobody reported.
ReportConfigs ==
  {[Reports0 EXCEPT !.iterations = 2, !.cap = k, !.fails = 1, !.absent = 2 - k, !.claims = 0, !.ticks = 0,
                    !.budget = 1] : k \in {1, 2}}
  \cup {[Reports0 EXCEPT !.cap = 1, !.phases = 2, !.fails = 1, !.ticks = 0]}
  \cup {[Reports0 EXCEPT !.outcome = o, !.sessions = n, !.attempts = t, !.cap = 3, !.ticks = 0, !.claims = 0] :
          o \in {"parked", "prose"}, n \in {0, 1, 3},
          t \in {<<>>} \cup {<<a, b>> : a \in {Try(TRUE, FALSE), Try(FALSE, TRUE)}, b \in [usage : BOOLEAN, cost : BOOLEAN]}}
\* Two renewers, a limit wait, claims and ticks; a file that is not removed or not written.
RenewerConfigs ==
  {[Reports0 EXCEPT !.limit = l, !.cap = 1] : l \in BOOLEAN} \cup {[Reports0 EXCEPT !.phases = 2, !.ticks = 0, !.cap = 1]}
  \cup {[Reports0 EXCEPT !.ticks = 0, !.cap = 1, !.unwritten = 1]}

-----------------------------------------------------------------------------
(* Logs: one to four names, a bound of three, a few lines.                 *)

Log0 == [keep |-> 3, max |-> 3, lines |-> 6, lengths |-> {1, 2, 4}, faults |-> 0, dirs |-> {}]
\* Two faults, every one but running out of descriptors; a disk that fills, alone or
\* between other faults; then the descriptors, and whole again.
LogConfigs ==
  {[Log0 EXCEPT !.keep = k, !.lines = 7, !.lengths = {2}, !.faults = 2, !.dirs = {"readonly", "blocked", "moved"}] : k \in 1 .. 4}
  \cup {[Log0 EXCEPT !.keep = k, !.lines = 5, !.lengths = {1, 2}, !.faults = 2, !.dirs = {"full"} \cup d] :
          k \in 1 .. 3, d \in {{}, {"readonly", "blocked"}}}
  \cup {Log0}
HealConfigs ==
  {[Log0 EXCEPT !.keep = k, !.lengths = {1, 3}, !.faults = 2, !.dirs = {"nofds", "readonly"}] : k \in 1 .. 3}

-----------------------------------------------------------------------------
VARIABLES
  part,   \* the component this behaviour is about
  \* those of the components, by their names there
  conf, plane, left, past, file,
  m, pool, drv,
  round, now, cycle, status, step, driver, brief, confirmed,
  clone, origin, pr, ver, over, record,
  tree, remote, claim, run,
  loop, row, ren, say, rep, pump,
  dir, term, files, at, open, size, warned, n, told, streaks, failing, lost

Panel == INSTANCE Panel WITH Configs <- PanelConfigs
\* One reviewer with verification rounds, takeovers and verdicts; a panel of two.
Digests ==
  INSTANCE Digests WITH None <- Blank, Seats <- {"review-1"}, Shelf <- 2, RoundCap <- 3, Verified <- TRUE, MaxRound <- 4, MaxCycle <- 2,
    Verifier <- "verify"
PanelDigests ==
  INSTANCE Digests WITH None <- Blank, Seats <- {"review-1", "review-2"}, Shelf <- 2, RoundCap <- 3, Verified <- TRUE, MaxRound <- 2,
    MaxCycle <- 1, Verifier <- "verify"
Delivery == INSTANCE Delivery WITH Configs <- DeliveryConfigs
Salvage == INSTANCE Salvage WITH None <- Blank, Branches <- {b1, b2}, Work <- t1, Configs <- SalvageConfigs
Reporter == INSTANCE FleetReporter WITH Renewers <- {"renewer"}, Configs <- ReportConfigs
Pair == INSTANCE FleetReporter WITH Renewers <- {"first", "second"}, Configs <- RenewerConfigs
Log == INSTANCE LogFile WITH Configs <- LogConfigs \cup HealConfigs

ASSUME WorkAssumption ==
  /\ Panel!ConfigsAssumption /\ Delivery!ConfigsAssumption /\ Salvage!ConfigsAssumption
  /\ Reporter!ConfigsAssumption /\ Pair!ConfigsAssumption /\ Log!ConfigsAssumption
  /\ Digests!SeatsAssumption /\ Digests!BoundsAssumption
  /\ PanelDigests!SeatsAssumption /\ PanelDigests!BoundsAssumption

\* A behaviour is about one component: the variables of the others stay blank.
PanelOwn == <<m, pool, drv>>
DigestsOwn == <<round, now, cycle, status, step, driver, brief, confirmed>>
DeliveryOwn == <<clone, origin, pr, ver, over, record>>
SalvageOwn == <<tree, remote, claim, run>>
ReporterOwn == <<loop, row, ren, say, rep, pump>>
LogOwn == <<dir, term, files, at, open, size, warned, n, told, streaks, failing, lost>>
vars == <<part, conf, plane, left, past, file, PanelOwn, DigestsOwn, DeliveryOwn, SalvageOwn,
          ReporterOwn, LogOwn>>

NoPanel == m = Blank /\ pool = Blank /\ drv = Blank
NoDigests == round = Blank /\ now = Blank /\ cycle = Blank /\ status = Blank /\ step = Blank
             /\ driver = Blank /\ brief = Blank /\ confirmed = Blank
NoDelivery == clone = Blank /\ origin = Blank /\ pr = Blank /\ ver = Blank /\ over = Blank
              /\ record = Blank
NoSalvage == tree = Blank /\ remote = Blank /\ claim = Blank /\ run = Blank
NoReporter == loop = Blank /\ row = Blank /\ ren = Blank /\ say = Blank /\ rep = Blank
              /\ pump = Blank
NoLog == dir = Blank /\ term = Blank /\ files = Blank /\ at = Blank /\ open = Blank /\ size = Blank
         /\ warned = Blank /\ n = Blank /\ told = Blank /\ streaks = Blank /\ failing = Blank
         /\ lost = Blank

Init ==
  \/ part = "panel" /\ Panel!Init
     /\ NoDigests /\ NoDelivery /\ NoSalvage /\ NoReporter /\ NoLog /\ left = Blank /\ past = Blank
     /\ file = Blank
  \/ part = "digests" /\ Digests!Init
     /\ NoPanel /\ NoDelivery /\ NoSalvage /\ NoReporter /\ NoLog /\ conf = Blank /\ plane = Blank
     /\ left = Blank /\ past = Blank /\ file = Blank
  \/ part = "panelDigests" /\ PanelDigests!Init
     /\ NoPanel /\ NoDelivery /\ NoSalvage /\ NoReporter /\ NoLog /\ conf = Blank /\ plane = Blank
     /\ left = Blank /\ past = Blank /\ file = Blank
  \/ part = "delivery" /\ Delivery!Init
     /\ NoPanel /\ NoDigests /\ NoSalvage /\ NoReporter /\ NoLog /\ plane = Blank /\ file = Blank
  \/ part = "salvage" /\ Salvage!Init
     /\ NoPanel /\ NoDigests /\ NoDelivery /\ NoReporter /\ NoLog /\ left = Blank
  \/ part = "reporter" /\ Reporter!Init
     /\ NoPanel /\ NoDigests /\ NoDelivery /\ NoSalvage /\ NoLog /\ past = Blank
  \/ part = "renewers" /\ Pair!Init
     /\ NoPanel /\ NoDigests /\ NoDelivery /\ NoSalvage /\ NoLog /\ past = Blank
  \/ part = "log" /\ Log!Init
     /\ NoPanel /\ NoDigests /\ NoDelivery /\ NoSalvage /\ NoReporter /\ plane = Blank /\ past = Blank
     /\ file = Blank

PanelAlone == part = "panel" /\ UNCHANGED <<part, DigestsOwn, DeliveryOwn, SalvageOwn, ReporterOwn,
                                          LogOwn, left, past, file>>
DigestsAlone == part = "digests" /\ UNCHANGED <<part, PanelOwn, DeliveryOwn, SalvageOwn,
                                              ReporterOwn, LogOwn, conf, plane, left, past, file>>
PanelDigestsAlone == part = "panelDigests" /\ UNCHANGED <<part, PanelOwn, DeliveryOwn, SalvageOwn,
                                                        ReporterOwn, LogOwn, conf, plane, left,
                                                        past, file>>
DeliveryAlone == part = "delivery" /\ UNCHANGED <<part, PanelOwn, DigestsOwn, SalvageOwn,
                                                ReporterOwn, LogOwn, plane, file>>
SalvageAlone == part = "salvage" /\ UNCHANGED <<part, PanelOwn, DigestsOwn, DeliveryOwn,
                                              ReporterOwn, LogOwn, left>>
ReporterAlone == part = "reporter" /\ UNCHANGED <<part, PanelOwn, DigestsOwn, DeliveryOwn,
                                                SalvageOwn, LogOwn, past>>
RenewersAlone == part = "renewers" /\ UNCHANGED <<part, PanelOwn, DigestsOwn, DeliveryOwn,
                                                SalvageOwn, LogOwn, past>>
LogAlone == part = "log" /\ UNCHANGED <<part, PanelOwn, DigestsOwn, DeliveryOwn, SalvageOwn,
                                      ReporterOwn, plane, past, file>>

PanelStep == PanelAlone /\ Panel!Next
DigestsStep == DigestsAlone /\ Digests!Next
PanelDigestsStep == PanelDigestsAlone /\ PanelDigests!Next
DeliveryStep == DeliveryAlone /\ Delivery!Next
SalvageStep == SalvageAlone /\ Salvage!Next
ReporterStep == ReporterAlone /\ Reporter!Next
RenewersStep == RenewersAlone /\ Pair!Next
LogStep == LogAlone /\ Log!Next
Next == PanelStep \/ DigestsStep \/ PanelDigestsStep \/ DeliveryStep \/ SalvageStep \/ ReporterStep
        \/ RenewersStep \/ LogStep

Spec == Init /\ [][Next]_vars

-----------------------------------------------------------------------------
(* Properties                                                              *)

\* A panel, side by side or one after another, keeps what ReviewRound promises of a round:
\* no member is at work when its findings become readable or its run is given up.  It
\* launches in order, spends no more than it may, and strands no record
\* (panel_parallel.go, loop.go:5188-5206, 4499-4504).
PanelKeepsTheRound ==
  /\ [](part = "panel" => Panel!TypeOK /\ Panel!LaunchesInOrder /\ Panel!SpendIsBounded /\ Panel!NoRecordStranded)
  /\ (part = "panel" => Panel!Round!Init)
  /\ [][part = "panel" => Panel!Round!Next \/ UNCHANGED Panel!Round!vars]_vars

\* A session is briefed with every MUST that is open, told which are settled, and never
\* with what belongs to another cycle, a void round or a seat that said nothing, as far as
\* the reads before it were answered; a merged list is whole or says that it is not
\* (loop.go:3700-4010, 4560-4640).
DigestsAreCurrent ==
  /\ [](part = "digests" =>
          /\ Digests!TypeOK /\ Digests!OpenMustsAreBriefed /\ Digests!SettledMustsAreTold /\ Digests!OldCyclesRest
          /\ Digests!VoidRoundsRest /\ Digests!ReopenedIsParked)
  /\ [](part = "panelDigests" =>
          /\ PanelDigests!LostSeatsAreNamed /\ PanelDigests!OpenMustsAreBriefed /\ PanelDigests!MergedListIsWhole)

\* What the driver records of a delivery is so: a branch or a merge that passes is on the
\* remote, one that fails is not unless merge-base did not answer, of the claim's own
\* repository if that told its remote, and a pull request passes on green checks only
\* (delivery.go, prcheck.go).
DeliveriesAreTrue ==
  /\ [](part = "delivery" =>
          /\ Delivery!TypeOK /\ Delivery!PRPassIsEarned /\ Delivery!RefusedOnceSpent /\ Delivery!NotFoundMeansAbsent
          /\ Delivery!PassMeansPushed /\ Delivery!FailMeansNotPushed /\ Delivery!AmbiguityIsReported
          /\ Delivery!BranchIsTheClaims /\ Delivery!ClaimsAreIndependent
          /\ Delivery!RecordTrueMeansMerged /\ Delivery!RecordFalseMeansNotMerged)

\* A rescue neither loses nor invents work: what is handed off is on the remote, nothing is
\* forced over what others pushed, no conflict is committed, nor an operation git told of,
\* and a delivered tip stands (salvage.go, loop.go:6020-6110).
SalvageKeepsTheWork ==
  /\ [](part = "salvage" =>
          /\ Salvage!TypeOK /\ Salvage!HandOffIsFetchable /\ Salvage!NoConflictIsWork /\ Salvage!LeftMeansPushed
          /\ (conf.crashes = 0 => Salvage!ReadyHasNoBranch))
  /\ [][part = "salvage" => Salvage!ForcesNothing /\ (conf.crashes = 0 => Salvage!KeepsTheTip)]_vars

\* Reports arrive once and in order, the last word is that the daemon stops, what is lost
\* is counted, and a record says what happened; the local beacon is current, and revised
\* only from within a session (fleet.go, loop/fleet.go, heartbeat.go:223).
ReportsAreTrue ==
  /\ [](part = "reporter" =>
          /\ Reporter!TypeOK /\ Reporter!ClosingIsLast /\ Reporter!OrderIsKept /\ Reporter!RecordsOnce /\ Reporter!LossesAreTold
          /\ Reporter!NothingIsRefused /\ Reporter!CostIsWhole /\ (conf.cap = 3 => Reporter!RecordsArrive))
  /\ [](part = "renewers" => Pair!BeaconIsCurrent)
  /\ [][part = "renewers" => Pair!ReflectsInSession]_vars

\* The log keeps its last line readable and has no gap, but for what a full disk did not
\* take, in no more than its bound, and comes back under its name, with every streak of
\* failed rotations told of (logfile.go).
LogIsKept ==
  /\ [](part = "log" => Log!TypeOK)
  /\ [](part = "log" /\ conf \in LogConfigs => Log!LastLineIsReadable /\ Log!NoGap /\ Log!BoundHolds)
  /\ [](part = "log" /\ conf \in HealConfigs => Log!StreaksAreTold)
  /\ [][part = "log" /\ conf \in HealConfigs => Log!BackUnderItsName]_vars
=============================================================================
