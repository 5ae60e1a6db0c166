# A verification of clankerbar

clankerbar runs coding agents ("clankers") against a backlog kept by a remote
service, the *plane*. `clankerbar run` is one driver process: it polls the plane,
spawns an agent session for a task, reads what the session left behind, and
either passes the task to the next phase (implement, review, fix, verify) or
hands it back. `clankerbar supervise` keeps a fleet of such drivers on a host.
Most of what can go wrong is in the order of things: leases that outlive a
session, counters that outlive a drain, answers that arrive between two polls,
calls that fail half-way, other clankers on the same queue.

This directory models the program in TLA+, component by component, checks it with
TLC on small instances and proves theorems about it with TLAPS.

## Contents

| Module | What it models | Run |
| --- | --- | --- |
| `RunLoop` | the scheduling loop, `Driver.Run` with `judgeProgress`, `sidelineTarget`, `fleetTrip`, `startupTrip` | `RunLoop`, `RunLoop_liveness` |
| `PhaseSequence` | one drain of one target, `drainPhases`, `drainPhase` and their helpers | `PhaseSequence`, `Progress` |
| `LeaseRenewal` | who knows what a session holds: the adapter's callback, the renewer, `CURRENT_CLAIM`, the supervisor's handback | `LeaseRenewal` |
| `Panel`, `ReviewRound` | a review panel, in the pool and one seat after another; what it promises whoever reads its findings | `Work`, `Progress` |
| `Digests` | what a fix and a verification are told of the findings | `Work` |
| `Delivery` | the check of what a session says it delivered | `Work`, `Progress` |
| `Salvage` | the rescue of what a session left in its worktree | `Work`, `Progress` |
| `FleetReporter` | beacons, iteration records and the reporter's pump | `Work`, `Progress` |
| `LogFile` | the rotating log | `Work` |
| `Controls`, `Daemon` | the markers STOP, HALT, RESTART, RESTART_NOW and RELOAD; what a daemon promises whoever steers it | `Controls`, `Progress` |
| `Supervisor` | `clankerbar supervise` | `Fleet`, `Progress` |
| `Roll` | `clankerbar supervise roll` | `Fleet`, `Progress` |
| `CloseOut` | the close-out of approved tasks and its conflict sessions | `CloseOut`, `CloseOut_strands`, `Progress` |
| `Config`, `Pipeline`, `Overlay` | what a config comes to; the pipelines Validate accepts; the configs made of a config | `Config` |
| `RunConfig` | the document ratified on the plane, as it comes into force and goes | `Config`, `Progress` |
| `RouteMarks` | the marks on denied model routes | `Config` |
| `ClaudeStream`, `CodexStream` | one session of either program | `Adapters` |
| `OpenCode`, `OpenCodeStream`, `OpenCodeServer` | one call of the opencode adapter, its event stream, its preflight | `Adapters` |
| `ExitClass`, `ResetClock`, `OutputTail` | how an end is classified, when a limit lifts, the bounds on a child's output | `Adapters` |

`MC*.tla` are the instances of the runs, one module per run or pair of runs, with a
`.cfg` each; `RunLoopProofs`, `PhaseSequenceProofs`, `PhaseSequenceClaims`,
`PhaseSequenceRounds`, `LeaseRenewalProofs`, `ControlsProofs`, `RollProofs` and
`OpenCodeProofs` hold the theorems. `PROJECT.json` is the index: components, runs, mutants, source map, findings, hazards, theorems.

    tlc -workers 2 -config Fleet.cfg MCFleet
    tlapm RunLoopProofs.tla

Definitions are named after the functions and fields of the Go source where they
have a name there (`judgeProgress`, `releaseHeldClaim`, `checkpointEvidence`);
actions that are an arm of a long function are named for what they do (`SeamDies`,
`RouteLimited`). A definition under a comment that starts with *Slip:* is not part
of the specification: it is what a plausible mistake in that place of the code
would look like, and PROJECT.json says which property notices it ("mutants").

Components that share no state are checked in one run: the MC module declares the
variables of all of them, `part` says which component a behaviour is about, and
the variables of the others stay blank. Nothing is composed that way; it only
saves starting TLC. What is composed is composed by state: the supervisor's
handback and the daemon in `LeaseRenewal`, the daemons in `Supervisor` and `Roll`,
agents, authors and other supervisors in `CloseOut`.

## Inventory

The state each part keeps, what it does, whom it talks to, what is hard, and what
makes it right.

| Part | State | Operations and interactions | What is hard | What makes it correct | Here |
| --- | --- | --- | --- | --- | --- |
| Run loop (`loop/loop.go`: `Run`) | per target: progress baseline, open questions, no-progress account, sit-out, failure rungs, startup failures, dead counter, two pauses | polls the plane, rotates over targets, calls a drain, books its end | every decision compares two polls with other actors in between; two ladders share one field | pauses and sit-outs are earned and end; no target starves; ceilings hold | `RunLoop` |
| Phase sequence (`drainPhases`, `drainPhase`) | the carried claim, retry, handoff, death and round counters, the session's observed result | spawns sessions through a harness adapter, judges evidence with plane and git reads, checkpoints, retries, waits, hands back | a lease is held across sessions; every call can fail; claims can lapse or be taken | nothing is left held, no work is lost, phases advance on evidence, rounds and retries end | `PhaseSequence` |
| Lease renewal (`heartbeat.go`, `currentclaim.go`) | the claim being renewed, a queue of 4 snapshots, failure count, the claim file | a goroutine per session: beats, follows claims, writes the claim file | the adapter's callback races the ticker, a slow beat and the stop | the newest claim is never shed; a run let go is not beaten; no task goes back to the queue over its work | `LeaseRenewal` |
| Parallel panel (`panel_parallel.go`) | members, their outcomes, shared spend | a pool of reviewers in detached worktrees joined before the fix | failures and launches in any order, one budget | nobody reviews once findings are readable or the run is given up; no record is stranded; one ceiling holds | `Panel` |
| Review digests (`loop.go`: `mergedFindingsDigest`, `verifyDigest`, `openMusts`) | which MUSTs earlier rounds settled | makes lists of the review records the plane serves | partial reads, void rounds, other cycles' records, a takeover that forgets | every open MUST is briefed, settled ones are told, lost seats are named | `Digests` |
| Operator controls (`control.go`, wait loops, `ctl`) | marker files STOP, HALT, RESTART, RESTART_NOW, RELOAD | consumed at the loop head, in waits and by a watcher | several readers of one marker | a stop is never lost, never honoured twice | `Controls`, implementing `Daemon` |
| Run configuration (`runconfig.go`) | version in force, fetch back-off | applies a plane-served overlay when a poll shows a new version | stale versions, failed fetches, a sequence in flight | the overlay in force is one that was ratified | `RunConfig`, `Overlay` |
| Configuration (`config/*.go`) | none | resolves briefs, seats, harnesses, models, wiring; validates | fields inherited across harnesses | a sequence delivers once; a session speaks its harness's language | `Config`, `Pipeline`, `Overlay` |
| Route fallback (`route_fallback.go`, `opencode_routes.go`) | marks of limited routes | a session switches model route when one is limited | several sessions report at once | a marked route is not tried before its reset | `RouteMarks`, `OpenCode` |
| Fleet reporting (`fleet/fleet.go`, `loop/fleet.go`) | outbox of 16, one pump, the local BEACON | beacons and iteration records; a closing flush | a send racing the close | the last report is the last word | `FleetReporter` |
| Supervisor (`supervisor/*.go`) | instances, desired state, back-off, markers, cached roster | spawns, stops, respawns, rolls, replaces itself, hands back a dead child's claim | child exits, operator markers and roster changes interleave | a stopped child stays down, a replacement drains or is abandoned | `Supervisor`, `Roll`; the handback in `LeaseRenewal` |
| Close-out (`closeout.go`, `conflict.go`, `conflictlock.go`) | pass in flight, attempts, host-wide slot | merges reviewed pull requests; one conflict session per host | check then act on a moving branch | only what was reviewed is merged; one holder of the slot | `CloseOut` |
| Delivery checks (`delivery/*.go`) | none | judge branch, merge and pull-request claims | three-valued evidence | "verified" only on evidence | `Delivery` |
| Salvage (`salvage.go`) | none | commits and pushes a stranded worktree | partial failures between commit, push and record | pushed work is findable | `Salvage` |
| Plane client (`plane/*.go`, `backlog/*.go`) | none | HTTP calls, refusals and errors classified | lost replies | refusals are told from faults | the calls' effects in all modules |
| Harness adapters (`harness/*.go`) | parse state of one stream, the windows on its output | run a CLI, track its claim, kill it, resume it, classify its end | truncated and repeated events, descendants that hold a pipe, several processes in one call | what is not known is not acted on; spend is charged once | `ClaudeStream`, `CodexStream`, `OpenCode`, `OpenCodeStream`, `OpenCodeServer`, `ExitClass`, `ResetClock`, `OutputTail` |
| Daemon log (`logfile.go`) | handle, size, whether it warned | rotates at a bound | several renames, each of which may fail | the last line is readable | `LogFile` |
| State directory, commands, doctor, uploads, release tooling | files or none | I/O, parsing, wording | few | | not modelled |

The hazards, each at its line, are in PROJECT.json with the properties that notice
them going wrong.

## The modules

### RunLoop

State. `tgt[i]` is what the Driver's per-target slices hold for target *i*
(`Books`), `plane[i]` what the plane would answer for its project (`PlaneRows`:
counts only, as in `backlog.Summary`). `pc` follows `Run`: `top` (controls and
ceilings), `sweep` (one poll per step, `at` the target being polled), `choose`,
`idle`, `drain`, `drained`, `done`. The inside of a drain is reduced to what the
loop keeps of it: the deaths that feed `fleetDead`, handoff respawns, and the end.

Time is counted in base back-offs of 15 minutes and advances (`Tick`) only while
the loop is not inside a drain's booking; tokens in units of which `QuietTokens`
make one `quietTokenThreshold`. The ladder of back-offs is the code's, cut off at
`BackoffCap` (the code's own two hours is 8) and the counters saturate at
`FailTop` rungs, where the ladder no longer changes.

The plane moves between any two steps (`PlaneStep`): work settles, returns, is
asked about, questions are answered, the console pauses a project. Polls may fail
transiently or be refused. `Dormant` targets have projects that stay empty, to
keep two-target instances small. A driver without an endpoint and key
(`Wired = FALSE`) drains without polling: `cli/run.go` builds poller and releaser
from the same pair, so one constant stands for both. `died` and `passed` are history.

### PhaseSequence

State. `task[t]` is the plane's row of a task with its durable review record;
`carried`, `cnt` and `i` are the locals of `drainPhases`; `try` those of the
`drainPhase` call in flight, `res` the session's result as the adapter reports it,
`end` the `phaseEnd` it returns. `pc` names the stretch of code: `boundary`,
`attempt`, `session`, `salvage`, `judge`, `handback`, `route`, the waits, `seam`
(the arms of `drainPhases` after a phase, in their order), `release`.

A run of a task is its claim's number; the plane accepts a call only from the run
that holds the task. The lease is `ours` for any session this driver spawned,
`other` for another clanker, `takeover` when it ended with pushed work recorded,
`queue` when it ended without. `res.claim` is what the driver knows and `res.on`
what the session really works under; they differ when the adapter missed the
claim (`unseen`).

A session acts through the plane's tools (claims, pushes, reviews, settles) and
ends in one of `ExitKinds`: how it ended crossed with how the adapter classifies
it. Combinations an adapter cannot return are left out. The evidence of a
phase (plane read, branch lookup, round close) is read in one step of the model:
only the run's own session writes these fields and it has ended, and a takeover in
between is covered by `Holds` on the close and on the handback.

`conf` is the drain's configuration and environment, chosen from the constant
`Configs` in the initial state and never changed: one run of TLC looks at several
drains. Besides the configured phases, tasks and ceilings it holds the sets that
gate the nondeterminism: `faults` (which of the driver's calls may fail), `moves`
(what sessions and others may do beyond the brief), `ends` (how sessions end), and
the bounds on pushes, claims and review rounds of a task. Review findings are sets
of rounds: at most one new MUST a round, named by the round that raised it.

`hist` is history: runs this sequence's sessions claimed (`mine`), those the
driver never saw (`hidden`), those it tried to hand back (`back`) and whose end
the plane accepted (`ended`), those whose stream was unreadable (`unread`), those
parked with open MUSTs (`must`), fixes per MUST and deaths per task.

Some properties exempt runs whose environment is given a power the code has no answer
to; each exemption names the constant that grants it and the code it stands for.
`LeasesAreSettled` holds unless a route switch may find no MCP server (`Forgets`:
`<<"nostart","preflight">>` in `Ends`; loop.go:5563); that nothing is left behind, unless
sessions stray to another task (`Strays`: `"foreign"` in `Moves`; loop.go:1791-1800);
`QueueHoldsNoWork`, unless the salvage's recording goes unanswered (`"reply"` in `Faults`;
loop.go:6037). `AdvanceHasExitEvidence` and `FixHasFindings` exempt `Strays`;
`SequenceStaysOnOwnRuns` exempts `"take"` in `Moves`, as the peek asks whether a task is
held with a branch and not by whom (loop.go:4255-4285); `FixesAreBounded` needs
`FixComesOnce`, what `Validate` accepts of a built-in fix (config.go:4680-4705).

Left out: panel seats (see `Panel`), a second Ctrl-C and context cancellation,
delivery attestation (`Delivery`; it writes nothing the loop reads), the wait's
own control markers beyond "the wait ends the run" (`Controls`).

`RunLoop` and `PhaseSequence` meet in the drain: `RunLoop`'s `PhaseDies`, `FleetTrips`,
`ImplementSucceeds`, `HandoffAccepted` and `Drain*` are what the loop sees of
`PhaseSequence`'s `SeamDies`, `SeamAdvances`, `SeamHandsOff` and of how it is
`done`. That correspondence is argued here and not checked.

### LeaseRenewal

One session after another of one driver, below the level of `PhaseSequence`: there
the driver's knowledge of a claim (`res.claim`) and its lease are in step, here the
steps between them are the subject. A change of the claim travels from the plane
through the session's stream (`wire`), the adapter (`claim`), `leaseRenewer.observe`
(`obs`, which writes `file`, the record `CURRENT_CLAIM`, and fills `queue`) to the
renewer's goroutine (`ren`). The driver (`drv`) starts and stops the renewer around
`Invoke`, salvages, carries the claim on, hands it back or parks. The daemon may die
at any step; the supervisor (`sup`) then hands back what the record says and
respawns it, or dies too, and its successor spawns the daemon on what is left.

`observe` and `run` are split where the other goroutine can come in between: at the
file write, at each of `observe`'s three `select`s, between a tick, the drain of the
queue, the beat and its answer. A branch being recorded is in the stream before the
plane has it, as `noteToolUse` counts on.

`hist` is history: runs handed back (`letgo`), tasks whose record could not know of
recorded work, because the daemon died or the stream broke off with the request
unread, or in the window after a salvage (`unknown`), and tasks whose record failed
to be written (`unwritten`).

Left out: the panel's several renewers on one file, and a goroutine that outlives
`stop`'s wait of 25 s, which its 20 s beat cannot; the beacon and the fleet row that
ride on the tick are `FleetReporter`'s.

### Panel and ReviewRound

The stretch of a drain between the checkpoint before its reviewers and the fix after
them. `m[k]` is seat *k*'s goroutine and its call of `drainPhase`, in the pool and
alone: the same actions, with `InPool` where the code tests `panelParallel`. `pool` is
`runPanelMembers` (the loop's index, the member whose `started` it waits for; a slot
is a member that is neither idle nor gone), `drv` is `drainPhases`: `next` at a
member, `handle` its panel handler, `pool` inside `runPanelInParallel`, `join` its
tail. `plane` is the lease the members share, who has recorded, and the round.

`FansOut` and `RunsAlone` are the two outcomes of the fan-out's setup, `Joins` the
judgement of the members, `JoinCloses` the one close with the routing after it.
The members' reads (`Reads`), worktrees, closes and the lease may fail as `conf.faults`
says; `exit` is how a session ends, `EndOf` how its `drainPhase` then returns.

Spend is counted in sessions. The drain's earlier spend is in `conf.ceiling`, what
the budget still has. The fix is only reached; what it does is `PhaseSequence`'s.
Left out: a branchless checkpoint and a handoff, which run one reviewer
sequentially; the peek for an unseen claim; failure streaks and tallies, which
nothing in the panel reads; the git of the worktrees; the order of the log lines.

`ReviewRound` is the abstract specification: seats, the sealed or released round, who
holds the run. `Panel!Round` is the refinement mapping, and `Work` checks that every
behaviour of `Panel` is one of `ReviewRound`.


### Controls and Daemon

`mark` is the state directory's markers, `run` the process with the fields of `Run` it
decides by, `w[k]` a wait (`0` the loop's idle poll, the others members of a panel that
wait out a limit), `watch` the goroutine of `watchRestartNow`, `file` the config file a
RELOAD reads. `Loop` is the head of an iteration (`control.go`'s `consume*` in their
order, ceilings, the choice), `Pass` one look of a wait at the markers, `Watcher` the
polling goroutine; `Outside` is whoever has a shell there, signals, crashes and starts.
A drain is its start and its end; what is in it is the other modules'. `past` counts
what was asked for and consumed.

`Daemon` is what is left for whoever steers the process: a start-up window in which a
STOP is thrown away, a life that takes STOP and RESTART, an end that is a re-exec only
when one was asked for. `Controls!Contract` maps one to the other; `Supervisor` and `Roll`
use the same daemon, so that what they do is checked against what a run really does.

### Supervisor

`sup` is the one goroutine of `Supervise` (context, last roster, what it is doing),
`inst[i]` the `Instance` of entry *i*, `child[i]` the process, `dir[i]` the state
directory, `plane[i]` the roster row, the version of its config and whether its policy
file is there, `host` the REPLACE marker and the close-out's goroutines.
`Reconciles` is one reconcile of the roster entry by entry, split where
it writes or withdraws a marker (`buildConfig`, `ensureRunning`, `ensureStopped`,
`refreshMaterialized`, `withdrawQueuedRestart`), `OnExit` and `RespawnDue` the arms of the select,
`DrainForReplace` and `StopAll` the two drains, `Replace` the exec. The daemon, the
operator and the console move between any two of them. Back-offs are a flag that
becomes due (`Ages`). Only the state of the claim record a dead child left is kept.
A supervisor that is killed is left out: its children become orphans.

### Roll

`Roll` with `writeRestartMarker` and `waitForNextBeacon`: `pc`, `entries`, `at`, `rolled` are its
locals, `asked` is history. The three steps of `writeLocalBeacon` (remove, create, write)
are three actions, since the roll reads between them; a beacon holds the version and
whether it is newer than the restart. The supervisor's own restarts and withdrawals of
them, deaths, and an operator who swaps the binary go on around it.

### CloseOut

`pass[s]` is the goroutine of a supervisor's close-out pass, with one action per call
it makes (`judgePR`, claim, second look, merge, verify, complete or release) and the
locals they leave; `sess[s]` and `orphan[s]` are conflict sessions, of a living supervisor
and of one that died; `slot` is the lock on `conflict-session.lock`; `task[t]` and `pr[t]`
are the plane's row and the pull request with what GitHub shows of it, which lags.
Authors, agents, leases and the console's `authorityIntegrate` move meanwhile. `left`
bounds how often. A pass's budget of time is not counted: any call may be its last.

### Delivery

`ver` is `Verify`, called by `verifyDeliveries`: the search among the checkouts, the branch comparison, the
ancestor test of the declared commit, the polled pull request, the attestation. Each
command is one action that may fail, and after `Expire` every one does. A loop over the
checkouts (the search, the remotes, the branch, the commit) is one action that loses any
of them: a checkout whose remote or branch git does not tell is passed over.
`clone`, `origin` and `pr` are what it reads, and move. Verdicts are the code's three
values; `past` has what was true at some moment of the check, which is what a verdict may
be about, the checkouts passed over (`missed`) and the claims whose `merge-base` did not
answer (`unanswered`): the properties exempt these two by name, and the refuted
`AmbiguityIsNotGuessed`, `BranchIsNoOthers` and `VerdictsAreAnswered` do not.

### Salvage

`run` is `salvageStrandedWork` with `Salvage` and `commitAndPush`: find the tree, look, commit, push, record; then the handback
of the driver. A commit is the history it ends, so that "the remote has the work" is
a prefix. The three minutes end between any two commands (`Deadline`), the daemon dies,
others push. The question whether an operation is under way may fail as well, and is then
answered "none" (`past.unprobed`): what is committed then is an `"i"` in the history,
apart from the `"x"` of a conflict that was seen. Two ids that share their first eight hex
digits are left out.

### FleetReporter

`say` is what each sender (the loop, the renewers, the re-beacon of a wait) has done of
`beacon`: row, file, `Send`; `Send` and `Close` are split at their checks of `closed` and
their queue operations, the pump at its select and its post. `plane` is the presence row
and the records, with all it was sent. The removal of BEACON may fail, and its writing, which
may leave a torn file (`left.unwritten`). `Supervisor`'s status reporter has the same parts.

### LogFile

`Log` is one line through `Write` with the rotation it may cause, rename by rename; a
failing rename, open or stat is a state of the directory (`dir`), which breaks and heals.
On a full disk a write takes any part of the line, or nothing; a part has no newline, so
that the next line is not readable by itself. `lost` has the lines that were cut. A file
is the sequence of its lines; `told` counts the warnings.

### Config, Pipeline and Overlay

Operators. `Config` is `EffectivePhases`, panel expansion, `SessionFor` and the parts of
`Validate` about them; wiring is the harness whose dialect it is in. `Pipeline` enumerates
configurations and states of each accepted one what the driver spawns of it; `Overlay`
does the same with a ratified document and flags over a file (`ApplyRunConfig`,
`ApplyFlagOverrides`), with a roster entry's overrides (`buildConfig`), and with the
document a machine proposes of itself (`RunConfigDocument`). In either a behaviour picks one input
and then says what the code makes of it. Names are well-formed; trust, budgets and
the origin of a field are left out.

### RunConfig

`rc[t]` is the driver's `rcVersions`, `rcAttempt`, `rcAttemptVer` and `rcFails`, `cfg[t]` is
`Target.Cfg`, `base` is `d.cfg`. `Run` polls a target, fetches when the version moved and
the attempt is due, applies or refuses, starts a sequence and takes its phases one at a
time; a wait inside may reload. A config is the file it was read from and the document
laid over it. Operators ratify, remove and edit; time (`Tick`) counts first back-offs.

### RouteMarks

`marks` is the driver's map from route to reset, `offered[m]` the routes a member's
session was given, `reports[m]` what it has returned and `noteRouteFallbacks` has yet to
take in. Members of a panel do this at the same time.

### Digests

`round` and `status` are the plane's review records and findings; `driver` is what the
sequence remembers (the MUSTs it has seen settled, the panel, the block of an earlier verification);
`brief` is what a session was told. A fix is briefed after up to three reads of one
attempt each, and any of them may fail. When the reads before a verification fail, it is
not spawned: the sequence ends and the task is taken over (`Takeover`). The plane withholds a sealed round's records, and
serves as many findings as its budget lets it. A takeover starts the driver's memory
again; a human verdict starts the next cycle.

### The adapters

`ClaudeStream`: the child writes events into `pipe`, `consume` reads them, a token
ceiling or the repeated-failure guard kills; then the drain of the pipe, `Wait`, and the verdict. What a
descendant holds open (standard output, standard error) is part of the exit.
`CodexStream`: a running total, of which the parser keeps the last report.

`OpenCode` is `Invoke` as a machine over its runs: the gates (`pc`) in the order of the
code, stall recovery, the walk over routes, the resurrection loop with its probe; `run`
is the process in flight, `res` the Result, `log` opencode's own transcript. `OpenCodeStream` is one
process's events as the parser, the guard, the export and the retrospective scan
(`deadscan`) read them. `OpenCodeServer` is the preflight: the private server, what it
announces, the poll, both timers. The three meet in the Result of a run, which is
an input of the first; that is argued here and not checked.

`ExitClass`: a text is the set of the patterns it matches; the operators are the
adapters' classifiers and the order in which the driver asks them. `ResetClock`: the
instants of `parseClaudeReset` and `parseOpencodeReset`, in half hours. `OutputTail`:
the bounded tail and line sink, fed the same writes, compared with all that was
written.

## What the runs show

Each passing run finishes its state space, and between them every action fires.
The bound of a counter is above the value at which the code's own rule acts on
it, so the rule is exercised and its far side is reachable. Most modules have a
constant `Configs`: a record `conf` of bounds, faults and configuration that a
behaviour is about, chosen in the initial state, so that one run looks at several
instances, each of which opens another part of the code.

| Run | Question | Bounds |
| --- | --- | --- |
| `RunLoop` | deaths, per-task bound, fleet pause, both ladders, sit-outs, every poll fault, the ceiling, rotation, the books of a drain | 2 targets, one dormant, so that a failure does not end the run; bounds 2 and 3, both reached and passed in different orders; ceiling 3, so that respawns can use up what other drains left; the whole ladder. Tasks are symmetric |
| `RunLoop_liveness` | work is driven, answered pauses lift | 2 targets, one of which may fail for ever |
| `PhaseSequence` | leases, findings, retries and deaths, the evidence of a phase | the code's bounds 4 and 5 of deaths, review cap 3 with 4 rounds, chain cap 1; up to 4 phases, 3 tips, 2 runs of a task, so that one run can end and another hold it |
| `LeaseRenewal` | the newest claim reaches the renewer and the record; beats, handbacks and work | queue of 2 with up to 6 changes, so that it overflows during a beat; 2 failures to stand down; 2 deaths, 2 tasks |
| `Controls` | every marker is honoured once; the process is a `Daemon` | each marker written once or twice, one member's wait beside the loop's, one crash |
| `Fleet` | starts, stops and replacements of the fleet; rolls | 1 or 2 entries, 2 config versions, one flip, edit, death or replacement each; rolls of 2 children, 2 versions, one swap |
| `CloseOut` | what lands was judged, nothing is stranded, sessions are few and alone | 2 supervisors and a task, or 1 and 2 tasks; 2 tips; attempts at their cap of 2 |
| `CloseOut_strands` | a comment of the code, refuted (below) | 1 supervisor, 1 task |
| `Adapters` | spend, kills, continuations, the preflight, the classification of ends | streams of a few events, which reach every guard; 2 routes; 2 resurrections; every text of up to three patterns; a week of half hours; buffers of a few bytes |
| `Config` | pipelines deliver once, overlays re-home nothing, the ratified document is in force, marks stand | up to 5 phases of every kind; 2 or 3 harnesses; 2 versions and 2 files; 2 or 3 routes, 2 members |
| `Work` | panel, digests, delivery, salvage, reports, log | 3 seats on 2 slots, so that a slot is refilled while a member runs; 3 review rounds, a takeover and any of a fix's reads failing; 2 clones of one project and one of another, with one or two calls failing or the deadline anywhere; 2 worktrees; a queue of 1 or 2, and a beacon not written; 3 log names on a disk that breaks or fills |
| `Progress` | what must happen happens, in the modules with fairness | small instances of nine of them |

A property of a run is a conjunction: `RollIsCareful`, for one, is `TypeOK` and all
the safety properties of `Roll`. Each part has a comment of its own in its module.

Deadlock is checked in `PhaseSequence`, where the end of a drain is an explicit
stutter. The others switch it off: the end of a process, of a call or of a check is an
end, and so is a spent bound. That what must end does end is `Progress`'s question.

The mutants of PROJECT.json replace one definition by one of its slips; each makes
the property it is listed under fail in that run.

### Where the code and its documentation part

`CloseOut_strands` checks one statement of a comment and fails: when `CompleteCloseOut`
fails after the merge has landed, the claim is released, and the approved task has
no open pull request any pass could close (`closeout.go:459` against `closeout.go:46-48`).

The others met while modelling have no run. Where a module states the refuted claim as a
definition, its name is in brackets; TLC finds a counterexample on an instance that
admits the fault. The instances of the passing runs leave out the one move or fault
where the property they check would meet it, or the property exempts it by name.

*Run loop and drains*

- `loop.go:2240` [FleetTripSpansTasks]: one task alone can trip the fleet counter over two drains; loop.go:102-103 says only different tasks can.
- `loop.go:292`: a failure sit-out is cut short by progress elsewhere on the project, or by a shorter no-progress back-off; loop.go:292-294 says the ladder holds.
- `loop.go:6216`: answering any question of the project lifts the fleet pause; the pause compares counts.
- `loop.go:6274`: answering the startup question may not lift its pause when a session asked another question during the drain that tripped it.
- `loop.go:4283` [SequenceStaysOnOwnRuns]: the peek at the briefed task can adopt another clanker's run; the refused beat stands the renewer down and does not end the drain (loop.go:4259-4261).
- `loop.go:1799` [NothingLeftBehind]: a phase that claims another task and reaches a checkpoint on it leaves that lease held by nobody (loop.go:1792-1793).
- `loop.go:5563`: a route switch whose MCP preflight fails returns the first run's result; the comment says the claim "is untouched and the same run can be retried", but the retry forgets a claim the earlier session took, or resumes a run that was handed back.
- `loop.go:6101` [ReadyHasNoBranch]: when only the answer to the salvaged branch's record is lost, the task goes back to `ready` with work on it (loop.go:6034-6035).
- `loop.go:6063` [EmptyMeansNothingWritten]: a session that committed, did not push and died leaves a clean tree and is reported as having written nothing.
- `loop.go:1333` [NoRecordStranded]: the flag that keeps a panel sequential after a failed fan-out is never set; the pool starts in mid-panel and leaves an earlier record sealed.
- `loop.go:1589`: the join looks at a failed close before a member's stop and wait, so a run goes on where "a run stop is final" (loop.go:1841).
- `panel_parallel.go:438`: the pool charges a member whose tools were missing with a failure of its streak; the sequential handler says it must not (loop.go:2043-2046). A required member's limit or error ends a pooled drain without a fix, and a sequential one not.
- `loop.go:3866` [PanelFindingsAreTold]: when the budget left out every finding, or the one read of the round fails, the fix is told neither the findings nor that they exist.
- `loop.go:4608` [FixHearsOfMusts]: a fix after a verification is briefed without the open MUSTs when its one read fails; loop.go:4604-4606 says the plane's own list is prepended, and then, best-effort.
- `loop.go:4594` [FixHearsOfSeats]: a fix is not told which seats of the panel recorded nothing when that read fails (loop.go:4580-4581; 4586-4587 lets it).
- `loop.go:4595` [ListIsThePanels]: with an empty merged list the legacy grading stays, and may grade an earlier verification's block.
- `loop.go:7653` [AttributionIsWhatRan]: after a RELOAD in a wait a phase is told its predecessor ran on a harness it did not.
- `loop.go:1146` [StopMeansDown]: a STOP met by a run on its way to a restart is swept, and the new image runs on.
- `run.go:224` [SignalMeansDown]: a signal after a restart marker was taken ends in a re-exec.

*Leases*

- `currentclaim.go:111` [FailedWritesExpire]: when the write that adds the branch fails, the older record stays, and after a death the supervisor releases the task over its work.
- `heartbeat.go:183`: `observe` never waits for the renewer, although its comment says a fifth snapshot does.

*Supervisor and roll*

- `supervisor.go:959` [StoppedGoesDown]: a STOP written to a child on its way through a re-exec is swept, and the entry's daemon runs on.
- `supervisor.go:1409` [StopEndsTheFleet]: `stopAll` writes STOP once; swept, the supervisor waits for ever.
- `replace.go:299` [NoRecordIsOverwritten]: `drainForReplace` consumes exits without handing back the dead child's claim.
- `replace.go:298` [ExecKillsNoSession]: the drain does not wait for a close-out pass, which may start a conflict session after its last look.
- `configchange.go:250` [EditsArrive]: a confirmed restart that is withdrawn is not queued again.
- `configchange.go:264` [OthersRestartIsKept]: a RESTART queued by a ctl between the read and the removal of the supervisor's own is removed.
- `status.go:495` [BackingOffRespawns]: a row promises a respawn that `respawnDue` drops.
- `supervisor.go:1116` [FailedStartsClimb]: failed starts are measured from the year 1, and never climb the ladder.
- `roll.go:138` [AlreadyIsSkipped]: a beacon read between its removal and its writing restarts a child that runs the target.
- `roll.go:139` [SuccessIsTheFleet]: a beacon of an earlier life passes a child over that runs another version.
- `roll.go:246` [PendingLands]: a marker already there may be withdrawn by the supervisor, and the roll waits for it until it halts.
- `conflict.go:302` [GreenMeansResolved]: an unreadable task state is released as green, and an earlier session's marker is taken for this one's (conflict.go:348).
- `conflictlock.go:20` [OneSession]: the lock dies with the supervisor, its session does not.

*Delivery, reports, log*

- `delivery.go:743` [VerdictsAreAnswered]: a `merge-base` that fails or meets the deadline is a verdict, "not merged" or "not pushed", and is written to the plane; loop.go:6677-6681 says only a check that ran is.
- `delivery.go:591` [AmbiguityIsNotGuessed]: a git failure (here, or in the `rev-parse` of delivery.go:332) hides a checkout, and the branch is judged in the other clone (delivery.go:319-320).
- `delivery.go:627` [BranchIsNoOthers]: a `git remote get-url` that fails drops the checkout of the claim's own repository, and the branch is judged in another's (delivery.go:104).
- `prcheck.go:924` [NotFoundMeansAbsent]: a repository the account cannot see is refused as a pull request that is not there.
- `prcheck.go:571` [PRIsTheClaims]: with no branch or commit, the number is judged in the first checkout.
- `salvage.go:515` [NoCoinToss]: a repository whose worktree list fails is passed over, and one of two trees is pushed.
- `salvage.go:599` [NoOperationIsWork]: a failed `rev-parse --absolute-git-dir` reads as no operation under way, and a tree in the middle of one is committed (salvage.go:194).
- `loop/fleet.go:271` [WinnerIsFresh]: after a removal that failed, the old beacon's `ErrExists` is taken for a concurrent beacon's, and the old one stays without a warning (loop/fleet.go:274-275).
- `fleet.go:301` [ClosingIsLast]: a sender that outlives the bounded wait gets a report posted after the stopping one.
- `fleet.go:346` [FlushKeepsOrder]: `Close` posts what is queued newest first.
- `logfile.go:165` [LosesNoLine]: on a full disk a line is cut or lost, and the next one is appended to the part; logfile.go:146-147 says such a directory loses the bound, never the line.
- `logfile.go:239` [LastLineIsReadable]: while reopening fails every line rotates once more, until every kept file is gone.
- `logfile.go:253` [ToldOnce]: with failing renames the warning is repeated on every line.

*Adapters*

- `opencode.go:151` [FallbackIsTried]: routes are walked once, before the resurrection loop.
- `opencode_routes.go:57` [LoopIsLeft]: a run killed for its loop whose error words a limit is resumed on the next route.
- `opencode_routes.go:49` [DeniedIsMarked]: the denial of a single offered route is not marked.
- `opencode.go:268` [SettledIsKnown]: an errored continuation drops its claim observation.
- `opencode.go:1326` [RecoveredEndedWell]: an error line that does not decode is skipped by one reader and terminal for the other.
- `opencode.go:1393` [QuietIsOneStep]: the zero-usage flag moves with steps the stall pair ignores.
- `opencode_mcp.go:149` [AnnouncementIsKept]: a server that says too much before it announces itself loses its announcement.
- `opencode_mcp.go:606` [SeedIsReported]: a resumed session that runs out of time inside the preflight reports no claim.
- `deadscan.go:349` [ScanAgrees]: the scan keeps the last reason, the parser forgets it when a step starts.
- `claude.go:202` [CleanEndIsNoError]: `exec.ErrWaitDelay` after a clean exit is answered as a failure to run.
- `codex.go:245` [CachedIsExcluded]: cached reads are charged in full.

*Configuration*

- `runconfig.go:217` [OverlayIsOnTheFile]: a document refused after a RELOAD leaves the overlay of the old file in force.
- `runconfig.go:59` [DropsAreConfirmed]: after a RELOAD a drop to local is not fetched.
- `config.go:3768` [SpawnsAreExact]: `SpawnedHarnesses` lists harnesses no phase resolves to.
- `config.go:3370` [ModelsAreSpoken]: a verify phase with its own harness inherits the fix's pinned model.
- `config/runconfig.go:361` [FillsExistingBlocks]: a document makes a harness block the machine has not.
- `config/runconfig.go:444` [PhasesAreSpoken]: a local phase that pins a model follows a new top-level harness with the old alias.
- `loop/runconfig.go:209` [NothingIsReHomed]: under `--harness` the document's run-wide model stays on the flag's harness.
- `config/runconfig.go:526` [ProposalIsVerbatim]: a chain of routes is proposed as its first route.
- `supervisor.go:867` [OverridesReHomeNothing]: an entry's harness override may inherit the run-wide model of the old harness.


### Fairness

Fairness is stated where the code justifies it, module by module.

- `RunLoop!FairSpec`: the loop never stalls (a single goroutine, every wait has a
  timer), and for the two liveness properties the plane keeps answering polls: the code
  has nothing to offer against a plane that never answers. Nothing is assumed of the
  operator or of other clankers.
- `PhaseSequence!FairSpec`: the driver, and the session's end: a session has a wall clock
  or a turn cap, and the operator can end it. `DrainEnds` excepts a first phase that
  meets usage limits for ever, and is checked with `MaxRetries > 0` (zero is unlimited).
- `LeaseRenewal!FairSpec`: the parser's goroutine, the renewer's (its ticker ticks, its
  beat is bounded) and the driver waiting in `stop`. Nothing is assumed of the session,
  the plane or the supervisor. A `select` may pick the same ready case for ever, and
  `StopIsBounded` holds because each case comes round to a test of `done`.
- `Panel!FairSpec`: each member and the driver: goroutines whose `git` and plane calls have
  timeouts and whose sessions end as above.
- `Controls!FairSpec`: the process runs, its ticker ticks and waits run out. That a drain
  ends is strong: it is not enabled while a member passes over the markers.
- `Supervisor!FairSpec`: the goroutine runs and its `select` is fair, so that what is ready
  again and again is taken (strong); a drain's deadline passes; a daemon starts, reaches
  its boundary, takes what it finds, and ends what it began to end.
- `Roll!Spec`: the roll's own steps; its waits have timeouts.
- `CloseOut!FairSpec`: the poll starts passes again and again, every call is bounded, the
  service manager restarts a supervisor, checks finish, GitHub catches up, agents let go
  or their leases expire. Authors and operators are not assumed to do anything.
- `Delivery!FairSpec`: every command is bounded by the deadline.
- `Salvage!FairSpec`: the deadline comes, and from then on the rescue ends; before it git
  may hang.
- `FleetReporter`: goroutines run; a post or a session ends only where its property says so.
- `RunConfig!FairSpec`: the loop goes on, its waits end, time passes.
- `OpenCodeServer!FairSpec`: the adapter, the server's output, and that a timer that is due
  again and again fires.

`MCProgress` states these for nine modules in one specification. As a behaviour is
about one component, `WF_vars((XAlone /\ X!A) \/ (YAlone /\ Y!B))` is `WF(A)` for the one
and `WF(B)` for the other, and the conditions of different components are put into one.

## What is proved

The theorems hold for every value of the constants that satisfies the named
assumptions, where the runs look at small instances. Each proof module has an
inductive invariant that TLC checked on the run's instances before it was proved,
lemmas about the operators and types, and one lemma per action or kind of step.

**`RunLoopProofs`**: any number of targets, any tasks, all bounds that satisfy
`TargetsAssumption`, `BoundsAssumption`, `ChoicesAssumption` and
`LadderAssumption` (which is about the model's bounds: `FailTop` rungs reach the
ladder's top).

- `RunLoopTypeOK`: `Spec => []TypeOK`;
- `RunLoopPausesAreEarned`: a target is paused exactly while the pausing question
  is raised, and only on a full count of failures;
- `RunLoopNoSessionWhileHeldBack`: no drain runs on a target that is paused or sits
  out;
- `RunLoopRotation`: round robin passes a drivable target over at most once for
  each of the others;
- `RunLoopIterationCeiling`: drains and handoff respawns stay within
  `MaxIterations`;
- `RunLoopBooksAreHonest`: each drain is charged to the counters once and by what
  became of it;
- `RunLoopHeldBack`, `RunLoopCountsHold`: the same facts as the run checks them.

`PausesAreEarned` and `NoSessionWhileHeldBack` are not inductive: whether a target is
held back is decided when it is polled, and the drain starts some polls later. `Inv`
adds what connects the two: a candidate stays admissible until it is chosen
(`CandidatesAdmissible`: nothing but the sweep's own poll of it changes its books in
between), and a driver that cannot poll never pauses (`BlindNeverPauses`: a pause is
raised only with a question filed, and without a poller it could never lift).
Lemmas about the ladder bound the counters. `RunLoopRotation` has an invariant of its
own (`RotationInv`): the number of times a target was passed over is bounded by its
distance from the cursor around the ring, and `StartDrain` moves the cursor to the
nearest drivable target. `RunLoopIterationCeiling` rests on `CeilingInv`, the count at
the place where the next respawn is decided. The books need `BooksInv`: a driver that
cannot poll sits out for failures only, and an end is final.

**`LeaseRenewalProofs`**: every capacity of the queue, every bound of the renewer, any
tasks and configurations that satisfy `TasksAssumption`, `BoundsAssumption` and
`ConfigsAssumption`.

- `LeaseTypeOK`: `Spec => []TypeOK`;
- `LeaseNewestClaimReachesRenewer`: whatever was shed, the last snapshot is still on
  its way to the renewer or already there;
- `LeaseObserveNeverBlocks`: after a shed there is room;
- `LeaseNoBeatOnRunLetGo`: no run the driver handed back or parked is beaten after;
- `LeaseBeatsOnTheNewest`: a beat is sent for what the renewer knows to be newest;
- `LeaseRenewerIsCurrent`: all of them, as the run checks them;
- `LeaseRecordKeepsTheWork`: CURRENT_CLAIM follows the session once the adapter has read
  all there is, and a task with recorded work is in the queue only where the record could
  not know of the work (the process died with the event unread or not yet written), or
  writing it failed.

`LeaseInv` proves all but `LeaseBeatsOnTheNewest` from one inductive `Inv`, which adds
three facts. `BeatsUntilStoodDown`: the failure counter stops at the stand-down, or it
would leave its type. `RenewsDuringSessions`: the renewer runs only between the start
of a session and the return of `stop`, so whoever lets go of a run finds no renewer
running. `LetGoRunsAreOver`: the runs let go are past ones on the plane, and neither
the driver, nor the queue, nor the unread stream, nor a running renewer holds a claim
of one. `NoBeatOnRunLetGo` follows from the last: it says of every place a claim
travels through what the property says of the renewer's alone. Its induction leans on
the plane's run numbers, which only grow (`PlaneRunsGrow`): a new claim is never an
old run.

`LeaseRecordKeepsTheWork` has an invariant of its own, `RecordInv`. The property speaks of
the plane and the queue; what decides it is a bit that travels: an agent records work on
the plane, its stream says so, the adapter notes it in the tracked claim, `observe` writes
it to CURRENT_CLAIM, and whoever hands back reads it from there. `WorkIsKnown` says of each
stretch of that way that the work of a run held with work on the plane is ahead or has
arrived (`WorkIsInStream`, `WorkIsInClaim`, `WorkIsInRecord`), or is excused by name.
`StreamTellsSession` folds the unread stream over the tracked claim and gets the session's;
`RunsAreUpToDate` keeps a late event from naming a run the plane has not given out;
`DriverKnowsItsClaim` and `RecordIsCurrent` say what the driver and the file hold between
sessions. From these `QueueHoldsNoWork` follows at each of the four places that hand back.

**`ControlsProofs`**: any number of waiters, requests, edits, signals and crashes that
satisfy `ConfigsAssumption`.

- `TypeCorrect`; `ExecsAreAskedHolds`, `LoadsAreAskedHolds`: every re-exec and every
  reload was asked for, and none is asked for once and done twice;
- `ReloadAppliesTheEditHolds`: what a reload answers for is in the config it loads;
- `StopStandsHolds`: a stop the process has seen ends it;
- `NoGhostStopsHolds`: a process does not end by a stop nobody meant for it;
- `MarkersAreHonouredHolds`: the run's property, which joins them;
- `ImplementsDaemonHolds`: `Spec => Daemon!Spec` under the refinement mapping, so that
  what `Supervisor`, `Roll` and `LeaseRenewal` assume of a daemon is what the marker
  protocol does.

A request is in one of several places on its way from the file through a reader and a
wait to the loop's end; `Inv` counts it in each (`RestartsAddUp`, `ReloadsAddUp`), says
what a reader that has looked must have seen (`NowIsSeen`, `ReloadIsSeen`), that an
owed edit is in the file (`OwedIsInTheFile`) and whose a stop is (`StopIsOwn`). The
counts are what makes a double execution impossible: no single place knows that the
request it holds is the only copy.

**`RollProofs`**: any children, roster, versions, deaths and swaps.

- `RollKeepsInv`, `TypeCorrect`;
- `AsksOnlyTheFleetHolds`: only children of the roster are asked to restart;
- `OneAtATimeHolds`: no child is asked while the one before it is on its way;
- `NoneComesUpOnTheOldHolds`: a child that came up after the swap runs the new image;
- `RollIsCarefulHolds`: the run's property, which joins them;
- `DaemonsAreDaemons`: each child's part of a behaviour of `Roll` is a behaviour of
  `Daemon`.

**`PhaseSequenceProofs`, `PhaseSequenceClaims`, `PhaseSequenceRounds`**: any sequence of
phases that `Validate` accepts (a verification is last, after a fix, and that is not the
first: config.go:4715-4740; a first review stands alone), any tasks, outcomes, faults and
moves of others, with `FleetDeadBound` at most `PerTaskDeadBound + 1` (loop.go:98-108),
`PerTaskDeadBound` and `ReviewRoundCap` at least 2.

- `SequenceTypeCorrect`: `Spec => []TypeOK`;
- `SequenceRespawnsAreBounded`: handoff respawns stay within the chain cap and the
  iteration ceiling, and a task that dies is not tried again beyond its bound;
- `SequenceLeasesAreSettled`: no wait or end of a drain leaves a lease that nobody
  accounts for, nothing handed back is resumed, nothing unreadable is handed back, and
  pushed work does not return to the queue;
- `SequenceAdvancesAreEarned`: the next phase starts on exit evidence, and on a run of
  this drain;
- `SequenceRoundsConverge`: a fix has findings, fixes are fewer than the cap, and open
  MUSTs go to the operator.

The bounds are not inductive: a respawn is granted in one step and charged in another,
and deaths are counted per task, per target and per retry in three places. `Inv` adds
`HandoffsAreGranted` (a respawn that is owed was granted under its bounds, and is charged
before anything else), `DeathHasATask`, `InPhase`, and `DeathsAddUp`: in the first phase
each death of a task is a retry of it, or another task has died since and the target has
counted one more. The last needs the assumption on the two bounds: with a target bound
far above the task's, deaths that alternate between tasks would not be bounded per task.

The rest of `PhaseSequenceProofs` says once what each action does to the rows of the
plane, to the session's result and to the `phaseEnd` (`ReleaseEffect`, `JudgeEffect`,
`PeekEffect`, `RouteEffect`, `SeamEffect`, ...); the proofs of the layers cite these and
not the actions. The layers, each inductive relative to those before it:

| Layer | What it adds |
| --- | --- |
| `ClaimsInv` | the rows only move forward (`RowsMove`: no run gets a task back that it lost); a claim names a run the plane knows, one of this drain unless others may take, and a branch that is there (`Sound`); the verdict, the handback and the seam agree on what was released (`EndsAgree`) |
| `KeepsInv` | unless a route switch forgets a session: what is carried, what the session holds and what the phase returns is not a run already handed back, and an unreadable session is the last (`Keeps`) |
| `HoldingInv` | unless sessions stray: the session is on the carried claim (`Straight`), so that every run that is owed a handback is the one the driver holds at that point (`OwedIsHeld`) |
| `WorkInv` | with every recording answered: the driver knows of the branch of a run it is about to hand back (`WorkIsKnown`) |
| `EarnedInv` | a checkpoint's evidence still stands when the seam acts on it (`EvidenceStands`) |
| `ToldInv` | records come with rounds (`RecordsAreOne`), in phase order, sealed after released (`PastReviews`); a review or a verification that leads to a fix has told what there is, or owes the close of one sealed round (`ReviewTells`, `VerifyTells`); the fix is told until it ends (`FixIsTold`); a MUST is fixed at most once a round and once before the first (`FixesAddUp`) |

`OwedIsHeld` is the heart of the leases: at each place of `drainPhase` it names the one
claim (or, while a session works, the two) that may still be owed, and the actions move
that obligation from hand to hand. `PastReviews` is what makes the records readable: a
review judges its own record, but a fix must find none sealed at all, and only the order
of the records in a run says that an earlier one has been released before.

**`OpenCodeProofs`**: any routes, budget, rounds and times, and any ways the runs may end
that `ConfigsAssumption` admits.

- `OpenCodeCallIsAccounted`: every process of a call is charged exactly once; the call
  returns within its cap; only a session that has its transcript, and whose stream was
  read, is continued; there is a probe for each death and none beyond the rounds; the
  limit of a route that was left is forgotten once a later route finished; no route is
  returned to;
- `OpenCodeTellsTheTruth`: the property as the run checks it, which adds that the Result
  names the task the session was seen to hold, never one it was seen to settle, and that
  the route that stands limited is reported. These three are not true of every call (see
  the list of differences above), and the theorem says of which they are: `Ordinary`, which
  the run's instances satisfy (an assumption of `MCAdapters`). Each conjunct of it names a
  way the code loses what it knows.

The invariant has one part for each question, and each is inductive beside the types
alone. `Clocked`: the time left covers the run in flight, and a round begins only with
room for its probe to be killed at the end of its box (`RoundFloor`). `Charged`: a run
starts at the end of the log, and a session that exists has been charged its title, so
that the share of the export a run is charged is exactly its turn. `Routed`: what was
denied lies behind the session's route, and where the route that stands is itself
reported there is no other or no time. `Counted`: a death not yet probed is ahead of the
probes. `Limits`: on a route that was switched to, a session that goes on is not limited.
`Known` follows the task through untrusted captures, errored steers and probes without
memory.

`ChargedOnce` sums a transcript of any length with a recursive function, which would call
for induction. `SumUnfolds` and `SumOfTwoMore` do without it: where two such functions
differed, or the function had no value, there would be a least such place
(`LeastMember`, from the well-foundedness of `<`), and the step from its predecessor
excludes it.

The four refinements: `Controls` and `Roll` implement `Daemon` (proved), `Panel`
implements `ReviewRound` and `Supervisor` drives `Daemon`s (model-checked).

## What is only model-checked, and why

- Liveness (`ProjectsAreServed`, `RenewalGoesOn` and all of `Progress`): fairness and
  `ENABLED` are out of the prover's reach.
- What folds and recursive functions over data compute (the readers of streams, the
  digests, the pipelines, the classification of texts): in general that takes induction
  over data, which the provers cannot do here; the least-member argument of
  `OpenCodeProofs` covers a sum. TLC compares them with reference definitions over bounded
  inputs.
- Every invariant of the runs is proved. Action and temporal properties that are not
  proved yet are those of `Panel`, `CloseOut`, `Supervisor`, `Delivery`, `Salvage`,
  `FleetReporter`, `LogFile`, `RunConfig`, `RouteMarks` and `Overlay`, and of the other
  adapters.

## Plan

Next, in this order: the steps of the refinement from `Panel` to `ReviewRound`; the conflict
slot of `CloseOut` as mutual exclusion; the safety of `Supervisor`.

## Not modelled

HTTP and authentication; the parsing of configuration files, their trust, origins,
escalation and budgets; arguments and permissions of the harnesses' programs and the
claude probe; uploads; the doctor; creation and permissions of the state directory;
release tooling; comment stripping, URL checks and version strings; prompts, briefs and
the wording of logs: data or I/O with no protocol of their own.

Parts of modelled components that are left out: the digests of branchless
verifications; two salvages whose eight digits of a hash collide; daemons a killed
supervisor leaves behind and the next one meets (supervisor.go:468); the close-out's
budget as time (closeout.go:262), which is a choice to stop between tasks; the
cancellation of a context by a second signal, which ends the process wherever it is:
what it leaves on the plane is the supervisor's handback in `LeaseRenewal`.
