----------------------------- MODULE MCProgress -----------------------------
(***************************************************************************)
(* What must come about in the end: requests end the run they are asked    *)
(* of, the supervisor brings its fleet to what is asked, deliverable work  *)
(* is closed out, what is done around a session ends, a run gets to the    *)
(* configuration the plane has.  Each is about one component, under the    *)
(* fairness of its own module.                                             *)
(***************************************************************************)
EXTENDS Integers, Sequences, FiniteSets

CONSTANTS
  Blank,    \* a variable of a component this behaviour is not about
  s1, p1,  \* a supervisor, a target
  t1, t2,  \* tasks, or trees of one
  r1, r2, b1, b2  \* repositories and branches

\* PhaseSequence: a drain whose sessions fail; hand off; find no MCP server; die.
Drain0 ==
  [phases |-> <<"implement", "review">>, tasks |-> {t1}, ends |-> {<<"clean", "fine">>}, faults |-> {}, moves |-> {},
   maxIterations |-> 0, countsSpend |-> FALSE, maxTip |-> 1, maxRun |-> 1, maxRound |-> 1]
DrainConfigs ==
  {[Drain0 EXCEPT !.ends = @ \cup {<<"failed", "transient">>}],
   [Drain0 EXCEPT !.moves = {"handoff"}],
   [Drain0 EXCEPT !.ends = {<<"nostart", "preflight">>}],
   [Drain0 EXCEPT !.ends = @ \cup {<<"dead", "fine">>}, !.maxRun = 2]}

\* Controls: one request of each kind, with and without a waiting session.
Markers0 ==
  [markers |-> {}, writes |-> 0, edits |-> 0, broken |-> FALSE, crashes |-> 0, signals |-> 0, members |-> 0, fails |-> FALSE]
RequestConfigs ==
  {[Markers0 EXCEPT !.markers = {"RESTART", "RESTART_NOW"}, !.writes = 1, !.members = 1],
   [Markers0 EXCEPT !.markers = {"STOP", "RESTART"}, !.writes = 1, !.members = 1, !.fails = TRUE],
   [Markers0 EXCEPT !.markers = {"STOP", "RESTART_NOW", "RELOAD"}, !.writes = 2]}

\* Supervisor: an entry that is flipped while its daemon dies; edits of its config; a stop
\* of the fleet; replacements that fail.
Entry0 ==
  [flips |-> 0, rows |-> {"running", "stopped"}, edits |-> 0, policies |-> 0, writes |-> 0,
   markers |-> {}, deaths |-> 0, replaces |-> 0, sessions |-> 0, claims |-> FALSE,
   outages |-> FALSE, fails |-> FALSE, timeouts |-> FALSE, stops |-> FALSE, top |-> 2, long |-> FALSE]
FlipConfigs ==
  {[Entry0 EXCEPT !.flips = 1, !.policies = 1, !.deaths = 1, !.rows = {"running", "stopped", "gone", "bad"}]}
EditConfigs == {[Entry0 EXCEPT !.edits = 1, !.deaths = 1, !.writes = 1, !.markers = {"RESTART"}]}
StopConfigs ==
  {[Entry0 EXCEPT !.replaces = 1, !.stops = TRUE, !.timeouts = TRUE, !.deaths = 1, !.claims = TRUE],
   [Entry0 EXCEPT !.replaces = 2, !.timeouts = TRUE, !.fails = TRUE, !.stops = TRUE]}

\* CloseOut: reads that fail, an agent that gives up, a lagging GitHub, a supervisor that dies.
Close0 ==
  [override |-> "none", onOrigin |-> TRUE, default |-> "main", ready |-> {t1},
   conflicting |-> {}, harness |-> "opencode", calls |-> {}, marks |-> {"mechanical"}, fails |-> 0,
   pushes |-> 0, retargets |-> 0, moves |-> 0, dials |-> 0, agents |-> 0, lapses |-> 0, crashes |-> 0, stops |-> 0]
CloseConfigs ==
  {[Close0 EXCEPT !.agents = 1, !.fails = 1, !.calls = {"policy", "queue", "pr", "paths", "claim", "verify", "release", "state"}],
   [Close0 EXCEPT !.conflicting = {t1}, !.crashes = 1],
   [Close0 EXCEPT !.conflicting = {t1}, !.lapses = 1]}

\* Roll: two children.
RollEntry(n) == [name |-> n, placement |-> "local", desired |-> "running", ok |-> TRUE]
RollConfigs ==
  {[entries |-> <<RollEntry("one"), RollEntry("two")>>, cached |-> <<>>, images |-> {"old", "target"}, launch |-> {"target"},
    answers |-> {"served"}, swaps |-> 0, deaths |-> 0, others |-> {}, fails |-> FALSE, never |-> FALSE]}

\* Panel: two members at once, whose sessions and closes fail.
PanelConfigs ==
  {[seats |-> 2, optional |-> {2}, cap |-> 0, fix |-> TRUE, ceiling |-> 0,
    exits |-> {"orderly", "limit", "preflight"}, faults |-> {"close", "tree"}, settles |-> FALSE]}

\* Delivery: a branch, a merge and a pull request, and a deadline.
DeliveryConfigs ==
  {[dirs |-> <<[up |-> 0, clone |-> "tree", root |-> TRUE, hidden |-> FALSE]>>,
    clones |-> [tree |-> [slug |-> "own/app", tip |-> "w2", has |-> {"base", "w1", "w2"}]],
    origin |-> [s \in {"own/app"} |-> [branch |-> "w2", main |-> "base"]], branch |-> TRUE, commit |-> "w2", pr |-> "42",
    row |-> "own/app", declared |-> "none", primary |-> "own/app", hub |-> {"own/app"}, ssh |-> {}, sees |-> {"own/app"},
    tokens |-> {"own/app"}, prs |-> {"own/app"}, tools |-> {"git", "gh"}, calls |-> {}, unchecked |-> FALSE,
    expires |-> TRUE, budget |-> 2, onto |-> {"merge"}, fails |-> 0, pushes |-> 0, merges |-> 0, commits |-> 0, ci |-> 2]}

\* Salvage: pushes, reads and records fail.
SalvageConfigs ==
  {[repos |-> [t \in {t1, t2} |-> {r1, r2}], branch |-> [t \in {t1, t2} |-> IF t = t1 THEN b1 ELSE b2], ours |-> {t1},
    fails |-> {"push", "http2", "record", "lsremote"}, pushes |-> 1, acts |-> 3, sessions |-> 1, crashes |-> 0]}

\* FleetReporter: one iteration, a plane that misses a report, a beacon not written.
ReporterConfigs ==
  {[iterations |-> 1, phases |-> 1, cap |-> 1, outcome |-> "checkpoint", attempts |-> <<>>, sessions |-> 1, limit |-> FALSE,
    wedges |-> FALSE, fails |-> 0, absent |-> 1, claims |-> 0, ticks |-> 0, budget |-> 0,
    unwritten |-> 1]}

\* RunConfig: a document that does not fit one of two files, fetches that fail, a drop.
RunConfig0 ==
  [kind |-> [v \in 1 .. 2 |-> "good"], clash |-> {<<2, 1>>}, broken |-> {}, unwired |-> {}, edits |-> 1, fails |-> 1, drops |-> 0]
RunConfigs == {RunConfig0, [RunConfig0 EXCEPT !.fails = 0, !.drops = 1]}

-----------------------------------------------------------------------------
VARIABLES
  part,   \* the component this behaviour is about
  \* those of the components, by their names there
  conf, task, pc, file, run, past, plane, sup, child, pr, left, loop,
  i, carried, cnt, try, res, end, stop, fleetDead, hist,
  mark, w, watch,
  host, inst, dir,
  dial, pass, sess, orphan, slot,
  launch, beacon, restart, entries, at, rolled, asked,
  m, pool, drv,
  clone, origin, ver, over, record,
  tree, remote, claim,
  row, ren, say, rep, pump,
  base, cfg, rc, drain

Drain ==
  INSTANCE PhaseSequence WITH Configs <- DrainConfigs, NoTask <- Blank, DrainNum <- 1, MaxRetries <- 1,
    HandoffChainCap <- 1, PerTaskDeadBound <- 2, FleetDeadBound <- 5, ReviewRoundCap <- 2,
    UnclassifiedBound <- 1, ZeroSpendBound <- 2
Controls == INSTANCE Controls WITH Configs <- RequestConfigs
Sup == INSTANCE Supervisor WITH Size <- 1, Configs <- FlipConfigs \cup EditConfigs \cup StopConfigs
Close == INSTANCE CloseOut WITH Sups <- {s1}, Tasks <- {t1}, Configs <- CloseConfigs
Panel == INSTANCE Panel WITH Configs <- PanelConfigs
Delivery == INSTANCE Delivery WITH Configs <- DeliveryConfigs
Salvage == INSTANCE Salvage WITH None <- Blank, Trees <- {t1, t2}, Repos <- {r1, r2}, Branches <- {b1, b2}, Work <- t1, Configs <- SalvageConfigs
Reporter == INSTANCE FleetReporter WITH Renewers <- {"renewer"}, Configs <- ReporterConfigs
RunConfig ==
  INSTANCE RunConfig WITH None <- Blank, Targets <- {p1}, Versions <- {1, 2}, Files <- {1, 2}, Configs <- RunConfigs, MaxPhases <- 1, Cap <- 2
Rolling == INSTANCE Roll WITH Names <- {"one", "two"}, Configs <- RollConfigs

\* A behaviour is about one component: the variables of the others stay blank.
DrainOwn == <<i, carried, cnt, try, res, end, stop, fleetDead, hist>>
ControlsOwn == <<mark, w, watch>>
SupervisorOwn == <<host, inst, dir>>
CloseOutOwn == <<dial, pass, sess, orphan, slot>>
RollOwn == <<launch, beacon, restart, entries, at, rolled, asked>>
PanelOwn == <<m, pool, drv>>
DeliveryOwn == <<clone, origin, ver, over, record>>
SalvageOwn == <<tree, remote, claim>>
ReporterOwn == <<row, ren, say, rep, pump>>
RunConfigOwn == <<base, cfg, rc, drain>>
vars == <<part, conf, task, pc, file, run, past, plane, sup, child, pr, left, loop, DrainOwn,
          ControlsOwn, SupervisorOwn, CloseOutOwn, RollOwn, PanelOwn, DeliveryOwn, SalvageOwn,
          ReporterOwn, RunConfigOwn>>

NoDrain == i = Blank /\ carried = Blank /\ cnt = Blank /\ try = Blank /\ res = Blank /\ end = Blank
           /\ stop = Blank /\ fleetDead = Blank /\ hist = Blank
NoControls == mark = Blank /\ w = Blank /\ watch = Blank
NoSupervisor == host = Blank /\ inst = Blank /\ dir = Blank
NoCloseOut == dial = Blank /\ pass = Blank /\ sess = Blank /\ orphan = Blank /\ slot = Blank
NoRoll == launch = Blank /\ beacon = Blank /\ restart = Blank /\ entries = Blank /\ at = Blank
          /\ rolled = Blank /\ asked = Blank
NoPanel == m = Blank /\ pool = Blank /\ drv = Blank
NoDelivery == clone = Blank /\ origin = Blank /\ ver = Blank /\ over = Blank /\ record = Blank
NoSalvage == tree = Blank /\ remote = Blank /\ claim = Blank
NoReporter == row = Blank /\ ren = Blank /\ say = Blank /\ rep = Blank /\ pump = Blank
NoRunConfig == base = Blank /\ cfg = Blank /\ rc = Blank /\ drain = Blank

Init ==
  \/ part = "drain" /\ Drain!Init
     /\ NoControls /\ NoSupervisor /\ NoCloseOut /\ NoRoll /\ NoPanel /\ NoDelivery /\ NoSalvage
     /\ NoReporter /\ NoRunConfig /\ file = Blank /\ run = Blank /\ past = Blank /\ plane = Blank
     /\ sup = Blank /\ child = Blank /\ pr = Blank /\ left = Blank /\ loop = Blank
  \/ part = "controls" /\ Controls!Init
     /\ NoDrain /\ NoSupervisor /\ NoCloseOut /\ NoRoll /\ NoPanel /\ NoDelivery /\ NoSalvage
     /\ NoReporter /\ NoRunConfig /\ task = Blank /\ pc = Blank /\ plane = Blank /\ sup = Blank
     /\ child = Blank /\ pr = Blank /\ left = Blank /\ loop = Blank
  \/ part = "supervisor" /\ Sup!Init
     /\ NoDrain /\ NoControls /\ NoCloseOut /\ NoRoll /\ NoPanel /\ NoDelivery /\ NoSalvage
     /\ NoReporter /\ NoRunConfig /\ task = Blank /\ pc = Blank /\ file = Blank /\ run = Blank
     /\ pr = Blank /\ left = Blank /\ loop = Blank
  \/ part = "closeout" /\ Close!Init
     /\ NoDrain /\ NoControls /\ NoSupervisor /\ NoRoll /\ NoPanel /\ NoDelivery /\ NoSalvage
     /\ NoReporter /\ NoRunConfig /\ pc = Blank /\ file = Blank /\ run = Blank /\ plane = Blank
     /\ child = Blank /\ loop = Blank
  \/ part = "roll" /\ Rolling!Init
     /\ NoDrain /\ NoControls /\ NoSupervisor /\ NoCloseOut /\ NoPanel /\ NoDelivery /\ NoSalvage
     /\ NoReporter /\ NoRunConfig /\ task = Blank /\ file = Blank /\ run = Blank /\ past = Blank
     /\ plane = Blank /\ sup = Blank /\ pr = Blank /\ loop = Blank
  \/ part = "panel" /\ Panel!Init
     /\ NoDrain /\ NoControls /\ NoSupervisor /\ NoCloseOut /\ NoRoll /\ NoDelivery /\ NoSalvage
     /\ NoReporter /\ NoRunConfig /\ task = Blank /\ pc = Blank /\ file = Blank /\ run = Blank
     /\ past = Blank /\ sup = Blank /\ child = Blank /\ pr = Blank /\ left = Blank /\ loop = Blank
  \/ part = "delivery" /\ Delivery!Init
     /\ NoDrain /\ NoControls /\ NoSupervisor /\ NoCloseOut /\ NoRoll /\ NoPanel /\ NoSalvage
     /\ NoReporter /\ NoRunConfig /\ task = Blank /\ pc = Blank /\ file = Blank /\ run = Blank
     /\ plane = Blank /\ sup = Blank /\ child = Blank /\ loop = Blank
  \/ part = "salvage" /\ Salvage!Init
     /\ NoDrain /\ NoControls /\ NoSupervisor /\ NoCloseOut /\ NoRoll /\ NoPanel /\ NoDelivery
     /\ NoReporter /\ NoRunConfig /\ task = Blank /\ pc = Blank /\ sup = Blank /\ child = Blank
     /\ pr = Blank /\ left = Blank /\ loop = Blank
  \/ part = "reporter" /\ Reporter!Init
     /\ NoDrain /\ NoControls /\ NoSupervisor /\ NoCloseOut /\ NoRoll /\ NoPanel /\ NoDelivery
     /\ NoSalvage /\ NoRunConfig /\ task = Blank /\ pc = Blank /\ run = Blank /\ past = Blank
     /\ sup = Blank /\ child = Blank /\ pr = Blank
  \/ part = "hung" /\ Reporter!Init
     /\ NoDrain /\ NoControls /\ NoSupervisor /\ NoCloseOut /\ NoRoll /\ NoPanel /\ NoDelivery
     /\ NoSalvage /\ NoRunConfig /\ task = Blank /\ pc = Blank /\ run = Blank /\ past = Blank
     /\ sup = Blank /\ child = Blank /\ pr = Blank
  \/ part = "runconfig" /\ RunConfig!Init
     /\ NoDrain /\ NoControls /\ NoSupervisor /\ NoCloseOut /\ NoRoll /\ NoPanel /\ NoDelivery
     /\ NoSalvage /\ NoReporter /\ task = Blank /\ pc = Blank /\ run = Blank /\ sup = Blank
     /\ child = Blank /\ pr = Blank /\ left = Blank

DrainAlone == part = "drain" /\ UNCHANGED <<part, ControlsOwn, SupervisorOwn, CloseOutOwn, RollOwn,
                                          PanelOwn, DeliveryOwn, SalvageOwn, ReporterOwn,
                                          RunConfigOwn, file, run, past, plane, sup, child, pr,
                                          left, loop>>
ControlsAlone == part = "controls" /\ UNCHANGED <<part, DrainOwn, SupervisorOwn, CloseOutOwn,
                                                RollOwn, PanelOwn, DeliveryOwn, SalvageOwn,
                                                ReporterOwn, RunConfigOwn, task, pc, plane, sup,
                                                child, pr, left, loop>>
SupervisorAlone == part = "supervisor" /\ UNCHANGED <<part, DrainOwn, ControlsOwn, CloseOutOwn,
                                                    RollOwn, PanelOwn, DeliveryOwn, SalvageOwn,
                                                    ReporterOwn, RunConfigOwn, task, pc, file,
                                                    run, pr, left, loop>>
CloseOutAlone == part = "closeout" /\ UNCHANGED <<part, DrainOwn, ControlsOwn, SupervisorOwn,
                                                RollOwn, PanelOwn, DeliveryOwn, SalvageOwn,
                                                ReporterOwn, RunConfigOwn, pc, file, run, plane,
                                                child, loop>>
RollAlone == part = "roll" /\ UNCHANGED <<part, DrainOwn, ControlsOwn, SupervisorOwn, CloseOutOwn,
                                        PanelOwn, DeliveryOwn, SalvageOwn, ReporterOwn,
                                        RunConfigOwn, task, file, run, past, plane, sup, pr, loop>>
PanelAlone == part = "panel" /\ UNCHANGED <<part, DrainOwn, ControlsOwn, SupervisorOwn, CloseOutOwn,
                                          RollOwn, DeliveryOwn, SalvageOwn, ReporterOwn,
                                          RunConfigOwn, task, pc, file, run, past, sup, child, pr,
                                          left, loop>>
DeliveryAlone == part = "delivery" /\ UNCHANGED <<part, DrainOwn, ControlsOwn, SupervisorOwn,
                                                CloseOutOwn, RollOwn, PanelOwn, SalvageOwn,
                                                ReporterOwn, RunConfigOwn, task, pc, file, run,
                                                plane, sup, child, loop>>
SalvageAlone == part = "salvage" /\ UNCHANGED <<part, DrainOwn, ControlsOwn, SupervisorOwn,
                                              CloseOutOwn, RollOwn, PanelOwn, DeliveryOwn,
                                              ReporterOwn, RunConfigOwn, task, pc, sup, child, pr,
                                              left, loop>>
ReporterAlone == part = "reporter" /\ UNCHANGED <<part, DrainOwn, ControlsOwn, SupervisorOwn,
                                                CloseOutOwn, RollOwn, PanelOwn, DeliveryOwn,
                                                SalvageOwn, RunConfigOwn, task, pc, run, past,
                                                sup, child, pr>>
HungAlone == part = "hung" /\ UNCHANGED <<part, DrainOwn, ControlsOwn, SupervisorOwn, CloseOutOwn,
                                        RollOwn, PanelOwn, DeliveryOwn, SalvageOwn, RunConfigOwn,
                                        task, pc, run, past, sup, child, pr>>
RunConfigAlone == part = "runconfig" /\ UNCHANGED <<part, DrainOwn, ControlsOwn, SupervisorOwn,
                                                  CloseOutOwn, RollOwn, PanelOwn, DeliveryOwn,
                                                  SalvageOwn, ReporterOwn, task, pc, run, sup,
                                                  child, pr, left>>

DrainStep == DrainAlone /\ Drain!Next
ControlsStep == ControlsAlone /\ Controls!Next
SupervisorStep == SupervisorAlone /\ Sup!Next
CloseOutStep == CloseOutAlone /\ Close!Next
RollStep == RollAlone /\ Rolling!Next
PanelStep == PanelAlone /\ Panel!Next
DeliveryStep == DeliveryAlone /\ Delivery!Next
SalvageStep == SalvageAlone /\ Salvage!Next
ReporterStep == ReporterAlone /\ Reporter!Next
HungStep == HungAlone /\ Reporter!Next
RunConfigStep == RunConfigAlone /\ RunConfig!Next
Next == DrainStep \/ ControlsStep \/ SupervisorStep \/ CloseOutStep \/ RollStep \/ PanelStep
        \/ DeliveryStep \/ SalvageStep \/ ReporterStep \/ HungStep \/ RunConfigStep

\* The fairness each module states and justifies, of its own part.  A behaviour is about
\* one component, so a condition on a disjunction is a condition on each of its disjuncts.
Waits(t) == t \in Controls!Waiters /\ Controls!Pass(t)
WaitIsOver(t) == t \in Controls!Waiters /\ Controls!WaitEnds(t)
ReporterGoes == ReporterAlone \/ HungAlone
Sends(s) == Reporter!BeaconRemoves(s) \/ Reporter!BeaconCreates(s) \/ Reporter!SendChecks(s) \/ Reporter!Enqueues(s)
Spec ==
  /\ Init /\ [][Next]_vars
  /\ WF_vars(\/ DrainAlone /\ Drain!Driver
             \/ ControlsAlone /\ Controls!Loop
             \/ SupervisorAlone /\ Sup!Reconciles
             \/ CloseOutAlone /\ Close!StartCloseOutPass(s1)
             \/ RollAlone /\ Rolling!Roll
             \/ PanelAlone /\ Panel!Driver
             \/ DeliveryAlone /\ Delivery!Step
             \/ SalvageAlone /\ Salvage!Deadline
             \/ ReporterGoes /\ Reporter!LoopStep
             \/ RunConfigAlone /\ RunConfig!Run)
  /\ WF_vars(\/ DrainAlone /\ \E e \in Drain!Ends : Drain!SessionEnds(e)
             \/ ControlsAlone /\ Controls!Ends
             \/ SupervisorAlone /\ Sup!Polls
             \/ CloseOutAlone /\ Close!PassSteps(s1)
             \/ PanelAlone /\ 1 \in Panel!Seats /\ Panel!Member(1)
             \/ SalvageAlone /\ run.late /\ Salvage!Rescue
             \/ ReporterGoes /\ Reporter!Renewer
             \/ RunConfigAlone /\ RunConfig!Tick)
  /\ WF_vars(\/ ControlsAlone /\ Controls!Watcher
             \/ SupervisorAlone /\ Sup!DrainForReplace
             \/ CloseOutAlone /\ Close!SessionEnds(s1)
             \/ PanelAlone /\ 2 \in Panel!Seats /\ Panel!Member(2)
             \/ SalvageAlone /\ Salvage!HandOff
             \/ ReporterGoes /\ Reporter!Pump)
  /\ WF_vars(\/ ControlsAlone /\ Waits(0)
             \/ SupervisorAlone /\ Sup!StopAll
             \/ CloseOutAlone /\ Close!OrphanEnds(s1)
             \/ ReporterGoes /\ Sends("loop"))
  /\ WF_vars(\/ ControlsAlone /\ Waits(1)
             \/ SupervisorAlone /\ Sup!EndsSession
             \/ CloseOutAlone /\ Close!Restarts(s1)
             \/ ReporterGoes /\ Sends("limit"))
  /\ WF_vars(\/ SupervisorAlone /\ Sup!EndsPass
             \/ CloseOutAlone /\ Close!ChecksPass(t1)
             \/ ReporterGoes /\ Sends("renewer"))
  /\ WF_vars(\/ SupervisorAlone /\ Sup!Ages(1)
             \/ CloseOutAlone /\ Close!GitHubLooksAgain(t1)
             \/ ReporterAlone /\ Reporter!PumpPosts)
  /\ WF_vars(\/ SupervisorAlone /\ (Sup!Settles(1) \/ Sup!Exits(1) \/ Sup!ReExecs(1))
             \/ CloseOutAlone /\ Close!AgentReleases(t1)
             \/ ReporterAlone /\ Reporter!CloseFlushes)
  /\ WF_vars(\/ SupervisorAlone /\ Sup!LetsGo(1)
             \/ CloseOutAlone /\ Close!LeaseExpires(t1)
             \/ ReporterAlone /\ Reporter!CloseSpeaks)
  /\ SF_vars(\/ ControlsAlone /\ Controls!DrainEnds
             \/ SupervisorAlone /\ Sup!SeesCancel
             \/ CloseOutAlone /\ Close!Resolves(s1))
  /\ SF_vars(\/ ControlsAlone /\ WaitIsOver(0)
             \/ SupervisorAlone /\ Sup!OnExit(1))
  /\ SF_vars(\/ ControlsAlone /\ WaitIsOver(1)
             \/ SupervisorAlone /\ Sup!RespawnDue(1))
  /\ SF_vars(SupervisorAlone /\ Sup!Markers(1))

-----------------------------------------------------------------------------
(* Properties                                                              *)

\* A drain that meets no usage limit ends, whatever its sessions do (PhaseSequence's
\* DrainEnds; loop.go: drainPhases, drainPhase).
DrainsEnd == part = "drain" ~> (part = "drain" /\ pc = "done")

\* A restart, a restart-now or a stop asked of a live run ends it, in the middle of what it
\* may be, and a run that is leaving goes (Controls' RestartEndsRun, StopEndsRun and
\* LeavingEnds; control.go:60-130, loop.go:8160-8260).
Leaving ==
  \/ run.pc \in {"shutdown", "sweep", "return"} \/ run.again \/ run.cancelled
  \/ \E t \in Controls!Waiters : w[t].pc = "stopped"
RunsEnd ==
  /\ (part = "controls" /\ (Controls!RestartAsked \/ Controls!StopAsked) /\ ~Controls!EndsRun)
       ~> (part = "controls" /\ Controls!EndsRun)
  /\ (part = "controls" /\ Leaving) ~> (part = "controls" /\ ~Leaving)

\* An entry that stays stopped has its daemon down, one that stays running has it up, on
\* the last edit of its config; stopping the supervisor stops the fleet,
\* when no write of a stop fails (each child is told once); a drain for a
\* replacement ends, and so does a roll (Supervisor's and Roll's properties of those names;
\* supervisor.go, configchange.go:46, replace.go:27, roll.go:53).
Supervises(configs) == part = "supervisor" /\ conf \in configs
IsAsked ==
  \/ Supervises(FlipConfigs) /\ (Sup!AskedDown(1) \/ (Sup!AskedUp(1) /\ ~Sup!At("gone")))
  \/ Supervises(EditConfigs) /\ Sup!AskedUp(1) /\ ~dir[1].halt
HasArrived ==
  \/ Supervises(FlipConfigs) /\ (Sup!AskedDown(1) => Sup!IsDown(1)) /\ (Sup!AskedUp(1) => Sup!IsUp(1))
  \/ Supervises(EditConfigs) /\ Sup!IsUpToDate(1)
Stopping == Supervises(StopConfigs) /\ ~conf.fails /\ sup.cancelled
FleetConverges ==
  /\ <>[]IsAsked => <>[]HasArrived
  /\ (Stopping \/ part = "roll")
       ~> \/ Supervises(StopConfigs) /\ Sup!At("gone")
          \/ part = "roll" /\ pc \in {"done", "halted", "refused"}
  /\ (Supervises(StopConfigs) /\ Sup!At("drain")) ~> (Supervises(StopConfigs) /\ ~Sup!At("drain"))

\* An approved task with a clean pull request on the merge target is closed, however reads
\* fail, agents come and go and sessions die (CloseOut's CleanIsClosed).
DeliverableIsClosed ==
  <>[](part = "closeout" /\ Close!Deliverable(t1)) => <>(part = "closeout" /\ Close!Closed(t1))

\* What is done around a session ends: the join of a panel, the check of a delivery, the
\* rescue of what was left; a run is never held up by a plane that does not answer, and
\* its last report goes out once POSTs are bounded (panel_parallel.go:219, prcheck.go:36,
\* salvage.go, fleet.go:7-13, 320-327).
WorkEnds ==
  (part \in {"panel", "delivery", "reporter", "hung"} \/ (part = "salvage" /\ run.pc \in Salvage!Git))
    ~> \/ part = "panel" /\ drv.pc = "done"
       \/ part = "delivery" /\ ver.pc = "done"
       \/ part = "salvage" /\ (Salvage!At("idle") \/ Salvage!At("dead"))
       \/ part = "hung" /\ loop.pc \in {"lock", "flush", "last", "unlock", "gone"}
       \/ part = "reporter" /\ loop.pc = "gone"

\* Once the operator rests and the plane answers, a target runs the version the plane has,
\* and goes on to (loop/runconfig.go:40-230).
RunConfigConverges ==
  part = "runconfig" => <>[](part = "runconfig" /\ rc[p1].version = plane[p1].version)
=============================================================================
