----------------------------- MODULE Supervisor -----------------------------
(***************************************************************************)
(* `clankerbar supervise`: one goroutine that polls the fleet's roster,    *)
(* builds each entry's config, spawns, stops and respawns one daemon per   *)
(* entry, carries config edits to the daemons that are up, drains the      *)
(* fleet to stop or to replace itself, and reads what a dead daemon left.  *)
(*                                                                         *)
(* It steers a daemon only through the markers in its state directory; the *)
(* daemons, whoever else writes markers there, and the console, move       *)
(* between any two of its steps. The daemon is the one Daemon states.      *)
(***************************************************************************)
EXTENDS Naturals, FiniteSets

CONSTANTS
  Size,     \* bound: the number of entries the roster may hold
  Configs   \* bounds: the environments looked at, see ConfigsAssumption

Instances == 1 .. Size
\* An entry as the console shows it; "gone" is no entry, "bad" one that checkEntry
\* refuses, "remote" one placed elsewhere.
Rows == {"running", "stopped", "gone", "bad", "remote"}

\* How often all in all: console flips (and between which rows), edits of the config,
\* policy files moved away or back, markers written or cleared by somebody else (and
\* which), daemons that die or end by themselves, REPLACE commands, conflict sessions;
\* whether claims are looked at, the plane goes away, writes and spawns fail, a drain
\* times out, the supervisor is stopped; and the top of the backoff ladder.
ConfigsAssumption ==
  /\ Size \in Nat
  /\ \A c \in Configs :
       /\ c.flips \in Nat /\ c.rows \subseteq Rows /\ c.edits \in Nat /\ c.policies \in Nat
       /\ c.writes \in Nat /\ c.markers \subseteq {"STOP", "HALT", "RESTART"} /\ c.deaths \in Nat
       /\ c.replaces \in Nat /\ c.sessions \in Nat /\ c.claims \in BOOLEAN /\ c.outages \in BOOLEAN
       /\ c.fails \in BOOLEAN /\ c.timeouts \in BOOLEAN /\ c.stops \in BOOLEAN
       /\ c.top \in Nat /\ c.long \in BOOLEAN

VARIABLES
  conf,   \* the member of Configs this behaviour is about
  plane,  \* per entry: its row, the version of its config, whether its policy file is there
  host,   \* the REPLACE marker, the close-out pass and the conflict session
  sup,    \* the supervisor's goroutine: where it is, its context, its last roster
  inst,   \* per entry: its Instance
  child,  \* per entry: the daemon process
  dir,    \* per entry: its state directory
  past    \* what was used up, for the bounds, and what the properties remember

vars == <<conf, plane, host, sup, inst, child, dir, past>>

Owners == {"no", "own", "other"}
RefreshPCs == {"refresh", "rewritten", "recheck", "mark", "marked", "withdraw", "remove"}
PCs == {"replace", "drain", "exec", "fetch", "act", "drop", "select", "stop", "gone"} \cup RefreshPCs

TypeOK ==
  /\ conf \in Configs
  /\ plane \in [Instances -> [row : Rows, ver : Nat, policy : BOOLEAN]]
  /\ host \in [replace : {"no", "stale", "fresh"}, pass : BOOLEAN, session : BOOLEAN]
  /\ sup.pc \in PCs /\ sup.i \in Instances /\ sup.first \in BOOLEAN /\ sup.cancelled \in BOOLEAN
  /\ sup.changed \in BOOLEAN /\ sup.roster \in [Instances -> Rows]
  /\ sup.done \subseteq Instances /\ sup.sent \subseteq Instances
  /\ inst \in [Instances ->
       [known : BOOLEAN, want : {"running", "stopped"}, removed : BOOLEAN, refused : BOOLEAN,
        policyRefused : BOOLEAN, stopRequested : BOOLEAN, pending : BOOLEAN, halted : BOOLEAN,
        retry : BOOLEAN, backoff : 0 .. conf.top, since : {"never", "fresh", "settled", "long"},
        cfg : Nat]]
  /\ child \in [Instances -> [at : {"none", "window", "up", "dead"}, leaving : BOOLEAN,
                              again : BOOLEAN, cfg : Nat]]
  /\ dir \in [Instances -> [stop : Owners, halt : BOOLEAN, restart : Owners, mat : Nat, claim : BOOLEAN]]
  /\ past \in [flips : Nat, edits : Nat, policies : Nat, writes : Nat, deaths : Nat, asked : Nat,
               drains : Nat, sessions : Nat, misses : [Instances -> Nat]]

NewInst == [known |-> FALSE, want |-> "stopped", removed |-> FALSE, refused |-> FALSE,
            policyRefused |-> FALSE, stopRequested |-> FALSE, pending |-> FALSE, halted |-> FALSE,
            retry |-> FALSE, backoff |-> 0, since |-> "never", cfg |-> 0]
NoChild == [at |-> "none", leaving |-> FALSE, again |-> FALSE, cfg |-> 0]
NewSup == [pc |-> "replace", i |-> 1, first |-> TRUE, cancelled |-> FALSE, changed |-> FALSE,
           roster |-> [i \in Instances |-> "gone"], done |-> {}, sent |-> {}]

Init ==
  /\ conf \in Configs
  /\ plane \in [Instances -> [row : {"running", "stopped"}, ver : {1}, policy : {TRUE}]]
  /\ host \in [replace : IF conf.replaces = 0 THEN {"no"} ELSE {"no", "stale"}, pass : {FALSE}, session : {FALSE}]
  /\ sup = NewSup
  /\ inst = [i \in Instances |-> NewInst]
  /\ child = [i \in Instances |-> NoChild]
  /\ dir = [i \in Instances |-> [stop |-> "no", halt |-> FALSE, restart |-> "no", mat |-> 0, claim |-> FALSE]]
  /\ past = [flips |-> 0, edits |-> 0, policies |-> 0, writes |-> 0, deaths |-> 0, asked |-> 0,
             drains |-> 0, sessions |-> 0, misses |-> [i \in Instances |-> 0]]

At(pc) == sup.pc = pc
Goto(pc) == sup' = [sup EXCEPT !.pc = pc]
\* cmd # nil and not exited: an exit counts once its event is consumed.
Alive(i) == child[i].at # "none"
Known == {i \in Instances : inst[i].known}
OutOfService(i) == inst[i].want # "running" \/ inst[i].removed \/ inst[i].refused
StopOrHalt(i) == dir[i].stop # "no" \/ dir[i].halt
MayFail == IF conf.fails THEN BOOLEAN ELSE {FALSE}

(***************************************************************************)
(* What the supervisor reads and builds                                    *)
(***************************************************************************)
\* The roster as the plane serves it, the last one served, which is on disk too, and
\* whether an entry has the shape and the overrides an entry may have.
Served(i) == plane[i].row
LastKnown(i) == sup.roster[i]
CheckEntry(row) == row # "bad"

\* The config of an entry over this machine's own: which edit of either it carries.
BuildConfig(i) == plane[i].ver
\* The permission policy every harness of it will load is in place.
CheckPermissionPolicy(i) == plane[i].policy
\* Building ends at a working directory or a validation that fails, or at the policy.
ResolveInstance(i, broken) ==
  IF broken THEN "fails" ELSE IF CheckPermissionPolicy(i) THEN "built" ELSE "refused"

\* What a child reads at its start: written over what is there, loaded back when nothing
\* can be built.
MaterializeConfig(i, cfg) == dir' = [dir EXCEPT ![i].mat = cfg]
LoadMaterialized(i, n) == IF dir[i].mat # 0 THEN dir[i].mat ELSE n.cfg

(***************************************************************************)
(* Starting a child                                                        *)
(***************************************************************************)
\* The delay in doublings of its base, up to the cap.
BackoffDelay(prev, long) ==
  IF long \/ prev = 0 THEN 1 ELSE IF prev < conf.top THEN prev + 1 ELSE conf.top

\* The uptime is measured from the last spawn, or from the year 1 where there was none.
ScheduleRestart(n) ==
  [n EXCEPT !.retry = TRUE, !.backoff = BackoffDelay(n.backoff, n.since \in {"never", "long"})]

Started(n) ==
  [n EXCEPT !.pending = FALSE, !.stopRequested = FALSE, !.since = "fresh"]
NotStarted(i, n) ==
  /\ inst' = [inst EXCEPT ![i] = ScheduleRestart(n)]
  /\ past' = [past EXCEPT !.misses[i] = IF @ < 2 THEN @ + 1 ELSE @]
  /\ UNCHANGED <<child, dir>>

\* The config is built afresh; one that cannot be built leaves the last good one, and the
\* permission policy of whichever it is must be in place. n is the Instance to start from.
Spawn(i, n) ==
  \E broken \in MayFail, failed \in MayFail :
    LET built == ResolveInstance(i, broken)
        m == IF built = "built" THEN [n EXCEPT !.cfg = BuildConfig(i), !.policyRefused = FALSE] ELSE n
    IN  IF built = "refused"
        THEN NotStarted(i, n)
        ELSE IF m.cfg = 0
        THEN inst' = [inst EXCEPT ![i] = m] /\ UNCHANGED <<child, dir, past>>
        ELSE IF ~CheckPermissionPolicy(i) \/ failed
        THEN NotStarted(i, m)
        ELSE /\ inst' = [inst EXCEPT ![i] = Started(m)]
             /\ child' = [child EXCEPT ![i] = [NoChild EXCEPT !.at = "window", !.cfg = m.cfg]]
             /\ MaterializeConfig(i, m.cfg)
             /\ past' = [past EXCEPT !.misses[i] = 0]

(***************************************************************************)
(* The select loop                                                         *)
(***************************************************************************)
\* The record of a daemon that died holding a claim is read, handed back and removed.
HandBackDeadClaim(i) == dir' = [dir EXCEPT ![i].claim = FALSE]
Reaps(i) == child' = [child EXCEPT ![i] = NoChild]

\* Only an exit nobody ordered is answered with a respawn.
OnExit(i) ==
  /\ At("select") /\ child[i].at = "dead"
  /\ Reaps(i)
  /\ HandBackDeadClaim(i)
  /\ inst' = [inst EXCEPT ![i] =
       IF sup.cancelled \/ OutOfService(i) \/ @.halted THEN @
       ELSE IF dir[i].halt THEN [@ EXCEPT !.halted = TRUE] ELSE ScheduleRestart(@)]
  /\ UNCHANGED <<conf, plane, host, sup, past>>

RespawnDue(i) ==
  /\ At("select") /\ inst[i].retry
  /\ LET n == [inst[i] EXCEPT !.retry = FALSE]
     IN  IF OutOfService(i) \/ n.policyRefused \/ n.halted
         THEN inst' = [inst EXCEPT ![i] = n] /\ UNCHANGED <<child, dir, past>>
         ELSE Spawn(i, n)
  /\ UNCHANGED <<conf, plane, host, sup>>

Polls ==
  /\ At("select") /\ ~sup.cancelled
  /\ Goto("replace")
  /\ UNCHANGED <<conf, plane, host, inst, child, dir, past>>

SeesCancel ==
  /\ At("select") /\ sup.cancelled
  /\ sup' = [sup EXCEPT !.pc = "stop", !.done = {}, !.sent = {}]
  /\ UNCHANGED <<conf, plane, host, inst, child, dir, past>>

(***************************************************************************)
(* The poll: what is wanted                                                *)
(***************************************************************************)
\* A build that the policy gate refuses keeps the last config but marks the instance; one
\* that fails otherwise falls back to what was last materialized, or to the last build.
RefreshInstance(i, n, broken) ==
  LET built == ResolveInstance(i, broken)
  IN  [n EXCEPT !.policyRefused = built = "refused" \/ (built = "fails" /\ @),
                !.cfg = IF built = "built" THEN BuildConfig(i)
                        ELSE IF built = "fails" THEN LoadMaterialized(i, n) ELSE @]

\* What the row makes of the instance: one placed elsewhere is ignored.
Wanted(i, row, broken) ==
  LET n == inst[i]
  IN  CASE row = "remote" -> n
        [] row = "gone" -> [n EXCEPT !.removed = @ \/ (n.known /\ ~n.refused)]
        [] row # "gone" /\ ~CheckEntry(row) -> [n EXCEPT !.refused = n.known]
        [] OTHER -> RefreshInstance(i, [n EXCEPT !.known = TRUE, !.want = row, !.removed = FALSE, !.refused = FALSE], broken)

\* The plane's roster, or the last known one when it cannot be read.
Fetches ==
  /\ At("fetch") /\ ~sup.cancelled
  /\ \E up \in (IF conf.outages THEN BOOLEAN ELSE {TRUE}), broken \in [Instances -> MayFail] :
       LET roster == [i \in Instances |-> IF up THEN Served(i) ELSE LastKnown(i)]
       IN  /\ sup' = [sup EXCEPT !.roster = roster, !.pc = "act", !.i = 1]
           /\ inst' = [i \in Instances |-> Wanted(i, roster[i], broken[i])]
  /\ UNCHANGED <<conf, plane, host, child, dir, past>>
FetchesNothing ==
  /\ At("fetch") /\ sup.cancelled /\ Goto("select")
  /\ UNCHANGED <<conf, plane, host, inst, child, dir, past>>

(***************************************************************************)
(* The poll: acting on it                                                  *)
(***************************************************************************)
\* To the next instance, or from the last one to the next pass.
Advance(pc, after) ==
  sup' = IF sup.i < Size THEN [sup EXCEPT !.pc = pc, !.i = @ + 1] ELSE [sup EXCEPT !.pc = after, !.i = 1]

\* Writes STOP unless one is there: a readable one counts as pending.
WriteStop(i, failed) ==
  dir' = IF failed \/ dir[i].stop # "no" THEN dir ELSE [dir EXCEPT ![i].stop = "own"]

\* Slip: STOP is written into the start-up window too.
EnsureStoppedAtOnce(i) ==
  \E failed \in MayFail :
    LET writes == Alive(i) /\ ~inst[i].stopRequested
    IN  /\ WriteStop(i, failed \/ ~writes)
        /\ inst' = [inst EXCEPT ![i].retry = FALSE,
                                ![i].stopRequested = @ \/ (writes /\ ~failed)]
        /\ UNCHANGED <<child, past>>

EnsureStopped(i) ==
  \E failed \in MayFail :
    LET writes == Alive(i) /\ ~inst[i].stopRequested /\ inst[i].since # "fresh"
    IN  /\ WriteStop(i, failed \/ ~writes)
        /\ inst' = [inst EXCEPT ![i].retry = FALSE,
                                ![i].stopRequested = @ \/ (writes /\ ~failed)]
        /\ UNCHANGED <<child, past>>

\* Slip: a scheduled respawn is what keeps the poll from starting one, not a live child.
EnsureRunningTwice(i) ==
  IF inst[i].policyRefused \/ inst[i].halted \/ inst[i].retry \/ inst[i].cfg = 0
  THEN UNCHANGED <<inst, child, dir, past>>
  ELSE Spawn(i, inst[i])

\* A live child and a scheduled respawn both need nothing.
EnsureRunning(i) ==
  IF inst[i].policyRefused \/ inst[i].halted \/ Alive(i) \/ inst[i].retry \/ inst[i].cfg = 0
  THEN UNCHANGED <<inst, child, dir, past>>
  ELSE Spawn(i, inst[i])

Acts ==
  /\ At("act")
  /\ IF ~inst[sup.i].known THEN UNCHANGED <<inst, child, dir, past>>
     ELSE IF OutOfService(sup.i) THEN EnsureStopped(sup.i) ELSE EnsureRunning(sup.i)
  /\ Advance("act", "refresh")
  /\ UNCHANGED <<conf, plane, host>>

(***************************************************************************)
(* The poll: carrying an edit to a child that is up                        *)
(***************************************************************************)
InService(i) ==
  /\ Alive(i) /\ ~OutOfService(i) /\ ~inst[i].halted /\ ~inst[i].policyRefused
  /\ ~StopOrHalt(i)

\* The generated file is rewritten when it no longer says what was built, and a restart
\* queued for that or for an earlier rewrite.
RefreshMaterialized ==
  LET i == sup.i  n == inst[i]  changed == dir[i].mat # n.cfg
  IN  /\ At("refresh")
      /\ IF ~n.known \/ n.cfg = 0
         THEN Advance("refresh", "drop") /\ UNCHANGED dir
         ELSE IF ~InService(i)
         THEN Goto("withdraw") /\ UNCHANGED dir
         ELSE IF ~changed /\ ~n.pending
         THEN Advance("refresh", "drop") /\ UNCHANGED dir
         ELSE /\ sup' = [sup EXCEPT !.pc = "rewritten", !.changed = changed]
              /\ dir' = [dir EXCEPT ![i].mat = n.cfg]
      /\ UNCHANGED <<conf, plane, host, inst, child, past>>

\* Checked after the rewrite: a restart pending before it may have been consumed.
SeesRestart ==
  /\ At("rewritten")
  /\ IF dir[sup.i].restart # "no"
     THEN inst' = [inst EXCEPT ![sup.i].pending = FALSE] /\ Advance("refresh", "drop")
     ELSE UNCHANGED inst /\ Goto("recheck")
  /\ UNCHANGED <<conf, plane, host, child, dir, past>>

StopWonTheRace(i) == inst' = [inst EXCEPT ![i].pending = @ \/ sup.changed]

Rechecks ==
  /\ At("recheck")
  /\ IF StopOrHalt(sup.i) THEN StopWonTheRace(sup.i) /\ Goto("withdraw") ELSE UNCHANGED inst /\ Goto("mark")
  /\ UNCHANGED <<conf, plane, host, child, dir, past>>

QueuesRestart ==
  LET i == sup.i
  IN  /\ At("mark")
      /\ \/ dir[i].restart = "no" /\ dir' = [dir EXCEPT ![i].restart = "own"] /\ Goto("marked") /\ UNCHANGED inst
         \/ dir[i].restart # "no" /\ inst' = [inst EXCEPT ![i].pending = FALSE] /\ Advance("refresh", "drop") /\ UNCHANGED dir
         \/ conf.fails /\ inst' = [inst EXCEPT ![i].pending = TRUE] /\ Advance("refresh", "drop") /\ UNCHANGED dir
      /\ UNCHANGED <<conf, plane, host, child, past>>

Marked ==
  /\ At("marked")
  /\ IF StopOrHalt(sup.i) THEN StopWonTheRace(sup.i) /\ Goto("withdraw")
     ELSE inst' = [inst EXCEPT ![sup.i].pending = FALSE] /\ Advance("refresh", "drop")
  /\ UNCHANGED <<conf, plane, host, child, dir, past>>

\* The body says whose the marker is ...
WithdrawQueuedRestart ==
  /\ At("withdraw")
  /\ IF dir[sup.i].restart = "own" THEN Goto("remove") ELSE Advance("refresh", "drop")
  /\ UNCHANGED <<conf, plane, host, inst, child, dir, past>>
\* ... and the file of that name is removed.
Removes ==
  /\ At("remove")
  /\ dir' = [dir EXCEPT ![sup.i].restart = "no"]
  /\ Advance("refresh", "drop")
  /\ UNCHANGED <<conf, plane, host, inst, child, past>>

\* What has left the fleet and is down is forgotten; the close-out pass starts; a first
\* poll that found nothing to supervise ends the process.
Drops ==
  /\ At("drop")
  /\ inst' = [i \in Instances |->
       IF (inst[i].removed \/ inst[i].refused) /\ ~Alive(i) THEN NewInst ELSE inst[i]]
  /\ sup' = [sup EXCEPT !.first = FALSE, !.pc = IF sup.first /\ Known = {} THEN "gone" ELSE "select"]
  /\ host' = [host EXCEPT !.pass = @ \/ past.sessions < conf.sessions]
  /\ UNCHANGED <<conf, plane, child, dir, past>>

(***************************************************************************)
(* Stopping the fleet, and draining it for a replacement                   *)
(***************************************************************************)
\* Down already: never spawned, in backoff, or its exit consumed before.
NotesDown(i) ==
  /\ i \in Known \ sup.done /\ ~Alive(i)
  /\ sup' = [sup EXCEPT !.done = @ \cup {i}]
  /\ UNCHANGED <<conf, plane, host, inst, child, dir, past>>
\* One attempt per child, once it is past the settle window.
SendsStop(i) ==
  /\ i \in Known \ (sup.done \cup sup.sent) /\ Alive(i) /\ inst[i].since # "fresh"
  /\ \E failed \in MayFail : WriteStop(i, failed)
  /\ sup' = [sup EXCEPT !.sent = @ \cup {i}]
  /\ UNCHANGED <<conf, plane, host, inst, child, past>>

StopReaps(i) ==
  /\ At("stop") /\ child[i].at = "dead"
  /\ Reaps(i) /\ HandBackDeadClaim(i)
  /\ sup' = [sup EXCEPT !.done = @ \cup {i}]
  /\ UNCHANGED <<conf, plane, host, inst, past>>

StopEnds ==
  /\ At("stop") /\ sup.done = Known /\ Goto("gone")
  /\ UNCHANGED <<conf, plane, host, inst, child, dir, past>>
StopAll ==
  \/ StopEnds
  \/ \E i \in Instances : StopReaps(i) \/ (At("stop") /\ (NotesDown(i) \/ SendsStop(i)))

NoReplace ==
  /\ At("replace") /\ host.replace = "no" /\ Goto("fetch")
  /\ UNCHANGED <<conf, plane, host, inst, child, dir, past>>
\* From before this process, or for a version the launch path does not carry.
Discards ==
  /\ At("replace") /\ (host.replace = "stale" \/ (host.replace = "fresh" /\ conf.fails))
  /\ host' = [host EXCEPT !.replace = "no"] /\ Goto("fetch")
  /\ UNCHANGED <<conf, plane, inst, child, dir, past>>
Honours ==
  /\ At("replace") /\ host.replace = "fresh"
  /\ host' = [host EXCEPT !.replace = "no"]
  /\ sup' = [sup EXCEPT !.pc = "drain", !.done = {}, !.sent = {}]
  /\ past' = [past EXCEPT !.drains = @ + 1]
  /\ UNCHANGED <<conf, plane, inst, child, dir>>

DrainReaps(i) ==
  /\ At("drain") /\ child[i].at = "dead"
  /\ Reaps(i)
  /\ sup' = [sup EXCEPT !.done = @ \cup {i}]
  /\ UNCHANGED <<conf, plane, host, inst, dir, past>>
\* The fleet stop, or VerifyTimeout: the poll goes on, and respawns what did drain.
DrainGivesUp ==
  /\ At("drain") /\ (sup.cancelled \/ conf.timeouts) /\ Goto("fetch")
  /\ UNCHANGED <<conf, plane, host, inst, child, dir, past>>
\* Slip: a child that was told to stop counts as drained.
DrainedEarly ==
  /\ At("drain") /\ sup.done \cup sup.sent = Known /\ ~host.session /\ Goto("exec")
  /\ UNCHANGED <<conf, plane, host, inst, child, dir, past>>
Drained ==
  /\ At("drain") /\ sup.done = Known /\ ~host.session /\ Goto("exec")
  /\ UNCHANGED <<conf, plane, host, inst, child, dir, past>>
DrainForReplace ==
  \/ Drained \/ DrainGivesUp
  \/ \E i \in Instances : DrainReaps(i) \/ (At("drain") /\ (NotesDown(i) \/ SendsStop(i)))

\* The image is replaced: the fields are gone, and so is every goroutine of it. The
\* cached roster and the state directories stay.
ExecSelf ==
  /\ At("exec") /\ ~sup.cancelled
  /\ sup' = [NewSup EXCEPT !.roster = sup.roster]
  /\ inst' = [i \in Instances |-> NewInst]
  /\ host' = [replace |-> IF host.replace = "fresh" THEN "stale" ELSE host.replace,
              pass |-> FALSE, session |-> FALSE]
  /\ UNCHANGED <<conf, plane, child, dir, past>>
ExecFails ==
  /\ At("exec") /\ (conf.fails \/ sup.cancelled) /\ Goto("fetch")
  /\ UNCHANGED <<conf, plane, host, inst, child, dir, past>>

(***************************************************************************)
(* Beside it: the close-out pass, the console, the operator, the daemons   *)
(***************************************************************************)
StartsSession ==
  /\ host.pass /\ ~host.session /\ past.sessions < conf.sessions /\ ~At("gone")
  /\ host' = [host EXCEPT !.session = TRUE]
  /\ past' = [past EXCEPT !.sessions = @ + 1]
  /\ UNCHANGED <<conf, plane, sup, inst, child, dir>>
EndsPass ==
  /\ host.pass /\ host' = [host EXCEPT !.pass = FALSE]
  /\ UNCHANGED <<conf, plane, sup, inst, child, dir, past>>
EndsSession ==
  /\ host.session /\ host' = [host EXCEPT !.session = FALSE]
  /\ UNCHANGED <<conf, plane, sup, inst, child, dir, past>>
CloseOutPass == StartsSession \/ EndsPass \/ EndsSession

Flips(i) ==
  /\ past.flips < conf.flips
  /\ \E row \in conf.rows \ {plane[i].row} : plane' = [plane EXCEPT ![i].row = row]
  /\ past' = [past EXCEPT !.flips = @ + 1]
  /\ UNCHANGED <<conf, host, sup, inst, child, dir>>
Edits(i) ==
  /\ past.edits < conf.edits
  /\ plane' = [plane EXCEPT ![i].ver = @ + 1]
  /\ past' = [past EXCEPT !.edits = @ + 1]
  /\ UNCHANGED <<conf, host, sup, inst, child, dir>>
MovesPolicy(i) ==
  /\ past.policies < conf.policies
  /\ plane' = [plane EXCEPT ![i].policy = ~@]
  /\ past' = [past EXCEPT !.policies = @ + 1]
  /\ UNCHANGED <<conf, host, sup, inst, child, dir>>

\* ctl, a roll, a shell: markers are written, and STOP and HALT removed again.
Writes(i) ==
  /\ past.writes < conf.writes /\ dir[i].mat # 0
  /\ dir' \in {[dir EXCEPT ![i].stop = IF "STOP" \in conf.markers /\ @ = "no" THEN "other" ELSE @],
               [dir EXCEPT ![i].halt = @ \/ "HALT" \in conf.markers],
               [dir EXCEPT ![i].restart = IF "RESTART" \in conf.markers /\ @ = "no" THEN "other" ELSE @]}
  /\ dir' # dir
  /\ past' = [past EXCEPT !.writes = @ + 1]
  /\ UNCHANGED <<conf, plane, host, sup, inst, child>>
Clears(i) ==
  /\ dir' \in {[dir EXCEPT ![i].stop = "no"], [dir EXCEPT ![i].halt = FALSE]}
  /\ dir' # dir /\ (dir'[i].stop # dir[i].stop => dir[i].stop = "other")
  /\ UNCHANGED <<conf, plane, host, sup, inst, child, past>>
Replace ==
  /\ past.asked < conf.replaces /\ ~At("gone")
  /\ host' = [host EXCEPT !.replace = "fresh"]
  /\ past' = [past EXCEPT !.asked = @ + 1]
  /\ UNCHANGED <<conf, plane, sup, inst, child, dir>>
Cancels ==
  /\ conf.stops /\ ~sup.cancelled /\ ~At("gone")
  /\ sup' = [sup EXCEPT !.cancelled = TRUE]
  /\ UNCHANGED <<conf, plane, host, inst, child, dir, past>>

\* A daemon, as Daemon has it. It reads markers at its iteration boundary, where it
\* holds no claim.
Boundary(i) == child[i].at = "up" /\ ~child[i].leaving /\ ~dir[i].claim
Settles(i) ==
  /\ child[i].at = "window"
  /\ child' = [child EXCEPT ![i].at = "up"]
  /\ dir' = [dir EXCEPT ![i].stop = "no"]
  /\ UNCHANGED <<conf, plane, host, sup, inst, past>>
TakesStop(i) ==
  /\ Boundary(i) /\ dir[i].stop # "no"
  /\ child' = [child EXCEPT ![i].leaving = TRUE]
  /\ dir' = [dir EXCEPT ![i].stop = "no"]
  /\ UNCHANGED <<conf, plane, host, sup, inst, past>>
TakesHalt(i) ==
  /\ Boundary(i) /\ dir[i].halt
  /\ child' = [child EXCEPT ![i].leaving = TRUE]
  /\ UNCHANGED <<conf, plane, host, sup, inst, dir, past>>
TakesRestart(i) ==
  /\ Boundary(i) /\ dir[i].restart # "no"
  /\ child' = [child EXCEPT ![i].leaving = TRUE, ![i].again = TRUE]
  /\ dir' = [dir EXCEPT ![i].restart = "no"]
  /\ UNCHANGED <<conf, plane, host, sup, inst, past>>
Leaves(i) ==
  /\ Boundary(i) /\ past.deaths < conf.deaths
  /\ child' = [child EXCEPT ![i].leaving = TRUE]
  /\ past' = [past EXCEPT !.deaths = @ + 1]
  /\ UNCHANGED <<conf, plane, host, sup, inst, dir>>
Sweeps(i) ==
  /\ child[i].leaving /\ dir[i].stop # "no"
  /\ dir' = [dir EXCEPT ![i].stop = "no"]
  /\ UNCHANGED <<conf, plane, host, sup, inst, child, past>>
Exits(i) ==
  /\ child[i].leaving /\ ~child[i].again
  /\ child' = [child EXCEPT ![i] = [NoChild EXCEPT !.at = "dead"]]
  /\ UNCHANGED <<conf, plane, host, sup, inst, dir, past>>
ReExecs(i) ==
  /\ child[i].leaving /\ child[i].again
  /\ child' = [child EXCEPT ![i] = [NoChild EXCEPT !.at = "window", !.cfg = dir[i].mat]]
  /\ UNCHANGED <<conf, plane, host, sup, inst, dir, past>>
Dies(i) ==
  /\ child[i].at \in {"window", "up"} /\ past.deaths < conf.deaths
  /\ child' = [child EXCEPT ![i] = [NoChild EXCEPT !.at = "dead"]]
  /\ past' = [past EXCEPT !.deaths = @ + 1]
  /\ UNCHANGED <<conf, plane, host, sup, inst, dir>>
Claims(i) ==
  /\ conf.claims /\ Boundary(i)
  /\ dir' = [dir EXCEPT ![i].claim = TRUE]
  /\ UNCHANGED <<conf, plane, host, sup, inst, child, past>>
LetsGo(i) ==
  /\ child[i].at = "up" /\ dir[i].claim
  /\ dir' = [dir EXCEPT ![i].claim = FALSE]
  /\ UNCHANGED <<conf, plane, host, sup, inst, child, past>>

\* Time since the last spawn: past the settle window once the first start-up is over,
\* then past BackoffResetAfter.
Ages(i) ==
  /\ \/ inst[i].since = "fresh" /\ child[i].at # "window" /\ inst' = [inst EXCEPT ![i].since = "settled"]
     \/ inst[i].since = "settled" /\ conf.long /\ inst' = [inst EXCEPT ![i].since = "long"]
  /\ UNCHANGED <<conf, plane, host, sup, child, dir, past>>

Markers(i) == TakesStop(i) \/ TakesHalt(i) \/ TakesRestart(i)
Serves(i) == Settles(i) \/ Markers(i) \/ Exits(i) \/ ReExecs(i)
Refreshes ==
  \/ RefreshMaterialized \/ SeesRestart \/ Rechecks \/ QueuesRestart \/ Marked
  \/ WithdrawQueuedRestart \/ Removes
Reconciles ==
  NoReplace \/ Discards \/ Honours \/ ExecSelf \/ ExecFails \/ Fetches \/ FetchesNothing \/ Acts \/ Refreshes \/ Drops

Next ==
  \/ Reconciles \/ DrainForReplace \/ StopAll \/ Polls \/ SeesCancel \/ CloseOutPass
  \/ Replace \/ Cancels
  \/ \E i \in Instances :
       \/ OnExit(i) \/ RespawnDue(i) \/ Ages(i)
       \/ Flips(i) \/ Edits(i) \/ MovesPolicy(i) \/ Writes(i) \/ Clears(i)
       \/ Serves(i) \/ Leaves(i) \/ Sweeps(i) \/ Dies(i) \/ Claims(i) \/ LetsGo(i)

Spec == Init /\ [][Next]_vars

\* The goroutine runs and its select is fair; a drain's deadline passes; a daemon starts,
\* reaches its boundary, takes what it finds there, and ends what it began to end.
Fairness ==
  /\ WF_vars(Reconciles) /\ WF_vars(Polls) /\ SF_vars(SeesCancel)
  /\ WF_vars(DrainForReplace) /\ WF_vars(StopAll) /\ WF_vars(EndsSession) /\ WF_vars(EndsPass)
  /\ \A i \in Instances :
       /\ SF_vars(OnExit(i)) /\ SF_vars(RespawnDue(i)) /\ WF_vars(Ages(i))
       /\ WF_vars(Settles(i) \/ Exits(i) \/ ReExecs(i)) /\ SF_vars(Markers(i)) /\ WF_vars(LetsGo(i))
FairSpec == Spec /\ Fairness

TakenDown == At("stop") \/ At("gone") \/ At("drain")

\* The row of the status report.
StatusInstance(i) ==
  LET n == inst[i]
  IN  IF Alive(i) THEN "running"
      ELSE IF TakenDown THEN "stopped"
      ELSE IF n.halted THEN "halted"
      ELSE IF OutOfService(i) THEN "stopped"
      ELSE IF n.retry THEN "backing_off"
      ELSE IF n.policyRefused THEN "stopped" ELSE "exited"

\* The line of the listing the supervisor logs.
FleetStatus(i) ==
  LET n == inst[i]
  IN  IF Alive(i) THEN (IF n.stopRequested THEN "stopping" ELSE "running")
      ELSE IF n.removed THEN "removed"
      ELSE IF n.refused THEN "refused"
      ELSE IF n.halted THEN "halted"
      ELSE IF n.policyRefused THEN "refused (permission policy)"
      ELSE IF n.want # "running" THEN "stopped"
      ELSE IF n.retry THEN "restarting" ELSE "down"

(***************************************************************************)
(* Properties                                                              *)
(***************************************************************************)
\* A daemon is started as a new process, not re-executed.
Launches(i) == child[i].at # child'[i].at /\ child'[i].at = "window" /\ ~child[i].again

\* Whatever the timer was set for before the last poll, a daemon is started only for an
\* entry the last roster wants running, under a policy that is in place, and never after
\* a HALT the supervisor saw (supervisor.go:1358, configchange.go:49).
WantedStarts ==
  \A i \in Instances : Launches(i) =>
       sup.roster[i] = "running" /\ plane[i].policy /\ ~inst[i].halted
StartsOnlyTheWanted == [][WantedStarts]_vars

\* A state directory never has two daemons: nothing is started over a process that runs,
\* or whose exit has not been consumed (supervisor.go:934, 1355).
StartsAlone ==
  \A i \in Instances :
       child'[i].at = "window" /\ child[i].at # "window" => child[i].at = "none" \/ child[i].again
OneDaemonPerEntry == [][StartsAlone]_vars

\* Of the exits of one daemon and the start of the next, the claim the first died with is
\* handed back before the second can overwrite its record (handback.go:40, supervisor.go:1145:
\* "It applies to EVERY exit, including one the supervisor ordered").
HandsBackFirst == \A i \in Instances : Launches(i) => ~dir[i].claim
NoRecordIsOverwritten == [][HandsBackFirst]_vars

\* The supervisor ends a fleet stop, and replaces itself, only with no daemon left
\* (supervisor.go:457, replace.go:24).
LeavesNobodyBehind ==
  /\ At("gone") => \A i \in Instances : ~Alive(i)
  /\ At("exec") => \A i \in Instances : ~Alive(i)

\* The fleet is drained once per REPLACE command this process was given: a drain that
\* fails does not come back, a marker from before is nobody's (replace.go:183, 200).
DrainsAreAskedFor == past.drains <= past.asked

\* Replacing the image kills no session that holds a claim (replace.go:295: "exec'ing over
\* it would kill a session holding a task claim").
ExecKillsNoSession == [][ExecSelf => ~host.session]_vars

\* Between two polls no restart of the supervisor's own waits for an instance it has taken
\* out of service: it would survive the stop (configchange.go:94).
StopsLeaveNoRestart ==
  \A i \in Instances :
    At("select") /\ inst[i].known /\ OutOfService(i) => dir[i].restart # "own"

\* What a ctl or a roll queued is theirs: only the daemon consumes it
\* (configchange.go:248).
OthersRestartIsKept ==
  [][\A i \in Instances :
       dir[i].restart = "other" /\ dir'[i].restart = "no" => child'[i].again]_vars

\* A row says backing_off only where the scheduled respawn will start a daemon
\* (status.go:495: "this is the only one where the supervisor will actually respawn").
BackingOffRespawns ==
  \A i \in Instances :
    At("select") /\ inst[i].known /\ StatusInstance(i) = "backing_off" => ~inst[i].policyRefused

\* The log and the report agree on which instance will be started again: an operator
\* reads either (supervisor.go:1279, status.go:434).
ListingAgrees ==
  \A i \in Instances :
    At("select") /\ inst[i].known => (FleetStatus(i) = "restarting" <=> StatusInstance(i) = "backing_off")

\* A row says stopped or halted of no instance whose respawn is still scheduled
\* (supervisor.go:960: a phantom backing_off, the other way round).
DownRowsScheduleNothing ==
  \A i \in Instances :
    At("select") /\ inst[i].known /\ StatusInstance(i) \in {"stopped", "halted"} /\ ~inst[i].policyRefused =>
      ~inst[i].retry

\* Starts that fail again and again climb the ladder as exits do (supervisor.go:1116: "same
\* backoff, same ladder").
FailedStartsClimb ==
  \A i \in Instances : inst[i].retry /\ past.misses[i] = 2 => inst[i].backoff >= 2

\* An entry that stays stopped, or off the roster, has its daemon down for good.
AskedDown(i) == plane[i].row \in {"stopped", "gone", "bad"}
IsDown(i) == child[i].at = "none"
StoppedGoesDown == \A i \in Instances : <>[]AskedDown(i) => <>[]IsDown(i)

\* An entry that stays running has its daemon up for good, whatever died before, as long as
\* the first poll found something to supervise.
AskedUp(i) == plane[i].row = "running" /\ plane[i].policy
IsUp(i) == child[i].at = "up"
RunningComesUp ==
  \A i \in Instances : <>[](AskedUp(i) /\ ~At("gone")) => <>[]IsUp(i)

\* The daemon of an entry that stays running comes to run the last edit of its config
\* (configchange.go:46).
IsUpToDate(i) == child[i].at = "up" => child[i].cfg = plane[i].ver
EditsArrive ==
  \A i \in Instances : <>[](AskedUp(i) /\ ~dir[i].halt) => <>[]IsUpToDate(i)

\* Stopping the supervisor stops the fleet, and then the supervisor (README.md:838).
StopEndsTheFleet == sup.cancelled ~> At("gone")

\* A drain for a replacement ends, whatever the daemons do (replace.go:27).
DrainsEnd == At("drain") ~> ~At("drain")

\* To its daemons the supervisor is one of those Daemon lets steer them: it moves nothing
\* but markers, and starts a daemon only where none is. They are alike: the first one.
First == INSTANCE Daemon WITH
  at <- IF child[1].at \in {"window", "up"} THEN child[1].at ELSE "down",
  leaving <- child[1].leaving, again <- child[1].again,
  stop <- dir[1].stop # "no", restart <- dir[1].restart # "no"
DaemonSpec == First!Spec
=============================================================================
