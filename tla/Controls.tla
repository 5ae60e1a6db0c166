------------------------------ MODULE Controls ------------------------------
(***************************************************************************)
(* The control markers of a `clankerbar run` daemon: STOP, HALT, RESTART,  *)
(* RESTART_NOW and RELOAD in its state directory, written by whoever has a *)
(* shell there and read by the run loop at the head of every iteration, by *)
(* everything of the run that waits, and, RESTART_NOW, by a goroutine of   *)
(* its own; the sweeps of STOP at both ends of a run; and the re-exec that *)
(* a restart ends in.                                                      *)
(*                                                                         *)
(* What a drain does between its start and its end is module RunLoop's.    *)
(***************************************************************************)
EXTENDS Integers, FiniteSets

CONSTANT Configs   \* bounds: the environments looked at, see ConfigsAssumption

Markers == {"STOP", "HALT", "RESTART", "RESTART_NOW", "RELOAD"}

\* The markers that may be written and how often all in all; edits of the config
\* file, and whether one may be broken; crashes and signals; the panel members that
\* may wait at once; whether a drain or the exec may fail.
ASSUME ConfigsAssumption ==
  \A c \in Configs :
    /\ c.markers \subseteq Markers /\ c.writes \in Nat /\ c.edits \in Nat /\ c.broken \in BOOLEAN
    /\ c.crashes \in Nat /\ c.signals \in Nat /\ c.members \in Nat /\ c.fails \in BOOLEAN

VARIABLES
  conf,   \* the member of Configs this behaviour is about
  mark,   \* the markers in the state directory
  file,   \* the config file: its version, and whether that loads
  run,    \* the process: where Run is, and the fields it decides by
  w,      \* per waiter (the loop's own idle poll, a panel member): where its wait is
  watch,  \* the goroutine of watchRestartNow
  past    \* what happened, for the properties

vars == <<conf, mark, file, run, w, watch, past>>

Main == 0
Waiters == 0 .. conf.members
Members == 1 .. conf.members

\* Heads are the reads at the top of an iteration, Bounds those after a drain.
Heads == {"top", "halt", "stop", "restart", "now", "nowrm", "reload", "load"}
Bounds == {"bhalt", "bstop"}
RunPCs == {"down", "boot"} \cup Heads \cup Bounds \cup
          {"gate", "idle", "drain", "shutdown", "sweep", "return"}
Live == RunPCs \ {"down", "boot"}

\* A pass of a waiter over the markers, under controlMu.
Passes == {"stop", "halt", "restart", "now", "nowrm", "reload", "reloadrm", "load"}
Waits == [pc : {"out", "free", "stopped"} \cup Passes, limit : BOOLEAN]
NoWait == [pc |-> "out", limit |-> FALSE]

Files == [version : Nat, good : BOOLEAN]
Runs == [pc : RunPCs, again : BOOLEAN, cancelled : BOOLEAN, failed : BOOLEAN, cfg : Nat]
Pasts == [asked : Nat, execs : Nat, reloads : Nat, loads : Nat, owed : Nat, skipped : Nat,
          stop : BOOLEAN, signal : BOOLEAN, wrote : Nat, crashed : Nat, signalled : Nat]

TypeOK ==
  /\ conf \in Configs
  /\ mark \subseteq Markers
  /\ file \in Files
  /\ run \in Runs
  /\ w \in [Waiters -> Waits]
  /\ watch \in {"off", "poll", "saw"}
  /\ past \in Pasts

DownRun == [pc |-> "down", again |-> FALSE, cancelled |-> FALSE, failed |-> FALSE, cfg |-> 0]

Init ==
  /\ conf \in Configs
  /\ mark = {}
  /\ file = [version |-> 1, good |-> TRUE]
  /\ run = DownRun
  /\ w = [t \in Waiters |-> NoWait]
  /\ watch = "off"
  /\ past = [asked |-> 0, execs |-> 0, reloads |-> 0, loads |-> 0, owed |-> 0, skipped |-> 0,
             stop |-> FALSE, signal |-> FALSE, wrote |-> 0, crashed |-> 0, signalled |-> 0]

At(pc) == run.pc = pc
Goto(pc) == run' = [run EXCEPT !.pc = pc]
Moves(from, to) == At(from) /\ Goto(to)

(***************************************************************************)
(* The process and its image                                               *)
(***************************************************************************)
\* A process that starts, or is replaced by its own binary, loads the file first.
Image == [DownRun EXCEPT !.pc = "boot", !.cfg = file.version]

Starts ==
  /\ At("down") /\ file.good
  /\ run' = Image
  /\ past' = [past EXCEPT !.stop = FALSE, !.signal = FALSE]
  /\ UNCHANGED <<conf, mark, file, w, watch>>

\* Slip: a STOP found at start-up is left for the loop.
SweepsNothing ==
  /\ Moves("boot", "top")
  /\ watch' = "poll"
  /\ UNCHANGED <<conf, mark, file, w, past>>

\* A STOP found at start-up was left by a previous run: consumed without stopping.
SweepsLeftover ==
  /\ Moves("boot", "top")
  /\ mark' = mark \ {"STOP"}
  /\ watch' = "poll"
  /\ UNCHANGED <<conf, file, w, past>>

\* Run's deferred calls: the last beacons, while the watcher still watches, ...
ShutsDown ==
  /\ At("shutdown")
  /\ run' = [run EXCEPT !.pc = "sweep", !.cancelled = TRUE]
  /\ UNCHANGED <<conf, mark, file, w, watch, past>>
\* ... then cancelRun, and the STOP nobody consumed.
SweepPendingStop ==
  /\ Moves("sweep", "return")
  /\ mark' = mark \ {"STOP"}
  /\ UNCHANGED <<conf, file, w, watch, past>>

\* Slip: every run that ends without an error is replaced.
RestartsUnasked == ~run.failed

\* Whether the process is replaced: a restart was asked for and Run had no error.
Restarts == run.again /\ ~run.failed

\* The goroutines end with the image, wherever they are.
EndsImage == w' = [t \in Waiters |-> NoWait] /\ watch' = "off"

\* An exec into a config that does not load ends as a start that does not.
ReExecs ==
  /\ At("return") /\ Restarts /\ file.good
  /\ run' = Image
  /\ past' = [past EXCEPT !.execs = @ + 1]
  /\ EndsImage
  /\ UNCHANGED <<conf, mark, file>>
Exits ==
  /\ At("return") /\ (Restarts => conf.fails \/ ~file.good)
  /\ run' = DownRun
  /\ past' = [past EXCEPT !.stop = FALSE, !.signal = FALSE]
  /\ EndsImage
  /\ UNCHANGED <<conf, mark, file>>

(***************************************************************************)
(* The head of an iteration                                                *)
(***************************************************************************)
ReadsCancelled ==
  /\ At("top")
  /\ Goto(IF run.cancelled THEN "shutdown" ELSE "halt")
  /\ UNCHANGED <<conf, mark, file, w, watch, past>>

\* HALT ends the run and stays: it is the operator's note.
ReadsHalt ==
  /\ At("halt")
  /\ Goto(IF "HALT" \in mark THEN "shutdown" ELSE "stop")
  /\ UNCHANGED <<conf, mark, file, w, watch, past>>

ReadsStop ==
  /\ At("stop")
  /\ Goto(IF "STOP" \in mark THEN "shutdown" ELSE "restart")
  /\ mark' = mark \ {"STOP"}
  /\ UNCHANGED <<conf, file, w, watch, past>>

ReadsRestart ==
  /\ At("restart")
  /\ run' = IF "RESTART" \in mark THEN [run EXCEPT !.pc = "shutdown", !.again = TRUE]
                                  ELSE [run EXCEPT !.pc = "now"]
  /\ mark' = mark \ {"RESTART"}
  /\ UNCHANGED <<conf, file, w, watch, past>>

\* The watcher may be about to remove the same marker.
ReadsNow ==
  /\ At("now")
  /\ Goto(IF "RESTART_NOW" \in mark THEN "nowrm" ELSE "reload")
  /\ UNCHANGED <<conf, mark, file, w, watch, past>>
RemovesNow ==
  /\ At("nowrm")
  /\ run' = [run EXCEPT !.pc = "shutdown", !.again = TRUE]
  /\ mark' = mark \ {"RESTART_NOW"}
  /\ UNCHANGED <<conf, file, w, watch, past>>

\* The marker goes before the file is read, so that a later edit can be announced.
TakesReload == "RELOAD" \in mark /\ mark' = mark \ {"RELOAD"}

ReadsReload ==
  /\ At("reload")
  /\ \/ TakesReload /\ Goto("load")
     \/ "RELOAD" \notin mark /\ Goto("gate") /\ UNCHANGED mark
  /\ UNCHANGED <<conf, file, w, watch, past>>

\* A file that does not load keeps the config in force.
ApplyReload(pc) ==
  /\ run' = [run EXCEPT !.pc = pc, !.cfg = IF file.good THEN file.version ELSE @]
  /\ past' = [past EXCEPT !.loads = @ + 1, !.skipped = IF file.good THEN @ ELSE file.version]

LoadsAtHead ==
  /\ At("load") /\ ApplyReload("gate")
  /\ UNCHANGED <<conf, mark, file, w, watch>>

\* A ceiling or a refused poll ends the run, no work makes it wait, work drains.
Gates ==
  /\ At("gate")
  /\ \/ Goto("idle") /\ w' = [w EXCEPT ![Main].pc = "free"]
     \/ Goto("drain") /\ UNCHANGED w
     \/ /\ conf.fails
        /\ \E bad \in BOOLEAN : run' = [run EXCEPT !.pc = "shutdown", !.failed = bad]
        /\ UNCHANGED w
  /\ UNCHANGED <<conf, mark, file, watch, past>>

(***************************************************************************)
(* A wait: waitResponsive and consumeWaitControls                          *)
(***************************************************************************)
Waiting(t) == IF t = Main THEN At("idle") ELSE At("drain")

\* controlMu: the pass over the markers of one waiter at a time.
ControlMuFree == \A t \in Waiters : w[t].pc \notin Passes

\* A session of the drain waits out a limit (HALT ends that too) or a transient error.
MemberWaits(t) ==
  /\ Waiting(t) /\ t # Main /\ w[t].pc = "out"
  /\ \E limit \in BOOLEAN : w' = [w EXCEPT ![t] = [pc |-> "free", limit |-> limit]]
  /\ UNCHANGED <<conf, mark, file, run, watch, past>>

PassBegins(t) ==
  /\ w[t].pc = "free" /\ ControlMuFree
  /\ w' = [w EXCEPT ![t].pc = "stop"]
  /\ UNCHANGED <<conf, mark, file, run, watch, past>>

WaitTo(t, pc) == w' = [w EXCEPT ![t].pc = pc]

\* Slip: the STOP is consumed and the wait goes on.
PassStopForgets(t) ==
  /\ w[t].pc = "stop"
  /\ WaitTo(t, "halt")
  /\ mark' = mark \ {"STOP"}
  /\ UNCHANGED <<conf, file, run, watch, past>>

PassStop(t) ==
  /\ w[t].pc = "stop"
  /\ WaitTo(t, IF "STOP" \in mark THEN "stopped" ELSE "halt")
  /\ mark' = mark \ {"STOP"}
  /\ UNCHANGED <<conf, file, run, watch, past>>
PassHalt(t) ==
  /\ w[t].pc = "halt"
  /\ WaitTo(t, IF w[t].limit /\ "HALT" \in mark THEN "stopped" ELSE "restart")
  /\ UNCHANGED <<conf, mark, file, run, watch, past>>

PassRestart(t) ==
  /\ w[t].pc = "restart"
  /\ WaitTo(t, IF "RESTART" \in mark THEN "stopped" ELSE "now")
  /\ mark' = mark \ {"RESTART"}
  /\ run' = [run EXCEPT !.again = @ \/ "RESTART" \in mark]
  /\ UNCHANGED <<conf, file, watch, past>>
PassNow(t) ==
  /\ w[t].pc = "now"
  /\ WaitTo(t, IF "RESTART_NOW" \in mark THEN "nowrm" ELSE "reload")
  /\ UNCHANGED <<conf, mark, file, run, watch, past>>
PassRemovesNow(t) ==
  /\ w[t].pc = "nowrm"
  /\ WaitTo(t, "stopped")
  /\ mark' = mark \ {"RESTART_NOW"}
  /\ run' = [run EXCEPT !.again = TRUE]
  /\ UNCHANGED <<conf, file, watch, past>>
\* The read and the removal of RELOAD are two steps: only controlMu makes them one.
PassReload(t) ==
  /\ w[t].pc = "reload"
  /\ WaitTo(t, IF "RELOAD" \in mark THEN "reloadrm" ELSE "free")
  /\ UNCHANGED <<conf, mark, file, run, watch, past>>
PassRemovesReload(t) ==
  /\ w[t].pc = "reloadrm"
  /\ WaitTo(t, "load")
  /\ mark' = mark \ {"RELOAD"}
  /\ UNCHANGED <<conf, file, run, watch, past>>
PassLoads(t) ==
  /\ w[t].pc = "load"
  /\ WaitTo(t, "free")
  /\ ApplyReload(run.pc)
  /\ UNCHANGED <<conf, mark, file, watch>>

Pass(t) ==
  \/ PassBegins(t) \/ PassStop(t) \/ PassHalt(t) \/ PassRestart(t) \/ PassNow(t)
  \/ PassRemovesNow(t) \/ PassReload(t) \/ PassRemovesReload(t)
  \/ PassLoads(t)

\* The time is over, or the context is: only the latter stops.
WaitEnds(t) ==
  /\ w[t].pc = "free"
  /\ WaitTo(t, IF run.cancelled THEN "stopped" ELSE "out")
  /\ UNCHANGED <<conf, mark, file, run, watch, past>>

IdleEnds ==
  /\ At("idle") /\ w[Main].pc \in {"out", "stopped"}
  /\ Goto(IF w[Main].pc = "stopped" THEN "shutdown" ELSE "top")
  /\ w' = [w EXCEPT ![Main] = NoWait]
  /\ UNCHANGED <<conf, mark, file, watch, past>>

(***************************************************************************)
(* The end of a drain and the task boundary after it                       *)
(***************************************************************************)
\* A stop any session of it was told, or the cancelled context, ends the run; so
\* does the last target whose harness fails.
DrainStops == run.cancelled \/ \E t \in Members : w[t].pc = "stopped"

DrainEnds ==
  /\ At("drain") /\ \A t \in Members : w[t].pc \in {"out", "stopped"}
  /\ \/ Goto(IF DrainStops THEN "shutdown" ELSE "bhalt")
     \/ conf.fails /\ run' = [run EXCEPT !.pc = "shutdown", !.failed = TRUE]
  /\ w' = [t \in Waiters |-> NoWait]
  /\ UNCHANGED <<conf, mark, file, watch, past>>

\* Both reads are skipped when the context is cancelled: the head reports that.
BoundaryHalt ==
  /\ At("bhalt")
  /\ Goto(IF run.cancelled THEN "top" ELSE IF "HALT" \in mark THEN "shutdown" ELSE "bstop")
  /\ UNCHANGED <<conf, mark, file, w, watch, past>>
BoundaryStop ==
  /\ At("bstop")
  /\ Goto(IF "STOP" \in mark THEN "shutdown" ELSE "top")
  /\ mark' = mark \ {"STOP"}
  /\ UNCHANGED <<conf, file, w, watch, past>>

(***************************************************************************)
(* The watcher of RESTART_NOW                                              *)
(***************************************************************************)
WatchSees ==
  /\ watch = "poll" /\ "RESTART_NOW" \in mark
  /\ watch' = "saw"
  /\ UNCHANGED <<conf, mark, file, run, w, past>>

\* Consumed first: a crash before the re-exec must not leave it for the next start.
WatchActs ==
  /\ watch = "saw"
  /\ mark' = mark \ {"RESTART_NOW"}
  /\ run' = [run EXCEPT !.again = TRUE, !.cancelled = TRUE]
  /\ watch' = "off"
  /\ UNCHANGED <<conf, file, w, past>>
WatchEnds ==
  /\ watch = "poll" /\ run.cancelled
  /\ watch' = "off"
  /\ UNCHANGED <<conf, mark, file, run, w, past>>

(***************************************************************************)
(* The operator                                                            *)
(***************************************************************************)
\* `ctl restart`, `ctl restart --now`, `ctl reload`: one pending request is enough.
Ctl(k) ==
  /\ k \in {"RESTART", "RESTART_NOW", "RELOAD"} /\ k \in conf.markers
  /\ past.wrote < conf.writes
  /\ mark' = mark \cup {k}
  /\ past' = [past EXCEPT !.wrote = @ + 1,
                !.asked = @ + (IF k # "RELOAD" /\ k \notin mark THEN 1 ELSE 0),
                !.reloads = @ + (IF k = "RELOAD" /\ k \notin mark THEN 1 ELSE 0),
                !.owed = IF k = "RELOAD" THEN file.version ELSE @]
  /\ UNCHANGED <<conf, file, run, w, watch>>

\* A shell, or the supervisor, writes STOP or HALT.
Touch(k) ==
  /\ k \in {"STOP", "HALT"} \cap conf.markers /\ past.wrote < conf.writes
  /\ mark' = mark \cup {k}
  /\ past' = [past EXCEPT !.wrote = @ + 1, !.stop = @ \/ (k = "STOP" /\ run.pc \in Live)]
  /\ UNCHANGED <<conf, file, run, w, watch>>
DeletesHalt ==
  /\ "HALT" \in mark /\ mark' = mark \ {"HALT"}
  /\ UNCHANGED <<conf, file, run, w, watch, past>>

EditsConfig ==
  /\ file.version <= conf.edits
  /\ \E good \in {TRUE, ~conf.broken} : file' = [version |-> file.version + 1, good |-> good]
  /\ UNCHANGED <<conf, mark, run, w, watch, past>>

\* Ctrl-C or SIGTERM; a kill.
Interrupt ==
  /\ run.pc \in Live /\ past.signalled < conf.signals
  /\ run' = [run EXCEPT !.cancelled = TRUE]
  /\ past' = [past EXCEPT !.signal = TRUE, !.signalled = @ + 1]
  /\ UNCHANGED <<conf, mark, file, w, watch>>
Crash ==
  /\ ~At("down") /\ past.crashed < conf.crashes
  /\ run' = DownRun
  /\ past' = [past EXCEPT !.stop = FALSE, !.signal = FALSE, !.crashed = @ + 1]
  /\ EndsImage
  /\ UNCHANGED <<conf, mark, file>>

Loop ==
  \/ SweepsLeftover \/ ShutsDown \/ SweepPendingStop
  \/ ReadsCancelled \/ ReadsHalt \/ ReadsStop \/ ReadsRestart \/ ReadsNow \/ RemovesNow
  \/ ReadsReload \/ LoadsAtHead \/ Gates \/ IdleEnds \/ DrainEnds \/ BoundaryHalt \/ BoundaryStop
Ends == ReExecs \/ Exits
Watcher == WatchSees \/ WatchActs \/ WatchEnds
Outside == Starts \/ (\E k \in Markers : Ctl(k) \/ Touch(k)) \/ DeletesHalt \/ EditsConfig
           \/ Interrupt \/ Crash

Next ==
  \/ Loop \/ Ends \/ Watcher \/ Outside
  \/ \E t \in Waiters : MemberWaits(t) \/ Pass(t) \/ WaitEnds(t)

Spec == Init /\ [][Next]_vars

\* The process runs and its ticker ticks.  A wait runs out or sees the context end,
\* and a drain ends: strongly, since the one goes over the markers again and again
\* until it does and the other has only so many waits in it (RunLoop).
FairSpec ==
  /\ Spec
  /\ WF_vars(Loop) /\ WF_vars(Ends) /\ WF_vars(Watcher) /\ SF_vars(DrainEnds)
  /\ \A t \in UNION {0 .. c.members : c \in Configs} :
       WF_vars(t \in Waiters /\ Pass(t)) /\ SF_vars(t \in Waiters /\ WaitEnds(t))

(***************************************************************************)
(* Properties                                                              *)
(***************************************************************************)
\* However the loop, its waiters and the watcher race for a marker, and whatever
\* crashes, the process is replaced at most once for each restart that was asked for
\* ("so a crash between here and the re-exec cannot leave a surprise-restart behind
\* for the next boot", control.go:73-75).
ExecsAreAsked == past.execs <= past.asked

\* One RELOAD is applied once, on one goroutine (loop.go:8207-8210, 8242-8245).
LoadsAreAsked == past.loads <= past.reloads

\* An edit announced by `ctl reload` is in force, or was refused for not loading, or
\* the request still stands: none is lost between the marker and the file.
ReloadAppliesTheEdit ==
  \/ "RELOAD" \in mark
  \/ run.pc \in {"down", "boot", "load"} \/ \E t \in Waiters : w[t].pc = "load"
  \/ run.cfg >= past.owed \/ past.skipped >= past.owed

\* A marker left by a previous run never stops this one: a run consumes STOP as its
\* own only if it was written in its lifetime (loop.go:735-743, CLA-491).
OwnStop == past.stop
NoGhostStops ==
  [][("STOP" \in mark /\ "STOP" \notin mark' /\ ~At("boot")) => OwnStop]_vars

\* A STOP of a live run is there until the run ends: it stops the run or is swept by
\* one that ends, and a reload, a wait or a restart never drops it on the way.
StopStands == past.stop =>
  \/ "STOP" \in mark
  \/ run.pc \in {"boot", "shutdown", "sweep", "return"}
  \/ \E t \in Waiters : w[t].pc = "stopped"
  \/ run.again \/ past.execs > 0

\* A RESTART or a RESTART_NOW that finds the daemon up ends the run, whatever it is
\* in the middle of, and so does a STOP where nothing else is asked.
EndsRun == run.pc \in {"down", "boot"}
RestartAsked == "RESTART" \in mark \/ "RESTART_NOW" \in mark
StopAsked == "STOP" \in mark
RestartEndsRun == RestartAsked /\ ~EndsRun ~> EndsRun
StopEndsRun == StopAsked /\ ~EndsRun ~> EndsRun

\* The daemon is what the supervisor takes it for.
Abstract == INSTANCE Daemon WITH
  at <- IF At("down") THEN "down" ELSE IF At("boot") THEN "window" ELSE "up",
  leaving <- run.pc \in {"shutdown", "sweep", "return"} \/ run.again \/ run.cancelled
             \/ \E t \in Waiters : w[t].pc = "stopped",
  again <- run.again,
  stop <- "STOP" \in mark,
  restart <- "RESTART" \in mark
ImplementsDaemon == Abstract!Spec
LeavingEnds == Abstract!LeavingEnds

(***************************************************************************)
(* What the runs check                                                     *)
(***************************************************************************)
\* Every marker is honoured once: a restart or a reload is acted on for a request of its
\* own, an edit announced is in force or refused, a STOP stands until its run ends and
\* none from an earlier run stops this one.
MarkersAreHonoured ==
  /\ []TypeOK /\ []ExecsAreAsked /\ []LoadsAreAsked /\ []ReloadAppliesTheEdit /\ []StopStands
  /\ NoGhostStops

(***************************************************************************)
(* What comments promise, and the code does not do                         *)
(***************************************************************************)
\* "The marker's intent is satisfied by ANY exit: the daemon is down either way"
\* (loop.go:1129-1130): a live run told to stop is not followed by another image.
StopMeansDown == [][ReExecs => ~past.stop]_vars

\* "Ctrl-C / SIGTERM cancels the context; the loop finishes the current iteration's
\* cleanup and stops" (main.go:35-36).
SignalMeansDown == [][ReExecs => ~past.signal]_vars
=============================================================================
