----------------------------- MODULE MCControls -----------------------------
(* Small instances of Controls for TLC.                                     *)
EXTENDS Controls

Quiet == [markers |-> {}, writes |-> 0, edits |-> 0, broken |-> FALSE,
          crashes |-> 0, signals |-> 0, members |-> 0, fails |-> FALSE]

\* Restarts asked for twice of a daemon with a waiting session, and a crash.
Restarting == [Quiet EXCEPT !.markers = {"RESTART", "RESTART_NOW"}, !.writes = 3,
                            !.crashes = 1, !.members = 1]
\* Two members of a parallel panel wait while reloads of a moving file are asked for.
Reloading == [Quiet EXCEPT !.markers = {"RELOAD"}, !.writes = 2, !.edits = 2,
                           !.broken = TRUE, !.members = 2]
\* Soft stops, halts, signals and failing drains, across a crash.
Stopping == [Quiet EXCEPT !.markers = {"STOP", "HALT"}, !.writes = 3, !.crashes = 1,
                          !.signals = 1, !.members = 1, !.fails = TRUE]
\* All of them once.
Mixed == [Quiet EXCEPT !.markers = Markers, !.writes = 2, !.crashes = 1, !.signals = 1,
                       !.members = 1, !.edits = 1, !.fails = TRUE]

MarkersConfigs == {Restarting, Reloading, Stopping, Mixed}

\* For liveness: one request of each kind, with and without a waiting session.
LivenessConfigs ==
  {[Quiet EXCEPT !.markers = {"RESTART", "RESTART_NOW"}, !.writes = 1, !.members = 1],
   [Quiet EXCEPT !.markers = {"STOP", "RESTART"}, !.writes = 1, !.members = 1, !.fails = TRUE],
   [Quiet EXCEPT !.markers = {"STOP", "RESTART_NOW", "RELOAD"}, !.writes = 2]}

\* A soft stop that meets a restart; a signal that meets one.
StopConfigs == {[Quiet EXCEPT !.markers = {"STOP", "RESTART"}, !.writes = 2, !.members = 1]}
SignalConfigs == {[Quiet EXCEPT !.markers = {"RESTART_NOW"}, !.writes = 1, !.signals = 1]}
=============================================================================
