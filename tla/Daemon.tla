------------------------------- MODULE Daemon -------------------------------
(***************************************************************************)
(* What a `clankerbar run` daemon promises whoever steers it through its   *)
(* state directory, and the supervisor before all: a start-up window in    *)
(* which a STOP is thrown away, then a life in which STOP and RESTART are  *)
(* taken, and an end that is a re-exec only when a restart was asked for.  *)
(* Controls implements it.                                                 *)
(***************************************************************************)
VARIABLES
  at,       \* "down", "window" (before the leftover STOP is swept) or "up"
  leaving,  \* the run has begun to end
  again,    \* ... and will be re-executed
  stop,     \* the STOP marker is there
  restart   \* the RESTART marker is there

vars == <<at, leaving, again, stop, restart>>

TypeOK ==
  /\ at \in {"down", "window", "up"}
  /\ leaving \in BOOLEAN /\ again \in BOOLEAN /\ stop \in BOOLEAN /\ restart \in BOOLEAN

Init ==
  /\ at = "down" /\ ~leaving /\ ~again
  /\ stop \in BOOLEAN /\ restart \in BOOLEAN

Starts ==
  /\ at = "down" /\ at' = "window"
  /\ UNCHANGED <<leaving, again, stop, restart>>

\* A STOP found here predates the process: it is consumed without stopping.
Settles ==
  /\ at = "window" /\ at' = "up" /\ stop' = FALSE
  /\ UNCHANGED <<leaving, again, restart>>

\* Taking a marker commits the run to end.
TakesStop ==
  /\ at = "up" /\ stop /\ stop' = FALSE /\ leaving' = TRUE
  /\ UNCHANGED <<at, again, restart>>
TakesRestart ==
  /\ at = "up" /\ restart /\ restart' = FALSE /\ leaving' = TRUE /\ again' = TRUE
  /\ UNCHANGED <<at, stop>>

\* A ceiling, an error, HALT, a signal or RESTART_NOW ends the run.
Leaves ==
  /\ at = "up" /\ leaving' = TRUE /\ again' \in {again, TRUE}
  /\ UNCHANGED <<at, stop, restart>>

Sweeps ==
  /\ at = "up" /\ leaving /\ stop' = FALSE
  /\ UNCHANGED <<at, leaving, again, restart>>

Exits ==
  /\ at = "up" /\ leaving /\ at' = "down" /\ leaving' = FALSE /\ again' = FALSE
  /\ UNCHANGED <<stop, restart>>
ReExecs ==
  /\ at = "up" /\ leaving /\ again /\ at' = "window" /\ leaving' = FALSE /\ again' = FALSE
  /\ UNCHANGED <<stop, restart>>

Dies ==
  /\ at # "down" /\ at' = "down" /\ leaving' = FALSE /\ again' = FALSE
  /\ UNCHANGED <<stop, restart>>

\* Whoever steers it writes and withdraws markers.
Steers ==
  /\ stop' \in BOOLEAN /\ restart' \in BOOLEAN
  /\ UNCHANGED <<at, leaving, again>>

Next ==
  \/ Starts \/ Settles \/ TakesStop \/ TakesRestart \/ Leaves \/ Sweeps
  \/ Exits \/ ReExecs \/ Dies \/ Steers

Spec == Init /\ [][Next]_vars

\* A run that took a marker, or that is ending for another reason, ends.
LeavingEnds == leaving ~> ~leaving
=============================================================================
