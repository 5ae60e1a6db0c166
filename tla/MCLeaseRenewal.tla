---------------------------- MODULE MCLeaseRenewal ----------------------------
(* Small instances of LeaseRenewal for TLC.                                  *)
EXTENDS LeaseRenewal

CONSTANTS t1, t2

\* More changes of the claim than the queue holds, while beats fail.
Changes ==
  [tasks |-> {t1, t2}, faults |-> {"beat", "unwired", "cancel"}, maxRun |-> 1, maxDeaths |-> 0]

\* The daemon or its supervisor dies; handbacks and streams fail, a task is claimed again.
Deaths == [tasks |-> {t1}, faults |-> {"handback", "cut"}, maxRun |-> 2, maxDeaths |-> 2]

\* As well, writes of CURRENT_CLAIM fail.
Writes == [tasks |-> {t1}, faults |-> {"write"}, maxRun |-> 1, maxDeaths |-> 1]

\* A record of one task is on disk when the other is claimed.
Stale == [tasks |-> {t1, t2}, faults |-> {}, maxRun |-> 1, maxDeaths |-> 1]

\* The beat stands down, and the session goes on.
PresenceConfigs ==
  {[tasks |-> {t1}, faults |-> {"beat", "unwired", "cancel"}, maxRun |-> 2, maxDeaths |-> 0]}

RenewalConfigs == {Changes, Deaths, Writes, Stale} \cup PresenceConfigs
WriteConfigs == {Writes}
=============================================================================
