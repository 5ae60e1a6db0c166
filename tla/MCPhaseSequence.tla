--------------------------- MODULE MCPhaseSequence ---------------------------
(* Small instances of PhaseSequence for TLC.                                *)
EXTENDS PhaseSequence

CONSTANTS t1, t2

FullSequence == <<"implement", "review", "fix", "verify">>
ReviewedSequence == <<"implement", "review", "fix">>
ShortSequence == <<"implement", "review">>

Clean == {<<"clean", "fine">>}

\* One drain, in which nothing goes wrong.
Calm ==
  [phases |-> ReviewedSequence, tasks |-> {t1}, ends |-> Clean, faults |-> {}, moves |-> {},
   maxIterations |-> 0, countsSpend |-> FALSE, maxTip |-> 1, maxRun |-> 1, maxRound |-> 1]

\* Review, fix and verify rounds with sessions that end well or die.
Rounds4 ==
  [Calm EXCEPT !.phases = FullSequence,
     !.ends = Clean \cup {<<"recovered", "fine">>, <<"dead", "fine">>},
     !.faults = {"read", "close", "park", "branch"}, !.moves = {"settle"},
     !.maxTip = 3, !.maxRun = 2, !.maxRound = 4]

\* One ending for every route out of a phase; handbacks fail, leases lapse and
\* are taken, the budget runs out.
Routes ==
  [Calm EXCEPT
     !.ends = Clean \cup {<<"capped", "limit">>, <<"failed", "limit">>,
                <<"failed", "transient">>, <<"failed", "odd">>, <<"failed", "fatal">>,
                <<"untrusted", "fine">>, <<"nostart", "launch">>},
     !.faults = {"release", "budget"}, !.moves = {"lapse", "take"},
     !.countsSpend = TRUE, !.maxRun = 2]

\* Sessions die, on either of two tasks.
Deaths2 ==
  [Calm EXCEPT !.phases = ShortSequence, !.tasks = {t1, t2}, !.maxRun = 5,
     !.ends = Clean \cup {<<"dead", "fine">>, <<"killed", "fine">>, <<"dead", "fatal">>}]

\* Handoff chains under a ceiling, with branches that were never pushed.
Handoffs ==
  [Calm EXCEPT !.ends = Clean \cup {<<"capped", "fine">>, <<"clean", "limit">>, <<"clean", "credit">>},
     !.faults = {"close"}, !.moves = {"handoff", "unpushed"},
     !.maxIterations = 3, !.maxTip = 2]

\* Claims the adapter missed, quiet MCP servers, no-code deliveries, salvage.
Quiet ==
  [Calm EXCEPT
     !.ends = Clean \cup {<<"nostart", "launch">>, <<"failed", "transient">>, <<"untrusted", "fine">>},
     !.faults = {"read", "branch"},
     !.moves = {"unseen", "nomcp", "nocode", "lapse", "salvage"}, !.maxTip = 2, !.maxRun = 2]

\* No usage limits, and everything else that sends a phase round again.
Rerun ==
  [Calm EXCEPT !.phases = FullSequence, !.moves = {"handoff"}, !.maxRun = 2, !.maxRound = 3,
     !.ends = Clean \cup {<<"dead", "fine">>, <<"failed", "transient">>, <<"failed", "odd">>,
                          <<"nostart", "preflight">>}]

MCConfigs == {Rounds4, Routes, Deaths2, Rerun, Handoffs, Quiet}
=============================================================================
