------------------------------- MODULE MCFleet -------------------------------
(***************************************************************************)
(* The fleet of one machine: the roll that replaces its daemons one at a   *)
(* time, and the supervisor that starts, stops and restarts them.  The two *)
(* are processes of their own and share nothing but the daemons' files,    *)
(* which either takes for Daemon's; a behaviour is about one of them.      *)
(***************************************************************************)
EXTENDS Roll

CONSTANTS None   \* a variable of a component this behaviour is not about

-----------------------------------------------------------------------------
(* Rolls: two children, and a third entry in one of them.                  *)

MCNames == {"one", "two"}
Entry(n) == [name |-> n, placement |-> "local", desired |-> "running", ok |-> TRUE]
Both == <<Entry("one"), Entry("two")>>
Base ==
  [entries |-> Both, cached |-> <<>>, images |-> {"old", "target"}, launch |-> {"target"},
   answers |-> {"served"}, swaps |-> 0, deaths |-> 0, others |-> {}, fails |-> FALSE, never |-> FALSE]
AtRest == [Base EXCEPT !.entries = <<>>]

\* Children that die, are restarted by others, or never ran, and an entry that is not of
\* the fleet; the supervisor and a ctl that queue restarts of their own; a binary swapped
\* before the roll.
RollConfigs ==
  {[Base EXCEPT !.deaths = 1, !.launch = Versions, !.fails = TRUE, !.never = TRUE, !.images = {"old"},
                !.answers = {"served", "unreachable", "notWired"}, !.cached = c,
                !.entries = <<e, Entry("two")>>] :
     e \in {Entry("one"), [Entry("one") EXCEPT !.placement = "remote"], [Entry("one") EXCEPT !.desired = "stopped"],
            [Entry("one") EXCEPT !.ok = FALSE]},
     c \in {<<>>, <<Entry("two")>>}}
  \cup {[Base EXCEPT !.others = {"config", "ctl"}], [Base EXCEPT !.swaps = 2, !.deaths = 1, !.images = {"target"}], AtRest}

-----------------------------------------------------------------------------
(* Supervisors: one entry, and two.                                        *)

Quiet ==
  [flips |-> 0, rows |-> {"running", "stopped"}, edits |-> 0, policies |-> 0, writes |-> 0,
   markers |-> {}, deaths |-> 0, replaces |-> 0, sessions |-> 0, claims |-> FALSE,
   outages |-> FALSE, fails |-> FALSE, timeouts |-> FALSE, stops |-> FALSE, top |-> 2, long |-> FALSE]

\* The console flips an entry between all its rows while its daemon dies and the plane,
\* the disk and the policy file come and go; the config is edited while everybody writes
\* markers and the console flips the entry.
EntryConfigs == {
  [Quiet EXCEPT !.flips = 2, !.rows = {"running", "stopped", "gone", "bad"}, !.deaths = 2, !.claims = TRUE, !.fails = TRUE,
                !.policies = 1, !.outages = TRUE, !.stops = TRUE],
  [Quiet EXCEPT !.flips = 2, !.deaths = 3, !.top = 3, !.long = TRUE, !.writes = 1, !.markers = {"HALT"}],
  [Quiet EXCEPT !.edits = 2, !.writes = 1, !.markers = {"STOP", "HALT", "RESTART"}, !.flips = 1, !.deaths = 1, !.fails = TRUE],
  [Quiet EXCEPT !.edits = 1, !.writes = 2, !.markers = {"STOP", "RESTART"}, !.flips = 1]}

\* Two daemons, a stop of the fleet and a replacement of the supervisor.
PairConfigs == {
  [Quiet EXCEPT !.replaces = 1, !.deaths = 1, !.flips = 1, !.stops = TRUE, !.timeouts = TRUE],
  [Quiet EXCEPT !.replaces = 2, !.fails = TRUE, !.timeouts = TRUE],
  [Quiet EXCEPT !.replaces = 1, !.sessions = 1, !.flips = 1, !.rows = {"running", "stopped", "remote"}]}

-----------------------------------------------------------------------------
VARIABLES
  part,   \* the component this behaviour is about
  \* those of Supervisor, by their names there; env is its conf and daemon its child
  env, plane, host, sup, inst, daemon, dir, past

Sup1 == INSTANCE Supervisor WITH Size <- 1, Configs <- EntryConfigs, conf <- env, child <- daemon
Sup2 == INSTANCE Supervisor WITH Size <- 2, Configs <- PairConfigs, conf <- env, child <- daemon

ASSUME SupervisorsAssumption == Sup1!ConfigsAssumption /\ Sup2!ConfigsAssumption

supervisorVars == <<env, plane, host, sup, inst, daemon, dir, past>>
fleetVars == <<part, vars, supervisorVars>>

NoSupervisor ==
  /\ env = None /\ plane = None /\ host = None /\ sup = None
  /\ inst = None /\ daemon = None /\ dir = None /\ past = None
\* No roll: the children are up, on the version nobody is about to replace.
NoRoll == Init /\ conf = AtRest /\ child = [c \in Names |-> Up("target")]

FleetInit ==
  \/ part = "roll" /\ Init /\ conf # AtRest /\ NoSupervisor
  \/ part = "entry" /\ Sup1!Init /\ NoRoll
  \/ part = "pair" /\ Sup2!Init /\ NoRoll

RollStep == part = "roll" /\ Next /\ UNCHANGED <<part, supervisorVars>>
EntryStep == part = "entry" /\ Sup1!Next /\ UNCHANGED <<part, vars>>
PairStep == part = "pair" /\ Sup2!Next /\ UNCHANGED <<part, vars>>

FleetNext == RollStep \/ EntryStep \/ PairStep

FleetSpec == FleetInit /\ [][FleetNext]_fleetVars

-----------------------------------------------------------------------------
(* Properties                                                              *)

\* A daemon is started for an entry the last roster wants and never beside another, and
\* what a daemon held when it died is handed back before the next one starts, but for a
\* death during the drain of a replacement (replace.go:299); to its daemons the supervisor
\* steers as Daemon allows (supervisor.go:934, 1145, 1355; handback.go:40).
StartsAreSound ==
  /\ [][part = "entry" => Sup1!WantedStarts /\ Sup1!StartsAlone /\ Sup1!HandsBackFirst]_fleetVars
  /\ [][part = "pair" => Sup2!WantedStarts /\ Sup2!StartsAlone]_fleetVars
  /\ [][part = "entry" => Sup1!First!Next \/ UNCHANGED Sup1!First!vars]_fleetVars

\* The supervisor leaves nobody behind, drains once per REPLACE, takes its own restart
\* back from an entry it stops, schedules nothing for a row it says is down, and, where no
\* policy file is moved away (status.go:495), its log and its report agree (replace.go:24,
\* 183; configchange.go:94; status.go:434).
StopsAreSound ==
  /\ [](part = "entry" =>
          /\ Sup1!TypeOK /\ Sup1!LeavesNobodyBehind /\ Sup1!StopsLeaveNoRestart /\ Sup1!DownRowsScheduleNothing)
  /\ [](part = "pair" =>
          /\ Sup2!LeavesNobodyBehind /\ Sup2!DrainsAreAskedFor /\ Sup2!StopsLeaveNoRestart
          /\ Sup2!DownRowsScheduleNothing /\ Sup2!ListingAgrees)
=============================================================================
