-------------------------------- MODULE Roll --------------------------------
(***************************************************************************)
(* `clankerbar supervise roll`: one child after another is asked to        *)
(* restart, and the next one is touched only when the last has said, in    *)
(* its own BEACON file, that it runs the version of the rolling binary.    *)
(* Around it the children restart, die and are started again, each         *)
(* removing and rewriting its beacon, the supervisor queues and withdraws  *)
(* restarts of its own, and an operator swaps the binary.                  *)
(***************************************************************************)
EXTENDS Integers, Sequences, FiniteSets

CONSTANTS
  Names,    \* the children
  Configs   \* what may be asked of this model

Versions == {"old", "target"}
Rows == [name : Names, placement : {"local", "remote"}, desired : {"running", "stopped"}, ok : BOOLEAN]
Roster == Seq(Rows)
ConfigsAssumption ==
  \A c \in Configs :
    /\ c.entries \in Roster /\ c.cached \in Roster
    /\ c.images \subseteq Versions /\ c.launch \subseteq Versions
    /\ c.answers \subseteq {"served", "unreachable", "notWired"}
    /\ c.swaps \in Nat /\ c.deaths \in Nat /\ c.others \subseteq {"config", "ctl"}
    /\ c.fails \in BOOLEAN /\ c.never \in BOOLEAN
ASSUME ConfigsAssumption

VARIABLES
  conf,     \* the member of Configs this behaviour is about
  launch,   \* the version at the fleet's launch path
  child,    \* by name: the daemon
  beacon,   \* by name: its BEACON file
  restart,  \* by name: who wrote the RESTART that waits there, or "none"
  pc,       \* where the roll stands
  entries,  \* the roster it read
  at,       \* the entry it is at
  rolled,   \* the children it has rolled
  asked,    \* the children it has asked to restart
  left      \* what the bounds leave: swaps and deaths

vars == <<conf, launch, child, beacon, restart, pc, entries, at, rolled, asked, left>>

NoBeacon == [kind |-> "absent", version |-> "", fresh |-> FALSE]
Torn == [kind |-> "torn", version |-> "", fresh |-> FALSE]
Whole(v) == [kind |-> "whole", version |-> v, fresh |-> TRUE]
Beacons == [kind : {"absent", "torn", "whole"}, version : Versions \cup {""}, fresh : BOOLEAN]
Children == [at : {"down", "window", "up"}, image : Versions \cup {""}, leaving : BOOLEAN, again : BOOLEAN,
             pen : {"idle", "removed", "created"}, dir : BOOLEAN]

DaemonOf(c) == INSTANCE Daemon WITH at <- child[c].at, leaving <- child[c].leaving, again <- child[c].again,
                                  stop <- FALSE, restart <- restart[c] /= "none"

\* A daemon that has long been up, one that is down, and one that never was.
Up(v) == [at |-> "up", image |-> v, leaving |-> FALSE, again |-> FALSE, pen |-> "idle", dir |-> TRUE]
Never == [at |-> "down", image |-> "", leaving |-> FALSE, again |-> FALSE, pen |-> "idle", dir |-> FALSE]

Init ==
  /\ conf \in Configs /\ launch \in conf.launch
  /\ child \in [Names -> {Up(v) : v \in conf.images} \cup IF conf.never THEN {Never} ELSE {}]
  /\ beacon = [c \in Names |-> IF child[c].dir THEN [Whole(child[c].image) EXCEPT !.fresh = FALSE] ELSE NoBeacon]
  /\ restart = [c \in Names |-> "none"]
  /\ pc = "preflight" /\ entries = <<>> /\ at = 1 /\ rolled = {} /\ asked = {}
  /\ left = [swaps |-> conf.swaps, deaths |-> conf.deaths]

----------------------------------------------------------------------------
(* The children, and who else steers them.                                 *)

Daemons == UNCHANGED <<conf, pc, entries, at, rolled, asked>>

\* The iteration boundary.
TakesRestart(c) ==
  /\ child[c].at = "up" /\ restart[c] /= "none"
  /\ restart' = [restart EXCEPT ![c] = "none"]
  /\ child' = [child EXCEPT ![c].leaving = TRUE, ![c].again = TRUE]
  /\ Daemons /\ UNCHANGED <<launch, beacon, left>>

\* The next image is whatever is at the launch path.
Image(c) == [child[c] EXCEPT !.at = "window", !.image = launch, !.leaving = FALSE, !.again = FALSE, !.pen = "idle", !.dir = TRUE]
ReExecs(c) ==
  /\ child[c].at = "up" /\ child[c].leaving /\ child[c].again
  /\ child' = [child EXCEPT ![c] = Image(c)]
  /\ Daemons /\ UNCHANGED <<launch, beacon, restart, left>>
Dies(c) ==
  /\ child[c].at /= "down" /\ left.deaths > 0
  /\ child' = [child EXCEPT ![c].at = "down", ![c].leaving = FALSE, ![c].again = FALSE, ![c].pen = "idle"]
  /\ left' = [left EXCEPT !.deaths = @ - 1]
  /\ Daemons /\ UNCHANGED <<launch, beacon, restart>>
\* The supervisor starts it, or starts it again.
Starts(c) ==
  /\ child[c].at = "down"
  /\ child' = [child EXCEPT ![c] = Image(c)]
  /\ Daemons /\ UNCHANGED <<launch, beacon, restart, left>>
Settles(c) ==
  /\ child[c].at = "window"
  /\ child' = [child EXCEPT ![c].at = "up"]
  /\ Daemons /\ UNCHANGED <<launch, beacon, restart, left>>

\* Remove, create, write: a reader may come between any two.
RemovesBeacon(c) ==
  /\ child[c].at = "up" /\ child[c].pen = "idle"
  /\ beacon' = [beacon EXCEPT ![c] = NoBeacon]
  /\ child' = [child EXCEPT ![c].pen = "removed"]
  /\ Daemons /\ UNCHANGED <<launch, restart, left>>
CreatesBeacon(c) ==
  /\ child[c].at = "up" /\ child[c].pen = "removed"
  /\ beacon' = [beacon EXCEPT ![c] = Torn]
  /\ child' = [child EXCEPT ![c].pen = "created"]
  /\ Daemons /\ UNCHANGED <<launch, restart, left>>
WritesBeacon(c) ==
  /\ child[c].at = "up" /\ child[c].pen = "created"
  /\ beacon' = [beacon EXCEPT ![c] = Whole(child[c].image)]
  /\ child' = [child EXCEPT ![c].pen = "idle"]
  /\ Daemons /\ UNCHANGED <<launch, restart, left>>

\* The supervisor queues a restart for an edit, or an operator's ctl asks for one.
OtherQueues(c) ==
  /\ restart[c] = "none" /\ child[c].at /= "down" /\ c \notin asked
  /\ \E who \in conf.others : restart' = [restart EXCEPT ![c] = who]
  /\ Daemons /\ UNCHANGED <<launch, child, beacon, left>>
\* The supervisor takes its own back, and only that: its config cannot be built, say.
Withdraws(c) ==
  /\ restart[c] = "config"
  /\ restart' = [restart EXCEPT ![c] = "none"]
  /\ Daemons /\ UNCHANGED <<launch, child, beacon, left>>

\* The operator installs what is to be rolled out before the roll.
Installs ==
  /\ pc = "preflight" /\ left.swaps > 0
  /\ launch' \in Versions \ {launch}
  /\ left' = [left EXCEPT !.swaps = @ - 1]
  /\ Daemons /\ UNCHANGED <<child, beacon, restart>>

----------------------------------------------------------------------------
(* The roll.                                                               *)

Rolls == UNCHANGED <<conf, launch, left>>

\* The version the launch path answers with; "" if it could not be asked.
PreflightPasses(probed) == probed = "target"
Preflight ==
  /\ pc = "preflight"
  /\ \E probed \in {launch} \cup IF conf.fails THEN {""} ELSE {} :
       pc' = IF PreflightPasses(probed) THEN "roster" ELSE "refused"
  /\ Rolls /\ UNCHANGED <<child, beacon, restart, entries, at, rolled, asked>>

\* The plane's roster, or the last one it is known to have served.
FetchRoster ==
  /\ pc = "roster"
  /\ \E answer \in conf.answers :
       IF answer = "served" \/ (answer = "unreachable" /\ conf.cached /= <<>>)
       THEN /\ entries' = (IF answer = "served" THEN conf.entries ELSE conf.cached)
            /\ pc' = "entry"
       ELSE pc' = "refused" /\ UNCHANGED entries
  /\ Rolls /\ UNCHANGED <<child, beacon, restart, at, rolled, asked>>

Finish ==
  /\ pc = "entry" /\ at > Len(entries)
  /\ pc' = "done"
  /\ Rolls /\ UNCHANGED <<child, beacon, restart, entries, at, rolled, asked>>

\* What it can read of a beacon: nothing unless it is whole.
ReadLocalBeacon(c) == IF beacon[c].kind = "whole" THEN {beacon[c]} ELSE {}
InScope(e) == e.placement = "local" /\ e.desired = "running" /\ e.ok
Already(c) == \E b \in ReadLocalBeacon(c) : b.version = "target"
\* An entry is rolled unless it is out of scope, on the target, or never ran.
Considers(e) == InScope(e) /\ ~Already(e.name) /\ child[e.name].dir
Consider ==
  /\ pc = "entry" /\ at <= Len(entries)
  /\ IF Considers(entries[at]) THEN pc' = "mark" /\ UNCHANGED at ELSE at' = at + 1 /\ UNCHANGED pc
  /\ Rolls /\ UNCHANGED <<child, beacon, restart, entries, rolled, asked>>

Current == entries[at].name
\* A RESTART that is pending already is left alone.
Asked(c) == /\ restart' = [restart EXCEPT ![c] = IF @ = "none" THEN "roll" ELSE @]
            /\ UNCHANGED child
\* A beacon of this very second still counts as fresh.
WriteRestartMarker ==
  /\ pc = "mark"
  /\ Asked(Current) /\ asked' = asked \cup {Current} /\ pc' = "wait"
  /\ \E slack \in BOOLEAN : beacon' = [beacon EXCEPT ![Current].fresh = @ /\ slack]
  /\ Rolls /\ UNCHANGED <<entries, at, rolled>>
CannotAsk ==
  /\ pc = "mark" /\ conf.fails
  /\ pc' = "halted"
  /\ Rolls /\ UNCHANGED <<child, beacon, restart, entries, at, rolled, asked>>

\* Slip: any beacon will do.
CameBackEarly(b) == TRUE
CameBack(b) == b.version = "target" /\ b.fresh
SeesItBack ==
  /\ pc = "wait" /\ \E b \in ReadLocalBeacon(Current) : CameBack(b)
  /\ rolled' = rolled \cup {Current} /\ at' = at + 1 /\ pc' = "entry"
  /\ Rolls /\ UNCHANGED <<child, beacon, restart, entries, asked>>

GivesUp == pc' = "halted" /\ UNCHANGED at
\* VerifyTimeout, or the operator's interrupt.
Halts ==
  /\ pc = "wait" /\ ~\E b \in ReadLocalBeacon(Current) : CameBack(b)
  /\ GivesUp
  /\ Rolls /\ UNCHANGED <<child, beacon, restart, entries, rolled, asked>>

----------------------------------------------------------------------------
Roll == Preflight \/ FetchRoster \/ Finish \/ Consider \/ WriteRestartMarker \/ CannotAsk \/ SeesItBack \/ Halts
Next ==
  \/ Roll \/ Installs
  \/ \E c \in Names :
       \/ TakesRestart(c) \/ ReExecs(c) \/ Dies(c) \/ Starts(c) \/ Settles(c)
       \/ RemovesBeacon(c) \/ CreatesBeacon(c) \/ WritesBeacon(c)
       \/ OtherQueues(c) \/ Withdraws(c)
Spec == Init /\ [][Next]_vars /\ WF_vars(Roll)

----------------------------------------------------------------------------
(* Properties.                                                             *)

Local(e) == e.placement = "local" /\ e.desired = "running"
NamesOf(list) == {list[i].name : i \in DOMAIN list}

\* The types of the variables.
TypeOK ==
  /\ conf \in Configs /\ launch \in Versions /\ entries \in Roster
  /\ child \in [Names -> Children] /\ beacon \in [Names -> Beacons]
  /\ restart \in [Names -> {"none", "roll", "config", "ctl"}]
  /\ pc \in {"preflight", "roster", "entry", "mark", "wait", "done", "halted", "refused"}
  /\ at \in 1 .. Len(entries) + 1 /\ rolled \subseteq asked /\ asked \subseteq NamesOf(entries)

\* However the children die and restart, a child is asked to restart only while every
\* one asked before it runs the target: a bad build costs one child at most, and a halt
\* leaves the rest of the fleet as it was (roll.go:25, "HALTS the roll").
OneAtATime == [][\A c \in asked' \ asked : \A d \in asked : child[d].image = "target"]_vars

\* Once it was asked, no restart of a child - the roll's or another's - brings up the
\* version the fleet was on before (roll.go:31).
NoneComesUpOnTheOld ==
  [][\A c \in asked : child[c].at /= "window" /\ child'[c].at = "window" => child'[c].image = "target"]_vars

\* The roll asks nothing of an entry the console placed elsewhere, stopped, or worded so
\* that the supervisor refuses it, nor of one that never ran: such a marker would wait
\* for a daemon that was never asked to roll (roll.go:236).
AsksOnlyTheFleet ==
  \A c \in asked : child[c].dir /\ \E i \in DOMAIN entries : entries[i].name = c /\ Local(entries[i]) /\ entries[i].ok

\* To a daemon the roll is an environment Daemon allows.
DaemonSpec == [][\A c \in Names : DaemonOf(c)!Next \/ UNCHANGED DaemonOf(c)!vars]_vars

\* A roll ends, whatever becomes of the children (roll.go:53).
RollEnds == <>(pc \in {"done", "halted", "refused"})

\* A roll that reports success leaves every child of the fleet that is up, and was up
\* before, on the target (roll.go:76), when nobody swaps the binary back and forth: a
\* beacon an earlier life of a child left is taken for what it runs (roll.go:139).
SuccessIsTheFleet ==
  pc = "done" => \A i \in DOMAIN entries :
    LET c == entries[i].name IN InScope(entries[i]) /\ child[c].at = "up" => child[c].image = "target"

----------------------------------------------------------------------------
(* What the runs check.                                                    *)

\* A roll asks one child after another, only those of the operator's fleet, and the next
\* only when the last runs the target; once asked, a child never comes up on the version
\* before; and every daemon is done by as Daemon allows.
RollIsCareful == []TypeOK /\ []AsksOnlyTheFleet /\ OneAtATime /\ NoneComesUpOnTheOld /\ DaemonSpec

----------------------------------------------------------------------------
(* What comments promise, and the code does not do.                        *)

\* A child that runs the target, and has said so, is skipped (roll.go:81).
AlreadyIsSkipped == [][\A c \in asked' \ asked : child[c].image = "old"]_vars

\* A RESTART that was found pending lands: while the roll waits for a child that is up
\* on the old version and not on its way out, there is a RESTART for it to take
\* (roll.go:238, "it will land").
PendingLands ==
  pc = "wait" /\ child[Current].at = "up" /\ child[Current].image = "old" /\ ~child[Current].leaving
    => restart[Current] /= "none"
=============================================================================
