------------------------------ MODULE RollProofs ------------------------------
(***************************************************************************)
(* The safety of a roll, for any children, any roster, and any deaths,     *)
(* swaps and restarts around it.  Inv is inductive.  What it adds to the   *)
(* properties: past the pre-flight every start brings up the target; what  *)
(* was rolled runs it; and the beacon of the child at hand, which did not  *)
(* say target when the roll looked, says so only if the child runs it.     *)
(***************************************************************************)
EXTENDS Roll, TLAPS

\* A daemon that is not down has an image; one that is down is not on its way to one.
HasImage ==
  \A c \in Names : /\ child[c].at /= "down" => child[c].image \in Versions
                   /\ child[c].at = "down" => child[c].leaving = FALSE /\ child[c].again = FALSE

\* Whatever is started from here on is the target.
LaunchIsTarget == pc \notin {"preflight", "refused"} => launch = "target"

NothingYet == pc \in {"preflight", "roster", "refused"} => asked = {} /\ at = 1

RolledRunTarget == \A d \in rolled : child[d].image = "target"

\* Nobody but the child at hand was asked and is not rolled.
AskedAreRolled ==
  /\ pc \notin {"wait", "halted"} => asked \subseteq rolled
  /\ pc = "wait" => asked \subseteq rolled \cup {Current}

\* A beacon that said something else, or nothing, says target only of a child that runs it.
BeaconTells ==
  pc \in {"mark", "wait"} =>
    (beacon[Current].kind = "whole" /\ beacon[Current].version = "target" => child[Current].image = "target")

Considered ==
  pc \in {"mark", "wait"} =>
    /\ at \in 1 .. Len(entries) /\ InScope(entries[at]) /\ child[Current].dir
    /\ pc = "wait" => Current \in asked

Inv ==
  /\ TypeOK /\ HasImage /\ LaunchIsTarget /\ NothingYet /\ RolledRunTarget
  /\ AskedAreRolled /\ BeaconTells /\ Considered /\ AsksOnlyTheFleet

-----------------------------------------------------------------------------
LEMMA ElementIsTyped ==
  ASSUME NEW S, NEW list \in Seq(S), NEW i \in 1 .. Len(list)
  PROVE  list[i] \in S /\ i \in DOMAIN list
  OBVIOUS

LEMMA EntryIsTyped ==
  ASSUME entries \in Roster, NEW i \in 1 .. Len(entries)
  PROVE  entries[i].name \in Names /\ entries[i].name \in NamesOf(entries)
<1>1. entries[i] \in Rows /\ i \in DOMAIN entries
  BY ElementIsTyped DEF Roster
<1> QED
  BY <1>1 DEF NamesOf, Rows

LEMMA RosterLength ==
  ASSUME NEW list \in Roster
  PROVE  Len(list) \in Nat
  BY DEF Roster

LEMMA UpIsTyped ==
  ASSUME NEW v \in Versions
  PROVE  Up(v) \in Children /\ Up(v).image = v /\ Up(v).dir /\ Up(v).leaving = FALSE /\ Up(v).again = FALSE
  BY DEF Up, Children

LEMMA NeverIsTyped == Never \in Children /\ ~Never.dir /\ Never.at = "down" /\ Never.leaving = FALSE /\ Never.again = FALSE
  BY DEF Never, Children

\* The invariant holds before the roll has asked any child.
THEOREM InitInv == Init => Inv
<1> SUFFICES ASSUME Init PROVE Inv
  OBVIOUS
<1>1. conf \in Configs /\ launch \in Versions /\ conf.images \subseteq Versions
  <2>1. conf \in Configs /\ launch \in conf.launch
    BY DEF Init
  <2>2. conf.launch \subseteq Versions /\ conf.images \subseteq Versions
    BY <2>1, ConfigsAssumption DEF ConfigsAssumption
  <2> QED
    BY <2>1, <2>2
<1>2. \A c \in Names : child[c] \in {Up(v) : v \in Versions} \cup {Never}
  BY <1>1 DEF Init
<1>3. entries \in Roster /\ Len(entries) = 0
  BY DEF Init, Roster
<1>3a. ASSUME NEW c \in Names
       PROVE  /\ child[c] \in Children
              /\ child[c].dir \/ child[c].at /= "down" => child[c].image \in Versions
              /\ child[c].leaving = FALSE /\ child[c].again = FALSE
  <2>1. CASE child[c] = Never
    BY <2>1, NeverIsTyped
  <2>2. CASE \E v \in Versions : child[c] = Up(v)
    BY <2>2, UpIsTyped
  <2> QED
    BY <1>2, <2>1, <2>2
<1>4. child \in [Names -> Children]
  <2>1. child = [c \in Names |-> child[c]]
    BY DEF Init
  <2> QED
    BY <2>1, <1>3a
<1>5. beacon \in [Names -> Beacons]
  <2>1. beacon = [c \in Names |-> IF child[c].dir THEN [Whole(child[c].image) EXCEPT !.fresh = FALSE] ELSE NoBeacon]
    BY DEF Init
  <2>2. ASSUME NEW v \in Versions
        PROVE  [Whole(v) EXCEPT !.fresh = FALSE] \in Beacons
    BY DEF Whole, Beacons
  <2>3. NoBeacon \in Beacons
    BY DEF Beacons, NoBeacon
  <2> QED
    BY <2>1, <2>2, <2>3, <1>3a
<1>6. TypeOK
  BY <1>1, <1>3, <1>4, <1>5 DEF TypeOK, Init
<1>7. HasImage
  BY <1>3a DEF HasImage
<1> QED
  BY <1>6, <1>7 DEF Inv, Init, LaunchIsTarget, NothingYet, RolledRunTarget, AskedAreRolled, BeaconTells,
     Considered, AsksOnlyTheFleet

-----------------------------------------------------------------------------
(* What the children and the others do keeps what the roll relies on.      *)

\* A step of others keeps Inv when it touches one child: it leaves its image alone or
\* gives it the one at the launch path, and a beacon it writes tells that image.
LEMMA OthersKeepInv ==
  ASSUME Inv, Daemons, NEW c \in Names, NEW d \in Children, NEW b \in Beacons,
         launch' = launch, restart' \in [Names -> {"none", "roll", "config", "ctl"}],
         child' = [child EXCEPT ![c] = d], beacon' = [beacon EXCEPT ![c] = b],
         d.image = child[c].image \/ d.image = launch,
         d.at /= "down" => d.image \in Versions,
         d.at = "down" => d.leaving = FALSE /\ d.again = FALSE,
         d.dir = child[c].dir \/ d.dir = TRUE,
         b = beacon[c] \/ b.kind /= "whole" \/ b.version = d.image
  PROVE  Inv'
<1> USE DEF Inv, Daemons
<1>1. TypeOK'
  BY DEF TypeOK
<1>2. HasImage'
  BY DEF HasImage, TypeOK
<1>3. pc \in {"preflight", "refused"} => rolled = {}
  BY DEF TypeOK, NothingYet
<1>4. RolledRunTarget'
  BY <1>3 DEF RolledRunTarget, TypeOK, LaunchIsTarget
<1>5. BeaconTells'
  <2> SUFFICES ASSUME pc \in {"mark", "wait"}, beacon'[Current].kind = "whole", beacon'[Current].version = "target"
               PROVE  child'[Current].image = "target"
    BY DEF BeaconTells, Current
  <2>1. Current \in Names
    BY EntryIsTyped DEF Considered, TypeOK, Current
  <2>2. launch = "target"
    BY DEF LaunchIsTarget
  <2>3. CASE Current /= c
    BY <2>1, <2>3 DEF BeaconTells, TypeOK
  <2>4. CASE Current = c
    BY <2>1, <2>2, <2>4 DEF BeaconTells, TypeOK
  <2> QED
    BY <2>3, <2>4
<1>6. Considered' /\ AsksOnlyTheFleet'
  <2>1. \A n \in Names : child[n].dir => child'[n].dir
    BY DEF TypeOK
  <2>2. Considered'
    <3> SUFFICES ASSUME pc \in {"mark", "wait"}
                 PROVE  Considered'
      BY DEF Considered
    <3>1. Current \in Names
      BY EntryIsTyped DEF Considered, TypeOK, Current
    <3> QED
      BY <2>1, <3>1 DEF Considered, Current
  <2>3. asked \subseteq Names
    <3>1. \A i \in DOMAIN entries : entries[i].name \in Names
      BY EntryIsTyped, DOMAIN entries = 1 .. Len(entries) DEF TypeOK, Roster
    <3> QED
      BY <3>1 DEF TypeOK, NamesOf
  <2>4. AsksOnlyTheFleet'
    BY <2>1, <2>3 DEF AsksOnlyTheFleet
  <2> QED
    BY <2>2, <2>4
<1> QED
  BY <1>1, <1>2, <1>4, <1>5, <1>6 DEF LaunchIsTarget, NothingYet, AskedAreRolled, Current

LEMMA ChildIsTyped ==
  ASSUME TypeOK, NEW c \in Names
  PROVE  /\ child[c] \in Children /\ beacon[c] \in Beacons
         /\ child = [child EXCEPT ![c] = child[c]] /\ beacon = [beacon EXCEPT ![c] = beacon[c]]
         /\ NoBeacon \in Beacons /\ Torn \in Beacons
  BY DEF TypeOK, Beacons, NoBeacon, Torn

\* A daemon is started on what is at the launch path.
LEMMA StartedImage ==
  ASSUME Inv, NEW c \in Names
  PROVE  Image(c) \in Children /\ Image(c).image = launch /\ Image(c).dir = TRUE /\ Image(c).at = "window" /\ launch \in Versions
<1>1. child[c] \in Children /\ launch \in Versions
  BY ChildIsTyped DEF Inv, TypeOK
<1> QED
  BY <1>1 DEF Image, Children

LEMMA TakesRestartInv ==
  ASSUME Inv, NEW c \in Names, TakesRestart(c)
  PROVE  Inv'
<1> DEFINE d == [child[c] EXCEPT !.leaving = TRUE, !.again = TRUE]
<1> DEFINE b == beacon[c]
<1>1. /\ child[c] \in Children /\ beacon[c] \in Beacons
      /\ child[c].at /= "down" => child[c].image \in Versions
      /\ child[c].at = "down" => child[c].leaving = FALSE /\ child[c].again = FALSE
  BY ChildIsTyped DEF Inv, HasImage
<1>2. child' = [child EXCEPT ![c] = d] /\ beacon' = [beacon EXCEPT ![c] = b]
  BY ChildIsTyped DEF Inv, TakesRestart
<1>3. restart' \in [Names -> {"none", "roll", "config", "ctl"}] /\ launch' = launch /\ Daemons
  BY DEF Inv, TypeOK, TakesRestart
<1>4. d \in Children /\ d.image = child[c].image /\ d.dir = child[c].dir
  BY <1>1 DEF TakesRestart, Children
<1>4a. /\ d.at /= "down" => d.image \in Versions
       /\ d.at = "down" => (d.leaving = FALSE /\ d.again = FALSE)
  BY <1>1, <1>4 DEF TakesRestart, Children
<1>5. b \in Beacons /\ (b = beacon[c] \/ b.kind /= "whole" \/ b.version = d.image)
  BY <1>1 DEF TakesRestart, Beacons, NoBeacon, Torn, Whole
<1> HIDE DEF d, b
<1> QED
  BY <1>2, <1>3, <1>4, <1>4a, <1>5, OthersKeepInv

LEMMA DiesInv ==
  ASSUME Inv, NEW c \in Names, Dies(c)
  PROVE  Inv'
<1> DEFINE d == [child[c] EXCEPT !.at = "down", !.leaving = FALSE, !.again = FALSE, !.pen = "idle"]
<1> DEFINE b == beacon[c]
<1>1. /\ child[c] \in Children /\ beacon[c] \in Beacons
      /\ child[c].at /= "down" => child[c].image \in Versions
      /\ child[c].at = "down" => child[c].leaving = FALSE /\ child[c].again = FALSE
  BY ChildIsTyped DEF Inv, HasImage
<1>2. child' = [child EXCEPT ![c] = d] /\ beacon' = [beacon EXCEPT ![c] = b]
  BY ChildIsTyped DEF Inv, Dies
<1>3. restart' \in [Names -> {"none", "roll", "config", "ctl"}] /\ launch' = launch /\ Daemons
  BY DEF Inv, TypeOK, Dies
<1>4. d \in Children /\ d.image = child[c].image /\ d.dir = child[c].dir
  BY <1>1 DEF Dies, Children
<1>4a. /\ d.at /= "down" => d.image \in Versions
       /\ d.at = "down" => (d.leaving = FALSE /\ d.again = FALSE)
  BY <1>1, <1>4 DEF Dies, Children
<1>5. b \in Beacons /\ (b = beacon[c] \/ b.kind /= "whole" \/ b.version = d.image)
  BY <1>1 DEF Dies, Beacons, NoBeacon, Torn, Whole
<1> HIDE DEF d, b
<1> QED
  BY <1>2, <1>3, <1>4, <1>4a, <1>5, OthersKeepInv

LEMMA SettlesInv ==
  ASSUME Inv, NEW c \in Names, Settles(c)
  PROVE  Inv'
<1> DEFINE d == [child[c] EXCEPT !.at = "up"]
<1> DEFINE b == beacon[c]
<1>1. /\ child[c] \in Children /\ beacon[c] \in Beacons
      /\ child[c].at /= "down" => child[c].image \in Versions
      /\ child[c].at = "down" => child[c].leaving = FALSE /\ child[c].again = FALSE
  BY ChildIsTyped DEF Inv, HasImage
<1>2. child' = [child EXCEPT ![c] = d] /\ beacon' = [beacon EXCEPT ![c] = b]
  BY ChildIsTyped DEF Inv, Settles
<1>3. restart' \in [Names -> {"none", "roll", "config", "ctl"}] /\ launch' = launch /\ Daemons
  BY DEF Inv, TypeOK, Settles
<1>4. d \in Children /\ d.image = child[c].image /\ d.dir = child[c].dir
  BY <1>1 DEF Settles, Children
<1>4a. /\ d.at /= "down" => d.image \in Versions
       /\ d.at = "down" => (d.leaving = FALSE /\ d.again = FALSE)
  BY <1>1, <1>4 DEF Settles, Children
<1>5. b \in Beacons /\ (b = beacon[c] \/ b.kind /= "whole" \/ b.version = d.image)
  BY <1>1 DEF Settles, Beacons, NoBeacon, Torn, Whole
<1> HIDE DEF d, b
<1> QED
  BY <1>2, <1>3, <1>4, <1>4a, <1>5, OthersKeepInv

LEMMA RemovesBeaconInv ==
  ASSUME Inv, NEW c \in Names, RemovesBeacon(c)
  PROVE  Inv'
<1> DEFINE d == [child[c] EXCEPT !.pen = "removed"]
<1> DEFINE b == NoBeacon
<1>1. /\ child[c] \in Children /\ beacon[c] \in Beacons
      /\ child[c].at /= "down" => child[c].image \in Versions
      /\ child[c].at = "down" => child[c].leaving = FALSE /\ child[c].again = FALSE
  BY ChildIsTyped DEF Inv, HasImage
<1>2. child' = [child EXCEPT ![c] = d] /\ beacon' = [beacon EXCEPT ![c] = b]
  BY ChildIsTyped DEF Inv, RemovesBeacon
<1>3. restart' \in [Names -> {"none", "roll", "config", "ctl"}] /\ launch' = launch /\ Daemons
  BY DEF Inv, TypeOK, RemovesBeacon
<1>4. d \in Children /\ d.image = child[c].image /\ d.dir = child[c].dir
  BY <1>1 DEF RemovesBeacon, Children
<1>4a. /\ d.at /= "down" => d.image \in Versions
       /\ d.at = "down" => (d.leaving = FALSE /\ d.again = FALSE)
  BY <1>1, <1>4 DEF RemovesBeacon, Children
<1>5. b \in Beacons /\ (b = beacon[c] \/ b.kind /= "whole" \/ b.version = d.image)
  BY <1>1 DEF RemovesBeacon, Beacons, NoBeacon, Torn, Whole
<1> HIDE DEF d, b
<1> QED
  BY <1>2, <1>3, <1>4, <1>4a, <1>5, OthersKeepInv

LEMMA CreatesBeaconInv ==
  ASSUME Inv, NEW c \in Names, CreatesBeacon(c)
  PROVE  Inv'
<1> DEFINE d == [child[c] EXCEPT !.pen = "created"]
<1> DEFINE b == Torn
<1>1. /\ child[c] \in Children /\ beacon[c] \in Beacons
      /\ child[c].at /= "down" => child[c].image \in Versions
      /\ child[c].at = "down" => child[c].leaving = FALSE /\ child[c].again = FALSE
  BY ChildIsTyped DEF Inv, HasImage
<1>2. child' = [child EXCEPT ![c] = d] /\ beacon' = [beacon EXCEPT ![c] = b]
  BY ChildIsTyped DEF Inv, CreatesBeacon
<1>3. restart' \in [Names -> {"none", "roll", "config", "ctl"}] /\ launch' = launch /\ Daemons
  BY DEF Inv, TypeOK, CreatesBeacon
<1>4. d \in Children /\ d.image = child[c].image /\ d.dir = child[c].dir
  BY <1>1 DEF CreatesBeacon, Children
<1>4a. /\ d.at /= "down" => d.image \in Versions
       /\ d.at = "down" => (d.leaving = FALSE /\ d.again = FALSE)
  BY <1>1, <1>4 DEF CreatesBeacon, Children
<1>5. b \in Beacons /\ (b = beacon[c] \/ b.kind /= "whole" \/ b.version = d.image)
  BY <1>1 DEF CreatesBeacon, Beacons, NoBeacon, Torn, Whole
<1> HIDE DEF d, b
<1> QED
  BY <1>2, <1>3, <1>4, <1>4a, <1>5, OthersKeepInv

LEMMA WritesBeaconInv ==
  ASSUME Inv, NEW c \in Names, WritesBeacon(c)
  PROVE  Inv'
<1> DEFINE d == [child[c] EXCEPT !.pen = "idle"]
<1> DEFINE b == Whole(child[c].image)
<1>1. /\ child[c] \in Children /\ beacon[c] \in Beacons
      /\ child[c].at /= "down" => child[c].image \in Versions
      /\ child[c].at = "down" => child[c].leaving = FALSE /\ child[c].again = FALSE
  BY ChildIsTyped DEF Inv, HasImage
<1>2. child' = [child EXCEPT ![c] = d] /\ beacon' = [beacon EXCEPT ![c] = b]
  BY ChildIsTyped DEF Inv, WritesBeacon
<1>3. restart' \in [Names -> {"none", "roll", "config", "ctl"}] /\ launch' = launch /\ Daemons
  BY DEF Inv, TypeOK, WritesBeacon
<1>4. d \in Children /\ d.image = child[c].image /\ d.dir = child[c].dir
  BY <1>1 DEF WritesBeacon, Children
<1>4a. /\ d.at /= "down" => d.image \in Versions
       /\ d.at = "down" => (d.leaving = FALSE /\ d.again = FALSE)
  BY <1>1, <1>4 DEF WritesBeacon, Children
<1>5. b \in Beacons /\ (b = beacon[c] \/ b.kind /= "whole" \/ b.version = d.image)
  <2>1. child[c].image \in Versions
    BY <1>1 DEF WritesBeacon
  <2> QED
    BY <2>1, <1>4 DEF Beacons, Whole
<1> HIDE DEF d, b
<1> QED
  BY <1>2, <1>3, <1>4, <1>4a, <1>5, OthersKeepInv

LEMMA QueueKeepsInv ==
  ASSUME Inv, Daemons, NEW c \in Names, UNCHANGED <<launch, child, beacon>>,
         restart' \in [Names -> {"none", "roll", "config", "ctl"}]
  PROVE  Inv'
<1> DEFINE d == child[c]
<1> DEFINE b == beacon[c]
<1>1. /\ d \in Children /\ b \in Beacons /\ d.image = child[c].image /\ d.dir = child[c].dir
      /\ d.at /= "down" => d.image \in Versions
      /\ d.at = "down" => d.leaving = FALSE /\ d.again = FALSE
      /\ b = beacon[c]
  BY ChildIsTyped DEF Inv, HasImage
<1>2. child' = [child EXCEPT ![c] = d] /\ beacon' = [beacon EXCEPT ![c] = b]
  BY ChildIsTyped DEF Inv
<1> HIDE DEF d, b
<1> QED
  BY <1>1, <1>2, OthersKeepInv

LEMMA WithdrawsInv ==
  ASSUME Inv, NEW c \in Names, Withdraws(c)
  PROVE  Inv'
<1>1. restart' \in [Names -> {"none", "roll", "config", "ctl"}]
  BY DEF Inv, TypeOK, Withdraws
<1> QED
  BY <1>1, QueueKeepsInv DEF Withdraws

LEMMA OtherQueuesInv ==
  ASSUME Inv, NEW c \in Names, OtherQueues(c)
  PROVE  Inv'
<1>1. conf.others \subseteq {"config", "ctl"}
  BY ConfigsAssumption DEF ConfigsAssumption, Inv, TypeOK
<1>2. restart' \in [Names -> {"none", "roll", "config", "ctl"}]
  BY <1>1 DEF Inv, TypeOK, OtherQueues
<1> QED
  BY <1>2, QueueKeepsInv DEF OtherQueues

LEMMA ReExecsInv ==
  ASSUME Inv, NEW c \in Names, ReExecs(c)
  PROVE  Inv'
<1>1. child' = [child EXCEPT ![c] = Image(c)] /\ beacon' = [beacon EXCEPT ![c] = beacon[c]]
  BY ChildIsTyped DEF Inv, ReExecs
<1>2. restart' \in [Names -> {"none", "roll", "config", "ctl"}] /\ launch' = launch /\ Daemons
  BY DEF Inv, TypeOK, ReExecs
<1> QED
  BY <1>1, <1>2, StartedImage, ChildIsTyped, OthersKeepInv DEF Inv

LEMMA StartsInv ==
  ASSUME Inv, NEW c \in Names, Starts(c)
  PROVE  Inv'
<1>1. child' = [child EXCEPT ![c] = Image(c)] /\ beacon' = [beacon EXCEPT ![c] = beacon[c]]
  BY ChildIsTyped DEF Inv, Starts
<1>2. restart' \in [Names -> {"none", "roll", "config", "ctl"}] /\ launch' = launch /\ Daemons
  BY DEF Inv, TypeOK, Starts
<1> QED
  BY <1>1, <1>2, StartedImage, ChildIsTyped, OthersKeepInv DEF Inv

\* What is installed before the roll concerns no child that was asked.
LEMMA InstallsInv ==
  ASSUME Inv, Installs
  PROVE  Inv'
<1>1. pc = "preflight" /\ pc' = pc /\ at' = 1 /\ asked = {} /\ asked' = {} /\ rolled' = {} /\ launch' \in Versions
  BY DEF Inv, Installs, Daemons, NothingYet, TypeOK
<1>2. TypeOK' /\ HasImage'
  BY <1>1 DEF Inv, TypeOK, HasImage, Installs, Daemons
<1> QED
  BY <1>1, <1>2 DEF Inv, LaunchIsTarget, NothingYet, RolledRunTarget, AskedAreRolled, BeaconTells,
     Considered, AsksOnlyTheFleet

-----------------------------------------------------------------------------
(* The roll.                                                               *)

LEMMA PreflightInv ==
  ASSUME Inv, Preflight
  PROVE  Inv'
<1>1. pc' \in {"roster", "refused"} /\ (pc' = "roster" => launch = "target") /\ at = 1 /\ asked = {} /\ rolled = {}
  BY DEF Inv, Preflight, PreflightPasses, NothingYet, TypeOK
<1>2. UNCHANGED <<conf, launch, child, beacon, restart, entries, at, rolled, asked>>
  BY DEF Preflight, Rolls
<1>3. TypeOK' /\ HasImage'
  BY <1>1, <1>2 DEF Inv, TypeOK, HasImage
<1> QED
  BY <1>1, <1>2, <1>3 DEF Inv, LaunchIsTarget, NothingYet, RolledRunTarget, AskedAreRolled, BeaconTells,
     Considered, AsksOnlyTheFleet

LEMMA FetchRosterInv ==
  ASSUME Inv, FetchRoster
  PROVE  Inv'
<1>1. conf.entries \in Roster /\ conf.cached \in Roster
  BY ConfigsAssumption DEF ConfigsAssumption, Inv, TypeOK
<1>2. entries' \in Roster /\ pc' \in {"entry", "refused"}
  BY <1>1 DEF FetchRoster, Inv, TypeOK
<1>3. at = 1 /\ asked = {} /\ rolled = {} /\ launch = "target"
  BY DEF Inv, FetchRoster, NothingYet, LaunchIsTarget, TypeOK
<1>4. UNCHANGED <<conf, launch, child, beacon, restart, at, rolled, asked>>
  BY DEF FetchRoster, Rolls
<1>5. TypeOK' /\ HasImage'
  BY <1>2, <1>3, <1>4, RosterLength DEF Inv, TypeOK, HasImage
<1> QED
  BY <1>2, <1>3, <1>4, <1>5 DEF Inv, LaunchIsTarget, NothingYet, RolledRunTarget, AskedAreRolled, BeaconTells,
     Considered, AsksOnlyTheFleet

LEMMA FinishInv ==
  ASSUME Inv, Finish
  PROVE  Inv'
<1>1. pc = "entry" /\ pc' = "done" /\ UNCHANGED <<conf, launch, child, beacon, restart, entries, at, rolled, asked>>
  BY DEF Finish, Rolls
<1>2. TypeOK' /\ HasImage' /\ AsksOnlyTheFleet'
  BY <1>1 DEF Inv, TypeOK, HasImage, AsksOnlyTheFleet
<1> QED
  BY <1>1, <1>2 DEF Inv, LaunchIsTarget, NothingYet, RolledRunTarget, AskedAreRolled, BeaconTells, Considered

\* What is to be asked has not said that it is on the target.
LEMMA ConsiderInv ==
  ASSUME Inv, Consider
  PROVE  Inv'
<1>1. /\ pc = "entry" /\ at \in 1 .. Len(entries) /\ Len(entries) \in Nat
      /\ UNCHANGED <<conf, launch, child, beacon, restart, entries, rolled, asked>>
  BY RosterLength DEF Consider, Rolls, Inv, TypeOK
<1>2. HasImage' /\ RolledRunTarget' /\ AsksOnlyTheFleet'
  BY <1>1 DEF Inv, HasImage, RolledRunTarget, AsksOnlyTheFleet
<1>3. launch' = "target" /\ asked' \subseteq rolled'
  BY <1>1 DEF Inv, LaunchIsTarget, AskedAreRolled
<1>4. CASE Considers(entries[at])
  <2>1. pc' = "mark" /\ at' = at
    BY <1>4 DEF Consider
  <2>2. TypeOK'
    BY <1>1, <2>1 DEF Inv, TypeOK
  <2>3. BeaconTells'
    BY <1>1, <1>4, <2>1 DEF BeaconTells, Current, Considers, Already, ReadLocalBeacon
  <2>4. Considered'
    BY <1>1, <1>4, <2>1 DEF Considered, Current, Considers, InScope
  <2> QED
    BY <1>2, <1>3, <2>1, <2>2, <2>3, <2>4 DEF Inv, LaunchIsTarget, NothingYet, AskedAreRolled
<1>5. CASE ~Considers(entries[at])
  <2>1. pc' = "entry" /\ at' = at + 1
    BY <1>1, <1>5 DEF Consider
  <2>2. TypeOK'
    BY <1>1, <2>1 DEF Inv, TypeOK
  <2> QED
    BY <1>2, <1>3, <2>1, <2>2 DEF Inv, LaunchIsTarget, NothingYet, AskedAreRolled, BeaconTells, Considered
<1> QED
  BY <1>4, <1>5

LEMMA WriteRestartMarkerInv ==
  ASSUME Inv, WriteRestartMarker
  PROVE  Inv'
<1>1. /\ pc = "mark" /\ pc' = "wait" /\ asked' = asked \cup {Current}
      /\ UNCHANGED <<conf, launch, child, entries, at, rolled>> /\ Current' = Current
  BY DEF WriteRestartMarker, Rolls, Asked, Current
<1>2. Current \in Names /\ Current \in NamesOf(entries) /\ at \in 1 .. Len(entries)
  BY <1>1, EntryIsTyped DEF Inv, Considered, TypeOK, Current
<1>3. restart' \in [Names -> {"none", "roll", "config", "ctl"}]
  BY <1>2 DEF Inv, TypeOK, WriteRestartMarker, Asked
<1>4. PICK slack \in BOOLEAN : beacon' = [beacon EXCEPT ![Current] = [beacon[Current] EXCEPT !.fresh = @ /\ slack]]
  BY DEF WriteRestartMarker
<1>5. /\ [beacon[Current] EXCEPT !.fresh = @ /\ slack] \in Beacons
      /\ [beacon[Current] EXCEPT !.fresh = @ /\ slack].kind = beacon[Current].kind
      /\ [beacon[Current] EXCEPT !.fresh = @ /\ slack].version = beacon[Current].version
  <2>1. beacon[Current] \in Beacons
    BY <1>2 DEF Inv, TypeOK
  <2> QED
    BY <2>1 DEF Beacons, NoBeacon, Torn
<1>6. beacon' \in [Names -> Beacons]
  BY <1>2, <1>4, <1>5 DEF Inv, TypeOK
<1>7. TypeOK' /\ HasImage'
  BY <1>1, <1>2, <1>3, <1>6 DEF Inv, TypeOK, HasImage
<1>8. BeaconTells'
  BY <1>1, <1>2, <1>4, <1>5 DEF Inv, BeaconTells, TypeOK
<1>9. Considered' /\ AsksOnlyTheFleet'
  <2>1. Considered'
    BY <1>1 DEF Inv, Considered
  <2>2. at \in DOMAIN entries /\ entries[at].name = Current /\ Local(entries[at]) /\ entries[at].ok /\ child[Current].dir
    <3>1. at \in DOMAIN entries
      BY <1>2, ElementIsTyped DEF Inv, TypeOK, Roster
    <3> QED
      BY <1>1, <3>1 DEF Inv, Considered, InScope, Local, Current
  <2>3. AsksOnlyTheFleet'
    BY <1>1, <2>2 DEF Inv, AsksOnlyTheFleet
  <2> QED
    BY <2>1, <2>3
<1> QED
  BY <1>1, <1>7, <1>8, <1>9 DEF Inv, LaunchIsTarget, NothingYet, RolledRunTarget, AskedAreRolled

LEMMA CannotAskInv ==
  ASSUME Inv, CannotAsk
  PROVE  Inv'
<1>1. pc = "mark" /\ pc' = "halted" /\ UNCHANGED <<conf, launch, child, beacon, restart, entries, at, rolled, asked>>
  BY DEF CannotAsk, Rolls
<1>2. TypeOK' /\ HasImage' /\ AsksOnlyTheFleet'
  BY <1>1 DEF Inv, TypeOK, HasImage, AsksOnlyTheFleet
<1> QED
  BY <1>1, <1>2 DEF Inv, LaunchIsTarget, NothingYet, RolledRunTarget, AskedAreRolled, BeaconTells, Considered

\* A beacon that says target is the child's own word.
LEMMA SeesItBackInv ==
  ASSUME Inv, SeesItBack
  PROVE  Inv'
<1>1. /\ pc = "wait" /\ pc' = "entry" /\ at' = at + 1 /\ rolled' = rolled \cup {Current}
      /\ UNCHANGED <<conf, launch, child, beacon, restart, entries, asked>>
  BY DEF SeesItBack, Rolls
<1>2. child[Current].image = "target"
  BY <1>1 DEF Inv, SeesItBack, BeaconTells, ReadLocalBeacon, CameBack
<1>3. at \in 1 .. Len(entries) /\ Len(entries) \in Nat /\ Current \in asked
  BY <1>1, RosterLength DEF Inv, Considered, TypeOK
<1>4. TypeOK' /\ HasImage' /\ AsksOnlyTheFleet'
  BY <1>1, <1>3 DEF Inv, TypeOK, HasImage, AsksOnlyTheFleet
<1>5. RolledRunTarget' /\ AskedAreRolled'
  BY <1>1, <1>2 DEF Inv, RolledRunTarget, AskedAreRolled
<1> QED
  BY <1>1, <1>4, <1>5 DEF Inv, LaunchIsTarget, NothingYet, BeaconTells, Considered

LEMMA HaltsInv ==
  ASSUME Inv, Halts
  PROVE  Inv'
<1>1. pc = "wait" /\ pc' = "halted" /\ UNCHANGED <<conf, launch, child, beacon, restart, entries, at, rolled, asked>>
  BY DEF Halts, GivesUp, Rolls
<1>2. TypeOK' /\ HasImage' /\ AsksOnlyTheFleet'
  BY <1>1 DEF Inv, TypeOK, HasImage, AsksOnlyTheFleet
<1> QED
  BY <1>1, <1>2 DEF Inv, LaunchIsTarget, NothingYet, RolledRunTarget, AskedAreRolled, BeaconTells, Considered

-----------------------------------------------------------------------------
(* The theorems.                                                           *)

LEMMA ChildStep ==
  ASSUME Inv, NEW c \in Names,
         \/ TakesRestart(c) \/ ReExecs(c) \/ Dies(c) \/ Starts(c) \/ Settles(c)
         \/ RemovesBeacon(c) \/ CreatesBeacon(c) \/ WritesBeacon(c) \/ OtherQueues(c) \/ Withdraws(c)
  PROVE  Inv' /\ asked' = asked
<1>1. Inv'
  BY TakesRestartInv, ReExecsInv, DiesInv, StartsInv, SettlesInv, RemovesBeaconInv, CreatesBeaconInv,
     WritesBeaconInv, OtherQueuesInv, WithdrawsInv
<1>2. Daemons
  BY DEF TakesRestart, ReExecs, Dies, Starts, Settles, RemovesBeacon, CreatesBeacon, WritesBeacon, OtherQueues, Withdraws
<1> QED
  BY <1>1, <1>2 DEF Daemons

LEMMA RollStep ==
  ASSUME Inv, Roll
  PROVE  Inv'
  BY PreflightInv, FetchRosterInv, FinishInv, ConsiderInv, WriteRestartMarkerInv, CannotAskInv, SeesItBackInv, HaltsInv
     DEF Roll

LEMMA StutterInv == Inv /\ UNCHANGED vars => Inv'
  BY DEF vars, Inv, TypeOK, HasImage, LaunchIsTarget, NothingYet, RolledRunTarget, AskedAreRolled, BeaconTells,
     Considered, AsksOnlyTheFleet, Current, InScope, Local, NamesOf

\* Every step of the roll, of a child and of the installer preserves the invariant.
THEOREM NextInv == Inv /\ [Next]_vars => Inv'
  BY ChildStep, RollStep, InstallsInv, StutterInv DEF Next

\* Inv is an invariant: whatever the roster, the children and what is done around the roll.
THEOREM RollKeepsInv == Spec => []Inv
<1>1. Init => Inv
  BY InitInv
<1>2. Inv /\ [Next]_vars => Inv'
  BY NextInv
<1> QED
  BY <1>1, <1>2, PTL DEF Spec

\* The types hold in every behaviour.
THEOREM TypeCorrect == Spec => []TypeOK
<1>1. Inv => TypeOK
  BY DEF Inv
<1> QED
  BY <1>1, RollKeepsInv, PTL

\* The roll asks only local, running, well-formed entries that ever ran.
THEOREM AsksOnlyTheFleetHolds == Spec => []AsksOnlyTheFleet
<1>1. Inv => AsksOnlyTheFleet
  BY DEF Inv
<1> QED
  BY <1>1, RollKeepsInv, PTL

\* Only WriteRestartMarker asks, and then all that was asked is rolled and runs the target.
LEMMA AskingStep ==
  ASSUME Inv, [Next]_vars
  PROVE  [\A c \in asked' \ asked : \A d \in asked : child[d].image = "target"]_vars
<1> SUFFICES ASSUME asked' /= asked
             PROVE  \A d \in asked : child[d].image = "target"
  OBVIOUS
<1>1. ~\E c \in Names :
         \/ TakesRestart(c) \/ ReExecs(c) \/ Dies(c) \/ Starts(c) \/ Settles(c)
         \/ RemovesBeacon(c) \/ CreatesBeacon(c) \/ WritesBeacon(c) \/ OtherQueues(c) \/ Withdraws(c)
  BY ChildStep
<1>2. ~Installs /\ ~UNCHANGED vars
  BY DEF Installs, Daemons, vars
<1>3. WriteRestartMarker
  BY <1>1, <1>2 DEF Next, Roll, Preflight, FetchRoster, Finish, Consider, CannotAsk, SeesItBack, Halts
<1> QED
  BY <1>3 DEF Inv, AskedAreRolled, RolledRunTarget, WriteRestartMarker

\* A child is asked to restart only while every one asked before runs the target.
THEOREM OneAtATimeHolds == Spec => OneAtATime
<1>1. Inv /\ [Next]_vars => [\A c \in asked' \ asked : \A d \in asked : child[d].image = "target"]_vars
  BY AskingStep
<1> QED
  BY <1>1, RollKeepsInv, PTL DEF Spec, OneAtATime

\* A child comes up only on what is at the launch path.
LEMMA ComingUpStep ==
  ASSUME Inv, [Next]_vars, NEW c \in asked, child[c].at /= "window", child'[c].at = "window"
  PROVE  child'[c].image = "target"
<1>1. c \in Names /\ asked /= {}
  <2>1. \A i \in DOMAIN entries : entries[i].name \in Names
    BY EntryIsTyped, DOMAIN entries = 1 .. Len(entries) DEF Inv, TypeOK, Roster
  <2> QED
    BY <2>1 DEF Inv, TypeOK, NamesOf
<1>2. launch = "target"
  BY <1>1 DEF Inv, NothingYet, LaunchIsTarget
<1>3. child' /= child
  OBVIOUS
<1>4. ~Installs /\ ~Roll /\ ~UNCHANGED vars
  BY <1>3 DEF Installs, Roll, Preflight, FetchRoster, Finish, Consider, WriteRestartMarker, Asked, CannotAsk,
     SeesItBack, Halts, vars
<1>5. PICK n \in Names :
         \/ TakesRestart(n) \/ ReExecs(n) \/ Dies(n) \/ Starts(n) \/ Settles(n)
         \/ RemovesBeacon(n) \/ CreatesBeacon(n) \/ WritesBeacon(n) \/ OtherQueues(n) \/ Withdraws(n)
  BY <1>4 DEF Next
<1>6. child \in [Names -> Children]
  BY DEF Inv, TypeOK
<1>7. ReExecs(n) \/ Starts(n)
  <2>1. child'[c].at \notin {child[c].at, "up", "down"}
    OBVIOUS
  <2>2. ~TakesRestart(n) /\ ~Settles(n)
    BY <1>1, <1>6, <2>1, ZenonT(40) DEF TakesRestart, Settles, Children
  <2>2a. ASSUME Dies(n)
         PROVE  FALSE
    <3>1. child' = [child EXCEPT ![n] = [child[n] EXCEPT !.at = "down", !.leaving = FALSE, !.again = FALSE, !.pen = "idle"]]
      BY <2>2a DEF Dies
    <3>2. [child[n] EXCEPT !.at = "down", !.leaving = FALSE, !.again = FALSE, !.pen = "idle"].at = "down"
      BY <1>6 DEF Children
    <3> QED
      BY <1>1, <1>6, <2>1, <3>1, <3>2
  <2>3. ~RemovesBeacon(n) /\ ~CreatesBeacon(n) /\ ~WritesBeacon(n)
    BY <1>1, <1>6, <2>1 DEF RemovesBeacon, CreatesBeacon, WritesBeacon, Children
  <2>4. ~OtherQueues(n) /\ ~Withdraws(n)
    BY <1>3 DEF OtherQueues, Withdraws
  <2> QED
    BY <1>5, <2>2, <2>2a, <2>3, <2>4
<1>8. child' = [child EXCEPT ![n] = Image(n)]
  BY <1>7 DEF ReExecs, Starts
<1>9. n = c
  BY <1>1, <1>6, <1>8
<1> QED
  BY <1>1, <1>2, <1>6, <1>8, <1>9, StartedImage

\* No restart of a child that was asked brings up the old version.
THEOREM NoneComesUpOnTheOldHolds == Spec => NoneComesUpOnTheOld
<1>1. Inv /\ [Next]_vars =>
        [\A c \in asked : child[c].at /= "window" /\ child'[c].at = "window" => child'[c].image = "target"]_vars
  BY ComingUpStep
<1> QED
  BY <1>1, RollKeepsInv, PTL DEF Spec, NoneComesUpOnTheOld
-----------------------------------------------------------------------------
(* What is done to a daemon is what Daemon allows.                         *)

\* A daemon whose child record keeps these three fields, and its RESTART, stutters.
LEMMA StutterOf ==
  ASSUME NEW c \in Names, child'[c].at = child[c].at, child'[c].leaving = child[c].leaving,
         child'[c].again = child[c].again, restart'[c] = restart[c]
  PROVE  UNCHANGED DaemonOf(c)!vars
  BY DEF DaemonOf!vars

\* A child that somebody writes a RESTART for, or takes one from, is steered.
LEMMA SteersOf ==
  ASSUME NEW c \in Names, child' = child
  PROVE  DaemonOf(c)!Steers
  BY DEF DaemonOf!Steers

LEMMA ReExecsRefines ==
  ASSUME TypeOK, NEW c \in Names, ReExecs(c)
  PROVE  DaemonOf(c)!ReExecs
<1>1. child' = [child EXCEPT ![c] = Image(c)] /\ restart' = restart /\ child \in [Names -> Children]
  BY DEF ReExecs, TypeOK
<1>2. child'[c].at = "window" /\ child'[c].leaving = FALSE /\ child'[c].again = FALSE
  BY <1>1 DEF Image, Children
<1> QED
  BY <1>1, <1>2 DEF DaemonOf!ReExecs, ReExecs

LEMMA TakesRestartRefines ==
  ASSUME Inv, NEW c \in Names, TakesRestart(c)
  PROVE  DaemonOf(c)!TakesRestart
<1>1. child \in [Names -> Children] /\ restart \in [Names -> {"none", "roll", "config", "ctl"}]
  BY DEF Inv, TypeOK
<1>2. child'[c].at = "up" /\ child'[c].leaving = TRUE /\ child'[c].again = TRUE /\ restart'[c] = "none"
  BY <1>1, ZenonT(40) DEF TakesRestart, Children
<1> QED
  BY <1>1, <1>2 DEF DaemonOf!TakesRestart, TakesRestart

LEMMA DiesRefines ==
  ASSUME Inv, NEW c \in Names, Dies(c)
  PROVE  DaemonOf(c)!Dies
<1>1. child \in [Names -> Children] /\ restart \in [Names -> {"none", "roll", "config", "ctl"}]
  BY DEF Inv, TypeOK
<1>2. child'[c].at = "down" /\ child'[c].leaving = FALSE /\ child'[c].again = FALSE /\ restart' = restart
  BY <1>1, ZenonT(40) DEF Dies, Children
<1> QED
  BY <1>1, <1>2 DEF DaemonOf!Dies, Dies

LEMMA StartsRefines ==
  ASSUME Inv, NEW c \in Names, Starts(c)
  PROVE  DaemonOf(c)!Starts
<1>1. child \in [Names -> Children] /\ restart \in [Names -> {"none", "roll", "config", "ctl"}]
  BY DEF Inv, TypeOK
<1>2. child'[c].at = "window" /\ child'[c].leaving = FALSE /\ child'[c].again = FALSE /\ restart' = restart
  BY <1>1 DEF Starts, Children, Image
<1> QED
  BY <1>1, <1>2 DEF DaemonOf!Starts, Inv, HasImage, Starts

LEMMA SettlesRefines ==
  ASSUME Inv, NEW c \in Names, Settles(c)
  PROVE  DaemonOf(c)!Settles
<1>1. child \in [Names -> Children] /\ restart \in [Names -> {"none", "roll", "config", "ctl"}]
  BY DEF Inv, TypeOK
<1>2. child'[c].at = "up" /\ child'[c].leaving = child[c].leaving /\ child'[c].again = child[c].again /\ restart' = restart
  BY <1>1 DEF Settles, Children
<1> QED
  BY <1>1, <1>2 DEF DaemonOf!Settles, Settles

LEMMA BeaconRefines ==
  ASSUME Inv, NEW c \in Names, RemovesBeacon(c) \/ CreatesBeacon(c) \/ WritesBeacon(c)
  PROVE  UNCHANGED DaemonOf(c)!vars
<1>1. child \in [Names -> Children]
  BY DEF Inv, TypeOK
<1>2. /\ child'[c].at = child[c].at /\ child'[c].leaving = child[c].leaving
      /\ child'[c].again = child[c].again /\ restart' = restart
  BY <1>1, ZenonT(40) DEF RemovesBeacon, CreatesBeacon, WritesBeacon, Children
<1> QED
  BY <1>2, StutterOf

\* One child's step, seen from that child and from any other.
LEMMA ChildRefines ==
  ASSUME Inv, NEW c \in Names, NEW n \in Names,
         \/ TakesRestart(n) \/ ReExecs(n) \/ Dies(n) \/ Starts(n) \/ Settles(n)
         \/ RemovesBeacon(n) \/ CreatesBeacon(n) \/ WritesBeacon(n) \/ OtherQueues(n) \/ Withdraws(n)
  PROVE  DaemonOf(c)!Next \/ UNCHANGED DaemonOf(c)!vars
<1>1. CASE n = c
  <2>1. CASE TakesRestart(c) \/ ReExecs(c) \/ Dies(c) \/ Starts(c) \/ Settles(c)
    BY <2>1, TakesRestartRefines, ReExecsRefines, DiesRefines, StartsRefines, SettlesRefines DEF DaemonOf!Next, Inv
  <2>2. CASE RemovesBeacon(c) \/ CreatesBeacon(c) \/ WritesBeacon(c)
    BY <2>2, BeaconRefines
  <2>3. CASE OtherQueues(c) \/ Withdraws(c)
    BY <2>3, SteersOf DEF OtherQueues, Withdraws, DaemonOf!Next
  <2> QED
    BY <1>1, <2>1, <2>2, <2>3
<1>2. CASE n /= c
  <2>1. child \in [Names -> Children] /\ restart \in [Names -> {"none", "roll", "config", "ctl"}]
    BY DEF Inv, TypeOK
  <2>2. child'[c] = child[c] /\ restart'[c] = restart[c]
    BY <1>2, <2>1 DEF TakesRestart, ReExecs, Dies, Starts, Settles, RemovesBeacon, CreatesBeacon, WritesBeacon,
       OtherQueues, Withdraws
  <2> QED
    BY <2>2, StutterOf
<1> QED
  BY <1>1, <1>2

LEMMA RollRefines ==
  ASSUME Inv, NEW c \in Names, Roll \/ Installs \/ UNCHANGED vars
  PROVE  DaemonOf(c)!Next \/ UNCHANGED DaemonOf(c)!vars
<1>1. child' = child
  BY DEF Roll, Preflight, FetchRoster, Finish, Consider, WriteRestartMarker, Asked, CannotAsk, SeesItBack, Halts,
     Installs, vars
<1> QED
  BY <1>1, SteersOf DEF DaemonOf!Next

\* The children of a roll, and all that is done to them, are the daemons of Daemon.
THEOREM DaemonsAreDaemons == Spec => DaemonSpec
<1>1. Inv /\ [Next]_vars => [\A c \in Names : DaemonOf(c)!Next \/ UNCHANGED DaemonOf(c)!vars]_vars
  BY ChildRefines, RollRefines DEF Next
<1> QED
  BY <1>1, RollKeepsInv, PTL DEF Spec, DaemonSpec

-----------------------------------------------------------------------------
\* What the run checks of a roll, for any children, entries and deaths (roll.go).
THEOREM RollIsCarefulHolds == Spec => RollIsCareful
  BY TypeCorrect, AsksOnlyTheFleetHolds, OneAtATimeHolds, NoneComesUpOnTheOldHolds, DaemonsAreDaemons, PTL
  DEF RollIsCareful
=============================================================================
