----------------------------- MODULE RouteMarks -----------------------------
(***************************************************************************)
(* The run's memory of the model routes that hit a limit. Members of a     *)
(* panel spawn with the routes that are not marked, each session walks its *)
(* own while they are denied, and what it reports becomes marks.           *)
(***************************************************************************)
EXTENDS Integers, Sequences, SequencesExt, FiniteSets

CONSTANTS
  Members,   \* what may be in a session at once: the members of a panel
  Configs,   \* what may be asked of this model
  MaxTime,   \* bound on the clock
  MaxRuns    \* bound on the sessions

ConfigsAssumption ==
  /\ MaxTime \in Nat /\ MaxRuns \in Nat
  /\ \A c \in Configs : c.routes \in Seq(STRING) /\ c.intervals \subseteq Nat /\ c.stated \subseteq Nat

VARIABLES
  conf,      \* the member of Configs this behaviour is about
  now,
  marks,     \* when the mark of a route lifts; 0 without one
  offered,   \* the routes of each member's session; <<>> outside one
  reports,   \* what a session that ended has yet to have noted
  runs,      \* how many sessions there have been
  denials    \* every denial of a route, as the provider stated it

vars == <<conf, now, marks, offered, reports, runs, denials>>

Routes == ToSet(conf.routes)

----------------------------------------------------------------------------
(* The driver.                                                             *)

\* A mark holds until it lifts.
Marked(r) == now < marks[r]
\* The routes that are not marked, in order; or the one whose mark lifts first.
Soonest(list) == list[CHOOSE i \in DOMAIN list : /\ \A j \in DOMAIN list : marks[list[i]] <= marks[list[j]]
                                                 /\ \A j \in 1 .. i - 1 : marks[list[i]] < marks[list[j]]]
Routable(list) ==
  LET available == SelectSeq(list, LAMBDA r : ~Marked(r)) IN
  IF available /= <<>> \/ list = <<>> THEN available ELSE <<Soonest(list)>>

Later(a, b) == IF a >= b THEN a ELSE b
\* Slip: always the interval.
UntilInterval(d, interval) == now + interval
\* The reset the provider stated, or the interval the operator asks at.
Until(d, interval) == IF d.reset > 0 THEN d.reset ELSE now + interval

Init ==
  /\ conf \in Configs /\ now = 1 /\ marks = [r \in Routes |-> 0]
  /\ offered = [m \in Members |-> <<>>] /\ reports = [m \in Members |-> <<>>] /\ runs = 0 /\ denials = {}

Spawn(m) ==
  /\ offered[m] = <<>> /\ reports[m] = <<>> /\ runs < MaxRuns
  /\ offered' = [offered EXCEPT ![m] = Routable(conf.routes)]
  /\ runs' = runs + 1
  /\ UNCHANGED <<conf, now, marks, reports, denials>>

\* One session: the first n of its routes deny it, and the next carries it on. A session
\* of one route reports nothing, and one that was denied nothing has nothing to report.
Denied(list, n, resets) ==
  [i \in 1 .. n |-> [route |-> list[i], last |-> i = Len(list), reset |-> resets[i]]]

Reported(list, denied) == IF Len(list) < 2 THEN <<>> ELSE denied
End(m) ==
  /\ offered[m] /= <<>>
  /\ \E n \in 0 .. Len(offered[m]) : \E resets \in [1 .. n -> conf.stated] :
       LET denied == Denied(offered[m], n, resets) IN
       /\ reports' = [reports EXCEPT ![m] = Reported(offered[m], denied)]
       /\ denials' = denials \cup {[route |-> d.route, alone |-> Len(offered[m]) = 1, by |-> m, reset |-> d.reset] : d \in ToSet(denied)}
  /\ offered' = [offered EXCEPT ![m] = <<>>]
  /\ UNCHANGED <<conf, now, marks, runs>>

\* Each report under the lock, with the others' between them.
Note(m) ==
  /\ reports[m] /= <<>>
  /\ LET d == Head(reports[m]) IN
     \E interval \in conf.intervals : marks' = [marks EXCEPT ![d.route] = Later(@, Until(d, interval))]
  /\ reports' = [reports EXCEPT ![m] = Tail(@)]
  /\ UNCHANGED <<conf, now, offered, runs, denials>>

Tick == now < MaxTime /\ now' = now + 1 /\ UNCHANGED <<conf, marks, offered, reports, runs, denials>>

Next == (\E m \in Members : Spawn(m) \/ End(m) \/ Note(m)) \/ Tick
Spec == Init /\ [][Next]_vars

----------------------------------------------------------------------------
(* Properties.                                                             *)

\* A denial that was reported, and of which no report is still to be noted.
Noted(d) == ~d.alone /\ (\A i \in DOMAIN reports[d.by] : reports[d.by][i].route /= d.route)

\* The same denial is not paid for twice: a session starts on a denied route before its
\* stated reset only when every route is denied, or marked (route_fallback.go:73-78).
PaysOnce ==
  \A m \in Members : \A d \in denials :
  offered[m] = <<>> /\ offered'[m] /= <<>> /\ Noted(d) /\ now < d.reset /\ Head(offered'[m]) = d.route =>
    \A r \in Routes : now < marks[r]
NotPaidTwice == [][PaysOnce]_vars

\* A phase always starts, whatever is marked (route_fallback.go:73-76).
StartsSomewhere == runs' > runs => \E n \in Members : offered[n] = <<>> /\ offered'[n] /= <<>>
AlwaysARoute == [][StartsSomewhere]_vars

\* A stale report does not send the next phase back into a limit (route_fallback.go:41-44).
MarksStand == \A r \in Routes : marks'[r] >= marks[r]
NoMarkIsShortened == [][MarksStand]_vars

\* A run goes back to its first route when the reset has passed, and no earlier denial
\* keeps it away (loop.go:315-319).
ReturnsToTheFirst ==
  \A m \in Members :
  offered[m] = <<>> /\ offered'[m] /= <<>> /\ (\A d \in denials : d.route = conf.routes[1] => d.reset > 0 /\ d.reset <= now) => Head(offered'[m]) = conf.routes[1]
BackToTheFirst == [][ReturnsToTheFirst]_vars

\* Every route a session exhausted is marked, the last one too, once what it reported is
\* noted (opencode_routes.go:116-118).
LastIsMarked == \A d \in denials : Noted(d) /\ d.reset > 0 => marks[d.route] >= d.reset

\* A denied last route is marked (route_fallback.go:112).
DeniedIsMarked == (\A m \in Members : reports[m] = <<>>) => \A d \in denials : d.reset > 0 => marks[d.route] >= d.reset
=============================================================================
