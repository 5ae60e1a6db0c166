--------------------------- MODULE FleetReporter ---------------------------
(***************************************************************************)
(* Activity reporting: the run loop, the lease renewers of its sessions    *)
(* and the re-beacon goroutine of a limit wait say what the daemon is      *)
(* doing, into the local BEACON file and onto the queue of a reporter; a   *)
(* pump posts what is queued, one at a time; closing the reporter flushes  *)
(* the queue and posts the stopping beacon. The supervisor's status        *)
(* reporter has the same parts.                                            *)
(*                                                                         *)
(* Posts fail, hang and are refused; the file cannot be removed or         *)
(* written; sessions observe claims while their drain ends; the queue is   *)
(* bounded.                                                                *)
(***************************************************************************)
EXTENDS Integers, Sequences, FiniteSets, SequencesExt

CONSTANTS Renewers,   \* the renewer goroutines: one, or one per member of a panel
          Configs     \* the runs looked at, see ConfigsAssumption

RenewersAssumption == IsFiniteSet(Renewers) /\ "loop" \notin Renewers /\ "limit" \notin Renewers

Outcomes == {"checkpoint", "released", "parked", "dead"}
Refs == {"none", "t1", "t2"}
Kinds == {"idle", "iteration", "draining", "stopping", "limited"}
Events == {"fails", "absent", "claims", "ticks", "budget", "unwritten"}

\* Iterations of the run, phases of one, the queue's capacity; how the drain words its
\* outcome; the attempts of a phase pass; whether it waits out a limit; whether stop()
\* may give up on a wedged renewer.
ConfigsAssumption ==
  \A c \in Configs :
    /\ c.iterations \in Nat \ {0} /\ c.phases \in Nat \ {0} /\ c.cap \in Nat \ {0}
    /\ c.outcome \in Outcomes \cup {"prose"}
    /\ \A i \in DOMAIN c.attempts : c.attempts[i].usage \in BOOLEAN /\ c.attempts[i].cost \in BOOLEAN
    /\ c.sessions \in Nat /\ c.limit \in BOOLEAN /\ c.wedges \in BOOLEAN
    /\ \A e \in Events : c[e] \in Nat

VARIABLES
  conf,    \* the member of Configs this behaviour is about
  loop,    \* the run loop: where it is, the iteration, the phase, its pause flag
  row,     \* the mid-drain presence of the target, under iterMu
  ren,     \* per renewer: its life, and what it does with a claim it observed
  say,     \* per sender, the beacon it is sending
  file,    \* the state the local BEACON file holds, "torn", or "absent"
  rep,     \* the reporter: its queue, its mutex, closed and done, its counters
  pump,    \* the goroutine that posts what is queued
  plane,   \* the plane: the presence row, the records, what it was sent
  left     \* how often each bounded event may still happen

vars == <<conf, loop, row, ren, say, file, rep, pump, plane, left>>
Senders == {"loop", "limit"} \cup Renewers

NoRecord == [n |-> 0, outcome |-> "none", sessions |-> 0, cost |-> FALSE, usage |-> FALSE]
Report(kind, ref, rec) == [kind |-> kind, ref |-> ref, rec |-> rec]
Nothing == Report("idle", "none", NoRecord)
NoRow == [on |-> FALSE, n |-> 0, ref |-> "none"]
Quiet == [pc |-> "quiet", rep |-> Nothing, seq |-> 0]

LoopPCs == {"poll", "begin", "session", "ending", "limited", "end", "bye", "close", "done", "lock",
            "flush", "last", "unlock", "gone"}

TypeOK ==
  /\ conf \in Configs /\ loop.pc \in LoopPCs /\ loop.n \in Nat /\ loop.phase \in Nat
  /\ row.on \in BOOLEAN /\ row.ref \in Refs
  /\ \A r \in Renewers : ren[r].pc \in {"off", "on", "apply", "done", "tick"} /\ ren[r].ref \in Refs
  /\ \A s \in Senders : say[s].pc \in {"quiet", "remove", "create", "check", "enqueue"} /\ say[s].rep.kind \in Kinds
  /\ file \in Kinds \cup {"absent", "torn"}
  /\ Len(rep.queue) <= conf.cap /\ rep.mu \in {"free", "pump", "closer"}
  /\ rep.closed \in BOOLEAN /\ rep.done \in BOOLEAN
  /\ pump.pc \in {"off", "want", "select", "post", "gone"}
  /\ plane.kind \in Kinds \cup {"nothing"}
  /\ left \in [Events -> Nat]

Init ==
  /\ conf \in Configs
  /\ loop = [pc |-> "poll", n |-> 0, phase |-> 0, paused |-> FALSE, flush |-> <<>>]
  /\ row = NoRow
  /\ ren = [r \in Renewers |-> [pc |-> "off", ref |-> "none", over |-> TRUE]]
  /\ say = [s \in Senders |-> Quiet]
  /\ file = "absent"
  /\ rep = [queue |-> <<>>, mu |-> "free", closed |-> FALSE, done |-> FALSE, streak |-> 0, dropped |-> 0,
            lost |-> 0, told |-> 0, sent |-> 0]
  /\ pump = [pc |-> "off", rep |-> Nothing, seq |-> 0]
  /\ plane = [kind |-> "nothing", ref |-> "none", seq |-> 0, records |-> <<>>, refused |-> 0, closing |-> FALSE,
              late |-> 0, unordered |-> 0]
  /\ left = [e \in Events |-> conf[e]]

----------------------------------------------------------------------------
(* What is reported.                                                       *)

\* fleetState: mid-drain first, then a pause, else idle.
fleetState == IF row.on THEN Report("iteration", row.ref, NoRecord)
              ELSE Report(IF loop.paused THEN "draining" ELSE "idle", "none", NoRecord)

\* One phase pass: usage is reported when any attempt reported some, a cost only while
\* every attempt produced one, and never without usage.
usageReported == \E i \in DOMAIN conf.attempts : conf.attempts[i].usage

costKnown ==
  conf.attempts /= <<>> /\ \A i \in DOMAIN conf.attempts : conf.attempts[i].cost
cost == costKnown /\ usageReported

maxSessionsPerIteration == 2   \* 20 in the code, and on the plane

wireSessions(n) == IF n > maxSessionsPerIteration THEN maxSessionsPerIteration ELSE n
\* endIteration: prose is never an outcome.
outcomeOf(o) == IF o \in Outcomes THEN o ELSE "released"
Record == [n |-> loop.n, outcome |-> outcomeOf(conf.outcome),
           sessions |-> IF conf.sessions = 0 THEN 0 ELSE wireSessions(conf.sessions),
           cost |-> cost, usage |-> usageReported]

\* marshalReport: a report with an outcome the plane does not know is not sent at all.
Marshals(r) == r.rec = NoRecord \/ r.rec.outcome \in Outcomes

\* The plane refuses the whole report over its session cap, or a cost without usage.
Accepted(r) == /\ r.rec.sessions <= 2
               /\ r.rec.cost => r.rec.usage

----------------------------------------------------------------------------
(* A beacon: the local file, then the queue.                               *)

Beacons(s, r) == say' = [say EXCEPT ![s] = [pc |-> "remove", rep |-> r, seq |-> 0]]

Unwritten == left.unwritten > 0 /\ left' = [left EXCEPT !.unwritten = @ - 1]

\* writeLocalBeacon removes, then creates: either may fail, and the beacon goes on. A name
\* that is there is taken for a beacon that the same daemon wrote meanwhile.
BeaconRemoves(s) ==
  /\ say[s].pc = "remove" /\ say' = [say EXCEPT ![s].pc = "create"]
  /\ \/ file' = "absent" /\ UNCHANGED left
     \/ Unwritten /\ UNCHANGED file
  /\ UNCHANGED <<conf, loop, row, ren, rep, pump, plane>>
BeaconCreates(s) ==
  /\ say[s].pc = "create"
  /\ \/ file' = (IF file = "absent" THEN say[s].rep.kind ELSE file) /\ UNCHANGED left
     \/ file = "absent" /\ Unwritten /\ file' \in {"absent", "torn"}
  /\ say' = [say EXCEPT ![s] = IF say[s].rep.kind = "stopping" THEN Quiet ELSE [@ EXCEPT !.pc = "check"]]
  /\ UNCHANGED <<conf, loop, row, ren, rep, pump, plane>>

\* Send looks at closed, then starts the pump once, then enqueues or drops: it never waits.
SendChecks(s) ==
  /\ say[s].pc = "check"
  /\ say' = [say EXCEPT ![s] = IF rep.closed THEN Quiet ELSE [@ EXCEPT !.pc = "enqueue"]]
  /\ UNCHANGED <<conf, loop, row, ren, file, rep, pump, plane, left>>

Enqueues(s) ==
  /\ say[s].pc = "enqueue"
  /\ rep' = IF Len(rep.queue) < conf.cap
            THEN [rep EXCEPT !.queue = Append(@, [rep |-> say[s].rep, seq |-> rep.sent + 1]), !.sent = @ + 1]
            ELSE [rep EXCEPT !.dropped = @ + 1, !.lost = @ + 1]
  /\ pump' = IF pump.pc = "off" THEN [pump EXCEPT !.pc = "want"] ELSE pump
  /\ say' = [say EXCEPT ![s] = Quiet]
  /\ UNCHANGED <<conf, loop, row, ren, file, plane, left>>
Beacon == \E s \in Senders : BeaconRemoves(s) \/ BeaconCreates(s) \/ SendChecks(s) \/ Enqueues(s)

----------------------------------------------------------------------------
(* Posting.                                                                *)

\* What a POST comes to: taken, lost on the way, taken though the answer was lost, or
\* a route that is not there.
Posts(q, what) ==
  LET lands == Marshals(q.rep) /\ Accepted(q.rep) /\ what \in {"ok", "unanswered"}
  IN  plane' = [plane EXCEPT
        !.kind = IF lands THEN q.rep.kind ELSE @,
        !.ref = IF lands THEN q.rep.ref ELSE @,
        !.records = IF lands /\ q.rep.rec /= NoRecord THEN Append(@, q.rep.rec) ELSE @,
        !.refused = IF Marshals(q.rep) /\ ~Accepted(q.rep) THEN @ + 1 ELSE @,
        !.late = IF plane.closing THEN @ + 1 ELSE @,
        !.closing = @ \/ q.rep.kind = "stopping",
        !.unordered = IF lands /\ q.rep.kind /= "stopping" /\ q.seq < plane.seq THEN @ + 1 ELSE @,
        !.seq = IF lands THEN q.seq ELSE @]
Answers == {"ok"} \cup (IF left.fails > 0 THEN {"failed", "unanswered"} ELSE {})
                  \cup (IF left.absent > 0 THEN {"absent"} ELSE {})
Spend(what) == left' = CASE what = "ok" -> left [] what = "absent" -> [left EXCEPT !.absent = @ - 1]
                         [] OTHER -> [left EXCEPT !.fails = @ - 1]
Arrived(q, what) == what = "ok" /\ Marshals(q.rep) /\ Accepted(q.rep)

\* deliver: the first failure of a streak is logged, recovery says how many were lost.
\* A status route that does not exist yet is no failure.
Counted(q, what) ==
  CASE Arrived(q, what) -> [rep EXCEPT !.streak = 0, !.dropped = 0, !.told = @ + rep.streak + rep.dropped]
    [] what = "absent" -> rep
    [] OTHER -> [rep EXCEPT !.streak = @ + 1, !.lost = @ + 1]
\* The pump takes the lock around the receive, so that closing can park it.
PumpLocks ==
  /\ pump.pc = "want" /\ rep.mu = "free"
  /\ rep' = [rep EXCEPT !.mu = "pump"] /\ pump' = [pump EXCEPT !.pc = "select"]
  /\ UNCHANGED <<conf, loop, row, ren, say, file, plane, left>>

taken == 1
PumpReceives ==
  /\ pump.pc = "select" /\ rep.queue /= <<>>
  /\ pump' = [pc |-> "post", rep |-> rep.queue[taken].rep, seq |-> rep.queue[taken].seq]
  /\ rep' = [rep EXCEPT !.queue = RemoveAt(@, taken)]
  /\ UNCHANGED <<conf, loop, row, ren, say, file, plane, left>>
PumpParks ==
  /\ pump.pc = "select" /\ rep.done
  /\ rep' = [rep EXCEPT !.mu = "free"] /\ pump' = [pump EXCEPT !.pc = "gone"]
  /\ UNCHANGED <<conf, loop, row, ren, say, file, plane, left>>

PumpPosts ==
  /\ pump.pc = "post"
  /\ \E what \in Answers :
       /\ Posts(pump, what) /\ Spend(what)
       /\ rep' = [Counted(pump, what) EXCEPT !.mu = "free"]
  /\ pump' = [pc |-> "want", rep |-> Nothing, seq |-> 0]
  /\ UNCHANGED <<conf, loop, row, ren, say, file>>
Pump == PumpLocks \/ PumpReceives \/ PumpParks

----------------------------------------------------------------------------
(* The run loop.                                                           *)

Idle(s) == say[s].pc = "quiet"
Goes(pc) == loop' = [loop EXCEPT !.pc = pc]

\* The poll beacons after it has read the pause flags.
Poll ==
  /\ loop.pc = "poll" /\ Idle("loop")
  /\ \E p \in BOOLEAN :
       /\ loop' = [loop EXCEPT !.pc = IF p THEN "bye" ELSE "begin", !.paused = p, !.n = @ + 1, !.phase = 0]
       /\ Beacons("loop", Report(IF p THEN "draining" ELSE "idle", "none", NoRecord))
  /\ UNCHANGED <<conf, row, ren, file, rep, pump, plane, left>>

beginIteration ==
  /\ loop.pc = "begin" /\ Idle("loop")
  /\ row' = [on |-> TRUE, n |-> loop.n, ref |-> row.ref]
  /\ Beacons("loop", Report("iteration", row.ref, NoRecord))
  /\ loop' = [loop EXCEPT !.pc = "session", !.phase = @ + 1]
  /\ ren' = [r \in Renewers |-> IF ren[r].over /\ ren[r].pc \in {"off", "on"}
                                THEN [pc |-> "on", ref |-> row.ref, over |-> FALSE] ELSE ren[r]]
  /\ UNCHANGED <<conf, file, rep, pump, plane, left>>

\* The session ends: done is closed, and the wait for the goroutine is bounded.
SessionEnds ==
  /\ loop.pc = "session" /\ Idle("loop") /\ Goes("ending")
  /\ ren' = [r \in Renewers |-> [ren[r] EXCEPT !.over = TRUE]]
  /\ UNCHANGED <<conf, row, say, file, rep, pump, plane, left>>

joined(r) == ren[r].pc \in {"off", "on"} /\ Idle(r)
stop ==
  /\ loop.pc = "ending" /\ (conf.wedges \/ \A r \in Renewers : joined(r))
  /\ \E next \in {"begin", "end"} \cup (IF conf.limit THEN {"limited"} ELSE {}) :
       /\ next = "begin" => loop.phase < conf.phases
       /\ Goes(next)
       /\ IF next = "limited" THEN Beacons("loop", Report("limited", "none", NoRecord)) ELSE UNCHANGED say
  /\ UNCHANGED <<conf, row, ren, file, rep, pump, plane, left>>

\* The limit wait says "limited" on entry and from a goroutine of its own, which is
\* joined before the wait returns.
ReBeacon ==
  /\ loop.pc = "limited" /\ Idle("loop") /\ Idle("limit") /\ left.ticks > 0
  /\ Beacons("limit", Report("limited", "none", NoRecord)) /\ left' = [left EXCEPT !.ticks = @ - 1]
  /\ UNCHANGED <<conf, loop, row, ren, file, rep, pump, plane>>
LimitLifts ==
  /\ loop.pc = "limited" /\ Idle("loop") /\ Idle("limit") /\ Goes("end")
  /\ UNCHANGED <<conf, row, ren, say, file, rep, pump, plane, left>>

endIteration ==
  /\ loop.pc = "end" /\ Idle("loop")
  /\ row' = NoRow
  /\ Beacons("loop", Report(IF loop.paused THEN "draining" ELSE "idle", "none", Record))
  /\ Goes(IF loop.n < conf.iterations THEN "poll" ELSE "bye")
  /\ UNCHANGED <<conf, ren, file, rep, pump, plane, left>>

\* fleetShutdown: the local file, then Close.
fleetShutdown ==
  /\ loop.pc = "bye" /\ Idle("loop")
  /\ Beacons("loop", Report("stopping", "none", NoRecord)) /\ Goes("close")
  /\ UNCHANGED <<conf, row, ren, file, rep, pump, plane, left>>

----------------------------------------------------------------------------
(* Closing the reporter.                                                   *)

CloseMarks ==
  /\ loop.pc = "close" /\ Idle("loop") /\ ~rep.closed
  /\ rep' = [rep EXCEPT !.closed = TRUE] /\ Goes("done")
  /\ UNCHANGED <<conf, row, ren, say, file, pump, plane, left>>

\* Slip: done is closed with the lock held.
CloseTellsNobody ==
  /\ loop.pc = "done" /\ UNCHANGED rep /\ Goes("lock")
  /\ UNCHANGED <<conf, row, ren, say, file, pump, plane, left>>

CloseTellsPump ==
  /\ loop.pc = "done" /\ rep' = [rep EXCEPT !.done = TRUE] /\ Goes("lock")
  /\ UNCHANGED <<conf, row, ren, say, file, pump, plane, left>>
Drained(q) == q
\* Slip: closing does not wait for the post in flight.
CloseLocksNot ==
  /\ loop.pc = "lock"
  /\ loop' = [loop EXCEPT !.pc = "flush", !.flush = Drained(rep.queue)]
  /\ rep' = [rep EXCEPT !.queue = <<>>]
  /\ UNCHANGED <<conf, row, ren, say, file, pump, plane, left>>

CloseLocks ==
  /\ loop.pc = "lock" /\ rep.mu = "free"
  /\ loop' = [loop EXCEPT !.pc = "flush", !.flush = Drained(rep.queue)]
  /\ rep' = [rep EXCEPT !.mu = "closer", !.queue = <<>>]
  /\ UNCHANGED <<conf, row, ren, say, file, pump, plane, left>>
\* Newest first, until the budget is spent.
CloseFlushes ==
  /\ loop.pc = "flush" /\ loop.flush /= <<>>
  /\ \/ \E what \in Answers :
          /\ Posts(Last(loop.flush), what) /\ Spend(what)
          /\ loop' = [loop EXCEPT !.flush = Front(@)]
     \/ /\ left.budget > 0 /\ left' = [left EXCEPT !.budget = @ - 1]
        /\ loop' = [loop EXCEPT !.flush = <<>>] /\ UNCHANGED plane
  /\ UNCHANGED <<conf, row, ren, say, file, rep, pump>>
CloseFlushed ==
  /\ loop.pc = "flush" /\ loop.flush = <<>> /\ Goes("last")
  /\ UNCHANGED <<conf, row, ren, say, file, rep, pump, plane, left>>
CloseSpeaks ==
  /\ loop.pc = "last" /\ Goes("unlock")
  /\ LET q == [rep |-> Report("stopping", "none", NoRecord), seq |-> rep.sent + 1]
     IN  \E what \in Answers : Posts(q, what) /\ Spend(what) /\ rep' = Counted(q, what)
  /\ UNCHANGED <<conf, row, ren, say, file, pump>>
CloseUnlocks ==
  /\ loop.pc = "unlock" /\ Goes("gone") /\ rep' = [rep EXCEPT !.mu = IF @ = "closer" THEN "free" ELSE @]
  /\ UNCHANGED <<conf, row, ren, say, file, pump, plane, left>>

Closing == CloseMarks \/ CloseTellsPump \/ CloseLocks \/ CloseFlushed \/ CloseUnlocks

----------------------------------------------------------------------------
(* The renewers, while a session runs.                                     *)

\* A claim the session makes or settles reaches the renewer, which looks at done,
Observe(r, ref) ==
  /\ ren[r].pc = "on" /\ Idle(r) /\ ~ren[r].over /\ left.claims > 0 /\ ref /= ren[r].ref
  /\ ren' = [ren EXCEPT ![r].pc = "apply", ![r].ref = ref] /\ left' = [left EXCEPT !.claims = @ - 1]
  /\ UNCHANGED <<conf, loop, row, say, file, rep, pump, plane>>

\* and looks again under the lock: it revises the row only during its session.
sessionOver(r) == ren[r].over
reflectClaim(r) ==
  /\ ren[r].pc = "apply"
  /\ ren' = [ren EXCEPT ![r].pc = "on"]
  /\ IF sessionOver(r) \/ ~row.on \/ row.ref = ren[r].ref
     THEN UNCHANGED <<row, say>>
     ELSE /\ row' = [row EXCEPT !.ref = ren[r].ref]
          /\ Beacons(r, Report("iteration", ren[r].ref, NoRecord))
  /\ UNCHANGED <<conf, loop, file, rep, pump, plane, left>>

\* The presence lap on the renewal tick: done is looked at, then the state derived.
Tick(r) ==
  /\ ren[r].pc = "on" /\ Idle(r) /\ ~ren[r].over /\ left.ticks > 0
  /\ ren' = [ren EXCEPT ![r].pc = "tick"] /\ left' = [left EXCEPT !.ticks = @ - 1]
  /\ UNCHANGED <<conf, loop, row, say, file, rep, pump, plane>>
beaconSession(r) ==
  /\ ren[r].pc = "tick" /\ ren' = [ren EXCEPT ![r].pc = "on"] /\ Beacons(r, fleetState)
  /\ UNCHANGED <<conf, loop, row, file, rep, pump, plane, left>>

Renewer == \E r \in Renewers : reflectClaim(r) \/ beaconSession(r)
Session == \E r \in Renewers : Tick(r) \/ \E ref \in Refs : Observe(r, ref)

LoopStep == \/ Poll \/ beginIteration \/ SessionEnds \/ stop \/ LimitLifts \/ endIteration
            \/ fleetShutdown \/ Closing

Next == LoopStep \/ ReBeacon \/ CloseFlushes \/ CloseSpeaks \/ Beacon \/ Pump \/ PumpPosts \/ Renewer \/ Session

\* The goroutines run; a POST and a session end only where the property says so.
Scheduled == WF_vars(LoopStep) /\ WF_vars(Renewer) /\ WF_vars(Pump)
             /\ \A s \in Senders : WF_vars(BeaconRemoves(s) \/ BeaconCreates(s) \/ SendChecks(s) \/ Enqueues(s))
Spec == Init /\ [][Next]_vars
HungSpec == Spec /\ Scheduled
BoundedSpec == HungSpec /\ WF_vars(PumpPosts) /\ WF_vars(CloseFlushes) /\ WF_vars(CloseSpeaks)

----------------------------------------------------------------------------
(* Properties.                                                             *)

\* The stopping beacon is the last POST this reporter ever makes: silence after it
\* means the daemon is gone (fleet.go:238-241).
ClosingIsLast == plane.late = 0

\* The pump keeps the order in which reports were sent, so the presence row is the
\* newest thing this daemon said (fleet.go:11-13).
OrderIsKept == plane.unordered = 0 \/ loop.pc \in {"flush", "last", "unlock", "gone"}

\* Reports arrive in order, the last ones too (fleet.go:11-13).
FlushKeepsOrder == plane.unordered = 0

\* Nothing the driver sends is refused by the plane, where one bad entry loses the
\* whole report and the presence with it (fleet.go:564-568).
NothingIsRefused == plane.refused = 0

\* A finished iteration is on the record once, unless the log says that reports were
\* lost: a run that ends at a drain boundary keeps the record of it (fleet.go:332-335).
RecordsArrive ==
  loop.pc = "gone" /\ left.fails = conf.fails /\ left.absent = conf.absent /\ left.budget = conf.budget
    /\ rep.lost = 0 /\ (\A s \in Senders : Idle(s)) =>
    /\ \A n \in 1 .. loop.n : ~ (loop.paused /\ n = loop.n) =>
         Cardinality({i \in DOMAIN plane.records : plane.records[i].n = n}) = 1
    /\ \A i \in DOMAIN plane.records : plane.records[i].n \in 1 .. loop.n

\* Never twice, whatever fails.
RecordsOnce == \A i, j \in DOMAIN plane.records : plane.records[i].n = plane.records[j].n => i = j

\* A cost that is shown is the whole pass's, from attempts that each reported one
\* (loop/fleet.go:496-503).
CostIsWhole ==
  \A i \in DOMAIN plane.records : plane.records[i].cost =>
    \A k \in DOMAIN conf.attempts : conf.attempts[k].cost

\* Every report lost while the daemon runs is told on recovery or still counted
\* (fleet.go:382-385).
LossesAreTold == rep.lost = rep.told + rep.streak + rep.dropped

\* A renewer revises the presence row only during the session it renews
\* (heartbeat.go:223-231).
ReflectsInSession ==
  row'.ref /= row.ref /\ loop' = loop => \E r \in Renewers : ~ren[r].over /\ ren[r].pc = "apply"
ReflectsOnlyInSession == [][ReflectsInSession]_vars

\* With nobody writing, the local BEACON says what the daemon last settled on: stopping
\* once the run is over (loop/fleet.go:373-377), never a drain that has ended. After a
\* removal or a write that failed it may not.
BeaconSays(or) ==
  (\A s \in Senders : Idle(s)) /\ (\A r \in Renewers : ren[r].pc \notin {"tick", "apply"}) =>
    /\ loop.pc \in {"done", "lock", "flush", "last", "unlock", "gone"} => file \in {"stopping"} \cup or
    /\ loop.pc \in {"poll", "bye"} /\ loop.n > 0 => file \in {"idle", "draining"} \cup or
BeaconIsCurrent == left.unwritten = conf.unwritten => BeaconSays({})

\* What is there instead of a beacon that was to be written is "a complete, fresh beacon from
\* the same daemon" (loop/fleet.go:274-275), if anything is.
WinnerIsFresh == BeaconSays({"absent", "torn"})

\* Reporting is never control flow: with a plane that answers nothing at all the run
\* still gets to its end (fleet.go:7-13).
LoopNeverWaits == <>(loop.pc = "lock")

\* Closing ends, with every POST bounded by its timeout (fleet.go:320-327).
CloseEnds == <>(loop.pc = "gone")

=============================================================================
