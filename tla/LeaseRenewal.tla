----------------------------- MODULE LeaseRenewal -----------------------------
(***************************************************************************)
(* Who knows what a session holds.  The adapter reads the session's stream *)
(* and tells leaseRenewer.observe of every change of its claim; observe    *)
(* writes CURRENT_CLAIM and queues the change for the renewer's goroutine, *)
(* which beats for the claim it knows of while the session runs.  When the *)
(* daemon dies, its supervisor hands back what CURRENT_CLAIM says.         *)
(*                                                                         *)
(* The session, the plane and other clankers are external.                 *)
(***************************************************************************)
EXTENDS Integers, Sequences, SequencesExt

CONSTANTS
  Tasks, NoTask,
  QueueCap,     \* the capacity of leaseRenewer.claims
  GiveUp,       \* heartbeatGiveUp
  WireCap,      \* bound: events of the session's stream not read yet
  Configs       \* bounds: what one behaviour may meet, see ConfigsAssumption

FaultKinds == {"beat", "unwired", "cancel", "handback", "write", "cut"}

ASSUME TasksAssumption == NoTask \notin Tasks
ASSUME BoundsAssumption == {QueueCap, GiveUp, WireCap} \subseteq Nat \ {0}
\* The tasks of a run, what may go wrong, the claims of one task, the deaths.
ASSUME ConfigsAssumption ==
  \A c \in Configs : /\ c.tasks \subseteq Tasks /\ c.faults \subseteq FaultKinds
                     /\ c.maxRun \in Nat /\ c.maxDeaths \in Nat

VARIABLES
  conf,     \* the member of Configs this behaviour is bounded by
  plane,    \* per task: who holds it, under which run, and whether work is recorded
  sess,     \* the session: the run it works under, and a branch it is recording
  wire,     \* what the session wrote to its stream and the adapter has not read
  claim,    \* Result.Claim, and between two sessions the claim carried over
  obs,      \* where leaseRenewer.observe is
  queue,    \* leaseRenewer.claims
  ren,      \* leaseRenewer.run
  done,     \* leaseRenewer.done is closed
  file,     \* CURRENT_CLAIM
  drv,      \* the driver around Invoke
  trusted,  \* the stream was read to its end
  cancelled,\* the run's context
  sup,      \* the supervisor's handling of an exit
  deaths,
  hist      \* history, for the properties alone

daemon == <<sess, wire, claim, obs, queue, ren, done, drv, trusted, cancelled>>
others == <<sup, deaths, hist, conf>>
vars == <<conf, plane, sess, wire, claim, obs, queue, ren, done, file, drv, trusted,
          cancelled, sup, deaths, hist>>

Runs == UNION {0 .. c.maxRun : c \in Configs}
\* A claim; wip stands for Claim.HasWIP and Claim.Branch, which are set together.
Claims == [task : Tasks \cup {NoTask}, run : Runs, settled : BOOLEAN, wip : BOOLEAN]
NoClaim == [task |-> NoTask, run |-> 0, settled |-> FALSE, wip |-> FALSE]
Held(c) == c.task # NoTask /\ ~c.settled

Events == [kind : {"claim", "branch", "settle"}, task : Tasks, run : Runs, wip : BOOLEAN]
Files == [task : Tasks \cup {NoTask}, run : Runs, branch : BOOLEAN]
NoFile == [task |-> NoTask, run |-> 0, branch |-> FALSE]

Rows == [lease : {"queue", "held", "takeover", "settled", "other"}, run : Runs, work : BOOLEAN]
Sessions == [task : Tasks \cup {NoTask}, run : Runs, recording : BOOLEAN]
NoSession == [task |-> NoTask, run |-> 0, recording |-> FALSE]
Renewers == [pc : {"select", "drain", "beat", "stopped"}, current : Claims,
             failures : 0 .. GiveUp, stoodDown : BOOLEAN]
Histories == [letgo : SUBSET [task : Tasks, run : Runs],
              unknown : SUBSET (Tasks \cup {NoTask}), unwritten : SUBSET (Tasks \cup {NoTask})]

TypeOK ==
  /\ conf \in Configs
  /\ plane \in [Tasks -> Rows]
  /\ sess \in Sessions
  /\ wire \in Seq(Events) /\ Len(wire) <= WireCap
  /\ claim \in Claims
  /\ obs \in {"idle", "file", "queue", "shed", "retry"}
  /\ queue \in Seq(Claims) /\ Len(queue) <= QueueCap
  /\ ren \in Renewers
  /\ done \in BOOLEAN
  /\ file \in Files
  /\ drv \in {"invoke", "stop", "after", "salvaged", "clear", "between", "ended"}
  /\ trusted \in BOOLEAN /\ cancelled \in BOOLEAN
  /\ sup \in {"watch", "remove"}
  /\ deaths \in 0 .. conf.maxDeaths
  /\ hist \in Histories

Stopped == [pc |-> "stopped", current |-> NoClaim, failures |-> 0, stoodDown |-> FALSE]

Init ==
  /\ conf \in Configs
  /\ plane \in [Tasks -> {[lease |-> "queue", run |-> 0, work |-> FALSE],
                          [lease |-> "takeover", run |-> 0, work |-> TRUE]}]
  /\ sess = NoSession /\ wire = <<>> /\ claim = NoClaim /\ obs = "idle" /\ queue = <<>>
  /\ ren = Stopped /\ done = FALSE /\ file = NoFile
  /\ drv = "between" /\ trusted = TRUE /\ cancelled = FALSE
  /\ sup = "watch" /\ deaths = 0
  /\ hist = [letgo |-> {}, unknown |-> {}, unwritten |-> {}]

May(fault) == IF fault \in conf.faults THEN BOOLEAN ELSE {TRUE}

-----------------------------------------------------------------------------
(* The plane                                                               *)

Holds(t, run) == t # NoTask /\ plane[t].lease = "held" /\ plane[t].run = run

\* release_task posts the task as ready; expireLease keeps recorded work for a takeover.
Returned(t, keep) ==
  [plane EXCEPT ![t].lease = IF keep /\ plane[t].work THEN "takeover" ELSE "queue"]

LeaseLapses(t) ==
  /\ plane[t].lease = "held"
  /\ plane' = Returned(t, TRUE)
  /\ UNCHANGED <<daemon, file, others>>

OtherTakes(t) ==
  /\ plane[t].lease \in {"queue", "takeover"} /\ plane[t].run < conf.maxRun
  /\ plane' = [plane EXCEPT ![t].lease = "other", ![t].run = @ + 1]
  /\ UNCHANGED <<daemon, file, others>>

-----------------------------------------------------------------------------
(* The session, and its stream                                             *)

Says(kind, t, run, wip) ==
  /\ Len(wire) < WireCap
  /\ wire' = Append(wire, [kind |-> kind, task |-> t, run |-> run, wip |-> wip])

SessionFrame == UNCHANGED <<claim, obs, queue, ren, done, file, drv, trusted, cancelled, others>>

\* The answer to claim_task carries the run and says whether there is work already.
SessionClaims(t) ==
  /\ drv = "invoke" /\ sess.task = NoTask
  /\ plane[t].lease \in {"queue", "takeover"} /\ plane[t].run < conf.maxRun
  /\ plane' = [plane EXCEPT ![t].lease = "held", ![t].run = @ + 1]
  /\ sess' = [task |-> t, run |-> plane[t].run + 1, recording |-> FALSE]
  /\ Says("claim", t, plane[t].run + 1, plane[t].work)
  /\ SessionFrame

\* record_progress with a branch: the request is in the stream before the plane sees it.
SessionAsksToRecord ==
  /\ drv = "invoke" /\ sess.task # NoTask /\ ~sess.recording /\ ~plane[sess.task].work
  /\ sess' = [sess EXCEPT !.recording = TRUE]
  /\ Says("branch", sess.task, sess.run, TRUE)
  /\ UNCHANGED plane /\ SessionFrame

BranchRecorded ==
  [plane EXCEPT ![sess.task].work = @ \/ Holds(sess.task, sess.run)]

SessionRecords ==
  /\ drv = "invoke" /\ sess.recording
  /\ plane' = BranchRecorded
  /\ sess' = [sess EXCEPT !.recording = FALSE]
  /\ UNCHANGED wire /\ SessionFrame

\* Submitted, completed, parked or asked about: the run is over, then the answer
\* is in the stream.
SessionSettles ==
  /\ drv = "invoke" /\ ~sess.recording /\ Holds(sess.task, sess.run)
  /\ plane' = [plane EXCEPT ![sess.task].lease = "settled"]
  /\ sess' = NoSession
  /\ Says("settle", sess.task, sess.run, FALSE)
  /\ SessionFrame

\* The process exits, or is killed; Invoke returns at the end of the stream.
SessionExits ==
  /\ drv = "invoke" /\ ~sess.recording /\ wire = <<>> /\ obs = "idle"
  /\ drv' = "stop" /\ done' = TRUE /\ sess' = NoSession
  /\ UNCHANGED <<plane, wire, claim, obs, queue, ren, file, trusted, cancelled, others>>

\* The stream breaks off: what is left of it is never read.
StreamBreaks ==
  /\ drv = "invoke" /\ ~sess.recording /\ "cut" \in conf.faults /\ obs = "idle"
  /\ drv' = "stop" /\ done' = TRUE /\ sess' = NoSession
  /\ wire' = <<>> /\ trusted' = FALSE
  /\ hist' = [hist EXCEPT !.unknown = @ \cup {e.task : e \in {e \in ToSet(wire) : e.kind = "branch"}}]
  /\ UNCHANGED <<plane, claim, obs, queue, ren, file, cancelled, sup, deaths, conf>>

-----------------------------------------------------------------------------
(* The adapter and leaseRenewer.observe, on the goroutine that reads the stream *)

\* Claim.Names: an event about another task than the tracked one changes nothing.
AdapterReads ==
  /\ drv = "invoke" /\ obs = "idle" /\ wire # <<>>
  /\ LET e == Head(wire)
     IN IF e.kind # "claim" /\ e.task # claim.task
        THEN UNCHANGED <<claim, obs>>
        ELSE /\ claim' = IF e.kind = "claim"
                         THEN [task |-> e.task, run |-> e.run, settled |-> FALSE, wip |-> e.wip]
                         ELSE IF e.kind = "branch" THEN [claim EXCEPT !.wip = TRUE]
                         ELSE [claim EXCEPT !.settled = TRUE]
             /\ obs' = "file"
  /\ wire' = Tail(wire)
  /\ UNCHANGED <<plane, sess, queue, ren, done, file, drv, trusted, cancelled, others>>

\* noteCurrentClaim: the record of a held claim, and no record otherwise.
Record(c) == IF Held(c) THEN [task |-> c.task, run |-> c.run, branch |-> c.wip] ELSE NoFile

\* The write may fail, which is logged.
NoteCurrentClaim ==
  \E ok \in May("write") :
    /\ file' = IF ok THEN Record(claim) ELSE file
    /\ hist' = IF ok THEN hist ELSE [hist EXCEPT !.unwritten = @ \cup {claim.task}]

ObserveWrites ==
  /\ obs = "file" /\ obs' = "queue" /\ NoteCurrentClaim
  /\ UNCHANGED <<plane, sess, wire, claim, queue, ren, done, drv, trusted, cancelled, sup, deaths,
                 conf>>

ObserveFrame ==
  UNCHANGED <<plane, sess, wire, claim, ren, done, file, drv, trusted, cancelled, others>>

ObserveQueues ==
  /\ obs = "queue"
  /\ IF Len(queue) < QueueCap
     THEN queue' = Append(queue, claim) /\ obs' = "idle"
     ELSE obs' = "shed" /\ UNCHANGED queue
  /\ ObserveFrame

\* Full: the oldest entry is shed, unless the renewer has taken one meanwhile.
ObserveSheds ==
  /\ obs = "shed" /\ obs' = "retry"
  /\ queue' = IF queue = <<>> THEN queue ELSE Tail(queue)
  /\ ObserveFrame

\* Blocks while the queue is full.
ObserveRetries ==
  /\ obs = "retry" /\ Len(queue) < QueueCap
  /\ queue' = Append(queue, claim) /\ obs' = "idle"
  /\ ObserveFrame

-----------------------------------------------------------------------------
(* leaseRenewer.run, on its own goroutine                                  *)

RenewerFrame ==
  UNCHANGED <<plane, sess, wire, claim, obs, done, file, drv, trusted, cancelled, others>>

\* apply: after stop the snapshots still queued are discarded.
RenewerTakes ==
  /\ ren.pc \in {"select", "drain"} /\ queue # <<>>
  /\ queue' = Tail(queue)
  /\ ren' = IF done THEN ren ELSE [ren EXCEPT !.current = Head(queue)]
  /\ RenewerFrame

RenewerTicks ==
  /\ ren.pc = "select"
  /\ ren' = [ren EXCEPT !.pc = "drain"]
  /\ UNCHANGED queue /\ RenewerFrame

\* Slip: the tick does not wait for what is queued.
DrainedOrNot == TRUE

Drained == queue = <<>>

\* Slip: a tick after stop goes on to its beat.
MayBeatStopped == IF ren.stoodDown \/ ~Held(ren.current) THEN "select" ELSE "beat"

MayBeat ==
  IF done THEN "stopped"
  ELSE IF ren.stoodDown \/ ~Held(ren.current) THEN "select" ELSE "beat"

\* The queue is drained: the presence beacon, then the beat.
RenewerDecides ==
  /\ ren.pc = "drain" /\ Drained
  /\ ren' = [ren EXCEPT !.pc = MayBeat]
  /\ UNCHANGED queue /\ RenewerFrame

\* The plane refuses a run that no longer holds the task.
BeatSucceeds ==
  /\ ren.pc = "beat" /\ Holds(ren.current.task, ren.current.run)
  /\ ren' = [ren EXCEPT !.pc = "select", !.failures = 0]
  /\ UNCHANGED queue /\ RenewerFrame

StandsDown(failures) == failures >= GiveUp

BeatFails ==
  /\ ren.pc = "beat"
  /\ "beat" \in conf.faults \/ cancelled \/ ~Holds(ren.current.task, ren.current.run)
  /\ LET failures == ren.failures + 1
     IN ren' = IF cancelled THEN [ren EXCEPT !.pc = "stopped"]
               ELSE [ren EXCEPT !.pc = "select", !.failures = failures,
                                !.stoodDown = StandsDown(failures)]
  /\ UNCHANGED queue /\ RenewerFrame

\* ErrNotWired: no plane to beat to.
BeatUnwired ==
  /\ ren.pc = "beat" /\ "unwired" \in conf.faults
  /\ ren' = [ren EXCEPT !.pc = "select", !.stoodDown = TRUE]
  /\ UNCHANGED queue /\ RenewerFrame

RenewerQuits ==
  /\ ren.pc = "select" /\ (done \/ cancelled)
  /\ ren' = [ren EXCEPT !.pc = "stopped"]
  /\ UNCHANGED queue /\ RenewerFrame

-----------------------------------------------------------------------------
(* The driver around Invoke                                                *)

DriverFrame == UNCHANGED <<wire, obs, sup, deaths, conf>>

\* startLeaseRenewal and Invoke, with the claim carried from the phase before.
StartSession ==
  /\ drv = "between" /\ ~cancelled
  /\ drv' = "invoke" /\ done' = FALSE /\ queue' = <<>> /\ trusted' = TRUE
  /\ ren' = [Stopped EXCEPT !.pc = "select", !.current = claim]
  /\ sess' = IF Held(claim) THEN [task |-> claim.task, run |-> claim.run, recording |-> FALSE]
             ELSE NoSession
  /\ UNCHANGED <<plane, claim, file, cancelled, hist>> /\ DriverFrame

\* stop waits for the goroutine: its beat is bounded by 20 s, the wait by 25.
GoroutineOver == ren.pc = "stopped"

StopReturns ==
  /\ drv = "stop" /\ GoroutineOver
  /\ drv' = "after"
  /\ UNCHANGED <<plane, sess, claim, queue, ren, done, file, trusted, cancelled, hist>>
  /\ DriverFrame

\* Salvage records the branch it pushed, then notes it in CURRENT_CLAIM.
SalvageRecords ==
  /\ drv = "after" /\ trusted /\ Held(claim) /\ ~claim.wip /\ Holds(claim.task, claim.run)
  /\ plane' = [plane EXCEPT ![claim.task].work = TRUE]
  /\ claim' = [claim EXCEPT !.wip = TRUE]
  /\ drv' = "salvaged"
  /\ UNCHANGED <<sess, queue, ren, done, file, trusted, cancelled, hist>> /\ DriverFrame

SalvageNotes ==
  /\ drv = "salvaged" /\ drv' = "after" /\ NoteCurrentClaim
  /\ UNCHANGED <<plane, sess, claim, queue, ren, done, trusted, cancelled>> /\ DriverFrame

\* A checkpoint: the claim is carried to the next phase.
KeepsClaim ==
  /\ drv = "after" /\ trusted /\ Held(claim)
  /\ drv' = "between"
  /\ UNCHANGED <<plane, sess, claim, queue, ren, done, file, trusted, cancelled, hist>>
  /\ DriverFrame

\* Settled, never claimed, or on a stream nobody may act on.
DropsClaim ==
  /\ drv = "after" /\ ~(trusted /\ Held(claim))
  /\ drv' = "between" /\ claim' = NoClaim
  /\ UNCHANGED <<plane, sess, queue, ren, done, file, trusted, cancelled, hist>> /\ DriverFrame

\* The end of a claim on the plane: accepted, the record is cleared; refused, failed
\* or not answered, it stays and the lease is left to expire.
LetsGo(lease) ==
  /\ \E taken, answered \in May("handback") :
       /\ plane' = IF taken /\ Holds(claim.task, claim.run) THEN lease ELSE plane
       /\ hist' = IF plane' = plane THEN hist
                  ELSE [hist EXCEPT !.letgo = @ \cup {[task |-> claim.task, run |-> claim.run]}]
       /\ drv' = IF plane' # plane /\ answered THEN "clear" ELSE "between"
  /\ claim' = NoClaim
  /\ UNCHANGED <<sess, queue, ren, done, file, trusted, cancelled>> /\ DriverFrame

\* releaseHeldClaim, on the evidence at hand or for a claim carried.
HandsBack ==
  /\ drv \in {"after", "between"} /\ trusted /\ Held(claim)
  /\ LetsGo(Returned(claim.task, claim.wip))

\* parkDeadPhase, parkVerification.
Parks ==
  /\ drv = "after" /\ trusted /\ Held(claim)
  /\ LetsGo([plane EXCEPT ![claim.task].lease = "settled"])

ClearsRecord ==
  /\ drv = "clear" /\ drv' = "between" /\ file' = NoFile
  /\ UNCHANGED <<plane, sess, claim, queue, ren, done, trusted, cancelled, hist>> /\ DriverFrame

\* Run returns: an orderly end leaves no record.
Exits ==
  /\ drv = "between" /\ ~Held(claim)
  /\ drv' = "ended" /\ file' = NoFile
  /\ UNCHANGED <<plane, sess, claim, queue, ren, done, trusted, cancelled, hist>> /\ DriverFrame

Cancel ==
  /\ drv = "invoke" /\ "cancel" \in conf.faults /\ cancelled' = TRUE
  /\ UNCHANGED <<plane, sess, claim, queue, ren, done, file, drv, trusted, hist>> /\ DriverFrame

-----------------------------------------------------------------------------
(* The death of the daemon, and its supervisor                             *)

\* The daemon is killed with its session; a branch being recorded may still be.
\* unknown: work of which CURRENT_CLAIM could not know.
DaemonDies ==
  /\ drv # "ended" /\ deaths < conf.maxDeaths
  /\ deaths' = deaths + 1
  /\ \E lands \in BOOLEAN :
       plane' = IF lands /\ sess.recording THEN BranchRecorded ELSE plane
  /\ hist' = [hist EXCEPT !.unknown = @
       \cup {e.task : e \in {e \in ToSet(wire) : e.kind = "branch"}}
       \cup (IF claim.wip /\ (drv = "salvaged" \/ obs = "file") THEN {claim.task} ELSE {})]
  /\ drv' = "ended" /\ sess' = NoSession /\ wire' = <<>> /\ claim' = NoClaim
  /\ obs' = "idle" /\ queue' = <<>> /\ ren' = Stopped /\ done' = FALSE
  /\ trusted' = TRUE /\ cancelled' = FALSE
  /\ UNCHANGED <<file, sup, conf>>

SupervisorFrame == UNCHANGED <<sess, wire, claim, obs, queue, ren, done, trusted, cancelled, deaths,
                             conf>>

\* Slip: the branch in the record is not looked at.
KeepsNothing(f) == FALSE

KeepsWork(f) == f.branch

\* handBackDeadClaim: expireLease for a record with a branch, release for one without.
HandBackDeadClaim ==
  /\ drv = "ended" /\ sup = "watch" /\ file # NoFile
  /\ \E ok \in May("handback") :
       plane' = IF ok /\ Holds(file.task, file.run) THEN Returned(file.task, KeepsWork(file)) ELSE plane
  /\ sup' = "remove"
  /\ UNCHANGED <<file, drv, hist>> /\ SupervisorFrame

RemoveCurrentClaim ==
  /\ sup = "remove" /\ sup' = "watch" /\ file' = NoFile
  /\ UNCHANGED <<plane, drv, hist>> /\ SupervisorFrame

Respawn ==
  /\ drv = "ended" /\ sup = "watch" /\ file = NoFile
  /\ drv' = "between" /\ claim' = NoClaim /\ trusted' = TRUE /\ cancelled' = FALSE
  /\ UNCHANGED <<plane, sess, wire, obs, queue, ren, done, file, sup, deaths, hist, conf>>

\* The supervisor dies as well: its successor spawns the daemon without looking.
SupervisorDies ==
  /\ drv = "ended" /\ deaths < conf.maxDeaths /\ file # NoFile
  /\ deaths' = deaths + 1 /\ sup' = "watch" /\ drv' = "between"
  /\ UNCHANGED <<plane, sess, wire, claim, obs, queue, ren, done, file, trusted, cancelled, hist,
                 conf>>

-----------------------------------------------------------------------------
Plane == \E t \in conf.tasks : LeaseLapses(t) \/ OtherTakes(t)

Session ==
  \/ \E t \in conf.tasks : SessionClaims(t)
  \/ SessionAsksToRecord \/ SessionRecords \/ SessionSettles

Reader ==
  AdapterReads \/ ObserveWrites \/ ObserveQueues \/ ObserveSheds \/ ObserveRetries

Beats == BeatSucceeds \/ BeatFails \/ BeatUnwired
Renewer == RenewerTakes \/ RenewerTicks \/ RenewerDecides \/ Beats \/ RenewerQuits

Driver ==
  \/ StartSession \/ StopReturns \/ SalvageRecords \/ SalvageNotes \/ KeepsClaim
  \/ DropsClaim \/ HandsBack \/ Parks \/ ClearsRecord \/ Exits

Supervisor == HandBackDeadClaim \/ RemoveCurrentClaim \/ Respawn

Next ==
  \/ Plane \/ Session \/ SessionExits \/ StreamBreaks \/ Reader \/ Renewer \/ Driver
  \/ Cancel \/ DaemonDies \/ Supervisor \/ SupervisorDies

Spec == Init /\ [][Next]_vars

\* The goroutines run, the ticker ticks, and calls to the plane are bounded in time.
\* Nothing is asked of the session, the plane or the other clankers.
FairSpec == Spec /\ WF_vars(Reader) /\ WF_vars(Renewer) /\ WF_vars(StopReturns)

\* Besides, select passes a tick that is ready over for ever for no snapshot.
TickSpec == FairSpec /\ WF_vars(RenewerTicks)

-----------------------------------------------------------------------------
(* Properties                                                              *)

\* Latest wins (heartbeat.go:171-173): between two calls of observe, what the
\* renewer knows or has queued ends in the claim the adapter tracks, however many
\* transitions streamed past while it sat in a beat.
NewestClaimReachesRenewer ==
  drv = "invoke" /\ obs = "idle" /\ ren.pc # "stopped"
    => claim = Last(<<ren.current>> \o queue)

\* The parser never waits for the renewer: the entry shed makes room, since nobody
\* else sends (heartbeat.go:207-216).
ObserveNeverBlocks == obs = "retry" => Len(queue) < QueueCap

\* No beat goes out for a run the driver has handed back (heartbeat.go:58-61).
NoBeatOnRunLetGo ==
  ren.pc = "beat" => [task |-> ren.current.task, run |-> ren.current.run] \notin hist.letgo

\* A beat starts only with every observed change taken in: never on the claim
\* from before a settle that is queued (heartbeat.go:307-313).
BeatsOnTheNewest ==
  [][ren.pc # "beat" /\ ren'.pc = "beat" => queue = <<>> /\ Held(ren.current)]_vars

\* While the adapter has read all there is, CURRENT_CLAIM names the run the session
\* works under and knows of recorded work, and a settled run has no record: the branch
\* is on disk before the parser reads on (heartbeat.go:175-181).
RecordFollowsSession ==
  drv = "invoke" /\ wire = <<>> /\ obs # "file" /\ claim.task \notin hist.unwritten \cup {NoTask}
    => IF sess.task = NoTask THEN file = NoFile
       ELSE /\ file.task = sess.task /\ file.run = sess.run
            /\ Holds(sess.task, sess.run) /\ plane[sess.task].work => file.branch

\* A task with recorded work is never put back on the queue as if it had none,
\* by the driver or by the supervisor of a dead one, unless the record could not
\* know of the work (handback.go:6-12, loop.go:6437-6564).
QueueHoldsNoWork ==
  \A t \in Tasks : plane[t].lease = "queue" /\ plane[t].work
                     => t \in hist.unknown \cup hist.unwritten

\* "could not write CURRENT_CLAIM - a child that dies after this will fall back to
\* the lease expiring" (currentclaim.go:140-142): a failed write costs no task the
\* hold on its work.
FailedWritesExpire ==
  \A t \in Tasks : plane[t].lease = "queue" /\ plane[t].work => t \in hist.unknown

\* What a session holds is beaten for, through the stream, the adapter, observe and
\* the queue, unless the session ends, loses it, or the renewer has stood down or
\* been cancelled (heartbeat.go:50-60).
HeldClaimIsBeaten ==
  \A t \in Tasks :
    (drv = "invoke" /\ sess.task = t /\ Holds(t, sess.run))
      ~> \/ ren.pc = "beat" /\ ren.current.task = t /\ Holds(t, ren.current.run)
         \/ drv # "invoke" \/ sess.task # t \/ ~Holds(t, sess.run)
         \/ ren.stoodDown \/ cancelled

\* Only the beat stands down: while the session runs the renewer ticks on, and every
\* tick carries the presence beacon, whatever the session claims meanwhile
\* (heartbeat.go:258-266).
PresenceOutlivesBeats ==
  (drv = "invoke" /\ ren.stoodDown) ~> (ren.pc = "drain" \/ drv # "invoke" \/ cancelled)

\* stop returns by the goroutine's own exit, whatever it was doing (heartbeat.go:377-379).
StopIsBounded == drv = "stop" ~> drv # "stop"

-----------------------------------------------------------------------------
(* What the runs check                                                     *)

\* The renewer beats for what the session holds now: however transitions stream past while
\* it sits in a beat, the newest reaches it, the parser never waits for it, and no beat
\* goes out on an older claim or on a run let go.
RenewerIsCurrent ==
  /\ []TypeOK /\ []NewestClaimReachesRenewer /\ []ObserveNeverBlocks /\ []NoBeatOnRunLetGo
  /\ BeatsOnTheNewest

\* The record on disk is the session's, whatever dies: a task with recorded work goes back
\* to the queue only when the record could not know of the work.
RecordKeepsTheWork == RecordFollowsSession /\ QueueHoldsNoWork

\* The lease is renewed for as long as it is held, the presence beacon outlives beats that
\* fail, and stopping the renewer takes no longer than what it is doing.
RenewalGoesOn == HeldClaimIsBeaten /\ StopIsBounded /\ PresenceOutlivesBeats
=============================================================================
