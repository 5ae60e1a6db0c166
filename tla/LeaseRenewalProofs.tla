-------------------------- MODULE LeaseRenewalProofs --------------------------
(***************************************************************************)
(* The safety of the lease renewal, for any tasks, any capacity of the     *)
(* queue, any number of failures to stand down and any bounds.             *)
(*                                                                         *)
(* Inv is inductive and gives RenewerIsCurrent.  What it adds to the       *)
(* properties: the failure counter stops at the stand-down, the renewer    *)
(* runs only while a session does, and what the driver, the renewer and    *)
(* the unread stream speak of is not a run that was handed back.           *)
(*                                                                         *)
(* RecordInv is inductive where types hold and gives RecordKeepsTheWork.   *)
(* It follows knowledge of recorded work from the session over the unread  *)
(* stream and the tracked claim to CURRENT_CLAIM.                          *)
(***************************************************************************)
EXTENDS LeaseRenewal, TLAPS

\* No beat after the stand-down, and none short of it has used up the failures.
BeatsUntilStoodDown ==
  /\ ren.failures = GiveUp => ren.stoodDown
  /\ ren.pc = "beat" => ~ren.stoodDown

-----------------------------------------------------------------------------
(* Runs, and the updates the actions are made of.                          *)

LEMMA RunsAreNat == Runs \subseteq Nat
  BY ConfigsAssumption DEF Runs

LEMMA ZeroRun ==
  ASSUME NEW c \in Configs
  PROVE  0 \in Runs
  BY ConfigsAssumption DEF Runs

LEMMA NextRun ==
  ASSUME NEW c \in Configs, NEW run \in Runs, run < c.maxRun
  PROVE  run + 1 \in Runs
<1>1. run \in Nat
  BY RunsAreNat
<1>2. run + 1 \in 0 .. c.maxRun
  BY <1>1, ConfigsAssumption
<1> QED
  BY <1>2 DEF Runs

LEMMA ReturnedIsPlane ==
  ASSUME plane \in [Tasks -> Rows], NEW t \in Tasks, NEW keep \in BOOLEAN
  PROVE  Returned(t, keep) \in [Tasks -> Rows]
  BY DEF Returned, Rows

LEMMA BranchRecordedIsPlane ==
  ASSUME plane \in [Tasks -> Rows]
  PROVE  BranchRecorded \in [Tasks -> Rows]
  BY DEF BranchRecorded, Rows, Holds

LEMMA RecordIsFile ==
  ASSUME NEW c \in Claims, NEW k \in Configs
  PROVE  Record(c) \in Files
  BY ZeroRun DEF Record, Claims, Files, NoFile, Held

LEMMA NoteIsTyped ==
  ASSUME TypeOK, NoteCurrentClaim
  PROVE  file' \in Files /\ hist' \in Histories
<1>1. Record(claim) \in Files
  BY RecordIsFile DEF TypeOK
<1>2. [hist EXCEPT !.unwritten = @ \cup {claim.task}] \in Histories
  BY DEF TypeOK, Histories, Claims
<1> QED
  BY <1>1, <1>2 DEF NoteCurrentClaim, TypeOK

LEMMA BeatIsTyped ==
  ASSUME NEW r \in Renewers
  PROVE  /\ [r EXCEPT !.pc = "stopped"] \in Renewers
         /\ [r EXCEPT !.pc = "select", !.failures = 0] \in Renewers
         /\ [r EXCEPT !.pc = "select", !.stoodDown = TRUE] \in Renewers
<1>1. GiveUp \in Nat \ {0} /\ 0 \in 0 .. GiveUp
  BY BoundsAssumption
<1>2. /\ r.pc \in {"select", "drain", "beat", "stopped"} /\ r.current \in Claims
      /\ r.failures \in 0 .. GiveUp /\ r.stoodDown \in BOOLEAN
  BY DEF Renewers
<1>3. [r EXCEPT !.pc = "stopped"] \in Renewers
  BY <1>2 DEF Renewers
<1>4. [r EXCEPT !.pc = "select", !.failures = 0] \in Renewers
  BY <1>1, <1>2 DEF Renewers
<1>5. [r EXCEPT !.pc = "select", !.stoodDown = TRUE] \in Renewers
  BY <1>2 DEF Renewers
<1> QED
  BY <1>3, <1>4, <1>5

LEMMA FailureIsTyped ==
  ASSUME NEW r \in Renewers, r.failures < GiveUp, NEW b \in BOOLEAN
  PROVE  [r EXCEPT !.pc = "select", !.failures = r.failures + 1, !.stoodDown = b] \in Renewers
<1>1. r.failures + 1 \in 0 .. GiveUp
  BY BoundsAssumption DEF Renewers
<1> QED
  BY <1>1 DEF Renewers

LEMMA BranchesUnread ==
  ASSUME wire \in Seq(Events)
  PROVE  {e.task : e \in {e \in ToSet(wire) : e.kind = "branch"}} \subseteq Tasks
<1>1. ToSet(wire) \subseteq Events
  BY DEF ToSet
<1> QED
  BY <1>1 DEF Events

LEMMA QueueTail ==
  ASSUME NEW S, NEW q \in Seq(S), q # <<>>
  PROVE  Tail(q) \in Seq(S) /\ Len(Tail(q)) = Len(q) - 1 /\ Head(q) \in S /\ Len(q) > 0
  OBVIOUS

LEMMA QueueAppend ==
  ASSUME NEW S, NEW q \in Seq(S), NEW c \in S
  PROVE  Append(q, c) \in Seq(S) /\ Len(Append(q, c)) = Len(q) + 1
  OBVIOUS

LEMMA LeaseInit == Init => TypeOK
<1> SUFFICES ASSUME Init PROVE TypeOK
  OBVIOUS
<1> USE BoundsAssumption
<1>1. 0 \in Runs
  BY ZeroRun DEF Init
<1>2. NoClaim \in Claims /\ NoFile \in Files
  BY <1>1 DEF NoClaim, Claims, NoFile, Files
<1>3. conf.maxDeaths \in Nat
  BY ConfigsAssumption DEF Init
<1>4. ren \in Renewers
  BY <1>2 DEF Init, Stopped, Renewers
<1>5. plane \in [Tasks -> Rows]
  <2>1. {[lease |-> "queue", run |-> 0, work |-> FALSE],
         [lease |-> "takeover", run |-> 0, work |-> TRUE]} \subseteq Rows
    BY <1>1 DEF Rows
  <2> QED
    BY <2>1 DEF Init
<1>6. sess \in Sessions
  BY <1>1 DEF Init, NoSession, Sessions
<1>7. hist \in Histories
  BY DEF Init, Histories
<1>8. queue \in Seq(Claims) /\ Len(queue) <= QueueCap /\ wire \in Seq(Events) /\ Len(wire) <= WireCap
  BY DEF Init
<1>9. done \in BOOLEAN /\ trusted \in BOOLEAN /\ cancelled \in BOOLEAN
  BY DEF Init
<1>10. deaths \in 0 .. conf.maxDeaths
  BY <1>3 DEF Init
<1>11. claim \in Claims /\ file \in Files /\ conf \in Configs
  BY <1>2 DEF Init
<1>12. /\ obs \in {"idle", "file", "queue", "shed", "retry"}
       /\ drv \in {"invoke", "stop", "after", "salvaged", "clear", "between", "ended"}
       /\ sup \in {"watch", "remove"}
  BY DEF Init
<1> QED
  BY <1>4, <1>5, <1>6, <1>7, <1>8, <1>9, <1>10, <1>11, <1>12 DEF TypeOK

-----------------------------------------------------------------------------
(* The type invariant, one lemma per process.                              *)

LEMMA PlaneKeepsTypeOK == ASSUME TypeOK, Plane PROVE TypeOK'
<1> SUFFICES ASSUME NEW t \in conf.tasks, LeaseLapses(t) \/ OtherTakes(t)
             PROVE  TypeOK'
  BY DEF Plane
<1>1. t \in Tasks /\ plane \in [Tasks -> Rows] /\ conf \in Configs
  BY ConfigsAssumption DEF TypeOK
<1>2. plane' \in [Tasks -> Rows]
  <2>1. CASE LeaseLapses(t)
    BY <1>1, <2>1, ReturnedIsPlane DEF LeaseLapses
  <2>2. CASE OtherTakes(t)
    <3>1. plane[t].run + 1 \in Runs
      BY <1>1, <2>2, NextRun DEF OtherTakes, Rows
    <3> QED
      BY <1>1, <2>2, <3>1 DEF OtherTakes, Rows
  <2> QED
    BY <2>1, <2>2
<1>3. UNCHANGED <<daemon, file, others>>
  BY DEF LeaseLapses, OtherTakes
<1> QED
  BY <1>2, <1>3 DEF TypeOK, daemon, others

LEMMA SessionKeepsTypeOK == ASSUME TypeOK, Session PROVE TypeOK'
<1> USE BoundsAssumption DEF SessionFrame, others
<1>1. ASSUME NEW t \in conf.tasks, SessionClaims(t) PROVE TypeOK'
  <2>1. t \in Tasks /\ plane \in [Tasks -> Rows] /\ conf \in Configs
    BY ConfigsAssumption DEF TypeOK
  <2>2. plane[t].run + 1 \in Runs /\ plane[t].work \in BOOLEAN
    BY <1>1, <2>1, NextRun DEF SessionClaims, Rows
  <2>3. plane' \in [Tasks -> Rows]
    BY <1>1, <2>1, <2>2 DEF SessionClaims, Rows
  <2>4. sess' \in Sessions
    BY <1>1, <2>1, <2>2 DEF SessionClaims, Sessions
  <2>5. [kind |-> "claim", task |-> t, run |-> plane[t].run + 1, wip |-> plane[t].work] \in Events
    BY <2>1, <2>2 DEF Events
  <2>6. wire' \in Seq(Events) /\ Len(wire') <= WireCap
    BY <1>1, <2>5 DEF SessionClaims, Says, TypeOK
  <2> QED
    BY <1>1, <2>3, <2>4, <2>6 DEF SessionClaims, TypeOK
<1>2. ASSUME SessionAsksToRecord PROVE TypeOK'
  <2>1. sess' \in Sessions /\ sess.task \in Tasks /\ sess.run \in Runs
    BY <1>2 DEF SessionAsksToRecord, Sessions, TypeOK
  <2>2. [kind |-> "branch", task |-> sess.task, run |-> sess.run, wip |-> TRUE] \in Events
    BY <2>1 DEF Events
  <2>3. wire' \in Seq(Events) /\ Len(wire') <= WireCap
    BY <1>2, <2>2 DEF SessionAsksToRecord, Says, TypeOK
  <2> QED
    BY <1>2, <2>1, <2>3 DEF SessionAsksToRecord, TypeOK
<1>3. ASSUME SessionRecords PROVE TypeOK'
  <2>1. sess' \in Sessions
    BY <1>3 DEF SessionRecords, Sessions, TypeOK
  <2>2. plane' \in [Tasks -> Rows]
    BY <1>3, BranchRecordedIsPlane DEF SessionRecords, TypeOK
  <2> QED
    BY <1>3, <2>1, <2>2 DEF SessionRecords, TypeOK
<1>4. ASSUME SessionSettles PROVE TypeOK'
  <2>1. sess.task \in Tasks /\ sess.run \in Runs /\ conf \in Configs
    BY <1>4 DEF SessionSettles, Holds, Sessions, TypeOK
  <2>2. sess' \in Sessions
    BY <1>4, <2>1, ZeroRun DEF SessionSettles, Sessions, NoSession
  <2>3. plane' \in [Tasks -> Rows]
    BY <1>4, <2>1 DEF SessionSettles, Rows, TypeOK
  <2>4. [kind |-> "settle", task |-> sess.task, run |-> sess.run, wip |-> FALSE] \in Events
    BY <2>1 DEF Events
  <2>5. wire' \in Seq(Events) /\ Len(wire') <= WireCap
    BY <1>4, <2>4 DEF SessionSettles, Says, TypeOK
  <2> QED
    BY <1>4, <2>2, <2>3, <2>5 DEF SessionSettles, TypeOK
<1> QED
  BY <1>1, <1>2, <1>3, <1>4 DEF Session

LEMMA ReaderKeepsTypeOK == ASSUME TypeOK, Reader PROVE TypeOK'
<1> USE BoundsAssumption DEF ObserveFrame, others
<1>1. ASSUME AdapterReads PROVE TypeOK'
  <2>1. wire' \in Seq(Events) /\ Len(wire') <= WireCap /\ Head(wire) \in Events
    BY <1>1, QueueTail DEF AdapterReads, TypeOK
  <2>2. claim' \in Claims
    <3> DEFINE e == Head(wire)
    <3>1. e.task \in Tasks /\ e.run \in Runs /\ e.wip \in BOOLEAN
      BY <2>1 DEF Events
    <3>2. [task |-> e.task, run |-> e.run, settled |-> FALSE, wip |-> e.wip] \in Claims
      BY <3>1 DEF Claims
    <3>3. claim \in Claims /\ [claim EXCEPT !.wip = TRUE] \in Claims
                          /\ [claim EXCEPT !.settled = TRUE] \in Claims
      BY DEF TypeOK, Claims
    <3> QED
      BY <1>1, <3>2, <3>3 DEF AdapterReads
  <2>3. obs' \in {"idle", "file"}
    BY <1>1 DEF AdapterReads
  <2> QED
    BY <1>1, <2>1, <2>2, <2>3 DEF AdapterReads, TypeOK
<1>2. ASSUME ObserveWrites PROVE TypeOK'
  <2>1. file' \in Files /\ hist' \in Histories
    BY <1>2, NoteIsTyped DEF ObserveWrites, TypeOK
  <2> QED
    BY <1>2, <2>1 DEF ObserveWrites, TypeOK
<1>3. ASSUME ObserveQueues \/ ObserveSheds \/ ObserveRetries PROVE TypeOK'
  <2>1. queue' \in Seq(Claims) /\ Len(queue') <= QueueCap
    <3>1. claim \in Claims /\ queue \in Seq(Claims) /\ Len(queue) <= QueueCap /\ QueueCap \in Nat
      BY DEF TypeOK
    <3>2. Append(queue, claim) \in Seq(Claims) /\ Len(Append(queue, claim)) = Len(queue) + 1
      BY <3>1, QueueAppend
    <3>3. queue # <<>> => Tail(queue) \in Seq(Claims) /\ Len(Tail(queue)) = Len(queue) - 1
      BY <3>1, QueueTail
    <3>4. Len(queue) \in Nat
      BY <3>1
    <3>5. CASE ObserveQueues
      BY <3>1, <3>2, <3>4, <3>5 DEF ObserveQueues
    <3>6. CASE ObserveSheds
      BY <3>1, <3>3, <3>4, <3>6 DEF ObserveSheds
    <3>7. CASE ObserveRetries
      BY <3>1, <3>2, <3>4, <3>7 DEF ObserveRetries
    <3> QED
      BY <1>3, <3>5, <3>6, <3>7
  <2>2. obs' \in {"idle", "shed", "retry"}
    BY <1>3 DEF ObserveQueues, ObserveSheds, ObserveRetries
  <2>3. UNCHANGED <<plane, sess, wire, claim, ren, done, file, drv, trusted, cancelled, others>>
    BY <1>3 DEF ObserveQueues, ObserveSheds, ObserveRetries
  <2> QED
    BY <2>1, <2>2, <2>3 DEF TypeOK
<1> QED
  BY <1>1, <1>2, <1>3 DEF Reader

LEMMA RenewerKeepsTypeOK == ASSUME TypeOK, BeatsUntilStoodDown, Renewer PROVE TypeOK'
<1> USE BoundsAssumption
<1>1. UNCHANGED <<plane, sess, wire, claim, obs, done, file, drv, trusted, cancelled, others>>
  BY DEF Renewer, Beats, RenewerTakes, RenewerTicks, RenewerDecides, BeatSucceeds, BeatFails,
         BeatUnwired, RenewerQuits, RenewerFrame
<1>2. queue' \in Seq(Claims) /\ Len(queue') <= QueueCap
  <2>1. queue \in Seq(Claims) /\ Len(queue) <= QueueCap /\ QueueCap \in Nat
    BY DEF TypeOK
  <2>2. queue # <<>> => Tail(queue) \in Seq(Claims) /\ Len(Tail(queue)) = Len(queue) - 1
    BY <2>1, QueueTail
  <2>3. Len(queue) \in Nat
    BY <2>1
  <2>4. queue' = queue \/ (queue # <<>> /\ queue' = Tail(queue))
    BY DEF Renewer, Beats, RenewerTakes, RenewerTicks, RenewerDecides, BeatSucceeds,
           BeatFails, BeatUnwired, RenewerQuits
  <2> QED
    BY <2>1, <2>2, <2>3, <2>4
<1>3. ren' \in Renewers
  <2>1. ren \in Renewers /\ queue \in Seq(Claims)
    BY DEF TypeOK
  <2>2. CASE RenewerTakes
    BY <2>1, <2>2, QueueTail DEF RenewerTakes, Renewers
  <2>3. CASE RenewerTicks \/ RenewerQuits
    BY <2>1, <2>3 DEF RenewerTicks, RenewerQuits, Renewers
  <2>4. CASE RenewerDecides
    BY <2>1, <2>4 DEF RenewerDecides, MayBeat, Renewers
  <2>5. CASE BeatSucceeds
    BY <2>1, <2>5, BeatIsTyped DEF BeatSucceeds
  <2>6. CASE BeatFails
    <3>1. ren.pc = "beat" /\ (ren' = [ren EXCEPT !.pc = "stopped"] \/
            ren' = [ren EXCEPT !.pc = "select", !.failures = ren.failures + 1,
                               !.stoodDown = StandsDown(ren.failures + 1)])
      BY <2>6 DEF BeatFails
    <3>2. ren.failures < GiveUp
      BY <2>1, <3>1, BoundsAssumption DEF BeatsUntilStoodDown, Renewers
    <3>3. StandsDown(ren.failures + 1) \in BOOLEAN
      BY DEF StandsDown
    <3> QED
      BY <2>1, <3>1, <3>2, <3>3, BeatIsTyped, FailureIsTyped
  <2>7. CASE BeatUnwired
    BY <2>1, <2>7, BeatIsTyped DEF BeatUnwired
  <2> QED
    BY <2>2, <2>3, <2>4, <2>5, <2>6, <2>7 DEF Renewer, Beats
<1> QED
  BY <1>1, <1>2, <1>3 DEF TypeOK, others

LEMMA DriverKeepsTypeOK ==
  ASSUME TypeOK, Driver \/ SessionExits \/ StreamBreaks \/ Cancel
  PROVE  TypeOK'
<1> USE DEF DriverFrame, others
<1>1. 0 \in Runs /\ conf \in Configs
  BY ZeroRun DEF TypeOK
<1>2. NoSession \in Sessions /\ NoClaim \in Claims /\ NoFile \in Files
  BY <1>1 DEF NoSession, Sessions, NoClaim, Claims, NoFile, Files
<1>3. CASE SessionExits
  BY <1>2, <1>3 DEF SessionExits, TypeOK
<1>4. CASE StreamBreaks
  <2>1. hist' \in Histories
    BY <1>4, BranchesUnread DEF StreamBreaks, TypeOK, Histories
  <2>2. wire' \in Seq(Events) /\ Len(wire') <= WireCap
    BY <1>4, BoundsAssumption DEF StreamBreaks
  <2> QED
    BY <1>2, <1>4, <2>1, <2>2 DEF StreamBreaks, TypeOK
<1>5. CASE StartSession
  <2>1. ren' \in Renewers
    <3>1. ren' = [pc |-> "select", current |-> claim, failures |-> 0, stoodDown |-> FALSE]
      BY <1>5 DEF StartSession, Stopped
    <3>2. claim \in Claims /\ 0 \in 0 .. GiveUp
      BY BoundsAssumption DEF TypeOK
    <3> QED
      BY <3>1, <3>2 DEF Renewers
  <2>2. sess' \in Sessions
    BY <1>2, <1>5 DEF StartSession, TypeOK, Claims, Sessions
  <2>3. queue' \in Seq(Claims) /\ Len(queue') <= QueueCap
    BY <1>5, BoundsAssumption DEF StartSession
  <2> QED
    BY <1>5, <2>1, <2>2, <2>3 DEF StartSession, TypeOK
<1>6. CASE StopReturns \/ KeepsClaim \/ Cancel
  BY <1>6 DEF StopReturns, KeepsClaim, Cancel, TypeOK
<1>7. CASE SalvageRecords
  <2>1. plane' \in [Tasks -> Rows]
    BY <1>7 DEF SalvageRecords, TypeOK, Rows
  <2>2. claim' \in Claims
    BY <1>7 DEF SalvageRecords, TypeOK, Claims
  <2> QED
    BY <1>7, <2>1, <2>2 DEF SalvageRecords, TypeOK
<1>8. CASE SalvageNotes
  <2>1. file' \in Files /\ hist' \in Histories
    BY <1>8, NoteIsTyped DEF SalvageNotes
  <2> QED
    BY <1>8, <2>1 DEF SalvageNotes, TypeOK
<1>9. CASE DropsClaim \/ ClearsRecord \/ Exits
  BY <1>2, <1>9 DEF DropsClaim, ClearsRecord, Exits, TypeOK
<1>10. ASSUME NEW lease \in [Tasks -> Rows], LetsGo(lease), claim.task \in Tasks
       PROVE  TypeOK'
  <2>1. plane' \in [Tasks -> Rows]
    BY <1>10 DEF LetsGo, TypeOK
  <2>2. hist' \in Histories
    <3>1. [task |-> claim.task, run |-> claim.run] \in [task : Tasks, run : Runs]
      BY <1>10 DEF TypeOK, Claims
    <3>2. hist \in Histories
      BY DEF TypeOK
    <3>3. [hist EXCEPT !.letgo = @ \cup {[task |-> claim.task, run |-> claim.run]}] \in Histories
      BY <3>1, <3>2 DEF Histories
    <3> QED
      BY <1>10, <3>2, <3>3 DEF LetsGo
  <2>3. drv' \in {"clear", "between"}
    BY <1>10 DEF LetsGo
  <2> QED
    BY <1>2, <1>10, <2>1, <2>2, <2>3 DEF LetsGo, TypeOK
<1>11. ASSUME Held(claim) PROVE claim.task \in Tasks /\ claim.wip \in BOOLEAN
  BY <1>11 DEF Held, TypeOK, Claims
<1>12. CASE HandsBack
  <2>1. Returned(claim.task, claim.wip) \in [Tasks -> Rows]
    BY <1>11, <1>12, ReturnedIsPlane DEF HandsBack, TypeOK
  <2> QED
    BY <1>10, <1>11, <1>12, <2>1 DEF HandsBack
<1>13. CASE Parks
  <2>1. [plane EXCEPT ![claim.task].lease = "settled"] \in [Tasks -> Rows]
    BY <1>11, <1>13 DEF Parks, TypeOK, Rows
  <2> QED
    BY <1>10, <1>11, <1>13, <2>1 DEF Parks
<1> QED
  BY <1>3, <1>4, <1>5, <1>6, <1>7, <1>8, <1>9, <1>12, <1>13 DEF Driver

LEMMA DeathKeepsTypeOK ==
  ASSUME TypeOK, DaemonDies \/ Supervisor \/ SupervisorDies
  PROVE  TypeOK'
<1> USE DEF SupervisorFrame
<1>1. 0 \in Runs /\ conf \in Configs
  BY ZeroRun DEF TypeOK
<1>2. NoSession \in Sessions /\ NoClaim \in Claims /\ NoFile \in Files /\ Stopped \in Renewers
  BY <1>1, BoundsAssumption
     DEF NoSession, Sessions, NoClaim, Claims, NoFile, Files, Stopped, Renewers
<1>3. deaths < conf.maxDeaths => deaths + 1 \in 0 .. conf.maxDeaths
  BY ConfigsAssumption DEF TypeOK
<1>4. CASE DaemonDies
  <2>1. hist' \in Histories
    BY <1>4, BranchesUnread DEF DaemonDies, TypeOK, Histories, Claims
  <2>2. plane' \in [Tasks -> Rows]
    BY <1>4, BranchRecordedIsPlane DEF DaemonDies, TypeOK
  <2>3. /\ wire' \in Seq(Events) /\ Len(wire') <= WireCap
        /\ queue' \in Seq(Claims) /\ Len(queue') <= QueueCap
    BY <1>4, BoundsAssumption DEF DaemonDies
  <2> QED
    BY <1>2, <1>3, <1>4, <2>1, <2>2, <2>3 DEF DaemonDies, TypeOK
<1>5. CASE HandBackDeadClaim
  <2>1. plane' \in [Tasks -> Rows]
    <3>1. KeepsWork(file) \in BOOLEAN /\ file.task \in Tasks \cup {NoTask}
      BY DEF KeepsWork, TypeOK, Files
    <3>2. CASE Holds(file.task, file.run)
      <4>1. Returned(file.task, KeepsWork(file)) \in [Tasks -> Rows]
        BY <3>1, <3>2, ReturnedIsPlane DEF Holds, TypeOK
      <4> QED
        BY <1>5, <4>1 DEF HandBackDeadClaim, TypeOK
    <3>3. CASE ~Holds(file.task, file.run)
      BY <1>5, <3>3 DEF HandBackDeadClaim, TypeOK
    <3> QED
      BY <3>2, <3>3
  <2> QED
    BY <1>5, <2>1 DEF HandBackDeadClaim, TypeOK
<1>6. CASE RemoveCurrentClaim \/ Respawn
  BY <1>2, <1>6 DEF RemoveCurrentClaim, Respawn, TypeOK
<1>7. CASE SupervisorDies
  BY <1>3, <1>7 DEF SupervisorDies, TypeOK
<1> QED
  BY <1>4, <1>5, <1>6, <1>7 DEF Supervisor

-----------------------------------------------------------------------------
(* The renewer's own bookkeeping, and when it runs.                        *)

\* Who moves the renewer.
LEMMA RenewerAlone ==
  ASSUME [Next]_vars
  PROVE  Renewer \/ StartSession \/ DaemonDies \/ UNCHANGED ren
<1>1. CASE Plane
  BY <1>1 DEF Plane, LeaseLapses, OtherTakes, daemon
<1>2. CASE Session \/ SessionExits \/ StreamBreaks
  BY <1>2 DEF Session, SessionClaims, SessionAsksToRecord, SessionRecords, SessionSettles,
              SessionFrame, SessionExits, StreamBreaks
<1>3. CASE Reader
  BY <1>3 DEF Reader, AdapterReads, ObserveWrites, ObserveQueues, ObserveSheds, ObserveRetries,
              ObserveFrame
<1>4. CASE Driver \/ Cancel
  BY <1>4 DEF Driver, StopReturns, SalvageRecords, SalvageNotes, KeepsClaim, DropsClaim,
              HandsBack, Parks, LetsGo, ClearsRecord, Exits, Cancel
<1>5. CASE Supervisor \/ SupervisorDies
  BY <1>5 DEF Supervisor, HandBackDeadClaim, RemoveCurrentClaim, Respawn, SupervisorDies,
              SupervisorFrame
<1>6. CASE UNCHANGED vars
  BY <1>6 DEF vars
<1> QED
  BY <1>1, <1>2, <1>3, <1>4, <1>5, <1>6 DEF Next

LEMMA BeatsUntilStoodDownStep ==
  ASSUME TypeOK, BeatsUntilStoodDown, [Next]_vars
  PROVE  BeatsUntilStoodDown'
<1> USE BoundsAssumption DEF BeatsUntilStoodDown
<1>1. ren \in Renewers /\ GiveUp \in Nat \ {0}
  BY DEF TypeOK
<1>2. CASE Renewer
  <2>1. CASE RenewerTakes \/ RenewerTicks \/ RenewerQuits \/ BeatUnwired
    BY <1>1, <2>1 DEF RenewerTakes, RenewerTicks, RenewerQuits, BeatUnwired, Renewers
  <2>2. CASE RenewerDecides
    BY <1>1, <2>2 DEF RenewerDecides, MayBeat, Renewers
  <2>3. CASE BeatSucceeds
    BY <1>1, <2>3 DEF BeatSucceeds, Renewers
  <2>4. CASE BeatFails
    <3>1. \/ ren' = [ren EXCEPT !.pc = "stopped"]
          \/ ren' = [ren EXCEPT !.pc = "select", !.failures = ren.failures + 1,
                                !.stoodDown = StandsDown(ren.failures + 1)]
      BY <2>4 DEF BeatFails
    <3>2. CASE ren' = [ren EXCEPT !.pc = "stopped"]
      BY <1>1, <3>2 DEF Renewers
    <3>3. CASE ren' = [ren EXCEPT !.pc = "select", !.failures = ren.failures + 1,
                                  !.stoodDown = StandsDown(ren.failures + 1)]
      <4>1. /\ ren'.pc = "select" /\ ren'.failures = ren.failures + 1
            /\ ren'.stoodDown = StandsDown(ren.failures + 1)
        BY <1>1, <3>3 DEF Renewers
      <4>2. ren.failures + 1 = GiveUp => StandsDown(ren.failures + 1)
        BY <1>1 DEF StandsDown
      <4> QED
        BY <4>1, <4>2
    <3> QED
      BY <3>1, <3>2, <3>3
  <2> QED
    BY <1>2, <2>1, <2>2, <2>3, <2>4 DEF Renewer, Beats
<1>3. CASE StartSession
  BY <1>1, <1>3 DEF StartSession, Stopped
<1>4. CASE DaemonDies
  BY <1>1, <1>4 DEF DaemonDies, Stopped
<1>5. CASE UNCHANGED ren
  BY <1>5
<1> QED
  BY <1>2, <1>3, <1>4, <1>5, RenewerAlone

LEMMA TypeStep ==
  ASSUME TypeOK, BeatsUntilStoodDown, [Next]_vars
  PROVE  TypeOK'
<1>1. CASE UNCHANGED vars
  BY <1>1 DEF vars, TypeOK
<1> QED
  BY <1>1, PlaneKeepsTypeOK, SessionKeepsTypeOK, ReaderKeepsTypeOK, RenewerKeepsTypeOK,
     DriverKeepsTypeOK, DeathKeepsTypeOK DEF Next

-----------------------------------------------------------------------------
(* The newest claim, and the room observe finds in the queue.              *)

\* The renewer is asked to stop when the session is over, and only waits in between.
RenewsDuringSessions ==
  /\ drv = "invoke" => ~done
  /\ drv \notin {"invoke", "stop"} => ren.pc = "stopped"

LEMMA RenewsDuringSessionsStep ==
  ASSUME TypeOK, RenewsDuringSessions, [Next]_vars
  PROVE  RenewsDuringSessions'
<1> USE DEF RenewsDuringSessions
<1>1. ren \in Renewers
  BY DEF TypeOK
<1>2. CASE Plane \/ Session \/ Reader \/ UNCHANGED vars
  <2>1. UNCHANGED <<drv, done, ren>>
    BY <1>2 DEF Plane, LeaseLapses, OtherTakes, daemon, Session, SessionClaims,
       SessionAsksToRecord, SessionRecords, SessionSettles, SessionFrame, Reader, AdapterReads,
       ObserveWrites, ObserveQueues, ObserveSheds, ObserveRetries, ObserveFrame, vars
  <2> QED
    BY <2>1
<1>3. CASE Renewer
  <2>1. UNCHANGED <<drv, done>> /\ ren.pc # "stopped"
    BY <1>3 DEF Renewer, Beats, RenewerTakes, RenewerTicks, RenewerDecides, BeatSucceeds,
       BeatFails, BeatUnwired, RenewerQuits, RenewerFrame
  <2> QED
    BY <2>1
<1>4. CASE SessionExits \/ StreamBreaks \/ Cancel
  BY <1>4 DEF SessionExits, StreamBreaks, Cancel
<1>5. CASE StartSession \/ StopReturns
  BY <1>5 DEF StartSession, StopReturns, GoroutineOver
<1>6. CASE SalvageRecords \/ SalvageNotes \/ KeepsClaim \/ DropsClaim \/ ClearsRecord \/ Exits
  BY <1>6 DEF SalvageRecords, SalvageNotes, KeepsClaim, DropsClaim, ClearsRecord, Exits
<1>7. CASE HandsBack \/ Parks
  BY <1>7 DEF HandsBack, Parks, LetsGo
<1>8. CASE DaemonDies \/ Supervisor \/ SupervisorDies
  BY <1>8 DEF DaemonDies, Stopped, Supervisor, HandBackDeadClaim, RemoveCurrentClaim, Respawn,
     SupervisorDies, SupervisorFrame
<1> QED
  BY <1>2, <1>3, <1>4, <1>5, <1>6, <1>7, <1>8 DEF Next, Driver

LEMMA LastOfAppended ==
  ASSUME NEW S, NEW first \in S, NEW q \in Seq(S), NEW c \in S
  PROVE  Last(<<first>> \o Append(q, c)) = c
  BY DEF Last

LEMMA LastOfQueued ==
  ASSUME NEW S, NEW first \in S, NEW q \in Seq(S)
  PROVE  /\ q # <<>> => Last(<<Head(q)>> \o Tail(q)) = Last(<<first>> \o q)
         /\ Last(<<first>> \o <<>>) = first
  BY DEF Last

LEMMA NewestClaimStep ==
  ASSUME TypeOK, RenewsDuringSessions, NewestClaimReachesRenewer, [Next]_vars
  PROVE  NewestClaimReachesRenewer'
<1> USE DEF NewestClaimReachesRenewer
<1>1. ren \in Renewers /\ ren.current \in Claims /\ queue \in Seq(Claims) /\ claim \in Claims
  BY DEF TypeOK, Renewers
<1>2. SUFFICES ASSUME drv' = "invoke", obs' = "idle", ren'.pc # "stopped"
               PROVE  claim' = Last(<<ren'.current>> \o queue')
  OBVIOUS
<1>3. CASE Reader
  <2>1. CASE AdapterReads
    BY <1>2, <2>1 DEF AdapterReads
  <2>2. CASE ObserveWrites \/ ObserveSheds
    BY <1>2, <2>2 DEF ObserveWrites, ObserveSheds
  <2>3. CASE ObserveQueues \/ ObserveRetries
    <3>1. queue' = Append(queue, claim) /\ UNCHANGED <<claim, ren>>
      BY <1>2, <2>3 DEF ObserveQueues, ObserveRetries, ObserveFrame
    <3>2. Last(<<ren.current>> \o Append(queue, claim)) = claim
      BY <1>1, LastOfAppended
    <3> QED
      BY <3>1, <3>2
  <2> QED
    BY <1>3, <2>1, <2>2, <2>3 DEF Reader
<1>4. CASE Renewer
  <2>1. UNCHANGED <<drv, obs, claim>> /\ ren.pc # "stopped"
    BY <1>4 DEF Renewer, Beats, RenewerTakes, RenewerTicks, RenewerDecides, BeatSucceeds,
       BeatFails, BeatUnwired, RenewerQuits, RenewerFrame
  <2>2. claim = Last(<<ren.current>> \o queue) /\ ~done
    BY <1>2, <2>1 DEF RenewsDuringSessions
  <2>3. CASE RenewerTakes
    <3>1. queue # <<>> /\ queue' = Tail(queue) /\ ren'.current = Head(queue)
      BY <1>1, <2>2, <2>3 DEF RenewerTakes, Renewers
    <3>2. Last(<<Head(queue)>> \o Tail(queue)) = Last(<<ren.current>> \o queue)
      BY <1>1, <3>1, LastOfQueued
    <3> QED
      BY <2>1, <2>2, <3>1, <3>2
  <2>4. CASE ~RenewerTakes
    <3>1. queue' = queue /\ ren'.current = ren.current
      BY <1>1, <1>4, <2>4 DEF Renewer, Beats, RenewerTicks, RenewerDecides, BeatSucceeds,
         BeatFails, BeatUnwired, RenewerQuits, Renewers
    <3> QED
      BY <2>1, <2>2, <3>1
  <2> QED
    BY <2>3, <2>4
<1>5. CASE StartSession
  <2>1. ren'.current = claim /\ queue' = <<>> /\ claim' = claim
    BY <1>5 DEF StartSession, Stopped
  <2>2. Last(<<claim>> \o <<>>) = claim
    BY <1>1, LastOfQueued
  <2> QED
    BY <2>1, <2>2
<1>6. CASE Plane \/ Session \/ Cancel \/ UNCHANGED vars
  <2>1. UNCHANGED <<drv, obs, claim, ren, queue>>
    BY <1>6 DEF Plane, LeaseLapses, OtherTakes, daemon, Session, SessionClaims,
       SessionAsksToRecord, SessionRecords, SessionSettles, SessionFrame, Cancel, DriverFrame, vars
  <2> QED
    BY <1>2, <2>1
<1>7. CASE SessionExits \/ StreamBreaks \/ (Driver /\ ~StartSession)
  <2>1. CASE SessionExits \/ StreamBreaks \/ StopReturns \/ ClearsRecord \/ Exits
    BY <1>2, <2>1 DEF SessionExits, StreamBreaks, StopReturns, ClearsRecord, Exits
  <2>2. CASE SalvageRecords \/ SalvageNotes \/ KeepsClaim \/ DropsClaim
    BY <1>2, <2>2 DEF SalvageRecords, SalvageNotes, KeepsClaim, DropsClaim
  <2>3. CASE HandsBack \/ Parks
    BY <1>2, <2>3 DEF HandsBack, Parks, LetsGo
  <2> QED
    BY <1>7, <2>1, <2>2, <2>3 DEF Driver
<1>8. CASE DaemonDies \/ Supervisor \/ SupervisorDies
  <2>1. CASE DaemonDies \/ SupervisorDies
    BY <1>2, <2>1 DEF DaemonDies, SupervisorDies
  <2>2. CASE Supervisor
    <3>1. UNCHANGED <<drv, obs, claim, ren, queue>> \/ drv' = "between"
      BY <2>2 DEF Supervisor, HandBackDeadClaim, RemoveCurrentClaim, Respawn, SupervisorFrame
    <3> QED
      BY <1>2, <3>1
  <2> QED
    BY <1>8, <2>1, <2>2
<1> QED
  BY <1>3, <1>4, <1>5, <1>6, <1>7, <1>8 DEF Next

LEMMA ObserveNeverBlocksStep ==
  ASSUME TypeOK, ObserveNeverBlocks, [Next]_vars
  PROVE  ObserveNeverBlocks'
<1> USE DEF ObserveNeverBlocks
<1>1. queue \in Seq(Claims) /\ Len(queue) <= QueueCap /\ QueueCap \in Nat \ {0} /\ Len(queue) \in Nat
  BY BoundsAssumption DEF TypeOK
<1>2. queue # <<>> => Len(Tail(queue)) = Len(queue) - 1 /\ Len(queue) > 0
  BY <1>1, QueueTail
<1>3. CASE Reader
  <2>1. CASE ObserveSheds
    BY <1>1, <1>2, <2>1 DEF ObserveSheds
  <2>2. CASE ~ObserveSheds
    BY <1>3, <2>2 DEF Reader, AdapterReads, ObserveWrites, ObserveQueues, ObserveRetries
  <2> QED
    BY <2>1, <2>2
<1>4. CASE Renewer
  BY <1>1, <1>2, <1>4 DEF Renewer, Beats, RenewerTakes, RenewerTicks, RenewerDecides,
     BeatSucceeds, BeatFails, BeatUnwired, RenewerQuits, RenewerFrame
<1>5. CASE StartSession \/ DaemonDies
  BY <1>1, <1>5 DEF StartSession, DaemonDies
<1>6. CASE UNCHANGED <<obs, queue>>
  BY <1>6
<1>7. CASE Plane \/ Session \/ Cancel \/ UNCHANGED vars
  BY <1>6, <1>7 DEF Plane, LeaseLapses, OtherTakes, daemon, Session, SessionClaims,
     SessionAsksToRecord, SessionRecords, SessionSettles, SessionFrame, Cancel, DriverFrame, vars
<1>8. CASE SessionExits \/ StreamBreaks \/ (Driver /\ ~StartSession)
  BY <1>6, <1>8 DEF SessionExits, StreamBreaks, Driver, StopReturns, SalvageRecords, SalvageNotes,
     KeepsClaim, DropsClaim, HandsBack, Parks, LetsGo, ClearsRecord, Exits, DriverFrame
<1>9. CASE Supervisor \/ SupervisorDies
  BY <1>6, <1>9 DEF Supervisor, HandBackDeadClaim, RemoveCurrentClaim, Respawn,
     SupervisorDies, SupervisorFrame
<1> QED
  BY <1>3, <1>4, <1>5, <1>7, <1>8, <1>9 DEF Next

-----------------------------------------------------------------------------
(* Runs the driver has handed back.                                        *)

Key(c) == [task |-> c.task, run |-> c.run]

\* A run handed back is over on the plane, and neither the driver, nor the renewer
\* while it runs, nor a claim still unread in the stream is about it.
LetGoRunsAreOver ==
  /\ \A r \in hist.letgo : r.run <= plane[r.task].run
  /\ Key(claim) \notin hist.letgo
  /\ drv # "invoke" => wire = <<>>
  /\ \A j \in DOMAIN wire : wire[j].kind = "claim" => Key(wire[j]) \notin hist.letgo
  /\ drv \in {"invoke", "stop"} =>
       /\ Key(ren.current) \notin hist.letgo
       /\ \A j \in DOMAIN queue : Key(queue[j]) \notin hist.letgo

LEMMA LeaseKeepsRuns ==
  ASSUME NEW p \in [Tasks -> Rows], NEW t, NEW l, NEW u \in Tasks
  PROVE  [p EXCEPT ![t].lease = l][u].run = p[u].run
<1>1. [p EXCEPT ![t].lease = l][u] = IF u = t THEN [p[u] EXCEPT !.lease = l] ELSE p[u]
  OBVIOUS
<1>2. p[u] \in Rows
  OBVIOUS
<1> QED
  BY <1>1, <1>2 DEF Rows

LEMMA WorkKeepsRuns ==
  ASSUME NEW p \in [Tasks -> Rows], NEW t, NEW w, NEW u \in Tasks
  PROVE  [p EXCEPT ![t].work = w][u].run = p[u].run
<1>1. [p EXCEPT ![t].work = w][u] = IF u = t THEN [p[u] EXCEPT !.work = w] ELSE p[u]
  OBVIOUS
<1>2. p[u] \in Rows
  OBVIOUS
<1> QED
  BY <1>1, <1>2 DEF Rows

LEMMA LetGoSession ==
  ASSUME TypeOK, LetGoRunsAreOver, Session
  PROVE  LetGoRunsAreOver'
<1> USE DEF LetGoRunsAreOver
<1>1. /\ UNCHANGED <<hist, claim, drv, ren, queue>> /\ drv = "invoke" /\ plane \in [Tasks -> Rows]
      /\ wire \in Seq(Events) /\ hist \in Histories
  BY DEF Session, SessionClaims, SessionAsksToRecord, SessionRecords, SessionSettles,
         SessionFrame, others, TypeOK
<1>2. ASSUME NEW t \in conf.tasks, SessionClaims(t) PROVE LetGoRunsAreOver'
  <2>1. t \in Tasks /\ plane[t].run \in Nat
    BY <1>1, ConfigsAssumption, RunsAreNat DEF TypeOK, Rows
  <2> DEFINE e == [kind |-> "claim", task |-> t, run |-> plane[t].run + 1, wip |-> plane[t].work]
  <2>2. wire' = Append(wire, e)
    BY <1>2 DEF SessionClaims, Says
  <2>3. Key(e) \notin hist.letgo
    <3>1. ASSUME Key(e) \in hist.letgo PROVE FALSE
      <4>1. Key(e).run <= plane[Key(e).task].run
        BY <3>1
      <4>2. Key(e).run = plane[t].run + 1 /\ Key(e).task = t
        BY DEF Key
      <4> QED
        BY <2>1, <4>1, <4>2
    <3> QED
      BY <3>1
  <2>4. \A r \in hist.letgo : r.run <= plane'[r.task].run
    <3>1. SUFFICES ASSUME NEW r \in hist.letgo PROVE r.run <= plane'[r.task].run
      OBVIOUS
    <3>2. r.task \in Tasks /\ r.run \in Nat /\ r.run <= plane[r.task].run
      BY <1>1, <3>1, RunsAreNat DEF Histories
    <3>3. plane'[r.task].run = plane[r.task].run \/ plane'[r.task].run = plane[r.task].run + 1
      BY <1>1, <1>2, <2>1, <3>2 DEF SessionClaims, Rows
    <3>4. plane[r.task].run \in Nat
      BY <1>1, <3>2, RunsAreNat DEF Rows
    <3> QED
      BY <3>2, <3>3, <3>4
  <2>5. \A j \in DOMAIN wire' : wire'[j].kind = "claim" => Key(wire'[j]) \notin hist.letgo
    <3> HIDE DEF e
    <3> QED
      BY <1>1, <2>2, <2>3
  <2> QED
    BY <1>1, <2>4, <2>5
<1>3. ASSUME SessionAsksToRecord \/ SessionRecords \/ SessionSettles PROVE LetGoRunsAreOver'
  <2>1. wire' = wire \/ \E e \in [kind : {"branch", "settle"}, task : {sess.task}, run : {sess.run}, wip : BOOLEAN] :
                          wire' = Append(wire, e)
    BY <1>3 DEF SessionAsksToRecord, SessionRecords, SessionSettles, Says
  <2>2. \A j \in DOMAIN wire' : wire'[j].kind = "claim" => Key(wire'[j]) \notin hist.letgo
    BY <1>1, <2>1
  <2>3. \A u \in Tasks : plane'[u].run = plane[u].run
    <3>1. CASE SessionAsksToRecord
      BY <3>1 DEF SessionAsksToRecord
    <3>2. CASE SessionRecords
      BY <1>1, <3>2, WorkKeepsRuns DEF SessionRecords, BranchRecorded
    <3>3. CASE SessionSettles
      BY <1>1, <3>3, LeaseKeepsRuns DEF SessionSettles
    <3> QED
      BY <1>3, <3>1, <3>2, <3>3
  <2>4. \A r \in hist.letgo : r.task \in Tasks
    BY <1>1 DEF Histories
  <2> QED
    BY <1>1, <2>2, <2>3, <2>4
<1> QED
  BY <1>2, <1>3 DEF Session

\* What a step keeps of the plane, and of the runs let go.
LEMMA RunsAreOver ==
  ASSUME TypeOK, LetGoRunsAreOver, hist'.letgo = hist.letgo,
         \A u \in Tasks : plane'[u].run \in Nat /\ plane[u].run <= plane'[u].run
  PROVE  \A r \in hist'.letgo : r.run <= plane'[r.task].run
<1>1. SUFFICES ASSUME NEW r \in hist.letgo PROVE r.run <= plane'[r.task].run
  OBVIOUS
<1>2. r.task \in Tasks /\ r.run \in Nat /\ r.run <= plane[r.task].run
  BY <1>1, RunsAreNat DEF TypeOK, Histories, LetGoRunsAreOver
<1>3. plane[r.task].run \in Nat
  BY <1>2, RunsAreNat DEF TypeOK, Rows
<1> QED
  BY <1>2, <1>3

LEMMA NobodyLetGo ==
  ASSUME TypeOK, NEW c, c.task = NoTask
  PROVE  Key(c) \notin hist.letgo
<1>1. ASSUME Key(c) \in hist.letgo PROVE FALSE
  <2>1. Key(c).task \in Tasks
    BY <1>1 DEF TypeOK, Histories
  <2> QED
    BY <2>1, TasksAssumption DEF Key
<1> QED
  BY <1>1

LEMMA PlaneRunsGrow ==
  ASSUME TypeOK, Plane
  PROVE  \A u \in Tasks : plane'[u].run \in Nat /\ plane[u].run <= plane'[u].run
<1>1. plane \in [Tasks -> Rows]
  BY DEF TypeOK
<1>2. \A u \in Tasks : plane[u].run \in Nat
  BY <1>1, RunsAreNat DEF Rows
<1>3. PICK t \in conf.tasks : LeaseLapses(t) \/ OtherTakes(t)
  BY DEF Plane
<1>4. CASE LeaseLapses(t)
  <2>1. \A u \in Tasks : plane'[u].run = plane[u].run
    BY <1>1, <1>4, LeaseKeepsRuns DEF LeaseLapses, Returned
  <2> QED
    BY <1>2, <2>1
<1>5. CASE OtherTakes(t)
  <2>1. \A u \in Tasks : plane'[u].run = plane[u].run \/ plane'[u].run = plane[u].run + 1
    BY <1>1, <1>5 DEF OtherTakes, Rows
  <2> QED
    BY <1>2, <2>1
<1> QED
  BY <1>3, <1>4, <1>5

LEMMA LetGoReader ==
  ASSUME TypeOK, LetGoRunsAreOver, Reader
  PROVE  LetGoRunsAreOver'
<1>1. /\ wire \in Seq(Events) /\ queue \in Seq(Claims) /\ claim \in Claims
      /\ plane \in [Tasks -> Rows]
  BY DEF TypeOK
<1>2. UNCHANGED <<plane, drv, ren>> /\ hist'.letgo = hist.letgo
  <2>1. hist' = hist \/ hist' = [hist EXCEPT !.unwritten = @ \cup {claim.task}]
    BY DEF Reader, AdapterReads, ObserveWrites, NoteCurrentClaim, ObserveQueues, ObserveSheds,
           ObserveRetries, ObserveFrame, others
  <2>2. hist'.letgo = hist.letgo
    BY <2>1 DEF TypeOK, Histories
  <2> QED
    BY <2>2 DEF Reader, AdapterReads, ObserveWrites, ObserveQueues, ObserveSheds,
                ObserveRetries, ObserveFrame
<1>3. \A r \in hist'.letgo : r.run <= plane'[r.task].run
  BY <1>2 DEF LetGoRunsAreOver
<1>4. CASE AdapterReads
  <2>1. wire # <<>> /\ wire' = Tail(wire) /\ queue' = queue /\ drv = "invoke"
    BY <1>4 DEF AdapterReads
  <2>2. Len(wire) > 0 /\ Head(wire) = wire[1] /\ 1 \in DOMAIN wire
    BY <1>1, <2>1
  <2>3. \A j \in DOMAIN wire' : j + 1 \in DOMAIN wire /\ wire'[j] = wire[j + 1]
    BY <1>1, <2>1
  <2>4. Key(claim') = Key(claim) \/ (Head(wire).kind = "claim" /\ Key(claim') = Key(Head(wire)))
    BY <1>1, <1>4 DEF AdapterReads, Key, Claims
  <2>5. Key(claim') \notin hist.letgo
    BY <2>2, <2>4 DEF LetGoRunsAreOver
  <2>6. \A j \in DOMAIN wire' : wire'[j].kind = "claim" => Key(wire'[j]) \notin hist.letgo
    BY <2>3 DEF LetGoRunsAreOver
  <2> QED
    BY <1>2, <1>3, <2>1, <2>5, <2>6 DEF LetGoRunsAreOver
<1>5. CASE ~AdapterReads
  <2>1. UNCHANGED <<wire, claim>> /\ (queue' = queue \/ queue' = Append(queue, claim)
                                      \/ (queue # <<>> /\ queue' = Tail(queue)))
    BY <1>5 DEF Reader, ObserveWrites, ObserveQueues, ObserveSheds, ObserveRetries, ObserveFrame
  <2>2. ASSUME drv \in {"invoke", "stop"}, NEW j \in DOMAIN queue' PROVE Key(queue'[j]) \notin hist.letgo
    <3>1. queue'[j] = claim \/ \E k \in DOMAIN queue : queue'[j] = queue[k]
      <4>1. CASE queue' = Append(queue, claim)
        BY <1>1, <2>2, <4>1
      <4>2. CASE queue # <<>> /\ queue' = Tail(queue)
        <5>1. j + 1 \in DOMAIN queue /\ queue'[j] = queue[j + 1]
          BY <1>1, <2>2, <4>2
        <5> QED
          BY <5>1
      <4> QED
        BY <2>1, <2>2, <4>1, <4>2
    <3> QED
      BY <2>2, <3>1 DEF LetGoRunsAreOver
  <2> QED
    BY <1>2, <1>3, <2>1, <2>2 DEF LetGoRunsAreOver
<1> QED
  BY <1>4, <1>5

LEMMA LetGoRenewer ==
  ASSUME TypeOK, LetGoRunsAreOver, Renewer
  PROVE  LetGoRunsAreOver'
<1>1. UNCHANGED <<plane, hist, wire, claim, drv>>
  BY DEF Renewer, Beats, RenewerTakes, RenewerTicks, RenewerDecides, BeatSucceeds, BeatFails,
         BeatUnwired, RenewerQuits, RenewerFrame, others
<1>2. ren \in Renewers /\ queue \in Seq(Claims)
  BY DEF TypeOK
<1>3. CASE RenewerTakes
  <2>1. queue # <<>> /\ queue' = Tail(queue)
        /\ (ren' = ren \/ ren' = [ren EXCEPT !.current = Head(queue)])
    BY <1>3 DEF RenewerTakes
  <2>2. ren'.current = ren.current \/ ren'.current = Head(queue)
    BY <1>2, <2>1 DEF Renewers
  <2>3. Head(queue) = queue[1] /\ 1 \in DOMAIN queue
    BY <1>2, <2>1
  <2>4. \A j \in DOMAIN queue' : j + 1 \in DOMAIN queue /\ queue'[j] = queue[j + 1]
    BY <1>2, <2>1
  <2> QED
    BY <1>1, <2>2, <2>3, <2>4 DEF LetGoRunsAreOver
<1>4. CASE ~RenewerTakes
  <2>1. queue' = queue
    BY <1>4 DEF Renewer, Beats, RenewerTicks, RenewerDecides, BeatSucceeds, BeatFails,
                BeatUnwired, RenewerQuits
  <2>2. ren'.current = ren.current
    BY <1>2, <1>4 DEF Renewer, Beats, RenewerTicks, RenewerDecides, BeatSucceeds, BeatFails,
                BeatUnwired, RenewerQuits, Renewers
  <2> QED
    BY <1>1, <2>1, <2>2 DEF LetGoRunsAreOver
<1> QED
  BY <1>3, <1>4

LEMMA LetGoLetsGo ==
  ASSUME TypeOK, LetGoRunsAreOver, drv \in {"after", "between"}, NEW p \in [Tasks -> Rows],
         \A u \in Tasks : p[u].run = plane[u].run, LetsGo(p)
  PROVE  LetGoRunsAreOver'
<1>1. plane \in [Tasks -> Rows] /\ hist \in Histories /\ claim \in Claims
  BY DEF TypeOK
<1>2. /\ plane' = plane \/ (plane' = p /\ Holds(claim.task, claim.run))
      /\ hist' = IF plane' = plane THEN hist
                 ELSE [hist EXCEPT !.letgo = @ \cup {Key(claim)}]
      /\ drv' \in {"clear", "between"} /\ claim' = NoClaim /\ UNCHANGED wire
  BY DEF LetsGo, DriverFrame, Key
<1>3. wire = <<>>
  BY DEF LetGoRunsAreOver
<1>4. Key(claim') \notin hist'.letgo
  <2>1. Key(claim').task = NoTask
    BY <1>2 DEF Key, NoClaim
  <2>2. \A r \in hist'.letgo : r.task \in Tasks
    <3>1. \A r \in hist.letgo : r.task \in Tasks
      BY <1>1 DEF Histories
    <3>2. CASE plane' = plane
      BY <1>2, <3>1, <3>2
    <3>3. CASE plane' # plane
      <4>1. Key(claim).task \in Tasks
        BY <1>1, <1>2, <3>3 DEF Holds, Claims, Key
      <4>2. hist'.letgo = hist.letgo \cup {Key(claim)}
        BY <1>1, <1>2, <3>3 DEF Histories
      <4> QED
        BY <3>1, <4>1, <4>2
    <3> QED
      BY <3>2, <3>3
  <2> QED
    BY <2>1, <2>2, TasksAssumption
<1>5. ASSUME NEW r \in hist'.letgo PROVE r.run <= plane'[r.task].run
  <2>1. CASE r \in hist.letgo
    <3>1. r.task \in Tasks /\ r.run <= plane[r.task].run
      BY <1>1, <2>1 DEF Histories, LetGoRunsAreOver
    <3> QED
      BY <1>2, <3>1
  <2>2. CASE r \notin hist.letgo
    <3>1. plane' = p /\ Holds(claim.task, claim.run) /\ hist'.letgo = hist.letgo \cup {Key(claim)}
      BY <1>1, <1>2, <2>2 DEF Histories
    <3>2. r.task = claim.task /\ r.run = claim.run
      BY <2>2, <3>1, <1>5 DEF Key
    <3>3. claim.task \in Tasks /\ plane[claim.task].run = claim.run /\ claim.run \in Nat
      BY <1>1, <3>1, RunsAreNat DEF Holds, Claims
    <3> QED
      BY <3>1, <3>2, <3>3
  <2> QED
    BY <2>1, <2>2
<1> QED
  BY <1>2, <1>3, <1>4, <1>5 DEF LetGoRunsAreOver

LEMMA LetGoDriver ==
  ASSUME TypeOK, LetGoRunsAreOver, Driver
  PROVE  LetGoRunsAreOver'
<1>1. plane \in [Tasks -> Rows] /\ hist \in Histories /\ claim \in Claims
  BY DEF TypeOK
<1>2. CASE StartSession
  <2>1. ren'.current = claim /\ queue' = <<>> /\ UNCHANGED <<plane, claim, hist, wire>> /\ wire = <<>>
    BY <1>2 DEF StartSession, DriverFrame, LetGoRunsAreOver, Stopped
  <2> QED
    BY <2>1 DEF LetGoRunsAreOver
<1>3. CASE StopReturns \/ KeepsClaim \/ ClearsRecord \/ Exits
  <2>1. drv' \notin {"invoke", "stop"} /\ UNCHANGED <<plane, claim, hist, wire>> /\ drv # "invoke"
    BY <1>3 DEF StopReturns, KeepsClaim, ClearsRecord, Exits, DriverFrame
  <2> QED
    BY <2>1 DEF LetGoRunsAreOver
<1>4. CASE DropsClaim
  <2>1. drv' = "between" /\ UNCHANGED <<plane, hist, wire>> /\ drv # "invoke" /\ claim' = NoClaim
    BY <1>4 DEF DropsClaim, DriverFrame
  <2>2. Key(claim') \notin hist.letgo
    BY <2>1, NobodyLetGo DEF NoClaim
  <2> QED
    BY <2>1, <2>2 DEF LetGoRunsAreOver
<1>5. CASE SalvageRecords
  <2>1. /\ drv' = "salvaged" /\ UNCHANGED <<hist, wire>> /\ drv # "invoke"
        /\ claim' = [claim EXCEPT !.wip = TRUE] /\ plane' = [plane EXCEPT ![claim.task].work = TRUE]
    BY <1>5 DEF SalvageRecords, DriverFrame
  <2>2. Key(claim') = Key(claim)
    BY <1>1, <2>1 DEF Key, Claims
  <2>3. \A u \in Tasks : plane'[u].run = plane[u].run
    BY <1>1, <2>1, WorkKeepsRuns
  <2>4. \A r \in hist.letgo : r.task \in Tasks
    BY <1>1 DEF Histories
  <2> QED
    BY <2>1, <2>2, <2>3, <2>4 DEF LetGoRunsAreOver
<1>6. CASE SalvageNotes
  <2>1. /\ drv' = "after" /\ UNCHANGED <<plane, claim, wire>> /\ drv # "invoke"
        /\ hist' = hist \/ hist' = [hist EXCEPT !.unwritten = @ \cup {claim.task}]
    BY <1>6 DEF SalvageNotes, NoteCurrentClaim, DriverFrame
  <2>2. hist'.letgo = hist.letgo
    BY <1>1, <2>1 DEF Histories
  <2> QED
    BY <2>1, <2>2 DEF LetGoRunsAreOver
<1>7. CASE HandsBack \/ Parks
  <2>1. drv \in {"after", "between"} /\ claim.task \in Tasks
    BY <1>1, <1>7 DEF HandsBack, Parks, Held, Claims
  <2>2. CASE HandsBack
    <3>1. Returned(claim.task, claim.wip) \in [Tasks -> Rows]
      BY <1>1, <2>1, ReturnedIsPlane DEF Claims
    <3>2. \A u \in Tasks : Returned(claim.task, claim.wip)[u].run = plane[u].run
      BY <1>1, LeaseKeepsRuns DEF Returned
    <3> QED
      BY <2>1, <2>2, <3>1, <3>2, LetGoLetsGo DEF HandsBack
  <2>3. CASE Parks
    <3>1. [plane EXCEPT ![claim.task].lease = "settled"] \in [Tasks -> Rows]
      BY <1>1, <2>1 DEF Rows
    <3>2. \A u \in Tasks : [plane EXCEPT ![claim.task].lease = "settled"][u].run = plane[u].run
      BY <1>1, LeaseKeepsRuns
    <3> QED
      BY <2>1, <2>3, <3>1, <3>2, LetGoLetsGo DEF Parks
  <2> QED
    BY <1>7, <2>2, <2>3
<1> QED
  BY <1>2, <1>3, <1>4, <1>5, <1>6, <1>7 DEF Driver

LEMMA LetGoDeath ==
  ASSUME TypeOK, LetGoRunsAreOver, DaemonDies \/ Supervisor \/ SupervisorDies
  PROVE  LetGoRunsAreOver'
<1>1. plane \in [Tasks -> Rows] /\ hist \in Histories /\ file \in Files
  BY DEF TypeOK
<1>2. hist'.letgo = hist.letgo
  BY <1>1 DEF DaemonDies, Supervisor, HandBackDeadClaim, RemoveCurrentClaim, Respawn,
     SupervisorDies, SupervisorFrame, Histories
<1>3. \A u \in Tasks : plane'[u].run = plane[u].run
  <2>1. \/ plane' = plane \/ plane' = BranchRecorded
        \/ plane' = Returned(file.task, KeepsWork(file))
    BY DEF DaemonDies, Supervisor, HandBackDeadClaim, RemoveCurrentClaim, Respawn,
       SupervisorDies, SupervisorFrame
  <2>2. CASE plane' = BranchRecorded
    BY <1>1, <2>2, WorkKeepsRuns DEF BranchRecorded
  <2>3. CASE plane' = Returned(file.task, KeepsWork(file))
    BY <1>1, <2>3, LeaseKeepsRuns DEF Returned
  <2> QED
    BY <2>1, <2>2, <2>3
<1>4. \A r \in hist'.letgo : r.run <= plane'[r.task].run
  <2>1. \A r \in hist.letgo : r.task \in Tasks
    BY <1>1 DEF Histories
  <2> QED
    BY <1>2, <1>3, <2>1 DEF LetGoRunsAreOver
<1>5. Key(claim') \notin hist'.letgo
  <2>1. claim' = claim \/ claim' = NoClaim
    BY DEF DaemonDies, Supervisor, HandBackDeadClaim, RemoveCurrentClaim, Respawn,
       SupervisorDies, SupervisorFrame
  <2>2. Key(NoClaim) \notin hist.letgo
    BY NobodyLetGo DEF NoClaim
  <2> QED
    BY <1>2, <2>1, <2>2 DEF LetGoRunsAreOver
<1>6. /\ wire' = wire \/ wire' = <<>>
      /\ drv' \in {"invoke", "stop"} => drv' = drv /\ UNCHANGED <<ren, queue>>
      /\ drv' = drv \/ wire' = <<>> \/ drv # "invoke"
  BY DEF DaemonDies, Supervisor, HandBackDeadClaim, RemoveCurrentClaim, Respawn,
     SupervisorDies, SupervisorFrame
<1> QED
  BY <1>2, <1>4, <1>5, <1>6 DEF LetGoRunsAreOver

LEMMA LetGoStep ==
  ASSUME TypeOK, LetGoRunsAreOver, [Next]_vars
  PROVE  LetGoRunsAreOver'
<1>1. CASE Plane
  <2>1. UNCHANGED <<hist, claim, wire, drv, ren, queue>>
    BY <1>1 DEF Plane, LeaseLapses, OtherTakes, daemon, others
  <2>2. \A r \in hist'.letgo : r.run <= plane'[r.task].run
    <3>1. \A u \in Tasks : plane'[u].run \in Nat /\ plane[u].run <= plane'[u].run
      BY <1>1, PlaneRunsGrow
    <3> QED
      BY <2>1, <3>1, RunsAreOver
  <2> QED
    BY <2>1, <2>2 DEF LetGoRunsAreOver
<1>2. CASE Session
  BY <1>2, LetGoSession
<1>3. CASE SessionExits \/ StreamBreaks
  <2>1. /\ drv = "invoke" /\ drv' = "stop" /\ wire' = <<>>
        /\ UNCHANGED <<plane, claim, queue, ren>>
    BY <1>3 DEF SessionExits, StreamBreaks
  <2>2. hist'.letgo = hist.letgo
    BY <1>3 DEF SessionExits, StreamBreaks, others, TypeOK, Histories
  <2> QED
    BY <2>1, <2>2 DEF LetGoRunsAreOver
<1>4. CASE Reader
  BY <1>4, LetGoReader
<1>5. CASE Renewer
  BY <1>5, LetGoRenewer
<1>6. CASE Driver
  BY <1>6, LetGoDriver
<1>7. CASE Cancel \/ UNCHANGED vars
  <2>1. UNCHANGED <<plane, hist, claim, wire, drv, ren, queue>>
    BY <1>7 DEF Cancel, DriverFrame, vars
  <2> QED
    BY <2>1 DEF LetGoRunsAreOver
<1>8. CASE DaemonDies \/ Supervisor \/ SupervisorDies
  BY <1>8, LetGoDeath
<1> QED
  BY <1>1, <1>2, <1>3, <1>4, <1>5, <1>6, <1>7, <1>8 DEF Next

-----------------------------------------------------------------------------
(* The theorems.                                                           *)

Inv ==
  /\ TypeOK
  /\ BeatsUntilStoodDown
  /\ RenewsDuringSessions
  /\ NewestClaimReachesRenewer
  /\ ObserveNeverBlocks
  /\ LetGoRunsAreOver

LEMMA InvInit == Init => Inv
<1> SUFFICES ASSUME Init PROVE Inv
  OBVIOUS
<1>1. TypeOK
  BY LeaseInit
<1>2. BeatsUntilStoodDown /\ RenewsDuringSessions /\ NewestClaimReachesRenewer /\ ObserveNeverBlocks
  BY BoundsAssumption DEF Init, Stopped, BeatsUntilStoodDown, RenewsDuringSessions,
     NewestClaimReachesRenewer, ObserveNeverBlocks
<1>3. LetGoRunsAreOver
  BY DEF Init, LetGoRunsAreOver
<1> QED
  BY <1>1, <1>2, <1>3 DEF Inv

LEMMA InvStep == Inv /\ [Next]_vars => Inv'
  BY TypeStep, BeatsUntilStoodDownStep, RenewsDuringSessionsStep, NewestClaimStep,
     ObserveNeverBlocksStep, LetGoStep DEF Inv

\* The inductive invariant holds throughout.
THEOREM LeaseInv == Spec => []Inv
  BY InvInit, InvStep, PTL DEF Spec

\* Every variable keeps its type, whatever the tasks, the capacity of the queue, the
\* number of failures to stand down and the bounds.
THEOREM LeaseTypeOK == Spec => []TypeOK
<1>1. Inv => TypeOK
  BY DEF Inv
<1> QED
  BY <1>1, LeaseInv, PTL

\* Between two calls of observe the last claim the renewer knows or has queued is the
\* one the adapter tracks, however many snapshots were shed (heartbeat.go:171-216).
THEOREM LeaseNewestClaimReachesRenewer == Spec => []NewestClaimReachesRenewer
<1>1. Inv => NewestClaimReachesRenewer
  BY DEF Inv
<1> QED
  BY <1>1, LeaseInv, PTL

\* The send after a shed always finds room: the goroutine that reads the stream
\* never waits for the renewer (heartbeat.go:207-216).
THEOREM LeaseObserveNeverBlocks == Spec => []ObserveNeverBlocks
<1>1. Inv => ObserveNeverBlocks
  BY DEF Inv
<1> QED
  BY <1>1, LeaseInv, PTL

\* No beat is under way for a run the driver has handed back: a beat needs the
\* goroutine, the goroutine is over before the driver lets go, and no later session
\* is told of the run again (heartbeat.go:58-61, 377-379).
THEOREM LeaseNoBeatOnRunLetGo == Spec => []NoBeatOnRunLetGo
<1>1. Inv => NoBeatOnRunLetGo
  BY DEF Inv, TypeOK, RenewsDuringSessions, LetGoRunsAreOver, NoBeatOnRunLetGo, Key
<1> QED
  BY <1>1, LeaseInv, PTL

LEMMA BeatsOnTheNewestStep ==
  ASSUME TypeOK, Next, ren.pc # "beat", ren'.pc = "beat"
  PROVE  queue = <<>> /\ Held(ren.current)
<1>1. ren \in Renewers
  BY DEF TypeOK
<1>2. Renewer
  <2>1. CASE Plane \/ Session \/ SessionExits \/ StreamBreaks \/ Reader \/ Cancel \/ Supervisor
             \/ SupervisorDies \/ DaemonDies
    <3>1. UNCHANGED ren \/ ren' = Stopped
      BY <2>1 DEF Plane, LeaseLapses, OtherTakes, daemon, Session, SessionClaims,
         SessionAsksToRecord, SessionRecords, SessionSettles, SessionFrame, SessionExits,
         StreamBreaks, Reader, AdapterReads, ObserveWrites, ObserveQueues, ObserveSheds,
         ObserveRetries, ObserveFrame, Cancel, Supervisor, HandBackDeadClaim,
         RemoveCurrentClaim, Respawn, SupervisorFrame, SupervisorDies, DaemonDies
    <3> QED
      BY <3>1 DEF Stopped
  <2>2. CASE Driver
    <3>1. UNCHANGED ren \/ ren' = [Stopped EXCEPT !.pc = "select", !.current = claim]
      BY <2>2 DEF Driver, StartSession, StopReturns, SalvageRecords, SalvageNotes, KeepsClaim,
         DropsClaim, HandsBack, Parks, LetsGo, ClearsRecord, Exits
    <3> QED
      BY <3>1 DEF Stopped
  <2> QED
    BY <2>1, <2>2 DEF Next
<1>3. RenewerDecides
  BY <1>1, <1>2 DEF Renewer, Beats, RenewerTakes, RenewerTicks, BeatSucceeds, BeatFails,
     BeatUnwired, RenewerQuits, Renewers
<1>4. ren'.pc = MayBeat
  BY <1>1, <1>3 DEF RenewerDecides, Renewers
<1> QED
  BY <1>3, <1>4 DEF RenewerDecides, Drained, MayBeat

\* A beat starts only for a held claim, with every observed change taken in
\* (heartbeat.go:307-313).
THEOREM LeaseBeatsOnTheNewest == Spec => BeatsOnTheNewest
<1>1. TypeOK /\ [Next]_vars
        => [ren.pc # "beat" /\ ren'.pc = "beat" => queue = <<>> /\ Held(ren.current)]_vars
  BY BeatsOnTheNewestStep DEF vars
<1> QED
  BY <1>1, LeaseTypeOK, PTL DEF Spec, BeatsOnTheNewest

-----------------------------------------------------------------------------
\* What the run checks of the renewer, for any tasks, queue and deaths: it comes to know
\* the newest claim, never blocks the parser, and beats for nothing older (heartbeat.go).
THEOREM LeaseRenewerIsCurrent == Spec => RenewerIsCurrent
  BY LeaseTypeOK, LeaseNewestClaimReachesRenewer, LeaseObserveNeverBlocks, LeaseNoBeatOnRunLetGo,
     LeaseBeatsOnTheNewest, PTL DEF RenewerIsCurrent

-----------------------------------------------------------------------------
(* What the stream tells, and what CURRENT_CLAIM records.                  *)

NoKey == [task |-> NoTask, run |-> 0]

\* The run of the session when the reader has taken in the first j events of w.
After(c, w, j) ==
  IF j = 0 THEN IF Held(c) THEN Key(c) ELSE NoKey
  ELSE IF w[j].kind = "settle" THEN NoKey ELSE Key(w[j])

\* Claim, branches and settle of a run follow each other in the stream, from the claim the
\* adapter tracks to the run the session works under; without a session there is nothing.
StreamTellsSession ==
  IF drv = "invoke"
  THEN /\ Key(sess) = After(claim, wire, Len(wire))
       /\ \A j \in DOMAIN wire :
            After(claim, wire, j - 1) = IF wire[j].kind = "claim" THEN NoKey ELSE Key(wire[j])
  ELSE sess = NoSession /\ wire = <<>> /\ obs = "idle"

LEMMA AfterAppended ==
  ASSUME NEW c, NEW w \in Seq(Events), NEW e, NEW j \in 0 .. Len(w)
  PROVE  After(c, Append(w, e), j) = After(c, w, j)
  BY DEF After

LEMMA AfterIsRun ==
  ASSUME TypeOK, NEW j \in 0 .. Len(wire), After(claim, wire, j).task = NoTask
  PROVE  After(claim, wire, j) = NoKey
<1>1. CASE j = 0
  BY <1>1 DEF After, Held, Key
<1>2. CASE j # 0
  <2>1. wire[j] \in Events
    BY <1>2 DEF TypeOK
  <2>2. wire[j].task \in Tasks
    BY <2>1 DEF Events
  <2> QED
    BY <1>2, <2>2, TasksAssumption DEF After, Key
<1> QED
  BY <1>1, <1>2

LEMMA StreamSession ==
  ASSUME TypeOK, TypeOK', StreamTellsSession, Session
  PROVE  StreamTellsSession'
<1>1. /\ UNCHANGED <<claim, drv>> /\ drv = "invoke"
  BY DEF Session, SessionClaims, SessionAsksToRecord, SessionRecords, SessionSettles, SessionFrame
<1>2. wire \in Seq(Events) /\ wire' \in Seq(Events) /\ Len(wire) \in Nat
  BY DEF TypeOK
<1>3. sess \in Sessions /\ (sess.task = NoTask => Key(sess) = NoKey)
  <2>1. Key(sess).task = sess.task
    BY DEF Key
  <2> QED
    BY <1>1, <1>2, <2>1, AfterIsRun DEF StreamTellsSession, TypeOK
<1>4. CASE SessionRecords
  <2>1. wire' = wire /\ Key(sess') = Key(sess)
    BY <1>3, <1>4 DEF SessionRecords, Sessions, Key
  <2> QED
    BY <1>1, <2>1 DEF StreamTellsSession
<1>5. ASSUME NEW e, wire' = Append(wire, e),
             Key(sess) = IF e.kind = "claim" THEN NoKey ELSE Key(e),
             Key(sess') = IF e.kind = "settle" THEN NoKey ELSE Key(e)
      PROVE  StreamTellsSession'
  <2>1. Len(wire') = Len(wire) + 1 /\ wire'[Len(wire')] = e
        /\ \A j \in 1 .. Len(wire) : wire'[j] = wire[j]
    BY <1>2, <1>5
  <2>2. \A j \in 0 .. Len(wire) : After(claim', wire', j) = After(claim, wire, j)
    BY <1>1, <1>2, <1>5, AfterAppended
  <2>3. Key(sess') = After(claim', wire', Len(wire'))
    BY <1>2, <1>5, <2>1 DEF After
  <2>4. ASSUME NEW j \in DOMAIN wire'
        PROVE  After(claim', wire', j - 1)
                 = IF wire'[j].kind = "claim" THEN NoKey ELSE Key(wire'[j])
    <3>1. CASE j \in 1 .. Len(wire)
      <4>1. j - 1 \in 0 .. Len(wire)
        BY <1>2, <3>1
      <4> QED
        BY <1>1, <1>2, <2>1, <2>2, <3>1, <4>1 DEF StreamTellsSession
    <3>2. CASE j = Len(wire')
      <4>1. j - 1 = Len(wire) /\ wire'[j] = e
        BY <1>2, <2>1, <3>2
      <4> QED
        BY <1>1, <1>2, <1>5, <2>2, <4>1 DEF StreamTellsSession
    <3> QED
      BY <1>2, <2>1, <3>1, <3>2
  <2> QED
    BY <1>1, <2>3, <2>4 DEF StreamTellsSession
<1>6. ASSUME NEW t \in conf.tasks, SessionClaims(t) PROVE StreamTellsSession'
  <2> DEFINE e == [kind |-> "claim", task |-> t, run |-> plane[t].run + 1, wip |-> plane[t].work]
  <2>1. wire' = Append(wire, e) /\ Key(sess') = Key(e) /\ e.kind = "claim" /\ sess.task = NoTask
    BY <1>6 DEF SessionClaims, Says, Key
  <2> HIDE DEF e
  <2> QED
    BY <1>3, <1>5, <2>1
<1>7. CASE SessionAsksToRecord
  <2> DEFINE e == [kind |-> "branch", task |-> sess.task, run |-> sess.run, wip |-> TRUE]
  <2>1. wire' = Append(wire, e) /\ Key(sess') = Key(e) /\ e.kind = "branch" /\ Key(sess) = Key(e)
    BY <1>3, <1>7 DEF SessionAsksToRecord, Says, Key, Sessions
  <2> HIDE DEF e
  <2> QED
    BY <1>5, <2>1
<1>8. CASE SessionSettles
  <2> DEFINE e == [kind |-> "settle", task |-> sess.task, run |-> sess.run, wip |-> FALSE]
  <2>1. wire' = Append(wire, e) /\ Key(sess') = NoKey /\ e.kind = "settle" /\ Key(sess) = Key(e)
    BY <1>3, <1>8 DEF SessionSettles, Says, Key, NoSession, NoKey
  <2> HIDE DEF e
  <2> QED
    BY <1>5, <2>1
<1> QED
  BY <1>4, <1>6, <1>7, <1>8 DEF Session

\* What reading an event makes of the claim.
LEMMA EventRead ==
  ASSUME TypeOK, StreamTellsSession, AdapterReads
  PROVE  LET e == wire[1]
         IN /\ drv = "invoke" /\ obs = "idle" /\ obs' = "file"
            /\ wire # <<>> /\ wire' = Tail(wire) /\ e \in Events
            /\ Key(claim') = Key(e) /\ (Held(claim') <=> e.kind # "settle")
            /\ e.kind = "claim" => ~Held(claim) /\ claim'.wip = e.wip
            /\ e.kind # "claim" => Held(claim) /\ Key(claim) = Key(e)
            /\ e.kind = "branch" => claim'.wip
            /\ UNCHANGED <<plane, sess, file, drv, trusted, hist, sup>>
<1> DEFINE e == wire[1]
<1>1. /\ drv = "invoke" /\ obs = "idle" /\ wire # <<>> /\ wire' = Tail(wire)
      /\ UNCHANGED <<plane, sess, file, drv, trusted, hist, sup>>
  BY DEF AdapterReads, others
<1>2. wire \in Seq(Events) /\ claim \in Claims
  BY DEF TypeOK
<1>3. Head(wire) = e /\ 1 \in DOMAIN wire /\ e \in Events
  BY <1>1, <1>2
<1>4. After(claim, wire, 0) = IF e.kind = "claim" THEN NoKey ELSE Key(e)
  BY <1>1, <1>3 DEF StreamTellsSession
<1>5. e.task \in Tasks /\ e.task # NoTask /\ e.kind \in {"claim", "branch", "settle"}
  BY <1>3, TasksAssumption DEF Events
<1>6. CASE e.kind = "claim"
  <2>1. ~Held(claim)
    BY <1>4, <1>6 DEF After, Held, Key, NoKey
  <2>2. claim' = [task |-> e.task, run |-> e.run, settled |-> FALSE, wip |-> e.wip] /\ obs' = "file"
    BY <1>3, <1>6 DEF AdapterReads
  <2>3. Key(claim') = Key(e) /\ Held(claim') /\ claim'.wip = e.wip
    BY <1>5, <2>2 DEF Key, Held
  <2> QED
    BY <1>1, <1>3, <1>6, <2>1, <2>2, <2>3
<1>7. CASE e.kind # "claim"
  <2>1. Held(claim) /\ Key(claim) = Key(e)
    BY <1>4, <1>5, <1>7 DEF After, Held, Key, NoKey
  <2>2. claim.task = e.task
    BY <2>1 DEF Key
  <2>3. obs' = "file" /\ claim' = IF e.kind = "branch" THEN [claim EXCEPT !.wip = TRUE]
                                  ELSE [claim EXCEPT !.settled = TRUE]
    BY <1>3, <1>7, <2>2 DEF AdapterReads
  <2>4. Key(claim') = Key(claim)
    BY <1>2, <2>3 DEF Key, Claims
  <2>5. Held(claim') <=> e.kind # "settle"
    BY <1>2, <1>5, <1>7, <2>1, <2>3 DEF Held, Claims
  <2>6. e.kind = "branch" => claim'.wip
    BY <1>2, <2>3 DEF Claims
  <2> QED
    BY <1>1, <1>3, <1>7, <2>1, <2>3, <2>4, <2>5, <2>6
<1> QED
  BY <1>6, <1>7

LEMMA StreamReader ==
  ASSUME TypeOK, TypeOK', StreamTellsSession, Reader
  PROVE  StreamTellsSession'
<1>1. CASE AdapterReads
  <2>1. /\ drv = "invoke" /\ wire # <<>> /\ wire' = Tail(wire) /\ UNCHANGED <<drv, sess>>
        /\ Key(claim') = Key(wire[1]) /\ (Held(claim') <=> wire[1].kind # "settle")
    BY <1>1, EventRead
  <2>2. wire \in Seq(Events) /\ Len(wire) > 0 /\ Len(wire) \in Nat
    BY <2>1 DEF TypeOK
  <2>3. Len(wire') = Len(wire) - 1 /\ \A j \in 1 .. Len(wire') : wire'[j] = wire[j + 1]
    BY <2>1, <2>2
  <2>4. ASSUME NEW j \in 0 .. Len(wire') PROVE After(claim', wire', j) = After(claim, wire, j + 1)
    BY <2>1, <2>2, <2>3 DEF After
  <2>5. Key(sess') = After(claim', wire', Len(wire'))
    <3>1. Len(wire') \in 0 .. Len(wire') /\ Len(wire') + 1 = Len(wire)
      BY <2>2, <2>3
    <3> QED
      BY <2>1, <2>4, <3>1 DEF StreamTellsSession
  <2>6. ASSUME NEW j \in DOMAIN wire'
        PROVE  After(claim', wire', j - 1)
                 = IF wire'[j].kind = "claim" THEN NoKey ELSE Key(wire'[j])
    <3>1. /\ j - 1 \in 0 .. Len(wire') /\ (j - 1) + 1 = (j + 1) - 1 /\ j + 1 \in DOMAIN wire
          /\ wire'[j] = wire[j + 1]
      BY <2>1, <2>2, <2>3
    <3>2. After(claim', wire', j - 1) = After(claim, wire, (j + 1) - 1)
      BY <2>4, <3>1
    <3> QED
      BY <2>1, <3>1, <3>2 DEF StreamTellsSession
  <2> QED
    BY <2>1, <2>5, <2>6 DEF StreamTellsSession
<1>2. CASE ObserveWrites \/ ObserveQueues \/ ObserveSheds \/ ObserveRetries
  <2>1. UNCHANGED <<sess, wire, claim, drv>> /\ obs # "idle"
    BY <1>2 DEF ObserveWrites, ObserveQueues, ObserveSheds, ObserveRetries, ObserveFrame
  <2> QED
    BY <2>1 DEF StreamTellsSession
<1> QED
  BY <1>1, <1>2 DEF Reader

LEMMA StreamStep ==
  ASSUME TypeOK, TypeOK', StreamTellsSession, [Next]_vars
  PROVE  StreamTellsSession'
<1>1. CASE Plane \/ Renewer \/ Cancel \/ RemoveCurrentClaim \/ UNCHANGED vars
  <2>1. UNCHANGED <<sess, wire, claim, drv, obs>>
    BY <1>1 DEF Plane, LeaseLapses, OtherTakes, daemon, Renewer, Beats, RenewerTakes, RenewerTicks,
       RenewerDecides, BeatSucceeds, BeatFails, BeatUnwired, RenewerQuits, RenewerFrame, Cancel,
       DriverFrame, RemoveCurrentClaim, SupervisorFrame, vars
  <2> QED
    BY <2>1 DEF StreamTellsSession
<1>2. CASE SessionExits \/ StreamBreaks \/ DaemonDies
  BY <1>2 DEF SessionExits, StreamBreaks, DaemonDies, StreamTellsSession
<1>3. CASE StartSession
  <2>1. /\ drv # "invoke" /\ drv' = "invoke" /\ UNCHANGED <<wire, claim>>
        /\ sess' = IF Held(claim) THEN [task |-> claim.task, run |-> claim.run, recording |-> FALSE]
                   ELSE NoSession
    BY <1>3 DEF StartSession, DriverFrame
  <2>2. wire' = <<>> /\ Len(wire') = 0 /\ DOMAIN wire' = {}
    BY <2>1 DEF StreamTellsSession
  <2>3. Key(sess') = After(claim', wire', 0)
    BY <2>1 DEF After, Key, NoKey, NoSession
  <2> QED
    BY <2>1, <2>2, <2>3 DEF StreamTellsSession
<1>4. CASE (Driver /\ ~StartSession) \/ HandBackDeadClaim \/ Respawn \/ SupervisorDies
  <2>1. drv # "invoke" /\ drv' # "invoke" /\ UNCHANGED <<sess, wire, obs>>
    <3>1. CASE HandsBack \/ Parks
      BY <3>1 DEF HandsBack, Parks, LetsGo, DriverFrame
    <3>2. CASE StopReturns \/ SalvageRecords \/ SalvageNotes \/ KeepsClaim
      BY <3>2 DEF StopReturns, SalvageRecords, SalvageNotes, KeepsClaim, DriverFrame
    <3>3. CASE DropsClaim \/ ClearsRecord \/ Exits
      BY <3>3 DEF DropsClaim, ClearsRecord, Exits, DriverFrame
    <3>4. CASE HandBackDeadClaim \/ Respawn \/ SupervisorDies
      BY <3>4 DEF HandBackDeadClaim, Respawn, SupervisorDies, SupervisorFrame
    <3> QED
      BY <1>4, <3>1, <3>2, <3>3, <3>4 DEF Driver
  <2> QED
    BY <2>1 DEF StreamTellsSession
<1> QED
  BY <1>1, <1>2, <1>3, <1>4, StreamSession, StreamReader DEF Next, Supervisor

-----------------------------------------------------------------------------
(* Runs only grow, and nobody knows of one the plane has not given out.    *)

UpTo(c, rows) == c.task # NoTask => c.run <= rows[c.task].run
Older(a, b) == a.task = b.task => a.run < b.run

\* A claim still unread is of a later run than anything known of its task.
RunsAreUpToDate ==
  /\ UpTo(claim, plane) /\ UpTo(file, plane)
  /\ \A j \in DOMAIN wire : UpTo(wire[j], plane)
  /\ \A j \in DOMAIN wire : wire[j].kind = "claim" =>
       /\ Older(claim, wire[j]) /\ Older(file, wire[j])
       /\ \A i \in 1 .. j - 1 : Older(wire[i], wire[j])

LEMMA RunsGrow ==
  ASSUME TypeOK, [Next]_vars
  PROVE  \A u \in Tasks : plane[u].run \in Nat /\ plane'[u].run \in Nat /\ plane[u].run <= plane'[u].run
<1>1. plane \in [Tasks -> Rows] /\ \A u \in Tasks : plane[u].run \in Nat
  BY RunsAreNat DEF TypeOK, Rows
<1>2. ASSUME \A u \in Tasks : plane'[u].run = plane[u].run
      PROVE  \A u \in Tasks : plane'[u].run \in Nat /\ plane[u].run <= plane'[u].run
  BY <1>1, <1>2
<1>3. CASE Plane
  BY <1>1, <1>3, PlaneRunsGrow
<1>4. ASSUME NEW t \in conf.tasks, SessionClaims(t)
      PROVE  \A u \in Tasks : plane'[u].run \in Nat /\ plane[u].run <= plane'[u].run
  <2>1. \A u \in Tasks : plane'[u].run = plane[u].run \/ plane'[u].run = plane[u].run + 1
    BY <1>1, <1>4 DEF SessionClaims, Rows
  <2> QED
    BY <1>1, <2>1
<1>5. CASE SessionRecords \/ DaemonDies
  <2>1. plane' = plane \/ plane' = BranchRecorded
    BY <1>5 DEF SessionRecords, DaemonDies
  <2>2. CASE plane' = BranchRecorded
    <3>1. PICK t, l : plane' = [plane EXCEPT ![t].work = l]
      BY <2>2 DEF BranchRecorded
    <3>2. \A u \in Tasks : plane'[u].run = plane[u].run
      BY <1>1, <3>1, WorkKeepsRuns
    <3> QED
      BY <1>1, <1>2, <3>2
  <2> QED
    BY <1>1, <1>2, <2>1, <2>2
<1>6. CASE SalvageRecords
  BY <1>1, <1>2, <1>6, WorkKeepsRuns DEF SalvageRecords
<1>7. CASE SessionSettles
  BY <1>1, <1>2, <1>7, LeaseKeepsRuns DEF SessionSettles
<1>8. CASE HandsBack \/ Parks \/ HandBackDeadClaim
  <2>1. plane' = plane \/ \E t, l : plane' = [plane EXCEPT ![t].lease = l]
    BY <1>8 DEF HandsBack, Parks, LetsGo, HandBackDeadClaim, Returned
  <2>2. ASSUME NEW t, NEW l, plane' = [plane EXCEPT ![t].lease = l]
        PROVE  \A u \in Tasks : plane'[u].run = plane[u].run
    BY <1>1, <2>2, LeaseKeepsRuns
  <2> QED
    BY <1>1, <1>2, <2>1, <2>2
<1>9. CASE SessionAsksToRecord \/ SessionExits \/ StreamBreaks \/ Reader \/ Renewer \/ Cancel
           \/ UNCHANGED vars
  <2>1. plane' = plane
    BY <1>9 DEF SessionAsksToRecord, SessionExits, StreamBreaks, Reader, AdapterReads, ObserveWrites,
       ObserveQueues, ObserveSheds, ObserveRetries, ObserveFrame, Renewer, Beats, RenewerTakes,
       RenewerTicks, RenewerDecides, BeatSucceeds, BeatFails, BeatUnwired, RenewerQuits,
       RenewerFrame, Cancel, vars
  <2> QED
    BY <1>2, <2>1
<1>10. CASE StartSession \/ StopReturns \/ SalvageNotes \/ KeepsClaim \/ DropsClaim \/ ClearsRecord
            \/ Exits \/ RemoveCurrentClaim \/ Respawn \/ SupervisorDies
  <2>1. plane' = plane
    BY <1>10 DEF StartSession, StopReturns, SalvageNotes, KeepsClaim, DropsClaim, ClearsRecord,
       Exits, RemoveCurrentClaim, Respawn, SupervisorDies
  <2> QED
    BY <1>2, <2>1
<1>11. CASE Session
  BY <1>1, <1>2, <1>4, <1>5, <1>7, <1>9, <1>11 DEF Session
<1> QED
  BY <1>1, <1>3, <1>5, <1>6, <1>8, <1>9, <1>10, <1>11 DEF Next, Driver, Supervisor

\* What a step makes of CURRENT_CLAIM, and of the claim when no event is read.
LEMMA RecordMoves ==
  ASSUME TypeOK, [Next]_vars
  PROVE  /\ file'.task = NoTask \/ Key(file') = Key(file) \/ Key(file') = Key(claim)
         /\ AdapterReads \/ claim'.task = NoTask \/ Key(claim') = Key(claim)
<1>1. NoFile.task = NoTask /\ NoClaim.task = NoTask
  BY DEF NoFile, NoClaim
<1>2. Record(claim).task = NoTask \/ Key(Record(claim)) = Key(claim)
  BY <1>1 DEF Record, Key
<1>3. CASE NoteCurrentClaim /\ claim' = claim
  BY <1>2, <1>3 DEF NoteCurrentClaim
<1>4. CASE UNCHANGED <<file, claim>> \/ (file' = NoFile /\ claim' = claim)
           \/ (file' = file /\ claim' = NoClaim)
  BY <1>1, <1>4
<1>5. CASE AdapterReads
  BY <1>5 DEF AdapterReads
<1>6. CASE Reader /\ ~AdapterReads
  BY <1>3, <1>4, <1>6 DEF Reader, ObserveWrites, ObserveQueues, ObserveSheds, ObserveRetries, ObserveFrame
<1>7. CASE SalvageNotes
  BY <1>3, <1>7 DEF SalvageNotes
<1>8. CASE SalvageRecords
  <2>1. claim' = [claim EXCEPT !.wip = TRUE] /\ file' = file
    BY <1>8 DEF SalvageRecords
  <2> QED
    BY <2>1 DEF Key, TypeOK, Claims
<1>9. CASE Plane \/ Session \/ Renewer \/ Cancel \/ SessionExits \/ StreamBreaks \/ UNCHANGED vars
  BY <1>4, <1>9 DEF Plane, LeaseLapses, OtherTakes, daemon, Session, SessionClaims,
       SessionAsksToRecord, SessionRecords, SessionSettles, SessionFrame, SessionExits, StreamBreaks,
       Renewer, Beats, RenewerTakes, RenewerTicks, RenewerDecides, BeatSucceeds, BeatFails,
       BeatUnwired, RenewerQuits, RenewerFrame, Cancel, vars
<1>10. CASE StartSession \/ StopReturns \/ KeepsClaim \/ DropsClaim \/ ClearsRecord \/ Exits
  BY <1>4, <1>10 DEF StartSession, StopReturns, KeepsClaim, DropsClaim, ClearsRecord, Exits
<1>11. CASE HandsBack \/ Parks
  BY <1>4, <1>11 DEF HandsBack, Parks, LetsGo
<1>12. CASE Supervisor \/ SupervisorDies \/ DaemonDies
  BY <1>4, <1>12 DEF Supervisor, HandBackDeadClaim, RemoveCurrentClaim, Respawn, SupervisorDies,
     SupervisorFrame, DaemonDies
<1> QED
  BY <1>5, <1>6, <1>7, <1>8, <1>9, <1>10, <1>11, <1>12 DEF Next, Driver

\* What a step makes of the stream.
LEMMA WireMoves ==
  ASSUME TypeOK, [Next]_vars
  PROVE  \/ AdapterReads
         \/ wire' = <<>> /\ (StreamBreaks \/ DaemonDies)
         \/ wire' = wire
         \/ SessionAsksToRecord \/ SessionSettles \/ \E t \in conf.tasks : SessionClaims(t)
<1>1. CASE Plane \/ Renewer \/ Cancel \/ SessionExits \/ SessionRecords \/ UNCHANGED vars
  BY <1>1 DEF Plane, LeaseLapses, OtherTakes, daemon, SessionRecords, SessionExits,
       Renewer, Beats, RenewerTakes, RenewerTicks, RenewerDecides, BeatSucceeds, BeatFails,
       BeatUnwired, RenewerQuits, RenewerFrame, Cancel, DriverFrame, vars
<1>2. CASE Reader /\ ~AdapterReads
  BY <1>2 DEF Reader, ObserveWrites, ObserveQueues, ObserveSheds, ObserveRetries, ObserveFrame
<1>3. CASE StreamBreaks \/ DaemonDies
  BY <1>3 DEF StreamBreaks, DaemonDies
<1>4. CASE Driver
  BY <1>4 DEF Driver, StartSession, StopReturns, SalvageRecords, SalvageNotes, KeepsClaim, DropsClaim,
     HandsBack, Parks, LetsGo, ClearsRecord, Exits, DriverFrame
<1>5. CASE Supervisor \/ SupervisorDies
  BY <1>5 DEF Supervisor, HandBackDeadClaim, RemoveCurrentClaim, Respawn, SupervisorDies,
     SupervisorFrame
<1> QED
  BY <1>1, <1>2, <1>3, <1>4, <1>5 DEF Next, Session

LEMMA UpToGrows ==
  ASSUME TypeOK, TypeOK', [Next]_vars, NEW c, c.task \in Tasks \cup {NoTask}, c.run \in Nat, UpTo(c, plane)
  PROVE  UpTo(c, plane')
<1>1. CASE c.task \in Tasks
  <2>1. plane[c.task].run \in Nat /\ plane'[c.task].run \in Nat /\ plane[c.task].run <= plane'[c.task].run
    BY <1>1, RunsGrow
  <2> QED
    BY <2>1 DEF UpTo
<1> QED
  BY <1>1 DEF UpTo

LEMMA SameKey ==
  ASSUME NEW a, NEW b, Key(a) = Key(b)
  PROVE  a.task = b.task /\ a.run = b.run
  BY DEF Key

LEMMA RunsStep ==
  ASSUME TypeOK, TypeOK', StreamTellsSession, RunsAreUpToDate, [Next]_vars
  PROVE  RunsAreUpToDate'
<1>1. /\ wire \in Seq(Events) /\ wire' \in Seq(Events) /\ Len(wire) \in Nat
      /\ claim.task \in Tasks \cup {NoTask} /\ claim.run \in Nat
      /\ file.task \in Tasks \cup {NoTask} /\ file.run \in Nat
  <2>1. claim \in Claims /\ file \in Files /\ wire \in Seq(Events) /\ wire' \in Seq(Events)
    BY DEF TypeOK
  <2>2. claim.run \in Runs /\ file.run \in Runs /\ claim.task \in Tasks \cup {NoTask}
        /\ file.task \in Tasks \cup {NoTask}
    BY <2>1 DEF Claims, Files
  <2>3. claim.run \in Nat /\ file.run \in Nat
    BY <2>2, RunsAreNat
  <2>4. Len(wire) \in Nat
    BY <2>1
  <2> QED
    BY <2>1, <2>2, <2>3, <2>4
<1>2. \A j \in DOMAIN wire : wire[j].task \in Tasks /\ wire[j].run \in Nat
  <2>1. \A j \in DOMAIN wire : wire[j] \in Events
    BY <1>1
  <2>2. \A e \in Events : e.task \in Tasks /\ e.run \in Nat
    BY RunsAreNat DEF Events
  <2> QED
    BY <2>1, <2>2
<1>3. /\ UpTo(claim, plane') /\ UpTo(file, plane')
      /\ \A j \in DOMAIN wire : UpTo(wire[j], plane')
  BY <1>1, <1>2, UpToGrows DEF RunsAreUpToDate
<1>4. UpTo(file', plane')
  <2>1. file'.task = NoTask \/ Key(file') = Key(file) \/ Key(file') = Key(claim)
    BY RecordMoves
  <2> QED
    BY <1>3, <2>1, SameKey DEF UpTo
<1>5. \A j \in DOMAIN wire : wire[j].kind = "claim" => Older(file', wire[j])
  <2>1. file'.task = NoTask \/ Key(file') = Key(file) \/ Key(file') = Key(claim)
    BY RecordMoves
  <2> QED
    BY <1>2, <2>1, SameKey, TasksAssumption DEF Older, RunsAreUpToDate
<1>6. ASSUME ~AdapterReads
      PROVE  /\ UpTo(claim', plane')
             /\ \A j \in DOMAIN wire : wire[j].kind = "claim" => Older(claim', wire[j])
  <2>1. claim'.task = NoTask \/ Key(claim') = Key(claim)
    BY <1>6, RecordMoves
  <2> QED
    BY <1>2, <1>3, <2>1, SameKey, TasksAssumption DEF Older, UpTo, RunsAreUpToDate
<1>7. CASE wire' = wire /\ ~AdapterReads
  BY <1>3, <1>4, <1>5, <1>6, <1>7 DEF RunsAreUpToDate
<1>8. CASE wire' = <<>> /\ ~AdapterReads
  <2>1. DOMAIN wire' = {}
    BY <1>8
  <2> QED
    BY <1>4, <1>6, <1>8, <2>1 DEF RunsAreUpToDate
<1>9. CASE AdapterReads
  <2>1. wire # <<>> /\ wire' = Tail(wire) /\ Key(claim') = Key(wire[1])
    BY <1>9, EventRead
  <2>2. /\ Len(wire') = Len(wire) - 1 /\ 1 \in DOMAIN wire
        /\ \A j \in DOMAIN wire' : j + 1 \in DOMAIN wire /\ wire'[j] = wire[j + 1] /\ 1 \in 1 .. (j + 1) - 1
    BY <1>1, <2>1
  <2>3. UpTo(claim', plane') /\ \A j \in DOMAIN wire' : UpTo(wire'[j], plane')
    <3>1. UpTo(wire[1], plane')
      BY <1>3, <2>2
    <3>2. claim'.task = wire[1].task /\ claim'.run = wire[1].run
      BY <2>1, SameKey
    <3>3. UpTo(claim', plane')
      BY <3>1, <3>2 DEF UpTo
    <3> QED
      BY <1>3, <2>2, <3>3
  <2>4. ASSUME NEW j \in DOMAIN wire', wire'[j].kind = "claim"
        PROVE  /\ Older(claim', wire'[j]) /\ Older(file', wire'[j])
               /\ \A i \in 1 .. j - 1 : Older(wire'[i], wire'[j])
    <3>1. Older(wire[1], wire'[j]) /\ Older(file', wire'[j])
      BY <1>5, <2>2, <2>4 DEF RunsAreUpToDate
    <3>2. Older(claim', wire'[j])
      BY <2>1, <3>1, SameKey DEF Older
    <3>3. ASSUME NEW i \in 1 .. j - 1 PROVE Older(wire'[i], wire'[j])
      <4>1. i \in DOMAIN wire' /\ i + 1 \in 1 .. (j + 1) - 1
        BY <1>1, <2>2
      <4> QED
        BY <2>2, <2>4, <4>1 DEF RunsAreUpToDate
    <3> QED
      BY <3>1, <3>2, <3>3
  <2> QED
    BY <1>4, <2>3, <2>4 DEF RunsAreUpToDate
<1>10. ASSUME NEW e, ~AdapterReads, wire' = Append(wire, e), UpTo(e, plane'),
              e.kind = "claim" =>
                /\ Older(claim', e) /\ Older(file', e)
                /\ \A i \in DOMAIN wire : Older(wire[i], e)
       PROVE  RunsAreUpToDate'
  <2>1. /\ Len(wire') = Len(wire) + 1 /\ wire'[Len(wire) + 1] = e
        /\ \A j \in DOMAIN wire : j \in DOMAIN wire' /\ wire'[j] = wire[j]
        /\ \A j \in DOMAIN wire' : j \in DOMAIN wire \/ j = Len(wire) + 1
    BY <1>1, <1>10
  <2>2. \A j \in DOMAIN wire' : UpTo(wire'[j], plane')
    BY <1>3, <1>10, <2>1
  <2>3. ASSUME NEW j \in DOMAIN wire', wire'[j].kind = "claim"
        PROVE  /\ Older(claim', wire'[j]) /\ Older(file', wire'[j])
               /\ \A i \in 1 .. j - 1 : Older(wire'[i], wire'[j])
    <3>1. CASE j \in DOMAIN wire
      <4>1. \A i \in 1 .. j - 1 : i \in DOMAIN wire
        BY <1>1, <3>1
      <4> QED
        BY <1>5, <1>6, <1>10, <2>1, <2>3, <3>1, <4>1 DEF RunsAreUpToDate
    <3>2. CASE j = Len(wire) + 1
      <4>1. \A i \in 1 .. j - 1 : i \in DOMAIN wire
        BY <1>1, <3>2
      <4> QED
        BY <1>10, <2>1, <2>3, <3>2, <4>1
    <3> QED
      BY <2>1, <3>1, <3>2
  <2> QED
    BY <1>4, <1>6, <1>10, <2>2, <2>3 DEF RunsAreUpToDate
<1>11. ASSUME NEW t \in conf.tasks, SessionClaims(t) PROVE RunsAreUpToDate'
  <2> DEFINE e == [kind |-> "claim", task |-> t, run |-> plane[t].run + 1, wip |-> plane[t].work]
  <2>1. /\ wire' = Append(wire, e) /\ UNCHANGED <<claim, file, drv>> /\ drv = "invoke"
        /\ plane' = [plane EXCEPT ![t].lease = "held", ![t].run = @ + 1]
    BY <1>11 DEF SessionClaims, Says, SessionFrame
  <2>2. t \in Tasks /\ t # NoTask /\ plane[t].run \in Nat
    BY ConfigsAssumption, TasksAssumption, RunsAreNat DEF TypeOK, Rows
  <2>3. plane'[t].run = plane[t].run + 1
    BY <2>1, <2>2 DEF TypeOK, Rows
  <2>4. /\ e.kind = "claim" /\ e.task = t /\ e.run = plane[t].run + 1
    OBVIOUS
  <2>5. ~AdapterReads
    <3>1. Len(wire') = Len(wire) + 1
      BY <1>1, <2>1
    <3> HIDE DEF e
    <3>2. ASSUME AdapterReads PROVE FALSE
      <4>1. wire # <<>> /\ wire' = Tail(wire)
        BY <3>2 DEF AdapterReads
      <4> QED
        BY <1>1, <3>1, <4>1
    <3> QED
      BY <3>2
  <2> HIDE DEF e
  <2>6. UpTo(e, plane')
    BY <2>2, <2>3, <2>4 DEF UpTo
  <2>7. Older(claim', e)
    BY <1>1, <2>1, <2>2, <2>4 DEF Older, UpTo, RunsAreUpToDate
  <2>8. Older(file', e)
    BY <1>1, <2>1, <2>2, <2>4 DEF Older, UpTo, RunsAreUpToDate
  <2>9. \A i \in DOMAIN wire : Older(wire[i], e)
    BY <1>2, <2>2, <2>4 DEF Older, UpTo, RunsAreUpToDate
  <2> QED
    BY <1>10, <2>1, <2>5, <2>6, <2>7, <2>8, <2>9
<1>12. CASE SessionAsksToRecord \/ SessionSettles
  <2>1. PICK e \in [kind : {"branch", "settle"}, task : {sess.task}, run : {sess.run}, wip : BOOLEAN] :
          wire' = Append(wire, e)
    BY <1>12 DEF SessionAsksToRecord, SessionSettles, Says
  <2>2. /\ drv = "invoke" /\ sess.task # NoTask /\ UNCHANGED claim
    BY <1>12 DEF SessionAsksToRecord, SessionSettles, Holds, SessionFrame
  <2>3. e.kind # "claim" /\ e.task = sess.task /\ e.run = sess.run /\ Key(e) = Key(sess)
    BY <2>1 DEF Key
  <2>4. Key(sess) = After(claim, wire, Len(wire))
    BY <2>2 DEF StreamTellsSession
  <2>5. UpTo(sess, plane')
    <3>1. CASE Key(sess) = NoKey
      BY <2>2, <3>1 DEF Key, NoKey
    <3>2. CASE Key(sess) = Key(claim)
      BY <1>3, <3>2, SameKey DEF UpTo
    <3>3. CASE Len(wire) \in DOMAIN wire /\ Key(sess) = Key(wire[Len(wire)])
      BY <1>3, <3>3, SameKey DEF UpTo
    <3> QED
      BY <1>1, <2>4, <3>1, <3>2, <3>3 DEF After
  <2>6. UpTo(e, plane')
    BY <2>3, <2>5 DEF UpTo
  <2>7. ~AdapterReads
    <3>1. Len(wire') = Len(wire) + 1
      BY <1>1, <2>1
    <3>2. ASSUME AdapterReads PROVE FALSE
      <4>1. wire # <<>> /\ wire' = Tail(wire)
        BY <3>2 DEF AdapterReads
      <4> QED
        BY <1>1, <3>1, <4>1
    <3> QED
      BY <3>2
  <2> QED
    BY <1>10, <2>1, <2>3, <2>6, <2>7
<1> QED
  BY <1>7, <1>8, <1>9, <1>11, <1>12, WireMoves

-----------------------------------------------------------------------------
(* Who comes to have work, and who is told.                                *)

InPlace(rows, k) == rows[k.task].lease = "held" /\ rows[k.task].run = k.run /\ rows[k.task].work

\* The plane has work of a run that holds its task, or is about to be told of it.
HasWork(rows, s, k) == (s.recording /\ Key(s) = k) \/ InPlace(rows, k)

Told(w, k) == \E j \in DOMAIN w : w[j].kind = "branch" /\ Key(w[j]) = k

LEMMA LeaseSet ==
  ASSUME NEW p \in [Tasks -> Rows], NEW t, NEW l, NEW u \in Tasks
  PROVE  LET q == [p EXCEPT ![t].lease = l]
         IN q[u].run = p[u].run /\ q[u].work = p[u].work /\ q[u].lease = IF u = t THEN l ELSE p[u].lease
<1>1. [p EXCEPT ![t].lease = l][u] = IF u = t THEN [p[u] EXCEPT !.lease = l] ELSE p[u]
  OBVIOUS
<1>2. p[u] \in Rows
  OBVIOUS
<1> QED
  BY <1>1, <1>2 DEF Rows

LEMMA WorkSet ==
  ASSUME NEW p \in [Tasks -> Rows], NEW t, NEW w, NEW u \in Tasks
  PROVE  LET q == [p EXCEPT ![t].work = w]
         IN q[u].run = p[u].run /\ q[u].lease = p[u].lease /\ q[u].work = IF u = t THEN w ELSE p[u].work
<1>1. [p EXCEPT ![t].work = w][u] = IF u = t THEN [p[u] EXCEPT !.work = w] ELSE p[u]
  OBVIOUS
<1>2. p[u] \in Rows
  OBVIOUS
<1> QED
  BY <1>1, <1>2 DEF Rows

\* A branch is recorded for the run that holds the task, and for no other.
LEMMA BranchRecordedRows ==
  ASSUME TypeOK, NEW u \in Tasks
  PROVE  /\ BranchRecorded[u].run = plane[u].run /\ BranchRecorded[u].lease = plane[u].lease
         /\ BranchRecorded[u].work => plane[u].work \/ (u = sess.task /\ Holds(u, sess.run))
<1>1. plane \in [Tasks -> Rows]
  BY DEF TypeOK
<1> DEFINE w == plane[sess.task].work \/ Holds(sess.task, sess.run)
<1>2. BranchRecorded = [plane EXCEPT ![sess.task].work = w]
  BY DEF BranchRecorded
<1> HIDE DEF w
<1>3. /\ BranchRecorded[u].run = plane[u].run /\ BranchRecorded[u].lease = plane[u].lease
      /\ BranchRecorded[u].work = IF u = sess.task THEN w ELSE plane[u].work
  BY <1>1, <1>2, WorkSet
<1> QED
  BY <1>3 DEF w

\* What a step does to the plane's rows.
LEMMA PlaneMoves ==
  ASSUME TypeOK, [Next]_vars
  PROVE  \/ plane' = plane
         \/ \E t \in conf.tasks : LeaseLapses(t) \/ OtherTakes(t) \/ SessionClaims(t)
         \/ (SessionRecords \/ DaemonDies) /\ plane' = BranchRecorded /\ sess.recording
         \/ SalvageRecords
         \/ SessionSettles \/ HandsBack \/ Parks \/ HandBackDeadClaim
<1>1. CASE Plane
  BY <1>1 DEF Plane
<1>2. CASE Session
  BY <1>2 DEF Session, SessionAsksToRecord, SessionRecords
<1>3. CASE SessionExits \/ StreamBreaks \/ Reader \/ Renewer \/ Cancel \/ UNCHANGED vars
  BY <1>3 DEF SessionExits, StreamBreaks, Reader, AdapterReads, ObserveWrites,
       ObserveQueues, ObserveSheds, ObserveRetries, ObserveFrame, Renewer, Beats, RenewerTakes,
       RenewerTicks, RenewerDecides, BeatSucceeds, BeatFails, BeatUnwired, RenewerQuits,
       RenewerFrame, Cancel, vars
<1>4. CASE Driver
  BY <1>4 DEF Driver, StartSession, StopReturns, SalvageNotes, KeepsClaim, DropsClaim, ClearsRecord, Exits
<1>5. CASE DaemonDies
  BY <1>5 DEF DaemonDies
<1>6. CASE Supervisor \/ SupervisorDies
  BY <1>6 DEF Supervisor, RemoveCurrentClaim, Respawn, SupervisorDies
<1> QED
  BY <1>1, <1>2, <1>3, <1>4, <1>5, <1>6 DEF Next

\* What a step does to the session's pending record.
LEMMA RecordingMoves ==
  ASSUME TypeOK, [Next]_vars, sess'.recording
  PROVE  SessionAsksToRecord \/ sess' = sess
<1>1. CASE Plane \/ Renewer \/ Reader \/ Cancel \/ Supervisor \/ SupervisorDies \/ UNCHANGED vars
  BY <1>1 DEF Plane, LeaseLapses, OtherTakes, daemon, Reader, AdapterReads, ObserveWrites,
       ObserveQueues, ObserveSheds, ObserveRetries, ObserveFrame, Renewer, Beats, RenewerTakes,
       RenewerTicks, RenewerDecides, BeatSucceeds, BeatFails, BeatUnwired, RenewerQuits,
       RenewerFrame, Cancel, Supervisor, HandBackDeadClaim, RemoveCurrentClaim, Respawn,
       SupervisorDies, SupervisorFrame, vars
<1>2. CASE Session
  <2>1. sess \in Sessions
    BY DEF TypeOK
  <2> QED
    <3>1. CASE SessionRecords
      BY <2>1, <3>1 DEF SessionRecords, Sessions
    <3>2. ASSUME NEW t \in conf.tasks, SessionClaims(t) PROVE SessionAsksToRecord \/ sess' = sess
      BY <3>2 DEF SessionClaims
    <3>3. CASE SessionSettles
      BY <3>3 DEF SessionSettles, NoSession
    <3> QED
      BY <1>2, <3>1, <3>2, <3>3 DEF Session
<1>3. CASE SessionExits \/ StreamBreaks \/ DaemonDies \/ StartSession
  BY <1>3 DEF SessionExits, StreamBreaks, DaemonDies, StartSession, NoSession
<1>4. CASE Driver /\ ~StartSession
  BY <1>4 DEF Driver, StopReturns, SalvageRecords, SalvageNotes, KeepsClaim, DropsClaim, HandsBack,
     Parks, LetsGo, ClearsRecord, Exits
<1> QED
  BY <1>1, <1>2, <1>3, <1>4 DEF Next

LEMMA WorkIsLearnt ==
  ASSUME TypeOK, [Next]_vars, NEW k, k = Key(k), k.task \in Tasks, HasWork(plane', sess', k)
  PROVE  \/ HasWork(plane, sess, k)
         \/ SessionAsksToRecord /\ k = Key(sess)
         \/ SalvageRecords /\ k = Key(claim)
         \/ \E t \in conf.tasks :
              SessionClaims(t) /\ k.task = t /\ k.run = plane[t].run + 1 /\ plane[t].work
<1> DEFINE u == k.task
<1>1. plane \in [Tasks -> Rows] /\ u \in Tasks /\ u # NoTask /\ sess \in Sessions /\ claim \in Claims
  BY TasksAssumption DEF TypeOK
<1>2. CASE sess'.recording /\ Key(sess') = k
  <2>1. CASE sess' = sess
    BY <1>2, <2>1 DEF HasWork
  <2>2. CASE SessionAsksToRecord
    <3>1. Key(sess') = Key(sess)
      BY <1>1, <2>2 DEF SessionAsksToRecord, Sessions, Key
    <3> QED
      BY <1>2, <2>2, <3>1
  <2> QED
    BY <1>2, <2>1, <2>2, RecordingMoves
<1>3. CASE InPlace(plane', k)
  <2>1. plane'[u].lease = "held" /\ plane'[u].run = k.run /\ plane'[u].work
    BY <1>3 DEF InPlace
  <2>2. ASSUME plane[u].lease = "held", plane[u].run = k.run, plane[u].work PROVE HasWork(plane, sess, k)
    BY <2>2 DEF HasWork, InPlace
  <2>3. CASE plane' = plane
    BY <2>1, <2>2, <2>3
  <2>4. ASSUME NEW t, NEW l, l # "held", plane' = [plane EXCEPT ![t].lease = l]
        PROVE  HasWork(plane, sess, k)
    <3>1. /\ plane'[u].run = plane[u].run /\ plane'[u].work = plane[u].work
          /\ plane'[u].lease = IF u = t THEN l ELSE plane[u].lease
      BY <1>1, <2>4, LeaseSet
    <3> QED
      BY <2>1, <2>2, <2>4, <3>1
  <2>5. CASE \E t \in conf.tasks : LeaseLapses(t)
    BY <2>4, <2>5 DEF LeaseLapses, Returned
  <2>6. CASE \E t \in conf.tasks : OtherTakes(t)
    <3>1. PICK t \in conf.tasks : OtherTakes(t)
      BY <2>6
    <3>2. u # t /\ plane'[u] = plane[u]
      BY <1>1, <2>1, <3>1 DEF OtherTakes, Rows
    <3> QED
      BY <2>1, <2>2, <3>2
  <2>7. ASSUME NEW t \in conf.tasks, SessionClaims(t)
        PROVE  HasWork(plane, sess, k) \/ (k.task = t /\ k.run = plane[t].run + 1 /\ plane[t].work)
    <3>1. CASE u # t
      <4>1. plane'[u] = plane[u]
        BY <1>1, <2>7, <3>1 DEF SessionClaims
      <4> QED
        BY <2>1, <2>2, <4>1
    <3>2. CASE u = t
      <4>1. plane'[t].run = plane[t].run + 1 /\ plane'[t].work = plane[t].work
        BY <1>1, <2>7, <3>2 DEF SessionClaims, Rows
      <4> QED
        BY <2>1, <3>2, <4>1
    <3> QED
      BY <3>1, <3>2
  <2>8. CASE plane' = BranchRecorded /\ sess.recording
    <3>1. /\ plane[u].lease = "held" /\ plane[u].run = k.run
          /\ plane[u].work \/ (u = sess.task /\ Holds(u, sess.run))
      BY <1>1, <2>1, <2>8, BranchRecordedRows
    <3>2. CASE u = sess.task /\ Holds(u, sess.run)
      <4>1. k.run = sess.run /\ k.task = sess.task
        BY <3>1, <3>2 DEF Holds
      <4>2. Key(sess) = Key(k)
        BY <4>1 DEF Key
      <4> QED
        BY <2>8, <4>2 DEF HasWork
    <3> QED
      BY <2>2, <3>1, <3>2
  <2>9. CASE SalvageRecords
    <3>1. /\ plane' = [plane EXCEPT ![claim.task].work = TRUE] /\ Holds(claim.task, claim.run)
      BY <2>9 DEF SalvageRecords
    <3>2. /\ plane'[u].run = plane[u].run /\ plane'[u].lease = plane[u].lease
          /\ u # claim.task => plane'[u].work = plane[u].work
      <4>1. ASSUME NEW w, plane' = [plane EXCEPT ![claim.task].work = w]
            PROVE  /\ plane'[u].run = plane[u].run /\ plane'[u].lease = plane[u].lease
                   /\ plane'[u].work = IF u = claim.task THEN w ELSE plane[u].work
        BY <1>1, <4>1, WorkSet
      <4> QED
        BY <3>1, <4>1
    <3>3. CASE u = claim.task
      <4>1. k.run = claim.run
        BY <2>1, <3>1, <3>2, <3>3 DEF Holds
      <4> QED
        BY <2>9, <3>3, <4>1 DEF Key
    <3>4. CASE u # claim.task
      BY <2>1, <2>2, <3>2, <3>4
    <3> QED
      BY <3>3, <3>4
  <2>10. CASE SessionSettles
    BY <2>4, <2>10 DEF SessionSettles
  <2>11. CASE HandsBack \/ Parks \/ HandBackDeadClaim
    <3>1. plane' = plane \/ \E t, l : l # "held" /\ plane' = [plane EXCEPT ![t].lease = l]
      BY <2>11 DEF HandsBack, Parks, LetsGo, HandBackDeadClaim, Returned
    <3> QED
      BY <2>3, <2>4, <3>1
  <2> QED
    BY <2>3, <2>5, <2>6, <2>7, <2>8, <2>9, <2>10, <2>11, PlaneMoves
<1> QED
  BY <1>2, <1>3 DEF HasWork

LEMMA ToldAppended ==
  ASSUME NEW w \in Seq(Events), NEW e, NEW k, Told(w, k) \/ (e.kind = "branch" /\ Key(e) = k)
  PROVE  Told(Append(w, e), k)
<1>1. /\ Append(w, e)[Len(w) + 1] = e /\ Len(w) + 1 \in DOMAIN Append(w, e)
      /\ \A j \in DOMAIN w : j \in DOMAIN Append(w, e) /\ Append(w, e)[j] = w[j]
  OBVIOUS
<1> QED
  BY <1>1 DEF Told

LEMMA ToldTail ==
  ASSUME NEW w \in Seq(Events), w # <<>>, NEW k, Told(w, k)
  PROVE  Told(Tail(w), k) \/ (w[1].kind = "branch" /\ Key(w[1]) = k)
<1>1. PICK j \in DOMAIN w : w[j].kind = "branch" /\ Key(w[j]) = k
  BY DEF Told
<1>2. j = 1 \/ (j - 1 \in DOMAIN Tail(w) /\ Tail(w)[j - 1] = w[j])
  OBVIOUS
<1> QED
  BY <1>1, <1>2 DEF Told

\* What the death of the stream leaves of it.
LEMMA ToldLost ==
  ASSUME TypeOK, StreamBreaks \/ DaemonDies, NEW k, Told(wire, k)
  PROVE  k.task \in hist'.unknown
<1>1. PICK j \in DOMAIN wire : wire[j].kind = "branch" /\ Key(wire[j]) = k
  BY DEF Told
<1>2. wire[j] \in ToSet(wire) /\ wire[j].task = k.task
  BY <1>1 DEF ToSet, Key
<1>3. k.task \in {e.task : e \in {e \in ToSet(wire) : e.kind = "branch"}}
  BY <1>1, <1>2
<1>4. {e.task : e \in {e \in ToSet(wire) : e.kind = "branch"}} \subseteq hist'.unknown
  BY DEF StreamBreaks, DaemonDies, TypeOK, Histories
<1> QED
  BY <1>3, <1>4

\* A run told of stays told of, until the event is read or the stream lost.
LEMMA ToldStays ==
  ASSUME TypeOK, [Next]_vars, NEW k, Told(wire, k)
  PROVE  \/ Told(wire', k)
         \/ AdapterReads /\ wire[1].kind = "branch" /\ Key(wire[1]) = k
         \/ (StreamBreaks \/ DaemonDies) /\ k.task \in hist'.unknown
<1>1. wire \in Seq(Events)
  BY DEF TypeOK
<1>2. CASE AdapterReads
  <2>1. wire # <<>> /\ wire' = Tail(wire)
    BY <1>2 DEF AdapterReads
  <2> QED
    BY <1>1, <1>2, <2>1, ToldTail
<1>3. CASE SessionAsksToRecord \/ SessionSettles \/ \E t \in conf.tasks : SessionClaims(t)
  <2>1. PICK e : wire' = Append(wire, e)
    BY <1>3 DEF SessionAsksToRecord, SessionSettles, SessionClaims, Says
  <2> QED
    BY <1>1, <2>1, ToldAppended
<1>4. CASE wire' = wire
  BY <1>4
<1>5. CASE StreamBreaks \/ DaemonDies
  BY <1>5, ToldLost
<1> QED
  BY <1>2, <1>3, <1>4, <1>5, WireMoves

LEMMA AskedIsTold ==
  ASSUME TypeOK, SessionAsksToRecord
  PROVE  Told(wire', Key(sess))
<1> DEFINE e == [kind |-> "branch", task |-> sess.task, run |-> sess.run, wip |-> TRUE]
<1>1. wire' = Append(wire, e) /\ e.kind = "branch" /\ Key(e) = Key(sess) /\ wire \in Seq(Events)
  BY DEF SessionAsksToRecord, Says, Key, TypeOK
<1> HIDE DEF e
<1> QED
  BY <1>1, ToldAppended

-----------------------------------------------------------------------------
(* The driver and its claim.                                               *)

\* Whoever may act on a claim read the stream to its end; a daemon that is gone, or has
\* let go, tracks none.
DriverKnowsItsClaim ==
  /\ drv = "salvaged" => claim.wip
  /\ drv = "invoke" => trusted
  /\ drv \in {"salvaged", "between"} /\ Held(claim) => trusted
  /\ drv \in {"clear", "ended"} => claim.task = NoTask
  /\ drv = "between" => Held(claim) \/ claim.task = NoTask
  /\ sup = "remove" => drv = "ended"

LEMMA DriverStep ==
  ASSUME TypeOK, StreamTellsSession, DriverKnowsItsClaim, [Next]_vars
  PROVE  DriverKnowsItsClaim'
<1> USE DEF DriverKnowsItsClaim
<1>1. claim \in Claims /\ NoClaim.task = NoTask /\ ~Held(NoClaim)
  BY DEF TypeOK, NoClaim, Held
<1>2. CASE UNCHANGED <<drv, claim, trusted, sup>>
  BY <1>2 DEF Held
<1>3. CASE Plane \/ Renewer \/ Session \/ (Reader /\ ~AdapterReads) \/ Cancel \/ UNCHANGED vars
  <2>1. UNCHANGED <<drv, claim, trusted, sup>>
    BY <1>3 DEF Plane, LeaseLapses, OtherTakes, daemon, others, Session, SessionClaims,
       SessionAsksToRecord, SessionRecords, SessionSettles, SessionFrame, Reader, ObserveWrites,
       ObserveQueues, ObserveSheds, ObserveRetries, ObserveFrame, Renewer, Beats, RenewerTakes,
       RenewerTicks, RenewerDecides, BeatSucceeds, BeatFails, BeatUnwired, RenewerQuits,
       RenewerFrame, Cancel, DriverFrame, vars
  <2> QED
    BY <1>2, <2>1
<1>4. CASE AdapterReads
  <2>1. drv = "invoke" /\ UNCHANGED <<drv, trusted, sup>>
    BY <1>4 DEF AdapterReads, others
  <2> QED
    BY <2>1
<1>5. CASE SessionExits \/ StreamBreaks
  <2>1. drv = "invoke" /\ drv' = "stop" /\ UNCHANGED sup
    BY <1>5 DEF SessionExits, StreamBreaks, others
  <2> QED
    BY <2>1
<1>6. CASE StartSession \/ StopReturns \/ SalvageNotes \/ KeepsClaim
  <2>1. /\ drv' \in {"invoke", "after", "between"} /\ UNCHANGED <<claim, sup>>
        /\ drv \notin {"ended", "clear"} /\ drv' = "between" => trusted /\ trusted' /\ Held(claim)
        /\ drv' = "invoke" => trusted'
    BY <1>6 DEF StartSession, StopReturns, SalvageNotes, KeepsClaim, DriverFrame
  <2>2. sup' # "remove"
    BY <1>6, <2>1 DEF StartSession, StopReturns, SalvageNotes, KeepsClaim
  <2> QED
    BY <2>1, <2>2 DEF Held
<1>7. CASE SalvageRecords
  <2>1. /\ drv = "after" /\ drv' = "salvaged" /\ trusted /\ UNCHANGED <<trusted, sup>>
        /\ claim' = [claim EXCEPT !.wip = TRUE]
    BY <1>7 DEF SalvageRecords, DriverFrame
  <2>2. claim'.wip
    BY <1>1, <2>1 DEF Claims
  <2> QED
    BY <2>1, <2>2
<1>8. CASE DropsClaim \/ HandsBack \/ Parks
  <2>1. /\ drv \in {"after", "between"} /\ drv' \in {"clear", "between"} /\ claim' = NoClaim
        /\ UNCHANGED sup
    BY <1>8 DEF DropsClaim, HandsBack, Parks, LetsGo, DriverFrame
  <2> QED
    BY <1>1, <2>1
<1>9. CASE ClearsRecord \/ Exits
  <2>1. /\ drv \in {"clear", "between"} /\ drv' \in {"between", "ended"} /\ claim.task = NoTask
        /\ UNCHANGED <<claim, sup>>
    BY <1>9 DEF ClearsRecord, Exits, DriverFrame
  <2> QED
    BY <2>1 DEF Held
<1>10. CASE DaemonDies
  BY <1>1, <1>10 DEF DaemonDies
<1>11. CASE HandBackDeadClaim \/ RemoveCurrentClaim
  <2>1. drv = "ended" /\ UNCHANGED <<drv, claim, trusted>>
    BY <1>11 DEF HandBackDeadClaim, RemoveCurrentClaim, SupervisorFrame
  <2> QED
    BY <2>1 DEF Held
<1>12. CASE Respawn \/ SupervisorDies
  <2>1. drv = "ended" /\ drv' = "between" /\ (claim' = NoClaim \/ claim' = claim) /\ sup' = "watch"
    BY <1>12 DEF Respawn, SupervisorDies
  <2> QED
    BY <1>1, <2>1 DEF Held
<1> QED
  BY <1>3, <1>4, <1>5, <1>6, <1>7, <1>8, <1>9, <1>10, <1>11, <1>12 DEF Next, Driver, Supervisor

\* A claim tracked after a step was tracked before it, unless it has just been read.
LEMMA ClaimKept ==
  ASSUME TypeOK, StreamTellsSession, DriverKnowsItsClaim, [Next]_vars, ~AdapterReads, Held(claim'), trusted'
  PROVE  /\ Held(claim) /\ trusted /\ Key(claim') = Key(claim) /\ (claim.wip => claim'.wip)
         /\ SalvageRecords => claim'.wip
         /\ ~StreamBreaks /\ ~DaemonDies
<1>1. claim \in Claims /\ ~Held(NoClaim)
  BY DEF TypeOK, NoClaim, Held
<1>2. ~StreamBreaks /\ ~DaemonDies
  BY <1>1 DEF StreamBreaks, DaemonDies
<1>3. CASE UNCHANGED <<claim, trusted>> /\ ~SalvageRecords
  BY <1>2, <1>3
<1>4. CASE Plane \/ Renewer \/ Session \/ Reader \/ Cancel \/ SessionExits \/ UNCHANGED vars
  <2>1. UNCHANGED <<claim, trusted>> /\ (drv' = "salvaged" => drv = "salvaged")
    BY <1>4 DEF Plane, LeaseLapses, OtherTakes, daemon, Session, SessionClaims,
       SessionAsksToRecord, SessionRecords, SessionSettles, SessionFrame, SessionExits, Reader,
       ObserveWrites, ObserveQueues, ObserveSheds, ObserveRetries, ObserveFrame, Renewer, Beats,
       RenewerTakes, RenewerTicks, RenewerDecides, BeatSucceeds, BeatFails, BeatUnwired,
       RenewerQuits, RenewerFrame, Cancel, vars
  <2>2. ~SalvageRecords
    BY <2>1 DEF SalvageRecords
  <2> QED
    BY <1>3, <2>1, <2>2
<1>5. CASE StartSession
  <2>1. drv = "between" /\ claim' = claim /\ drv' = "invoke"
    BY <1>5 DEF StartSession
  <2> QED
    BY <1>2, <2>1 DEF DriverKnowsItsClaim, Held, SalvageRecords
<1>6. CASE StopReturns \/ SalvageNotes \/ KeepsClaim \/ ClearsRecord \/ Exits
  <2>1. UNCHANGED <<claim, trusted>> /\ drv' # "salvaged"
    BY <1>6 DEF StopReturns, SalvageNotes, KeepsClaim, ClearsRecord, Exits
  <2> QED
    BY <1>3, <2>1 DEF SalvageRecords
<1>7. CASE DropsClaim \/ HandsBack \/ Parks
  BY <1>1, <1>7 DEF DropsClaim, HandsBack, Parks, LetsGo
<1>8. CASE SalvageRecords
  <2>1. claim' = [claim EXCEPT !.wip = TRUE] /\ trusted /\ Held(claim)
    BY <1>8 DEF SalvageRecords
  <2>2. claim'.wip /\ Key(claim') = Key(claim)
    BY <1>1, <2>1 DEF Claims, Key
  <2> QED
    BY <1>2, <2>1, <2>2
<1>9. CASE HandBackDeadClaim \/ RemoveCurrentClaim
  <2>1. UNCHANGED <<claim, trusted, drv>>
    BY <1>9 DEF HandBackDeadClaim, RemoveCurrentClaim, SupervisorFrame
  <2>2. ~SalvageRecords
    BY <2>1 DEF SalvageRecords
  <2> QED
    BY <1>3, <2>1, <2>2
<1>10. CASE Respawn
  BY <1>1, <1>10 DEF Respawn
<1>11. CASE SupervisorDies
  <2>1. drv = "ended" /\ claim' = claim
    BY <1>11 DEF SupervisorDies
  <2> QED
    BY <2>1 DEF DriverKnowsItsClaim, Held
<1> QED
  BY <1>2, <1>4, <1>5, <1>6, <1>7, <1>8, <1>9, <1>10, <1>11 DEF Next, Driver, Supervisor

LEMMA FileMoves ==
  ASSUME TypeOK, [Next]_vars
  PROVE  \/ (ObserveWrites \/ SalvageNotes) /\ NoteCurrentClaim
         \/ file' = file
         \/ file' = NoFile /\ (ClearsRecord \/ Exits \/ RemoveCurrentClaim)
<1>1. CASE Plane \/ Renewer \/ Session \/ Cancel \/ SessionExits \/ StreamBreaks \/ UNCHANGED vars
  BY <1>1 DEF Plane, LeaseLapses, OtherTakes, daemon, Session, SessionClaims,
       SessionAsksToRecord, SessionRecords, SessionSettles, SessionFrame, SessionExits, StreamBreaks,
       Renewer, Beats, RenewerTakes, RenewerTicks, RenewerDecides, BeatSucceeds, BeatFails,
       BeatUnwired, RenewerQuits, RenewerFrame, Cancel, vars
<1>2. CASE Reader
  BY <1>2 DEF Reader, AdapterReads, ObserveWrites, ObserveQueues, ObserveSheds, ObserveRetries, ObserveFrame
<1>3. CASE Driver
  BY <1>3 DEF Driver, StartSession, StopReturns, SalvageRecords, SalvageNotes, KeepsClaim, DropsClaim,
     HandsBack, Parks, LetsGo, ClearsRecord, Exits
<1>4. CASE Supervisor \/ SupervisorDies \/ DaemonDies
  BY <1>4 DEF Supervisor, HandBackDeadClaim, RemoveCurrentClaim, Respawn, SupervisorDies, DaemonDies
<1> QED
  BY <1>1, <1>2, <1>3, <1>4 DEF Next

\* A failed write, or work nobody could have known of, is never forgotten.
LEMMA HistoryGrows ==
  ASSUME TypeOK, [Next]_vars
  PROVE  hist.unknown \subseteq hist'.unknown /\ hist.unwritten \subseteq hist'.unwritten
<1>1. hist \in Histories
  BY DEF TypeOK
<1>2. CASE hist' = hist
  BY <1>2
<1>3. ASSUME NEW x, hist' = [hist EXCEPT !.unwritten = @ \cup x] \/ hist' = [hist EXCEPT !.unknown = @ \cup x]
             \/ hist' = [hist EXCEPT !.letgo = @ \cup x]
      PROVE  hist.unknown \subseteq hist'.unknown /\ hist.unwritten \subseteq hist'.unwritten
  BY <1>1, <1>3 DEF Histories
<1>4. CASE NoteCurrentClaim
  <2>1. hist' = hist \/ hist' = [hist EXCEPT !.unwritten = @ \cup {claim.task}]
    BY <1>4 DEF NoteCurrentClaim
  <2> QED
    BY <1>2, <1>3, <2>1
<1>5. CASE Plane \/ Renewer \/ Session \/ Cancel \/ SessionExits \/ UNCHANGED vars
  BY <1>2, <1>5 DEF Plane, LeaseLapses, OtherTakes, others, Session, SessionClaims,
       SessionAsksToRecord, SessionRecords, SessionSettles, SessionFrame, SessionExits,
       Renewer, Beats, RenewerTakes, RenewerTicks, RenewerDecides, BeatSucceeds, BeatFails,
       BeatUnwired, RenewerQuits, RenewerFrame, Cancel, vars
<1>6. CASE Reader
  BY <1>2, <1>4, <1>6 DEF Reader, AdapterReads, ObserveWrites, ObserveQueues, ObserveSheds,
     ObserveRetries, ObserveFrame, others
<1>7. CASE StreamBreaks
  <2>1. \E x : hist' = [hist EXCEPT !.unknown = @ \cup x]
    BY <1>7 DEF StreamBreaks
  <2> QED
    BY <1>3, <2>1
<1>8. CASE DaemonDies
  <2>1. \E x, y : hist' = [hist EXCEPT !.unknown = (@ \cup x) \cup y]
    BY <1>8 DEF DaemonDies
  <2> QED
    BY <1>1, <2>1 DEF Histories
<1>9. CASE HandsBack \/ Parks
  <2>1. hist' = hist \/ \E x : hist' = [hist EXCEPT !.letgo = @ \cup x]
    BY <1>9 DEF HandsBack, Parks, LetsGo
  <2> QED
    BY <1>2, <1>3, <2>1
<1>10. CASE StartSession \/ StopReturns \/ SalvageRecords \/ KeepsClaim \/ DropsClaim \/ ClearsRecord
            \/ Exits \/ Supervisor \/ SupervisorDies
  BY <1>2, <1>10 DEF StartSession, StopReturns, SalvageRecords, KeepsClaim, DropsClaim, ClearsRecord,
     Exits, Supervisor, HandBackDeadClaim, RemoveCurrentClaim, Respawn, SupervisorDies
<1>11. CASE SalvageNotes
  BY <1>4, <1>11 DEF SalvageNotes
<1> QED
  BY <1>5, <1>6, <1>7, <1>8, <1>9, <1>10, <1>11 DEF Next, Driver

\* Work the claim knows of and the record does not yet.
BeingNoted(c, d, o, t) == c.wip /\ c.task = t /\ (d = "salvaged" \/ o = "file")

LEMMA BeingNotedStays ==
  ASSUME TypeOK, StreamTellsSession, [Next]_vars, NEW t, BeingNoted(claim, drv, obs, t),
         ~ObserveWrites, ~SalvageNotes
  PROVE  BeingNoted(claim', drv', obs', t) \/ (DaemonDies /\ t \in hist'.unknown)
<1>1. drv \in {"salvaged", "invoke"} /\ (drv = "salvaged" \/ obs = "file")
  BY DEF BeingNoted, StreamTellsSession
<1>2. CASE UNCHANGED <<claim, drv, obs>>
  BY <1>2 DEF BeingNoted
<1>3. CASE Plane \/ Renewer \/ Session \/ Cancel \/ UNCHANGED vars
  <2>1. UNCHANGED <<claim, drv, obs>>
    BY <1>3 DEF Plane, LeaseLapses, OtherTakes, daemon, Session, SessionClaims,
       SessionAsksToRecord, SessionRecords, SessionSettles, SessionFrame, Renewer, Beats,
       RenewerTakes, RenewerTicks, RenewerDecides, BeatSucceeds, BeatFails, BeatUnwired,
       RenewerQuits, RenewerFrame, Cancel, DriverFrame, vars
  <2> QED
    BY <1>2, <2>1
<1>4. CASE SessionExits \/ StreamBreaks \/ Reader
  <2>1. drv # "invoke" => obs = "idle"
    BY DEF StreamTellsSession
  <2> QED
    BY <1>1, <1>4, <2>1 DEF SessionExits, StreamBreaks, Reader, AdapterReads, ObserveQueues, ObserveSheds,
       ObserveRetries
<1>5. CASE Driver
  BY <1>1, <1>5 DEF Driver, StartSession, StopReturns, SalvageRecords, KeepsClaim, DropsClaim,
     HandsBack, Parks, LetsGo, ClearsRecord, Exits
<1>6. CASE HandBackDeadClaim \/ Respawn \/ SupervisorDies
  BY <1>1, <1>6 DEF HandBackDeadClaim, Respawn, SupervisorDies
<1>7. CASE RemoveCurrentClaim
  BY <1>2, <1>7 DEF RemoveCurrentClaim, SupervisorFrame
<1>8. CASE DaemonDies
  <2>1. claim.wip /\ claim.task = t
    BY DEF BeingNoted
  <2>2. \E x : hist' = [hist EXCEPT !.unknown = (@ \cup x) \cup {t}]
    BY <1>1, <1>8, <2>1 DEF DaemonDies
  <2> QED
    BY <1>8, <2>2 DEF TypeOK, Histories
<1> QED
  BY <1>3, <1>4, <1>5, <1>6, <1>7, <1>8 DEF Next, Supervisor

-----------------------------------------------------------------------------
(* Recorded work is known to the stream, to the claim, or to the record.   *)

Excused(h, t) == t \in h.unknown \cup h.unwritten

WorkIsInStream ==
  \A j \in DOMAIN wire :
    wire[j].kind = "claim" /\ HasWork(plane, sess, Key(wire[j]))
      => wire[j].wip \/ Told(wire, Key(wire[j]))

WorkIsInClaim ==
  trusted /\ Held(claim) /\ HasWork(plane, sess, Key(claim)) => claim.wip \/ Told(wire, Key(claim))

WorkIsInRecord ==
  file.task # NoTask /\ HasWork(plane, sess, Key(file))
    => \/ file.branch \/ Excused(hist, file.task) \/ Told(wire, Key(file))
       \/ BeingNoted(claim, drv, obs, file.task)

WorkIsKnown == WorkIsInStream /\ WorkIsInClaim /\ WorkIsInRecord

\* A new run is of a task as the stream, the claim and the record do not know it yet.
LEMMA NobodyKnowsYet ==
  ASSUME TypeOK, NEW t \in conf.tasks, NEW c, UpTo(c, plane), c.task = t, c.run = plane[t].run + 1
  PROVE  FALSE
<1>1. t \in Tasks /\ t # NoTask /\ plane[t].run \in Nat
  BY ConfigsAssumption, TasksAssumption, RunsAreNat DEF TypeOK, Rows
<1> QED
  BY <1>1 DEF UpTo

LEMMA WorkInStreamStep ==
  ASSUME TypeOK, StreamTellsSession, RunsAreUpToDate, WorkIsKnown, [Next]_vars
  PROVE  WorkIsInStream'
<1> SUFFICES ASSUME NEW j \in DOMAIN wire', wire'[j].kind = "claim",
                    HasWork(plane', sess', Key(wire'[j]))
             PROVE  wire'[j].wip \/ Told(wire', Key(wire'[j]))
  BY DEF WorkIsInStream
<1>1. wire \in Seq(Events) /\ \A i \in DOMAIN wire : wire[i] \in Events
  BY DEF TypeOK
<1>2. ASSUME NEW i \in DOMAIN wire, wire'[j] = wire[i], AdapterReads => 1 \in 1 .. i - 1
      PROVE  wire'[j].wip \/ Told(wire', Key(wire'[j]))
  <2> DEFINE k == Key(wire[i])
  <2>1. k = Key(k) /\ k.task \in Tasks /\ k.task = wire[i].task /\ k.run = wire[i].run
    BY <1>1 DEF Key, Events
  <2>2. HasWork(plane', sess', k) /\ wire[i].kind = "claim"
    BY <1>2
  <2>3. UpTo(wire[i], plane) /\ (AdapterReads => Older(wire[1], wire[i]))
    BY <1>2, <2>2 DEF RunsAreUpToDate
  <2>4. CASE HasWork(plane, sess, k)
    <3>1. wire[i].wip \/ Told(wire, k)
      BY <2>2, <2>4 DEF WorkIsKnown, WorkIsInStream
    <3>2. ASSUME AdapterReads, Key(wire[1]) = k PROVE FALSE
      <4>1. wire[1].task = wire[i].task /\ wire[1].run = wire[i].run
        BY <3>2, SameKey
      <4>2. wire[i].run \in Nat
        BY <1>1, RunsAreNat DEF Events
      <4> QED
        BY <2>3, <3>2, <4>1, <4>2 DEF Older
    <3>3. ~StreamBreaks /\ ~DaemonDies
      <4>1. wire' # <<>>
        OBVIOUS
      <4> QED
        BY <4>1 DEF StreamBreaks, DaemonDies
    <3> HIDE DEF k
    <3>4. Told(wire, k) => Told(wire', k)
      BY <3>2, <3>3, ToldStays
    <3> QED
      BY <1>2, <3>1, <3>4 DEF k
  <2>5. CASE SessionAsksToRecord /\ k = Key(sess)
    BY <1>2, <2>5, AskedIsTold
  <2>6. CASE SalvageRecords
    <3>1. wire = <<>>
      BY <2>6 DEF SalvageRecords, StreamTellsSession
    <3> QED
      BY <1>2, <3>1
  <2>7. ASSUME NEW t \in conf.tasks, k.task = t, k.run = plane[t].run + 1 PROVE FALSE
    BY <2>1, <2>3, <2>7, NobodyKnowsYet
  <2> HIDE DEF k
  <2> QED
    BY <2>1, <2>2, <2>4, <2>5, <2>6, <2>7, WorkIsLearnt
<1>3. CASE AdapterReads
  <2>1. wire # <<>> /\ wire' = Tail(wire)
    BY <1>3 DEF AdapterReads
  <2>2. j + 1 \in DOMAIN wire /\ wire'[j] = wire[j + 1] /\ 1 \in 1 .. (j + 1) - 1
    BY <1>1, <2>1
  <2> QED
    BY <1>2, <2>2
<1>4. CASE wire' = wire /\ ~AdapterReads
  BY <1>2, <1>4
<1>5. CASE wire' = <<>>
  BY <1>5
<1>6. ASSUME NEW e, wire' = Append(wire, e), ~AdapterReads, j \notin DOMAIN wire
      PROVE  wire'[j] = e
  BY <1>1, <1>6
<1>7. ASSUME NEW e, wire' = Append(wire, e), ~AdapterReads, j \in DOMAIN wire
      PROVE  wire'[j].wip \/ Told(wire', Key(wire'[j]))
  <2>1. wire'[j] = wire[j]
    BY <1>1, <1>7
  <2> QED
    BY <1>2, <1>7, <2>1
<1>8. ASSUME NEW e, wire' = Append(wire, e)
      PROVE  ~AdapterReads
  <2>1. Len(wire') = Len(wire) + 1 /\ Len(wire) \in Nat
    BY <1>1, <1>8
  <2>2. ASSUME AdapterReads PROVE FALSE
    <3>1. wire # <<>> /\ wire' = Tail(wire)
      BY <2>2 DEF AdapterReads
    <3> QED
      BY <1>1, <2>1, <3>1
  <2> QED
    BY <2>2
<1>9. ASSUME NEW t \in conf.tasks, SessionClaims(t)
      PROVE  wire'[j].wip \/ Told(wire', Key(wire'[j]))
  <2> DEFINE e == [kind |-> "claim", task |-> t, run |-> plane[t].run + 1, wip |-> plane[t].work]
  <2>1. wire' = Append(wire, e) /\ e.task = t /\ e.wip = plane[t].work /\ ~sess'.recording
        /\ plane' = [plane EXCEPT ![t].lease = "held", ![t].run = @ + 1]
    BY <1>9 DEF SessionClaims, Says
  <2>2. t \in Tasks /\ plane \in [Tasks -> Rows]
    BY ConfigsAssumption DEF TypeOK
  <2>3. plane'[t].work = plane[t].work
    BY <2>1, <2>2 DEF Rows
  <2> HIDE DEF e
  <2>4. CASE wire'[j] = e
    <3>1. Key(wire'[j]).task = t
      BY <2>1, <2>4 DEF Key
    <3>2. plane'[t].work
      BY <2>1, <3>1 DEF HasWork, InPlace
    <3> QED
      BY <2>1, <2>3, <2>4, <3>2
  <2> QED
    BY <1>6, <1>7, <1>8, <2>1, <2>4
<1>10. CASE SessionAsksToRecord \/ SessionSettles
  <2>1. PICK e : wire' = Append(wire, e) /\ e.kind # "claim"
    BY <1>10 DEF SessionAsksToRecord, SessionSettles, Says
  <2> QED
    BY <1>6, <1>7, <1>8, <2>1
<1> QED
  BY <1>3, <1>4, <1>5, <1>9, <1>10, WireMoves

LEMMA WorkInClaimStep ==
  ASSUME TypeOK, StreamTellsSession, RunsAreUpToDate, DriverKnowsItsClaim, WorkIsKnown, [Next]_vars
  PROVE  WorkIsInClaim'
<1> SUFFICES ASSUME trusted', Held(claim'), HasWork(plane', sess', Key(claim'))
             PROVE  claim'.wip \/ Told(wire', Key(claim'))
  BY DEF WorkIsInClaim
<1>1. CASE AdapterReads
  <2>1. /\ wire # <<>> /\ wire' = Tail(wire) /\ wire[1] \in Events /\ UNCHANGED <<plane, sess>>
        /\ Key(claim') = Key(wire[1]) /\ (Held(claim') <=> wire[1].kind # "settle")
        /\ wire[1].kind = "claim" => claim'.wip = wire[1].wip
        /\ wire[1].kind = "branch" => claim'.wip
    BY <1>1, EventRead
  <2>2. CASE wire[1].kind = "branch"
    BY <2>1, <2>2
  <2>3. CASE wire[1].kind = "claim"
    <3>1. wire \in Seq(Events) /\ 1 \in DOMAIN wire
      BY <2>1 DEF TypeOK
    <3>2. wire[1].wip \/ Told(wire, Key(wire[1]))
      BY <2>1, <2>3, <3>1 DEF WorkIsKnown, WorkIsInStream
    <3>3. Told(wire, Key(wire[1])) => Told(wire', Key(wire[1]))
      BY <2>1, <2>3, <3>1, ToldTail
    <3> QED
      BY <2>1, <2>3, <3>2, <3>3
  <2> QED
    BY <2>1, <2>2, <2>3 DEF Events
<1>2. CASE ~AdapterReads
  <2> DEFINE k == Key(claim)
  <2>1. /\ Held(claim) /\ trusted /\ Key(claim') = k /\ (claim.wip => claim'.wip)
        /\ SalvageRecords => claim'.wip
        /\ ~StreamBreaks /\ ~DaemonDies
    BY <1>2, ClaimKept
  <2>2. k = Key(k) /\ k.task \in Tasks /\ k.task = claim.task /\ k.run = claim.run
    BY <2>1 DEF TypeOK, Claims, Key, Held
  <2>3. CASE HasWork(plane, sess, k)
    <3>1. claim.wip \/ Told(wire, k)
      BY <2>1, <2>3 DEF WorkIsKnown, WorkIsInClaim
    <3> HIDE DEF k
    <3>2. Told(wire, k) => Told(wire', k)
      BY <1>2, <2>1, ToldStays
    <3> QED
      BY <2>1, <3>1, <3>2
  <2>4. CASE SessionAsksToRecord /\ k = Key(sess)
    BY <2>1, <2>4, AskedIsTold
  <2>5. ASSUME NEW t \in conf.tasks, k.task = t, k.run = plane[t].run + 1 PROVE FALSE
    BY <2>2, <2>5, NobodyKnowsYet DEF RunsAreUpToDate
  <2>6. HasWork(plane', sess', k)
    BY <2>1
  <2> HIDE DEF k
  <2> QED
    BY <2>1, <2>2, <2>3, <2>4, <2>5, <2>6, WorkIsLearnt
<1> QED
  BY <1>1, <1>2

LEMMA WorkInRecordStep ==
  ASSUME TypeOK, StreamTellsSession, RunsAreUpToDate, DriverKnowsItsClaim, WorkIsKnown, [Next]_vars
  PROVE  WorkIsInRecord'
<1> SUFFICES ASSUME file'.task # NoTask, HasWork(plane', sess', Key(file'))
             PROVE  file'.branch \/ Excused(hist', file'.task) \/ Told(wire', Key(file'))
                    \/ BeingNoted(claim', drv', obs', file'.task)
  BY DEF WorkIsInRecord
<1>1. \A t : Excused(hist, t) => Excused(hist', t)
  BY HistoryGrows DEF Excused
<1>2. ASSUME ObserveWrites \/ SalvageNotes, file' # file
      PROVE  file'.branch \/ Told(wire', Key(file'))
  <2>1. NoteCurrentClaim /\ UNCHANGED <<plane, sess, wire, claim>>
    BY <1>2 DEF ObserveWrites, SalvageNotes, DriverFrame
  <2>2. file' = Record(claim)
    BY <1>2, <2>1 DEF NoteCurrentClaim
  <2>3. Held(claim) /\ Key(file') = Key(claim) /\ file'.branch = claim.wip
    BY <2>2 DEF Record, NoFile, Key
  <2>4. trusted
    <3>1. CASE ObserveWrites
      <4>1. drv = "invoke"
        BY <3>1 DEF ObserveWrites, StreamTellsSession
      <4> QED
        BY <4>1 DEF DriverKnowsItsClaim
    <3>2. CASE SalvageNotes
      BY <2>3, <3>2 DEF SalvageNotes, DriverKnowsItsClaim
    <3> QED
      BY <1>2, <3>1, <3>2
  <2> QED
    BY <2>1, <2>3, <2>4 DEF WorkIsKnown, WorkIsInClaim
<1>3. ASSUME file' = file
      PROVE  \/ file.branch \/ Excused(hist', file.task) \/ Told(wire', Key(file))
             \/ BeingNoted(claim', drv', obs', file.task)
  <2> DEFINE k == Key(file)
  <2>1. k = Key(k) /\ k.task \in Tasks /\ k.task = file.task /\ k.run = file.run /\ file.task # NoTask
    BY <1>3 DEF TypeOK, Files, Key
  <2>2. HasWork(plane', sess', k)
    BY <1>3
  <2>3. CASE HasWork(plane, sess, k)
    <3>1. file.branch \/ Excused(hist, file.task) \/ Told(wire, k) \/ BeingNoted(claim, drv, obs, file.task)
      BY <2>1, <2>3 DEF WorkIsKnown, WorkIsInRecord
    <3>2. CASE Told(wire, k)
      <4>1. ASSUME AdapterReads, wire[1].kind = "branch", Key(wire[1]) = k
            PROVE  BeingNoted(claim', drv', obs', file.task)
        <5>1. Key(claim') = Key(wire[1]) /\ claim'.wip /\ obs' = "file" /\ file' = file
          BY <4>1, EventRead
        <5>2. claim'.task = file.task
          BY <2>1, <4>1, <5>1, SameKey
        <5> QED
          BY <5>1, <5>2 DEF BeingNoted
      <4>2. ASSUME k.task \in hist'.unknown PROVE Excused(hist', file.task)
        BY <2>1, <4>2 DEF Excused
      <4> HIDE DEF k
      <4> QED
        BY <3>2, <4>1, <4>2, ToldStays DEF k
    <3>3. CASE BeingNoted(claim, drv, obs, file.task)
      <4>1. CASE ObserveWrites \/ SalvageNotes
        <5>1. NoteCurrentClaim /\ claim.wip /\ claim.task = file.task
          BY <3>3, <4>1 DEF ObserveWrites, SalvageNotes, BeingNoted
        <5>2. CASE file' = Record(claim)
          <6>1. Held(claim)
            BY <1>3, <2>1, <5>2 DEF Record, NoFile
          <6>2. file' = [task |-> claim.task, run |-> claim.run, branch |-> claim.wip]
            BY <5>2, <6>1 DEF Record
          <6> QED
            BY <1>3, <5>1, <6>2
        <5>3. CASE hist' = [hist EXCEPT !.unwritten = @ \cup {claim.task}]
          BY <5>1, <5>3 DEF TypeOK, Histories, Excused
        <5> QED
          BY <5>1, <5>2, <5>3 DEF NoteCurrentClaim
      <4>2. CASE ~ObserveWrites /\ ~SalvageNotes
        BY <3>3, <4>2, BeingNotedStays DEF Excused
      <4> QED
        BY <4>1, <4>2
    <3> QED
      BY <1>1, <3>1, <3>2, <3>3
  <2>4. CASE SessionAsksToRecord /\ k = Key(sess)
    BY <2>4, AskedIsTold
  <2>5. CASE SalvageRecords /\ k = Key(claim)
    <3>1. claim' = [claim EXCEPT !.wip = TRUE] /\ drv' = "salvaged" /\ claim \in Claims
      BY <2>5 DEF SalvageRecords, TypeOK
    <3>2. claim'.wip /\ claim'.task = claim.task
      BY <3>1 DEF Claims
    <3>3. claim.task = file.task
      BY <2>5, SameKey
    <3> QED
      BY <3>1, <3>2, <3>3 DEF BeingNoted
  <2>6. ASSUME NEW t \in conf.tasks, k.task = t, k.run = plane[t].run + 1 PROVE FALSE
    BY <2>1, <2>6, NobodyKnowsYet DEF RunsAreUpToDate
  <2>7. HasWork(plane, sess, k) \/ (SessionAsksToRecord /\ k = Key(sess))
        \/ (SalvageRecords /\ k = Key(claim))
        \/ \E t \in conf.tasks : k.task = t /\ k.run = plane[t].run + 1
    <3> HIDE DEF k
    <3> QED
      BY <2>1, <2>2, WorkIsLearnt
  <2> QED
    BY <2>3, <2>4, <2>5, <2>6, <2>7
<1>4. CASE file' = NoFile
  BY <1>4 DEF NoFile
<1>5. file' = file \/ file' = NoFile \/ ((ObserveWrites \/ SalvageNotes) /\ file' # file)
  BY FileMoves
<1>6. CASE file' = file
  BY <1>3, <1>6
<1> QED
  BY <1>2, <1>4, <1>5, <1>6

-----------------------------------------------------------------------------
(* The record on disk, and the queue.                                      *)

\* CURRENT_CLAIM is what the driver would write of the claim it tracks, unless a write of
\* it failed.
RecordIsCurrent ==
  /\ drv \in {"invoke", "stop", "after", "between"} /\ obs # "file"
  /\ claim.task \notin hist.unwritten \cup {NoTask}
  => file = Record(claim)

LEMMA RecordStep ==
  ASSUME TypeOK, StreamTellsSession, DriverKnowsItsClaim, RecordIsCurrent, [Next]_vars
  PROVE  RecordIsCurrent'
<1> SUFFICES ASSUME drv' \in {"invoke", "stop", "after", "between"}, obs' # "file",
                    claim'.task # NoTask, claim'.task \notin hist'.unwritten
             PROVE  file' = Record(claim')
  BY DEF RecordIsCurrent
<1>1. hist.unwritten \subseteq hist'.unwritten /\ NoClaim.task = NoTask
  BY HistoryGrows DEF NoClaim
<1>2. CASE ObserveWrites \/ SalvageNotes
  <2>1. NoteCurrentClaim /\ claim' = claim
    BY <1>2 DEF ObserveWrites, SalvageNotes
  <2>2. ASSUME hist' = [hist EXCEPT !.unwritten = @ \cup {claim.task}] PROVE FALSE
    BY <2>1, <2>2 DEF TypeOK, Histories
  <2> QED
    BY <2>1, <2>2 DEF NoteCurrentClaim
<1>3. ASSUME UNCHANGED <<claim, file>>, drv \in {"invoke", "stop", "after", "between"}, obs # "file"
      PROVE  file' = Record(claim')
  BY <1>1, <1>3 DEF RecordIsCurrent
<1>4. CASE Plane \/ Renewer \/ Session \/ Cancel \/ UNCHANGED vars
  <2>1. UNCHANGED <<claim, file, drv, obs>>
    BY <1>4 DEF Plane, LeaseLapses, OtherTakes, daemon, Session, SessionClaims,
       SessionAsksToRecord, SessionRecords, SessionSettles, SessionFrame, Renewer, Beats,
       RenewerTakes, RenewerTicks, RenewerDecides, BeatSucceeds, BeatFails, BeatUnwired,
       RenewerQuits, RenewerFrame, Cancel, DriverFrame, vars
  <2> QED
    BY <1>3, <2>1
<1>5. CASE AdapterReads
  BY <1>5, EventRead
<1>6. CASE ObserveQueues \/ ObserveSheds \/ ObserveRetries
  <2>1. UNCHANGED <<claim, file, drv>> /\ obs # "file"
    BY <1>6 DEF ObserveQueues, ObserveSheds, ObserveRetries, ObserveFrame
  <2> QED
    BY <1>3, <2>1
<1>7. CASE SessionExits \/ StreamBreaks
  <2>1. UNCHANGED <<claim, file>> /\ drv = "invoke" /\ obs = "idle"
    BY <1>7 DEF SessionExits, StreamBreaks
  <2> QED
    BY <1>3, <2>1
<1>8. CASE StartSession \/ StopReturns \/ KeepsClaim
  <2>1. UNCHANGED <<claim, file, obs>> /\ drv \in {"stop", "after", "between"}
    BY <1>8 DEF StartSession, StopReturns, KeepsClaim, DriverFrame
  <2> QED
    BY <1>3, <2>1
<1>9. CASE SalvageRecords \/ Exits \/ DaemonDies \/ HandBackDeadClaim
  BY <1>9 DEF SalvageRecords, Exits, DaemonDies, HandBackDeadClaim
<1>10. CASE DropsClaim \/ HandsBack \/ Parks \/ Respawn
  BY <1>1, <1>10 DEF DropsClaim, HandsBack, Parks, LetsGo, Respawn
<1>11. CASE ClearsRecord \/ SupervisorDies
  <2>1. claim' = claim /\ drv \in {"clear", "ended"}
    BY <1>11 DEF ClearsRecord, SupervisorDies
  <2> QED
    BY <2>1 DEF DriverKnowsItsClaim
<1>12. CASE RemoveCurrentClaim
  <2>1. sup = "remove" /\ drv' = drv
    BY <1>12 DEF RemoveCurrentClaim
  <2> QED
    BY <2>1 DEF DriverKnowsItsClaim
<1> QED
  BY <1>2, <1>4, <1>5, <1>6, <1>7, <1>8, <1>9, <1>10, <1>11, <1>12 DEF Next, Reader, Driver, Supervisor

LEMMA QueueAfterLease ==
  ASSUME TypeOK, NEW t \in Tasks, NEW u, NEW l, plane' = [plane EXCEPT ![u].lease = l]
  PROVE  /\ plane'[t].work => plane[t].work
         /\ plane'[t].lease = "queue" => plane[t].lease = "queue" \/ (u = t /\ l = "queue")
<1>1. plane \in [Tasks -> Rows]
  BY DEF TypeOK
<1>2. /\ plane'[t].run = plane[t].run /\ plane'[t].work = plane[t].work
      /\ plane'[t].lease = IF t = u THEN l ELSE plane[t].lease
  BY <1>1, LeaseSet
<1> QED
  BY <1>2

LEMMA QueueAfterWork ==
  ASSUME TypeOK, NEW t \in Tasks, NEW u, NEW w, plane' = [plane EXCEPT ![u].work = w]
  PROVE  /\ plane'[t].lease = plane[t].lease
         /\ plane'[t].work => plane[t].work \/ u = t
<1>1. plane \in [Tasks -> Rows]
  BY DEF TypeOK
<1>2. /\ plane'[t].run = plane[t].run /\ plane'[t].lease = plane[t].lease
      /\ plane'[t].work = IF t = u THEN w ELSE plane[t].work
  BY <1>1, WorkSet
<1> QED
  BY <1>2

LEMMA QueueStep ==
  ASSUME TypeOK, StreamTellsSession, DriverKnowsItsClaim, WorkIsKnown, QueueHoldsNoWork, [Next]_vars
  PROVE  QueueHoldsNoWork'
<1> SUFFICES ASSUME NEW t \in Tasks, plane'[t].lease = "queue", plane'[t].work
             PROVE  Excused(hist', t)
  BY DEF QueueHoldsNoWork, Excused
<1>1. plane \in [Tasks -> Rows] /\ t # NoTask /\ t \in Tasks
  BY TasksAssumption DEF TypeOK
<1>2. ASSUME Excused(hist, t) PROVE Excused(hist', t)
  BY <1>2, HistoryGrows DEF Excused
<1>3. ASSUME plane[t].lease = "queue", plane[t].work PROVE Excused(hist', t)
  BY <1>2, <1>3 DEF QueueHoldsNoWork, Excused
<1>4. CASE plane' = plane
  BY <1>3, <1>4
<1>5. ASSUME NEW u, NEW l, plane' = [plane EXCEPT ![u].lease = l], u = t => l # "queue"
      PROVE  Excused(hist', t)
  BY <1>3, <1>5, QueueAfterLease
<1>6. ASSUME NEW u \in Tasks, NEW keep, plane' = Returned(u, keep), u = t => keep \/ ~plane[t].work
      PROVE  Excused(hist', t)
  <2> DEFINE l == IF keep /\ plane[u].work THEN "takeover" ELSE "queue"
  <2>1. plane' = [plane EXCEPT ![u].lease = l]
    BY <1>6 DEF Returned
  <2>2. plane[t].work
    <3> HIDE DEF l
    <3> QED
      BY <2>1, QueueAfterLease
  <2>3. u = t => l # "queue"
    BY <1>6, <2>2
  <2> HIDE DEF l
  <2> QED
    BY <1>5, <2>1, <2>3
<1>7. ASSUME NEW u \in conf.tasks, LeaseLapses(u) PROVE Excused(hist', t)
  <2>1. u \in Tasks
    BY ConfigsAssumption DEF TypeOK
  <2> QED
    BY <1>6, <1>7, <2>1 DEF LeaseLapses
<1>8. ASSUME NEW u \in conf.tasks, OtherTakes(u) \/ SessionClaims(u) PROVE Excused(hist', t)
  <2>1. u # t
    BY <1>1, <1>8 DEF OtherTakes, SessionClaims, Rows
  <2>2. plane'[t] = plane[t]
    BY <1>1, <1>8, <2>1 DEF OtherTakes, SessionClaims
  <2> QED
    BY <1>3, <2>2
<1>9. CASE plane' = BranchRecorded
  <2>1. plane[t].lease = "queue" /\ (plane[t].work \/ (t = sess.task /\ Holds(t, sess.run)))
    BY <1>9, BranchRecordedRows
  <2> QED
    BY <1>3, <2>1 DEF Holds
<1>10. CASE SalvageRecords
  <2>1. plane' = [plane EXCEPT ![claim.task].work = TRUE] /\ plane[claim.task].lease = "held"
    BY <1>10 DEF SalvageRecords, Holds
  <2> QED
    BY <1>3, <2>1, QueueAfterWork
<1>11. CASE SessionSettles \/ Parks
  <2>1. plane' = plane \/ \E u : plane' = [plane EXCEPT ![u].lease = "settled"]
    BY <1>11 DEF SessionSettles, Parks, LetsGo
  <2>2. ASSUME NEW u, plane' = [plane EXCEPT ![u].lease = "settled"]
        PROVE  (plane'[t].work => plane[t].work) /\ (plane'[t].lease = "queue" => plane[t].lease = "queue")
    <3>1. "settled" # "queue"
      OBVIOUS
    <3> QED
      BY <2>2, <3>1, QueueAfterLease
  <2> QED
    BY <1>3, <1>4, <2>1, <2>2
<1>12. CASE HandsBack
  <2>1. /\ trusted /\ Held(claim) /\ drv # "invoke"
        /\ plane' = plane \/ (plane' = Returned(claim.task, claim.wip) /\ Holds(claim.task, claim.run))
    BY <1>12 DEF HandsBack, LetsGo
  <2>2. claim.task \in Tasks
    BY <2>1 DEF TypeOK, Claims, Held
  <2>3. ~Told(wire, Key(claim))
    BY <2>1 DEF StreamTellsSession, Told
  <2>4. ASSUME Holds(claim.task, claim.run), plane[claim.task].work PROVE claim.wip
    <3>1. HasWork(plane, sess, Key(claim))
      BY <2>4 DEF HasWork, InPlace, Key, Holds
    <3> QED
      BY <2>1, <2>3, <3>1 DEF WorkIsKnown, WorkIsInClaim
  <2> QED
    BY <1>4, <1>6, <2>1, <2>2, <2>4
<1>13. CASE HandBackDeadClaim
  <2>1. /\ drv = "ended" /\ file # NoFile
        /\ plane' = plane \/ (plane' = Returned(file.task, file.branch) /\ Holds(file.task, file.run))
    BY <1>13 DEF HandBackDeadClaim, KeepsWork
  <2>2. ~Told(wire, Key(file)) /\ ~BeingNoted(claim, drv, obs, file.task)
    BY <2>1 DEF StreamTellsSession, Told, BeingNoted
  <2>3. ASSUME Holds(file.task, file.run), plane[file.task].work
        PROVE  file.branch \/ Excused(hist, file.task)
    <3>1. HasWork(plane, sess, Key(file)) /\ file.task # NoTask
      BY <2>3 DEF HasWork, InPlace, Key, Holds
    <3> QED
      BY <2>2, <3>1 DEF WorkIsKnown, WorkIsInRecord
  <2>4. Holds(file.task, file.run) => file.task \in Tasks
    BY DEF Holds, TypeOK, Files
  <2> QED
    BY <1>2, <1>4, <1>6, <2>1, <2>3, <2>4
<1> QED
  BY <1>4, <1>7, <1>8, <1>9, <1>10, <1>11, <1>12, <1>13, PlaneMoves

-----------------------------------------------------------------------------
(* What the record invariant gives.                                        *)

RecordInv ==
  /\ StreamTellsSession /\ RunsAreUpToDate /\ DriverKnowsItsClaim /\ WorkIsKnown
  /\ RecordIsCurrent /\ QueueHoldsNoWork

LEMMA RecordInvInit == Init => RecordInv
<1> SUFFICES ASSUME Init PROVE RecordInv
  OBVIOUS
<1>1. TypeOK
  BY LeaseInit
<1>2. /\ sess = NoSession /\ wire = <<>> /\ claim = NoClaim /\ obs = "idle" /\ file = NoFile
      /\ drv = "between" /\ trusted = TRUE /\ sup = "watch"
  BY DEF Init
<1>3. StreamTellsSession
  BY <1>2 DEF StreamTellsSession
<1>4. claim.task = NoTask /\ file.task = NoTask /\ ~Held(claim) /\ DOMAIN wire = {}
  BY <1>2 DEF NoClaim, NoFile, Held
<1>5. RunsAreUpToDate /\ WorkIsKnown /\ RecordIsCurrent
  BY <1>4 DEF RunsAreUpToDate, UpTo, WorkIsKnown, WorkIsInStream, WorkIsInClaim, WorkIsInRecord,
              RecordIsCurrent
<1>6. DriverKnowsItsClaim
  BY <1>2, <1>4 DEF DriverKnowsItsClaim
<1>7. QueueHoldsNoWork
  BY DEF Init, QueueHoldsNoWork
<1> QED
  BY <1>3, <1>5, <1>6, <1>7 DEF RecordInv

LEMMA RecordInvStep == TypeOK /\ TypeOK' /\ RecordInv /\ [Next]_vars => RecordInv'
<1> SUFFICES ASSUME TypeOK, TypeOK', RecordInv, [Next]_vars PROVE RecordInv'
  OBVIOUS
<1>1. WorkIsKnown'
  BY WorkInStreamStep, WorkInClaimStep, WorkInRecordStep DEF RecordInv, WorkIsKnown
<1> QED
  BY <1>1, StreamStep, RunsStep, DriverStep, RecordStep, QueueStep DEF RecordInv

LEMMA RecordFollows ==
  ASSUME TypeOK, RecordInv
  PROVE  RecordFollowsSession
<1> SUFFICES ASSUME drv = "invoke", wire = <<>>, obs # "file",
                    claim.task # NoTask, claim.task \notin hist.unwritten
             PROVE  IF sess.task = NoTask THEN file = NoFile
                    ELSE /\ file.task = sess.task /\ file.run = sess.run
                         /\ Holds(sess.task, sess.run) /\ plane[sess.task].work => file.branch
  BY DEF RecordFollowsSession
<1>1. file = Record(claim) /\ trusted
  BY DEF RecordInv, RecordIsCurrent, DriverKnowsItsClaim
<1>2. Key(sess) = IF Held(claim) THEN Key(claim) ELSE NoKey
  BY DEF RecordInv, StreamTellsSession, After
<1>3. CASE ~Held(claim)
  BY <1>1, <1>2, <1>3, SameKey DEF Record, NoKey, Key
<1>4. CASE Held(claim)
  <2>1. sess.task = claim.task /\ sess.run = claim.run
    BY <1>2, <1>4, SameKey
  <2>2. file.task = claim.task /\ file.run = claim.run /\ file.branch = claim.wip
    BY <1>1, <1>4 DEF Record
  <2>3. ASSUME Holds(sess.task, sess.run), plane[sess.task].work PROVE claim.wip
    <3>1. HasWork(plane, sess, Key(claim))
      BY <2>1, <2>3 DEF HasWork, InPlace, Holds, Key
    <3>2. ~Told(wire, Key(claim))
      BY DEF Told
    <3> QED
      BY <1>1, <1>4, <3>1, <3>2 DEF RecordInv, WorkIsKnown, WorkIsInClaim
  <2> QED
    BY <2>1, <2>2, <2>3
<1> QED
  BY <1>3, <1>4

\* CURRENT_CLAIM names the run the session works under and knows of its work as soon as the
\* adapter has read all there is, and a task with recorded work goes back to the queue only
\* when the record could not know of the work, whatever dies, fails or interferes
\* (currentclaim.go, handback.go:6-12, heartbeat.go:175-181).
THEOREM LeaseRecordKeepsTheWork == Spec => []RecordKeepsTheWork
<1>1. TypeOK /\ RecordInv => RecordKeepsTheWork
  BY RecordFollows DEF RecordKeepsTheWork, RecordInv
<1>2. Spec => []RecordInv
  BY RecordInvInit, RecordInvStep, LeaseTypeOK, PTL DEF Spec
<1> QED
  BY <1>1, <1>2, LeaseTypeOK, PTL

=============================================================================
