-------------------------------- MODULE Panel --------------------------------
(***************************************************************************)
(* A review panel: the consecutive reviewers of one drain, who work on the *)
(* run the drain holds and whose records the plane keeps sealed until the  *)
(* round is closed.  With a concurrency above one, runPanelInParallel runs *)
(* them in a pool and joins them; otherwise, or when the pool cannot be    *)
(* set up, drainPhases runs them one after another and judges each.        *)
(*                                                                         *)
(* The sessions, the plane and other clankers are external.                *)
(***************************************************************************)
EXTENDS Naturals, FiniteSets, FiniteSetsExt

CONSTANT Configs   \* bounds: the panels looked at, see ConfigsAssumption

\* How a session ends, as the adapter reads it.  "limited" is an orderly end that
\* hit a usage limit as well; "nocall" made no call of the plane's tools; "dead" was
\* killed for repeating one failing call, which no exit code makes checkpointable.
ExitKinds == {"orderly", "limited", "nocall", "dead", "limit", "transient", "credit",
              "fatal", "untrusted", "nostart", "preflight"}
FaultKinds == {"probe", "tree", "read", "close", "reply", "lapse"}

\* The seats and the trial ones, review_panel_concurrency (0: all at once), whether
\* a fix follows, the sessions the budget still has (0: no ceiling); then how
\* sessions may end, what may fail, and whether a session may let go of the run.
ConfigsAssumption ==
  \A c \in Configs :
    /\ c.seats \in Nat /\ c.optional \subseteq 1 .. c.seats /\ 1 .. c.seats # c.optional
    /\ c.cap \in Nat /\ c.fix \in BOOLEAN /\ c.ceiling \in Nat
    /\ c.exits \subseteq ExitKinds /\ c.faults \subseteq FaultKinds /\ c.settles \in BOOLEAN

VARIABLES
  conf,    \* the member of Configs this behaviour is about
  plane,   \* the run's lease, the records of the round, the round
  m,       \* per seat: the goroutine and drainPhase call of its member
  pool,    \* runPanelMembers: the first member it runs, the next to spawn, the one waited for
  drv      \* drainPhases: where it is, and why the panel ended

vars == <<conf, plane, m, pool, drv>>

Seats == 1 .. conf.seats
Required == Seats \ conf.optional

Members ==
  [pc : {"idle", "setup", "read", "check", "launch", "run", "judge", "close", "out", "gone"},
   exit : ExitKinds \cup {"none"},  \* of the session judged
   retried : BOOLEAN,               \* mcpRetried
   launched : BOOLEAN,              \* a session of the member was started
   spent : 0 .. 2,                  \* sessions whose spend was published
   held : BOOLEAN,                  \* the member's result still holds the claim
   recorded : BOOLEAN,              \* reviewRecorded or reviewCloseFailed of its phaseEnd
   closeFailed : BOOLEAN,
   counted : BOOLEAN,               \* the panel took it for recorded
   end : {"none", "fine", "setup", "unread", "stop", "err", "limit", "transient", "nomcp", "dead"}]

NoMember == [pc |-> "idle", exit |-> "none", retried |-> FALSE, launched |-> FALSE, spent |-> 0,
             held |-> TRUE, recorded |-> FALSE, closeFailed |-> FALSE, counted |-> FALSE,
             end |-> "none"]

TypeOK ==
  /\ conf \in Configs
  /\ plane \in [lease : {"ours", "settled", "lost", "returned"}, recs : SUBSET Seats,
                round : {"none", "sealed", "released"}]
  /\ m \in [Seats -> Members]
  /\ pool \in [first : Seats, at : 1 .. conf.seats + 1, waits : Seats \cup {0}]
  /\ drv \in [pc : {"next", "member", "handle", "pool", "join", "fix", "over", "done"},
              why : {"", "stop", "close", "err", "wait", "none", "lost", "last"}]

Init ==
  /\ conf \in Configs
  /\ plane = [lease |-> "ours", recs |-> {}, round |-> "none"]
  /\ m = [k \in Seats |-> NoMember]
  /\ pool = [first |-> 1, at |-> 1, waits |-> 0]
  /\ drv = [pc |-> "next", why |-> ""]

Reads == IF "read" \in conf.faults THEN BOOLEAN ELSE {TRUE}
InPool == drv.pc = "pool"

\* What the members have published so far, and the breaker's test against it.
Published == MapThenSumSet(LAMBDA k : m[k].spent, Seats)
BudgetGone(spend) == conf.ceiling > 0 /\ spend >= conf.ceiling

\* EffectivePanelConcurrency of the members from k on.
Concurrency(k) ==
  LET n == conf.seats + 1 - k
  IN  CASE n < 2 -> 1
        [] n >= 2 /\ conf.cap \in 1 .. n -> conf.cap
        [] OTHER -> n

-----------------------------------------------------------------------------
(* The plane                                                               *)

\* close_review_round, by the holder of the run and for a sealed round only; ok is
\* what the driver learns.
CloseRound(ok) ==
  LET able == plane.lease = "ours" /\ plane.round = "sealed"
  IN  \/ ok /\ able /\ plane' = [plane EXCEPT !.round = "released"]
      \/ ~ok /\ (able => "close" \in conf.faults) /\ UNCHANGED plane
      \/ ~ok /\ able /\ "reply" \in conf.faults /\ plane' = [plane EXCEPT !.round = "released"]

\* The lease lapses and another clanker takes the task: what is sealed is void.
LeaseLost ==
  /\ "lapse" \in conf.faults /\ plane.lease = "ours" /\ drv.pc # "done"
  /\ plane' = [plane EXCEPT !.lease = "lost",
                            !.recs = IF plane.round = "sealed" THEN {} ELSE @]
  /\ UNCHANGED <<conf, m, pool, drv>>

-----------------------------------------------------------------------------
(* A member: its goroutine in the pool, its drainPhase call in both modes. *)

Step(k, from, new) == m[k].pc = from /\ m' = [m EXCEPT ![k] = new] /\ UNCHANGED <<conf, drv>>
To(k, pc) == [m[k] EXCEPT !.pc = pc]
Out(k, end) == [m[k] EXCEPT !.pc = "out", !.end = end]

\* The member's release of its successor; only the first call counts.
Started(k) == pool' = [pool EXCEPT !.waits = IF @ = k THEN 0 ELSE @]

CreatesTree(k) ==
  /\ Step(k, "setup", To(k, "read"))
  /\ UNCHANGED <<plane, pool>>

TreeFails(k) ==
  /\ "tree" \in conf.faults
  /\ Step(k, "setup", Out(k, "setup"))
  /\ Started(k) /\ UNCHANGED plane

ReadsBaseline(k) ==
  /\ Step(k, "read", To(k, "check"))
  /\ UNCHANGED <<plane, pool>>

\* A required member on its own hands the claim back; in the pool the claim is
\* everybody's.
HandsBackUnread(k) == ~InPool /\ k \in Required

BaselineUnread(k) ==
  /\ "read" \in conf.faults
  /\ IF HandsBackUnread(k)
     THEN /\ Step(k, "read", [Out(k, "unread") EXCEPT !.held = FALSE])
          /\ plane' = [plane EXCEPT !.lease = IF @ = "ours" THEN "returned" ELSE @]
     ELSE Step(k, "read", Out(k, "unread")) /\ UNCHANGED plane
  /\ UNCHANGED pool

\* What the check before a launch measures: the run's spend, the member's own and
\* what its peers have published.
SoFar(k) == Published

BudgetStops(k) ==
  /\ BudgetGone(SoFar(k))
  /\ Step(k, "check", Out(k, "stop"))
  /\ UNCHANGED <<plane, pool>>

PassesBudget(k) ==
  /\ ~BudgetGone(SoFar(k))
  /\ Step(k, "check", To(k, "launch"))
  /\ UNCHANGED <<plane, pool>>

Launches(k) ==
  /\ Step(k, "launch", [To(k, "run") EXCEPT !.launched = TRUE])
  /\ Started(k) /\ UNCHANGED plane

\* The first record opens a round; a later one lands in it while it is sealed.
SessionRecords(k) ==
  /\ m[k].pc = "run" /\ plane.lease = "ours" /\ k \notin plane.recs
  /\ plane' = [plane EXCEPT !.recs = @ \cup {k}, !.round = "sealed"]
  /\ UNCHANGED <<conf, m, pool, drv>>

SessionLetsGo(k) ==
  /\ conf.settles /\ plane.lease = "ours"
  /\ Step(k, "run", [m[k] EXCEPT !.held = FALSE])
  /\ plane' = [plane EXCEPT !.lease = "settled"]
  /\ UNCHANGED pool

SessionEnds(k) ==
  /\ \E exit \in conf.exits :
       /\ exit \in {"nocall", "nostart", "preflight"} => k \notin plane.recs /\ m[k].held
       /\ Step(k, "run", [To(k, "judge") EXCEPT !.exit = exit])
  /\ UNCHANGED <<plane, pool>>

\* Spend an unreadable stream reports is not counted, and a session that never
\* started has none.
Counts(exit) == IF exit \in {"untrusted", "nostart", "preflight"} THEN 0 ELSE 1

\* One retry when the plane's tools were missing.
RetriesNoMCP(k) == m[k].exit \in {"nocall", "preflight"} /\ ~m[k].retried

MemberRetries(k) ==
  /\ RetriesNoMCP(k)
  /\ Step(k, "judge", [To(k, "check") EXCEPT !.retried = TRUE, !.exit = "none",
                                             !.spent = @ + Counts(m[k].exit)])
  /\ UNCHANGED <<plane, pool>>

\* The seam's record gate, for an orderly end that still holds the task.
Reviewable(k) == m[k].exit \in {"orderly", "limited"} /\ m[k].held

\* How the member's drainPhase returns: an optional seat's credit stop is its own
\* failure; an unreadable stream stops the run only under a ceiling.
EndOf(k) ==
  LET exit == m[k].exit
  IN  CASE exit = "orderly" -> "fine"
        [] exit \in {"limited", "limit"} -> "limit"
        [] exit = "transient" -> "transient"
        [] exit = "nocall" -> "nomcp"
        [] exit = "dead" -> "dead"
        [] exit = "credit" -> IF k \in Required THEN "stop" ELSE "fine"
        [] exit = "untrusted" -> IF conf.ceiling > 0 THEN "stop" ELSE "fine"
        [] exit \in {"fatal", "nostart", "preflight"} -> "err"

PanelRecorded == \E j \in Required : m[j].counted

\* Slip: the last member closes in the pool too.
SeamClosesAnyhow(k) == k = conf.seats /\ (k \in Required \/ PanelRecorded)

\* The seam of the last member closes the round, unless the join does or only trial
\* seats have recorded.
SeamCloses(k) == ~InPool /\ k = conf.seats /\ (k \in Required \/ PanelRecorded)

MemberJudged(k) ==
  /\ ~RetriesNoMCP(k)
  /\ \E recorded \in IF Reviewable(k) /\ k \in plane.recs THEN Reads ELSE {FALSE} :
       Step(k, "judge", [m[k] EXCEPT !.pc = IF recorded /\ SeamCloses(k) THEN "close" ELSE "out",
                                     !.exit = "none", !.recorded = recorded, !.end = EndOf(k),
                                     !.spent = @ + Counts(m[k].exit)])
  /\ UNCHANGED <<plane, pool>>

ClosesAtSeam(k) ==
  /\ \E ok \in BOOLEAN : /\ CloseRound(ok)
                         /\ Step(k, "close", [To(k, "out") EXCEPT !.closeFailed = ~ok])
  /\ UNCHANGED pool

\* The goroutine ends, releasing a successor that still waits for it.
Leaves(k) ==
  /\ Step(k, "out", To(k, "gone"))
  /\ Started(k) /\ UNCHANGED plane

-----------------------------------------------------------------------------
(* drainPhases at a member, and the members on their own                   *)

Ends(why) == drv' = [drv EXCEPT !.pc = "over", !.why = why]
Goes(pc) == drv' = [drv EXCEPT !.pc = pc]

\* The member's end is one of the sequence's (phaseEnd.sequenceEnd).
SequenceEnd(k) == m[k].end \in {"limit", "transient"}

BoundaryStops ==
  /\ drv.pc = "next" /\ BudgetGone(Published)
  /\ Ends("stop")
  /\ UNCHANGED <<conf, plane, m, pool>>

MayFanOut == Concurrency(pool.at) > 1

FansOut ==
  /\ drv.pc = "next" /\ ~BudgetGone(Published) /\ MayFanOut
  /\ pool' = [pool EXCEPT !.first = pool.at]
  /\ Goes("pool")
  /\ UNCHANGED <<conf, plane, m>>

\* The checkout or the reviewed tip cannot be resolved, or there is nothing to fan out.
RunsAlone ==
  /\ drv.pc = "next" /\ ~BudgetGone(Published)
  /\ MayFanOut => "probe" \in conf.faults
  /\ m' = [m EXCEPT ![pool.at].pc = "read"]
  /\ Goes("member")
  /\ UNCHANGED <<conf, plane, pool>>

AloneStops ==
  /\ drv.pc = "member" /\ m[pool.at].pc = "gone" /\ m[pool.at].end = "stop"
  /\ Ends("stop")
  /\ UNCHANGED <<conf, plane, m, pool>>

\* A member that ended the sequence returned before the seam looked for its record.
Matched(k, read) == m[k].recorded \/ (SequenceEnd(k) /\ k \in plane.recs /\ read)

AloneMatches ==
  /\ drv.pc = "member" /\ m[pool.at].pc = "gone" /\ m[pool.at].end # "stop"
  /\ \E read \in Reads : m' = [m EXCEPT ![pool.at].counted = Matched(pool.at, read)]
  /\ Goes("handle")
  /\ UNCHANGED <<conf, plane, pool>>

Handling(k) == drv.pc = "handle" /\ k = pool.at

AloneCloseFailed(k) ==
  /\ Handling(k) /\ m[k].closeFailed
  /\ Ends("close")
  /\ UNCHANGED <<conf, plane, m, pool>>

AloneLost(k) ==
  /\ Handling(k) /\ ~m[k].closeFailed /\ ~m[k].held
  /\ Ends("lost")
  /\ UNCHANGED <<conf, plane, m, pool>>

AloneGoesOn(k) ==
  /\ Handling(k) /\ m[k].held /\ k < conf.seats
  /\ pool' = [pool EXCEPT !.at = k + 1]
  /\ Goes("next")
  /\ UNCHANGED <<conf, plane, m>>

LastAlone(k) == Handling(k) /\ m[k].held /\ k = conf.seats /\ ~m[k].closeFailed

\* The round is closed for the members before it unless its own seam did.
AloneCloses(k) ==
  /\ LastAlone(k) /\ PanelRecorded /\ ~m[k].recorded
  /\ \E ok \in BOOLEAN :
       /\ CloseRound(ok)
       /\ CASE ~ok -> Ends("close")
            [] ok /\ conf.fix -> Goes("fix")
            [] ok /\ ~conf.fix -> Ends("last")
  /\ UNCHANGED <<conf, m, pool>>

AloneHandsOver(k) ==
  /\ LastAlone(k) /\ PanelRecorded /\ m[k].recorded
  /\ IF conf.fix THEN Goes("fix") ELSE Ends("last")
  /\ UNCHANGED <<conf, plane, m, pool>>

NobodyRecorded(k) ==
  /\ LastAlone(k) /\ ~PanelRecorded
  /\ Ends("none")
  /\ UNCHANGED <<conf, plane, m, pool>>

-----------------------------------------------------------------------------
(* The pool and its join                                                   *)

Pooled == pool.first .. conf.seats
Active == {k \in Pooled : m[k].pc \notin {"idle", "gone"}}

\* A slot first, and the predecessor's work begun.
Spawns ==
  /\ InPool /\ pool.waits = 0 /\ pool.at <= conf.seats
  /\ Cardinality(Active) < Concurrency(pool.first)
  /\ m' = [m EXCEPT ![pool.at].pc = "setup"]
  /\ pool' = [pool EXCEPT !.at = @ + 1, !.waits = pool.at]
  /\ UNCHANGED <<conf, plane, drv>>

Joins ==
  /\ InPool /\ pool.at > conf.seats /\ pool.waits = 0 /\ Active = {}
  /\ \E read \in [Pooled -> Reads] :
       m' = [k \in Seats |-> IF k \in Pooled THEN [m[k] EXCEPT !.counted = Matched(k, read[k])]
                             ELSE m[k]]
  /\ Goes("join")
  /\ UNCHANGED <<conf, plane, pool>>

\* The sequence ends with a required member; a trial seat's end is its own.
JoinEnded(ends) == \E k \in Pooled \cap Required : m[k].end \in ends

JoinRecorded == \E k \in Pooled \cap Required : m[k].counted

JoinRoutes(closeFailed) ==
  CASE closeFailed -> Ends("close")
    [] ~closeFailed /\ (\E k \in Pooled : m[k].end = "stop") -> Ends("stop")
    [] OTHER ->
         CASE JoinEnded({"err"}) -> Ends("err")
           [] ~JoinEnded({"err"}) /\ JoinEnded({"limit", "transient"}) -> Ends("wait")
           [] ~JoinEnded({"err", "limit", "transient"}) /\ ~JoinRecorded -> Ends("none")
           [] OTHER -> IF conf.fix THEN Goes("fix") ELSE Ends("last")

JoinCloses ==
  /\ drv.pc = "join"
  /\ IF JoinRecorded THEN \E ok \in BOOLEAN : CloseRound(ok) /\ JoinRoutes(~ok)
     ELSE UNCHANGED plane /\ JoinRoutes(FALSE)
  /\ UNCHANGED <<conf, m, pool>>

\* The drain's handback, after the fix or instead of it.
releaseCarried ==
  /\ drv.pc \in {"fix", "over"}
  /\ plane' = [plane EXCEPT !.lease = IF @ = "ours" THEN "returned" ELSE @]
  /\ Goes("done")
  /\ UNCHANGED <<conf, m, pool>>

-----------------------------------------------------------------------------
Member(k) ==
  \/ CreatesTree(k) \/ TreeFails(k) \/ ReadsBaseline(k) \/ BaselineUnread(k)
  \/ BudgetStops(k) \/ PassesBudget(k) \/ Launches(k)
  \/ SessionRecords(k) \/ SessionLetsGo(k) \/ SessionEnds(k)
  \/ MemberRetries(k) \/ MemberJudged(k) \/ ClosesAtSeam(k) \/ Leaves(k)

Alone ==
  \/ BoundaryStops \/ FansOut \/ RunsAlone \/ AloneStops \/ AloneMatches
  \/ \E k \in Seats : \/ AloneCloseFailed(k) \/ AloneLost(k) \/ AloneGoesOn(k)
                      \/ AloneCloses(k) \/ AloneHandsOver(k) \/ NobodyRecorded(k)

Driver == Alone \/ Spawns \/ Joins \/ JoinCloses \/ releaseCarried

Next == (\E k \in Seats : Member(k)) \/ Driver \/ LeaseLost

Spec == Init /\ [][Next]_vars

\* Each goroutine keeps going, and a session ends: it has a wall clock or a turn cap.
FairSpec == Spec /\ WF_vars(Driver) /\ \A k \in UNION {1 .. c.seats : c \in Configs} :
                                          WF_vars(k \in Seats /\ Member(k))

-----------------------------------------------------------------------------
(* Properties                                                              *)

SeatOf(k) ==
  CASE m[k].pc = "gone" \/ (m[k].launched /\ m[k].pc \in {"close", "out"}) ->
         IF k \in plane.recs THEN "recorded" ELSE "failed"
    [] m[k].launched /\ m[k].pc \notin {"close", "out", "gone"} -> "reviewing"
    [] OTHER -> "waiting"

Round == INSTANCE ReviewRound WITH
  seat <- [k \in Seats |-> SeatOf(k)],
  trial <- conf.optional,
  round <- IF plane.round = "released" THEN "released" ELSE "sealed",
  next <- CASE plane.lease = "returned" \/ drv.pc = "done" -> "over"
            [] plane.lease # "returned" /\ drv.pc = "fix" -> "fix"
            [] OTHER -> "panel"

\* In the pool and one after another, the panel keeps what ReviewRound promises: no
\* member is still at work when the findings become readable or the shared run is
\* given up, whatever fails (panel_parallel.go:452-454, loop.go:5188-5206, 4499-4504).
RoundKept == Round!Spec

\* Sessions begin in the panel's order, although members prepare side by side
\* (panel_parallel.go:184-195).
LaunchesInOrder ==
  \A j, k \in Seats : j < k /\ m[k].launched => m[j].launched \/ m[j].pc \in {"out", "gone"}

\* The budget is overshot by the sessions in flight alone, at most cap - 1 of them
\* beside the one that reaches it (README.md:449-456, panel_parallel.go:62-76).
SpendIsBounded ==
  LET inFlight == {k \in Seats : m[k].pc \in {"launch", "run", "judge"}}
  IN  conf.ceiling > 0 =>
        Published + Cardinality(inFlight) <= (conf.ceiling - 1) + Concurrency(1)

\* Once the panel took a required member's record, the fix runs, but for a stop, a
\* round that cannot be closed, a run that is lost, and in the pool the end of a
\* required member (README.md:389-399, loop.go:2098-2110).
NoRecordStranded ==
  drv.pc = "over" /\ conf.fix /\ (\E k \in Required : m[k].counted) =>
    \/ drv.why \in {"stop", "close", "lost"}
    \/ drv.why \in {"err", "wait"} /\ \E k \in Required : m[k].end \in {"err", "limit", "transient"}

\* The join is reached: no member waits for a launch that never comes
\* (panel_parallel.go:219-222, 328-334).
PanelEnds == <>(drv.pc = "done")
=============================================================================
