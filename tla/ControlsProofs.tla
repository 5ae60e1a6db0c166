---------------------------- MODULE ControlsProofs ----------------------------
(***************************************************************************)
(* The safety of the control markers, for any number of waiting sessions,  *)
(* of requests, edits, signals and crashes.  The properties count what was *)
(* asked against what was done; Inv adds where a request is on its way     *)
(* from the one to the other: in its marker, in the hand of whoever read   *)
(* the marker and is about to remove it, or noted in the run.              *)
(***************************************************************************)
EXTENDS Controls, TLAPS

One(b) == IF b THEN 1 ELSE 0

\* A process that is down has nothing of its image left.
DownIsClean ==
  /\ At("down") => ~run.again /\ ~run.cancelled /\ ~past.stop
  /\ watch # "off" => run.pc \in Live

\* Only who waits is in a wait, and controlMu admits one of them to the markers.
WaitersWait == \A t \in Waiters : w[t].pc # "out" => Waiting(t)
OnePasses == \A t, u \in Waiters : w[t].pc \in Passes /\ w[u].pc \in Passes => t = u

\* Whoever saw RESTART_NOW removes it, or another did and noted the restart.
NowIsSeen ==
  (At("nowrm") \/ watch = "saw" \/ \E t \in Waiters : w[t].pc = "nowrm")
    => "RESTART_NOW" \in mark \/ run.again

\* A restart that was asked for is in its marker, noted, or done.
RestartsAddUp ==
  past.execs + One(run.again) + One("RESTART" \in mark) + One("RESTART_NOW" \in mark) <= past.asked

\* A reload that was asked for is in its marker, at the file, or done.
Loading == At("load") \/ \E t \in Waiters : w[t].pc = "load"
ReloadIsSeen == \A t \in Waiters : w[t].pc = "reloadrm" => "RELOAD" \in mark
ReloadsAddUp == past.loads + One(Loading) + One("RELOAD" \in mark) <= past.reloads

\* What is owed was announced before, and an image starts with what the file held.
OwedIsInTheFile ==
  /\ past.owed <= file.version
  /\ At("boot") => "RELOAD" \in mark \/ run.cfg >= past.owed \/ past.skipped >= past.owed

\* A STOP that meets a live run was written in its lifetime.
StopIsOwn ==
  /\ "STOP" \in mark /\ run.pc \in Live => past.stop
  /\ At("boot") /\ past.stop => past.execs > 0

Inv ==
  /\ TypeOK /\ DownIsClean /\ WaitersWait /\ OnePasses
  /\ NowIsSeen /\ RestartsAddUp /\ ReloadIsSeen /\ ReloadsAddUp
  /\ OwedIsInTheFile /\ ReloadAppliesTheEdit /\ StopIsOwn /\ StopStands

-----------------------------------------------------------------------------
\* The invariant holds before the process starts, with no marker on disk.
THEOREM InitInv == Init => Inv
<1> SUFFICES ASSUME Init PROVE Inv
  OBVIOUS
<1>1. TypeOK
  BY DEF Init, TypeOK, Files, Runs, Pasts, DownRun, RunPCs, NoWait, Waits
<1>2. \A t \in Waiters : w[t].pc = "out"
  BY DEF Init, NoWait
<1>3. At("down") /\ mark = {} /\ run = DownRun /\ watch = "off"
  BY DEF Init, At, DownRun
<1> QED
  BY <1>1, <1>2, <1>3 DEF Inv, Init, DownIsClean, WaitersWait, OnePasses, NowIsSeen, RestartsAddUp, ReloadIsSeen,
     ReloadsAddUp, Loading, OwedIsInTheFile, ReloadAppliesTheEdit, StopIsOwn, StopStands, DownRun, At, One, Passes, Live

LEMMA RunIsTyped ==
  ASSUME NEW r \in Runs, NEW pc \in RunPCs
  PROVE  /\ [r EXCEPT !.pc = pc] \in Runs
         /\ [r EXCEPT !.pc = pc, !.again = TRUE] \in Runs
         /\ [r EXCEPT !.pc = pc, !.cancelled = TRUE] \in Runs
         /\ [r EXCEPT !.again = TRUE, !.cancelled = TRUE] \in Runs
         /\ \A b \in BOOLEAN : /\ [r EXCEPT !.pc = pc, !.failed = b] \in Runs
                               /\ [r EXCEPT !.again = b] \in Runs /\ [r EXCEPT !.cancelled = b] \in Runs
         /\ \A v \in Nat : [r EXCEPT !.pc = pc, !.cfg = v] \in Runs
         /\ DownRun \in Runs /\ \A v \in Nat : [DownRun EXCEPT !.pc = "boot", !.cfg = v] \in Runs
  BY DEF Runs, DownRun, RunPCs

LEMMA WaitIsTyped ==
  ASSUME TypeOK, NEW t \in Waiters
  PROVE  /\ w[t] \in Waits /\ NoWait \in Waits
         /\ \A pc \in {"out", "free", "stopped"} \cup Passes : [w EXCEPT ![t].pc = pc] \in [Waiters -> Waits]
         /\ \A l \in BOOLEAN : [w EXCEPT ![t] = [pc |-> "free", limit |-> l]] \in [Waiters -> Waits]
  BY DEF TypeOK, Waits, NoWait

LEMMA PastIsTyped ==
  ASSUME NEW p \in Pasts
  PROVE  /\ [p EXCEPT !.stop = FALSE, !.signal = FALSE] \in Pasts
         /\ [p EXCEPT !.execs = @ + 1] \in Pasts
         /\ [p EXCEPT !.signal = TRUE, !.signalled = @ + 1] \in Pasts
         /\ [p EXCEPT !.stop = FALSE, !.signal = FALSE, !.crashed = @ + 1] \in Pasts
<1>1. p.execs + 1 \in Nat /\ p.signalled + 1 \in Nat /\ p.crashed + 1 \in Nat
  BY DEF Pasts
<1> QED
  BY <1>1 DEF Pasts

LEMMA SameWaiters == conf' = conf => Waiters' = Waiters /\ Members' = Members
  BY DEF Waiters, Members

LEMMA LoadIsTyped ==
  ASSUME TypeOK, NEW pc \in RunPCs, ApplyReload(pc)
  PROVE  run' \in Runs /\ past' \in Pasts
<1>1. file.version \in Nat /\ past \in Pasts /\ run \in Runs
  BY DEF TypeOK, Files
<1>2. past.loads + 1 \in Nat /\ past.skipped \in Nat /\ run.cfg \in Nat
  BY <1>1 DEF Pasts, Runs
<1>3. past' \in Pasts
  BY <1>1, <1>2 DEF ApplyReload, Pasts
<1>4. run' \in Runs
  BY <1>1, <1>2, RunIsTyped DEF ApplyReload
<1> QED
  BY <1>3, <1>4

LEMMA PCs ==
  /\ {"down", "boot", "gate", "idle", "drain", "shutdown", "sweep", "return", "bhalt", "bstop"} \subseteq RunPCs
  /\ {"top", "halt", "stop", "restart", "now", "nowrm", "reload", "load"} \subseteq RunPCs
  BY DEF RunPCs, Heads, Bounds

LEMMA LoopKeepsTypes == TypeOK /\ Loop => TypeOK'
<1> SUFFICES ASSUME TypeOK, Loop PROVE TypeOK'
  OBVIOUS
<1> USE SameWaiters, PCs DEF TypeOK
<1>1. \A pc \in RunPCs : [run EXCEPT !.pc = pc] \in Runs /\ [run EXCEPT !.pc = pc, !.again = TRUE] \in Runs
  BY RunIsTyped
<1>2. CASE SweepsLeftover
  BY <1>1, <1>2 DEF SweepsLeftover, Goto, Moves
<1>3. CASE SweepPendingStop
  BY <1>1, <1>3 DEF SweepPendingStop, Goto, Moves
<1>4. CASE ReadsCancelled
  BY <1>1, <1>4 DEF ReadsCancelled, Goto
<1>5. CASE ReadsHalt
  BY <1>1, <1>5 DEF ReadsHalt, Goto
<1>6. CASE ReadsStop
  BY <1>1, <1>6 DEF ReadsStop, Goto
<1>7. CASE ReadsRestart
  BY <1>1, <1>7 DEF ReadsRestart, Goto
<1>8. CASE ReadsNow
  BY <1>1, <1>8 DEF ReadsNow, Goto
<1>9. CASE RemovesNow
  BY <1>1, <1>9 DEF RemovesNow, Goto
<1>10. CASE ReadsReload
  BY <1>1, <1>10 DEF ReadsReload, Goto, TakesReload
<1>11. CASE BoundaryHalt
  BY <1>1, <1>11 DEF BoundaryHalt, Goto
<1>12. CASE BoundaryStop
  BY <1>1, <1>12 DEF BoundaryStop, Goto
<1>13. CASE ShutsDown
  BY <1>1, <1>13, RunIsTyped DEF ShutsDown
<1>14. CASE LoadsAtHead
  BY <1>14, LoadIsTyped DEF LoadsAtHead
<1>15. CASE Gates
  <2>0. \A b \in BOOLEAN : [run EXCEPT !.pc = "shutdown", !.failed = b] \in Runs
    BY RunIsTyped
  <2>1. run' \in Runs
    BY <1>1, <1>15, <2>0 DEF Gates, Goto
  <2>2. w' \in [Waiters -> Waits]
    <3>1. Main \in Waiters
      BY ConfigsAssumption DEF Main, Waiters, ConfigsAssumption
    <3>2. [w EXCEPT ![Main].pc = "free"] \in [Waiters -> Waits]
      BY <3>1, WaitIsTyped
    <3> QED
      BY <3>2, <1>15 DEF Gates
  <2> QED
    BY <1>15, <2>1, <2>2 DEF Gates
<1>16. CASE IdleEnds
  BY <1>1, <1>16, WaitIsTyped DEF IdleEnds, Goto
<1>17. CASE DrainEnds
  <2>0. [run EXCEPT !.pc = "shutdown", !.failed = TRUE] \in Runs
    BY RunIsTyped
  <2>1. run' \in Runs
    BY <1>1, <1>17, <2>0 DEF DrainEnds, Goto
  <2>2. w' \in [Waiters -> Waits]
    BY <1>17 DEF DrainEnds, Waits, NoWait
  <2> QED
    BY <1>17, <2>1, <2>2 DEF DrainEnds
<1> QED
  BY <1>2, <1>3, <1>4, <1>5, <1>6, <1>7, <1>8, <1>9, <1>10, <1>11, <1>12, <1>13, <1>14, <1>15, <1>16, <1>17 DEF Loop

LEMMA WaitsKeepTypes ==
  ASSUME TypeOK, NEW t \in Waiters, MemberWaits(t) \/ Pass(t) \/ WaitEnds(t)
  PROVE  TypeOK'
<1> USE SameWaiters DEF TypeOK
<1>1. /\ \A pc \in {"out", "free", "stopped"} \cup Passes : [w EXCEPT ![t].pc = pc] \in [Waiters -> Waits]
      /\ \A pc \in {"stop", "halt", "restart", "now", "nowrm", "reload", "reloadrm", "load"} : pc \in Passes
  BY WaitIsTyped DEF Passes
<1>2. /\ \A b \in BOOLEAN : [run EXCEPT !.again = b] \in Runs
      /\ run.pc \in RunPCs /\ run.again \in BOOLEAN
  <2>1. \A b \in BOOLEAN : [run EXCEPT !.again = b] \in Runs
    BY RunIsTyped, PCs
  <2> QED
    BY <2>1 DEF Runs
<1>3. CASE MemberWaits(t)
  BY <1>3, WaitIsTyped DEF MemberWaits
<1>4. CASE PassBegins(t)
  BY <1>1, <1>2, <1>4 DEF PassBegins, WaitTo
<1>5. CASE PassStop(t)
  BY <1>1, <1>2, <1>5 DEF PassStop, WaitTo
<1>6. CASE PassHalt(t)
  BY <1>1, <1>2, <1>6 DEF PassHalt, WaitTo
<1>7. CASE PassRestart(t)
  BY <1>1, <1>2, <1>7 DEF PassRestart, WaitTo
<1>8. CASE PassNow(t)
  BY <1>1, <1>2, <1>8 DEF PassNow, WaitTo
<1>9. CASE PassRemovesNow(t)
  BY <1>1, <1>2, <1>9 DEF PassRemovesNow, WaitTo
<1>10. CASE PassReload(t)
  BY <1>1, <1>2, <1>10 DEF PassReload, WaitTo
<1>11. CASE PassRemovesReload(t)
  BY <1>1, <1>2, <1>11 DEF PassRemovesReload, WaitTo
<1>12. CASE WaitEnds(t)
  BY <1>1, <1>2, <1>12 DEF WaitEnds, WaitTo
<1>13. CASE PassLoads(t)
  BY <1>1, <1>2, <1>13, LoadIsTyped DEF PassLoads, WaitTo
<1> QED
  BY <1>3, <1>4, <1>5, <1>6, <1>7, <1>8, <1>9, <1>10, <1>11, <1>12, <1>13 DEF Pass

LEMMA RestKeepsTypes == TypeOK /\ (Ends \/ Watcher \/ Outside) => TypeOK'
<1> SUFFICES ASSUME TypeOK, Ends \/ Watcher \/ Outside PROVE TypeOK'
  OBVIOUS
<1> USE SameWaiters, PCs DEF TypeOK
<1>1. /\ DownRun \in Runs /\ Image \in Runs /\ past.execs \in Nat
      /\ \A b \in BOOLEAN : [run EXCEPT !.cancelled = b] \in Runs
      /\ [run EXCEPT !.again = TRUE, !.cancelled = TRUE] \in Runs
  <2>1. file.version \in Nat /\ past.execs \in Nat
    BY DEF Files, Pasts
  <2> QED
    BY <2>1, RunIsTyped DEF Image
<1>2. EndsImage => w' \in [Waiters -> Waits] /\ watch' \in {"off", "poll", "saw"}
  BY DEF EndsImage, Waits, NoWait
<1>3. CASE Ends
  BY <1>1, <1>2, <1>3, PastIsTyped DEF Ends, ReExecs, Exits
<1>4. CASE WatchSees \/ WatchActs \/ WatchEnds
  BY <1>1, <1>4 DEF WatchSees, WatchActs, WatchEnds
<1>5. CASE Starts
  BY <1>1, <1>5, PastIsTyped DEF Starts
<1>6. ASSUME NEW k \in Markers, Ctl(k)
      PROVE  TypeOK'
  <2>1. past' \in Pasts
    <3>1. file.version \in Nat /\ past.owed \in Nat
      BY DEF Files, Pasts
    <3>2. \A i \in {0, 1} : past.wrote + 1 \in Nat /\ past.asked + i \in Nat /\ past.reloads + i \in Nat
      BY DEF Pasts
    <3>3. \A i, j \in {0, 1} : \A v \in Nat :
            [past EXCEPT !.wrote = @ + 1, !.asked = @ + i, !.reloads = @ + j, !.owed = v] \in Pasts
      BY <3>2 DEF Pasts
    <3> QED
      BY <1>6, <3>1, <3>3 DEF Ctl
  <2> QED
    BY <1>6, <2>1 DEF Ctl
<1>7. ASSUME NEW k \in Markers, Touch(k)
      PROVE  TypeOK'
  <2>1. past.wrote + 1 \in Nat /\ past.stop \in BOOLEAN
    BY DEF Pasts
  <2>2. \A b \in BOOLEAN : [past EXCEPT !.wrote = @ + 1, !.stop = b] \in Pasts
    BY <2>1 DEF Pasts
  <2> QED
    BY <1>7, <2>1, <2>2 DEF Touch
<1>8. CASE DeletesHalt
  BY <1>8 DEF DeletesHalt
<1>9. CASE EditsConfig
  <2>1. conf.broken \in BOOLEAN
    BY ConfigsAssumption DEF ConfigsAssumption
  <2>2. PICK good \in {TRUE, ~conf.broken} : file' = [version |-> file.version + 1, good |-> good]
    BY <1>9 DEF EditsConfig
  <2>3. good \in BOOLEAN /\ file.version + 1 \in Nat
    <3>1. good \in BOOLEAN
      BY <2>1, Zenon
    <3>2. file.version + 1 \in Nat
      BY DEF Files
    <3> QED
      BY <3>1, <3>2
  <2>4. file' \in Files
    BY <2>2, <2>3 DEF Files
  <2> QED
    BY <1>9, <2>4 DEF EditsConfig
<1>10. CASE Interrupt \/ Crash
  BY <1>1, <1>2, <1>10, PastIsTyped DEF Interrupt, Crash
<1> QED
  BY <1>3, <1>4, <1>5, <1>6, <1>7, <1>8, <1>9, <1>10 DEF Watcher, Outside

-----------------------------------------------------------------------------
\* A step keeps the shape of the waits.
Shape == DownIsClean /\ WaitersWait /\ OnePasses

LEMMA TypeKept ==
  ASSUME TypeOK, Next
  PROVE  TypeOK'
  BY LoopKeepsTypes, WaitsKeepTypes, RestKeepsTypes DEF Next

\* Outside the idle wait and the drain nobody waits.
LEMMA NobodyWaits ==
  ASSUME WaitersWait, ~At("idle"), ~At("drain"), NEW t \in Waiters
  PROVE  w[t].pc = "out"
  BY DEF WaitersWait, Waiting, At

LEMMA WaitsStay ==
  ASSUME WaitersWait, OnePasses, conf' = conf, w' = w,
         run'.pc = run.pc \/ (~At("idle") /\ ~At("drain"))
  PROVE  WaitersWait' /\ OnePasses'
  BY SameWaiters, NobodyWaits DEF WaitersWait, OnePasses, Waiting, At, Passes

LEMMA NoWaitIsOut ==
  ASSUME conf' = conf, w' = [t \in Waiters |-> NoWait]
  PROVE  WaitersWait' /\ OnePasses'
  BY SameWaiters DEF WaitersWait, OnePasses, NoWait, Passes

\* What a run that goes on is: its pc moves, and a process that is down is clean.
LEMMA GoesOn ==
  ASSUME TypeOK, DownIsClean, run.pc \in Live, run'.pc \in Live
  PROVE  DownIsClean'
  BY DEF DownIsClean, At, Live

LEMMA LivePCs ==
  /\ {"gate", "idle", "drain", "shutdown", "sweep", "return", "bhalt", "bstop"} \subseteq Live
  /\ {"top", "halt", "stop", "restart", "now", "nowrm", "reload", "load"} \subseteq Live
  /\ "down" \notin Live /\ "boot" \notin Live
  BY DEF RunPCs, Heads, Bounds, Live

LEMMA LoopKeepsShape ==
  ASSUME TypeOK, Shape, Loop
  PROVE  Shape'
<1> USE LivePCs DEF TypeOK, Shape, At, Goto
<1>1. run \in Runs
  OBVIOUS
<1>2. CASE ShutsDown
  BY <1>2, WaitsStay, GoesOn DEF ShutsDown, Runs
<1>3. CASE SweepPendingStop
  BY <1>3, WaitsStay, GoesOn DEF SweepPendingStop, Moves, Runs
<1>4. CASE ReadsCancelled
  BY <1>4, WaitsStay, GoesOn DEF ReadsCancelled, Runs
<1>5. CASE ReadsHalt
  BY <1>5, WaitsStay, GoesOn DEF ReadsHalt, Runs
<1>6. CASE ReadsStop
  BY <1>6, WaitsStay, GoesOn DEF ReadsStop, Runs
<1>7. CASE ReadsRestart
  BY <1>7, WaitsStay, GoesOn DEF ReadsRestart, Runs
<1>8. CASE ReadsNow
  BY <1>8, WaitsStay, GoesOn DEF ReadsNow, Runs
<1>9. CASE RemovesNow
  BY <1>9, WaitsStay, GoesOn DEF RemovesNow, Runs
<1>10. CASE ReadsReload
  BY <1>10, WaitsStay, GoesOn DEF ReadsReload, Runs
<1>11. CASE LoadsAtHead
  BY <1>11, WaitsStay, GoesOn DEF LoadsAtHead, ApplyReload, Runs
<1>12. CASE BoundaryHalt
  BY <1>12, WaitsStay, GoesOn DEF BoundaryHalt, Runs
<1>13. CASE BoundaryStop
  BY <1>13, WaitsStay, GoesOn DEF BoundaryStop, Runs
<1>14. CASE SweepsLeftover
  BY <1>14, WaitsStay DEF SweepsLeftover, Moves, Runs, DownIsClean
<1>15. CASE Gates
  <2>1. DownIsClean'
    BY <1>15, GoesOn DEF Gates, Runs
  <2>2. \A t \in Waiters : w[t].pc = "out"
    BY <1>15, NobodyWaits DEF Gates
  <2>3. /\ w' = w \/ (run'.pc = "idle" /\ w' = [w EXCEPT ![Main].pc = "free"])
        /\ conf' = conf
    BY <1>15 DEF Gates, Runs
  <2>4. \A t \in Waiters : w'[t].pc = "out" \/ (w'[t].pc = "free" /\ t = Main /\ run'.pc = "idle")
    BY <2>2, <2>3 DEF Waits
  <2> QED
    BY <2>1, <2>3, <2>4, SameWaiters DEF WaitersWait, OnePasses, Waiting, Passes
<1>16. CASE IdleEnds
  <2>1. DownIsClean'
    BY <1>16, GoesOn DEF IdleEnds, Runs
  <2>2. \A t \in Waiters : t # Main => w[t].pc = "out"
    BY <1>16 DEF IdleEnds, WaitersWait, Waiting
  <2>3. \A t \in Waiters : w'[t].pc = "out"
    BY <1>16, <2>2 DEF IdleEnds, NoWait
  <2> QED
    BY <1>16, <2>1, <2>3, SameWaiters DEF IdleEnds, WaitersWait, OnePasses, Passes
<1>17. CASE DrainEnds
  BY <1>17, GoesOn, NoWaitIsOut DEF DrainEnds, Runs
<1> QED
  BY <1>2, <1>3, <1>4, <1>5, <1>6, <1>7, <1>8, <1>9, <1>10, <1>11, <1>12, <1>13, <1>14, <1>15, <1>16, <1>17 DEF Loop

\* A waiter that waits is in a live run.
LEMMA WaitersAreLive ==
  ASSUME WaitersWait, NEW t \in Waiters, w[t].pc # "out"
  PROVE  run.pc \in {"idle", "drain"} /\ run.pc \in Live
  BY LivePCs DEF WaitersWait, Waiting, At

\* The pass is one waiter's, and every step of it but the first starts in it.
LEMMA WaitMoves ==
  ASSUME TypeOK, Shape, NEW t \in Waiters, Waiting(t), conf' = conf, run'.pc = run.pc,
         watch' = watch, past'.stop = past.stop,
         w' \in [Waiters -> Waits], \A u \in Waiters : u # t => w'[u] = w[u],
         w'[t].pc \in Passes => w[t].pc \in Passes \/ ControlMuFree
  PROVE  Shape'
<1>1. run.pc \in {"idle", "drain"} /\ run.pc \in Live
  BY LivePCs DEF Waiting, At
<1>2. DownIsClean'
  BY <1>1, GoesOn DEF Shape
<1>3. WaitersWait'
  BY SameWaiters DEF Shape, WaitersWait, Waiting, At
<1>4. OnePasses'
  BY SameWaiters DEF Shape, OnePasses, ControlMuFree
<1> QED
  BY <1>2, <1>3, <1>4 DEF Shape

LEMMA WaitsKeepShape ==
  ASSUME TypeOK, TypeOK', Shape, NEW t \in Waiters, MemberWaits(t) \/ Pass(t) \/ WaitEnds(t)
  PROVE  Shape'
<1>1. Waiting(t)
  BY DEF Shape, WaitersWait, MemberWaits, Pass, WaitEnds, PassBegins, PassStop, PassHalt, PassRestart, PassNow,
     PassRemovesNow, PassReload, PassRemovesReload, PassLoads
<1>2. w \in [Waiters -> Waits] /\ w' \in [Waiters -> Waits]' /\ run \in Runs /\ past \in Pasts
  BY DEF TypeOK
<1>3. CASE MemberWaits(t)
  BY <1>1, <1>2, <1>3, WaitMoves, SameWaiters DEF MemberWaits, Passes, Runs, Pasts, Waits
<1>4. CASE PassBegins(t)
  BY <1>1, <1>2, <1>4, WaitMoves, SameWaiters DEF PassBegins, Passes, Runs, Pasts, Waits
<1>5. CASE PassStop(t)
  BY <1>1, <1>2, <1>5, WaitMoves, SameWaiters DEF PassStop, WaitTo, Passes, Runs, Pasts, Waits
<1>6. CASE PassHalt(t)
  BY <1>1, <1>2, <1>6, WaitMoves, SameWaiters DEF PassHalt, WaitTo, Passes, Runs, Pasts, Waits
<1>7. CASE PassRestart(t)
  BY <1>1, <1>2, <1>7, WaitMoves, SameWaiters DEF PassRestart, WaitTo, Passes, Runs, Pasts, Waits
<1>8. CASE PassNow(t)
  BY <1>1, <1>2, <1>8, WaitMoves, SameWaiters DEF PassNow, WaitTo, Passes, Runs, Pasts, Waits
<1>9. CASE PassRemovesNow(t)
  BY <1>1, <1>2, <1>9, WaitMoves, SameWaiters DEF PassRemovesNow, WaitTo, Passes, Runs, Pasts, Waits
<1>10. CASE PassReload(t)
  BY <1>1, <1>2, <1>10, WaitMoves, SameWaiters DEF PassReload, WaitTo, Passes, Runs, Pasts, Waits
<1>11. CASE PassRemovesReload(t)
  BY <1>1, <1>2, <1>11, WaitMoves, SameWaiters DEF PassRemovesReload, WaitTo, Passes, Runs, Pasts, Waits
<1>12. CASE PassLoads(t)
  BY <1>1, <1>2, <1>12, WaitMoves, SameWaiters DEF PassLoads, WaitTo, ApplyReload, Passes, Runs, Pasts, Waits
<1>13. CASE WaitEnds(t)
  BY <1>1, <1>2, <1>13, WaitMoves, SameWaiters DEF WaitEnds, WaitTo, Passes, Runs, Pasts, Waits
<1> QED
  BY <1>3, <1>4, <1>5, <1>6, <1>7, <1>8, <1>9, <1>10, <1>11, <1>12, <1>13 DEF Pass

\* A wait, or a drain, that is over has no waiter left in it.
LEMMA WaitIsOver ==
  ASSUME WaitersWait, IdleEnds \/ DrainEnds, NEW t \in Waiters
  PROVE  w[t].pc \in {"out", "stopped"}
  BY DEF WaitersWait, Waiting, IdleEnds, DrainEnds, At, Waiters, Members, Main

LEMMA RestKeepsShape ==
  ASSUME TypeOK, Shape, Ends \/ Watcher \/ Outside
  PROVE  Shape'
<1> USE LivePCs DEF TypeOK, Shape, At
<1>1. CASE Ends
  <2>1. WaitersWait' /\ OnePasses' /\ watch' = "off"
    BY <1>1, NoWaitIsOut DEF Ends, ReExecs, Exits, EndsImage
  <2>2. CASE ReExecs
    BY <2>1, <2>2 DEF ReExecs, Image, DownRun, DownIsClean
  <2>3. CASE Exits
    BY <2>1, <2>3 DEF Exits, DownRun, DownIsClean, Pasts
  <2> QED
    BY <1>1, <2>2, <2>3 DEF Ends
<1>2. CASE Watcher
  BY <1>2, WaitsStay DEF Watcher, WatchSees, WatchActs, WatchEnds, DownIsClean, Runs
<1>3. CASE Starts
  BY <1>3, WaitsStay DEF Starts, Image, DownRun, DownIsClean, Pasts
<1>4. ASSUME NEW k \in Markers, Ctl(k) \/ Touch(k)
      PROVE  Shape'
  <2>1. WaitersWait' /\ OnePasses'
    BY <1>4, WaitsStay DEF Ctl, Touch
  <2>2. At("down") => past'.stop = past.stop
    BY <1>4 DEF Ctl, Touch, Pasts
  <2> QED
    BY <1>4, <2>1, <2>2 DEF Ctl, Touch, DownIsClean
<1>5. CASE DeletesHalt \/ EditsConfig
  BY <1>5, WaitsStay DEF DeletesHalt, EditsConfig, DownIsClean
<1>6. CASE Interrupt
  BY <1>6, WaitsStay DEF Interrupt, DownIsClean, Runs
<1>7. CASE Crash
  BY <1>7, NoWaitIsOut DEF Crash, EndsImage, DownRun, DownIsClean, Pasts
<1> QED
  BY <1>1, <1>2, <1>3, <1>4, <1>5, <1>6, <1>7 DEF Outside

LEMMA ShapeKept ==
  ASSUME TypeOK, Shape, Next
  PROVE  Shape'
  BY TypeKept, LoopKeepsShape, WaitsKeepShape, RestKeepsShape DEF Next

-----------------------------------------------------------------------------
\* A restart is in its marker, noted, or done.
LEMMA LoopKeepsRestarts ==
  ASSUME TypeOK, Shape, NowIsSeen, RestartsAddUp, Loop
  PROVE  NowIsSeen' /\ RestartsAddUp'
<1> USE SameWaiters DEF TypeOK, At, Goto, NowIsSeen, RestartsAddUp, One, Runs, Pasts
<1>1. CASE SweepsLeftover
  BY <1>1 DEF SweepsLeftover, Moves
<1>2. CASE ShutsDown
  BY <1>2 DEF ShutsDown
<1>3. CASE SweepPendingStop
  BY <1>3 DEF SweepPendingStop, Moves
<1>4. CASE ReadsCancelled
  BY <1>4 DEF ReadsCancelled
<1>5. CASE ReadsHalt
  BY <1>5 DEF ReadsHalt
<1>6. CASE ReadsStop
  BY <1>6 DEF ReadsStop
<1>7. CASE ReadsRestart
  BY <1>7 DEF ReadsRestart
<1>8. CASE ReadsNow
  BY <1>8 DEF ReadsNow
<1>9. CASE RemovesNow
  BY <1>9 DEF RemovesNow
<1>10. CASE ReadsReload
  BY <1>10, NobodyWaits DEF ReadsReload, TakesReload
<1>11. CASE LoadsAtHead
  BY <1>11, NobodyWaits DEF LoadsAtHead, ApplyReload
<1>12. CASE Gates
  <2>0. w' = w \/ w' = [w EXCEPT ![Main].pc = "free"]
    BY <1>12 DEF Gates
  <2>1. \A t \in Waiters : w[t].pc = "out" /\ w'[t].pc \in {"out", "free"}
    <3>1. \A t \in Waiters : w[t].pc = "out"
      BY <1>12, NobodyWaits DEF Gates, Shape
    <3> QED
      BY <2>0, <3>1 DEF Waits
  <2> QED
    BY <1>12, <2>1 DEF Gates
<1>13. CASE IdleEnds
  BY <1>13, WaitIsOver DEF IdleEnds, NoWait
<1>14. CASE DrainEnds
  BY <1>14, WaitIsOver DEF DrainEnds, NoWait
<1>15. CASE BoundaryHalt
  BY <1>15 DEF BoundaryHalt
<1>16. CASE BoundaryStop
  BY <1>16 DEF BoundaryStop
<1> QED
  BY <1>1, <1>2, <1>3, <1>4, <1>5, <1>6, <1>7, <1>8, <1>9, <1>10, <1>11, <1>12, <1>13, <1>14, <1>15, <1>16 DEF Loop

LEMMA WaitsKeepRestarts ==
  ASSUME TypeOK, TypeOK', Shape, NowIsSeen, RestartsAddUp, NEW t \in Waiters, MemberWaits(t) \/ Pass(t) \/ WaitEnds(t)
  PROVE  NowIsSeen' /\ RestartsAddUp'
<1> USE SameWaiters DEF TypeOK, At, NowIsSeen, RestartsAddUp, One, Runs, Pasts, Waits
<1>1. CASE MemberWaits(t)
  BY <1>1 DEF MemberWaits
<1>2. CASE PassBegins(t)
  BY <1>2 DEF PassBegins
<1>3. CASE PassStop(t)
  BY <1>3 DEF PassStop, WaitTo
<1>4. CASE PassHalt(t)
  BY <1>4 DEF PassHalt, WaitTo
<1>5. CASE PassRestart(t)
  BY <1>5 DEF PassRestart, WaitTo
<1>6. CASE PassNow(t)
  BY <1>6 DEF PassNow, WaitTo
<1>7. CASE PassRemovesNow(t)
  BY <1>7 DEF PassRemovesNow, WaitTo
<1>8. CASE PassReload(t)
  BY <1>8 DEF PassReload, WaitTo
<1>9. CASE PassRemovesReload(t)
  BY <1>9 DEF PassRemovesReload, WaitTo
<1>10. CASE PassLoads(t)
  BY <1>10 DEF PassLoads, WaitTo, ApplyReload
<1>11. CASE WaitEnds(t)
  BY <1>11 DEF WaitEnds, WaitTo
<1> QED
  BY <1>1, <1>2, <1>3, <1>4, <1>5, <1>6, <1>7, <1>8, <1>9, <1>10, <1>11 DEF Pass

LEMMA RestKeepsRestarts ==
  ASSUME TypeOK, Shape, NowIsSeen, RestartsAddUp, Ends \/ Watcher \/ Outside
  PROVE  NowIsSeen' /\ RestartsAddUp'
<1> USE SameWaiters DEF TypeOK, At, NowIsSeen, RestartsAddUp, One, Runs, Pasts
<1>1. CASE ReExecs
  BY <1>1 DEF ReExecs, Image, DownRun, Restarts, EndsImage, NoWait
<1>2. CASE Exits
  BY <1>2 DEF Exits, DownRun, EndsImage, NoWait
<1>3. CASE WatchSees
  BY <1>3 DEF WatchSees
<1>4. CASE WatchActs
  BY <1>4 DEF WatchActs
<1>5. CASE WatchEnds
  BY <1>5 DEF WatchEnds
<1>6. CASE Starts
  BY <1>6 DEF Starts, Image, DownRun, Shape, DownIsClean
<1>7. CASE DeletesHalt
  BY <1>7 DEF DeletesHalt
<1>8. CASE EditsConfig
  BY <1>8 DEF EditsConfig, Files
<1>9. CASE Interrupt
  BY <1>9 DEF Interrupt
<1>10. CASE Crash
  BY <1>10 DEF Crash, EndsImage, DownRun, NoWait
<1>11. ASSUME NEW k \in Markers, Ctl(k)
      PROVE  NowIsSeen' /\ RestartsAddUp'
  BY <1>11 DEF Ctl
<1>12. ASSUME NEW k \in Markers, Touch(k)
      PROVE  NowIsSeen' /\ RestartsAddUp'
  BY <1>12 DEF Touch
<1> QED
  BY <1>1, <1>2, <1>3, <1>4, <1>5, <1>6, <1>7, <1>8, <1>9, <1>10, <1>11, <1>12 DEF Ends, Watcher, Outside

-----------------------------------------------------------------------------
\* A STOP of this run is in its marker, or the run ends.
LEMMA LoopKeepsStops ==
  ASSUME TypeOK, Shape, StopIsOwn, StopStands, Loop
  PROVE  StopIsOwn' /\ StopStands'
<1> USE SameWaiters, LivePCs DEF TypeOK, At, Goto, StopIsOwn, StopStands, Runs, Pasts
<1>1. CASE SweepsLeftover
  BY <1>1 DEF SweepsLeftover, Moves
<1>2. CASE ShutsDown
  BY <1>2 DEF ShutsDown
<1>3. CASE SweepPendingStop
  BY <1>3 DEF SweepPendingStop, Moves
<1>4. CASE ReadsCancelled
  BY <1>4 DEF ReadsCancelled
<1>5. CASE ReadsHalt
  BY <1>5 DEF ReadsHalt
<1>6. CASE ReadsStop
  BY <1>6 DEF ReadsStop
<1>7. CASE ReadsRestart
  BY <1>7 DEF ReadsRestart
<1>8. CASE ReadsNow
  BY <1>8 DEF ReadsNow
<1>9. CASE RemovesNow
  BY <1>9 DEF RemovesNow
<1>10. CASE ReadsReload
  BY <1>10, NobodyWaits DEF ReadsReload, TakesReload
<1>11. CASE LoadsAtHead
  BY <1>11, NobodyWaits DEF LoadsAtHead, ApplyReload
<1>12. CASE Gates
  <2>0. w' = w \/ w' = [w EXCEPT ![Main].pc = "free"]
    BY <1>12 DEF Gates
  <2>1. \A t \in Waiters : w[t].pc = "out" /\ w'[t].pc \in {"out", "free"}
    <3>1. \A t \in Waiters : w[t].pc = "out"
      BY <1>12, NobodyWaits DEF Gates, Shape
    <3> QED
      BY <2>0, <3>1 DEF Waits
  <2> QED
    BY <1>12, <2>1 DEF Gates
<1>13. CASE IdleEnds
  <2>1. \A t \in Waiters : t # Main => w[t].pc = "out"
    BY <1>13 DEF IdleEnds, WaitersWait, Waiting, Shape
  <2>2. (\E t \in Waiters : w[t].pc = "stopped") => run'.pc = "shutdown"
    BY <1>13, <2>1 DEF IdleEnds
  <2>3. run'.pc \in {"shutdown", "top"} /\ run'.again = run.again
    BY <1>13 DEF IdleEnds
  <2> QED
    BY <1>13, <2>2, <2>3, LivePCs DEF IdleEnds
<1>14. CASE DrainEnds
  <2>1. \A t \in Waiters \ Members : w[t].pc = "out"
    BY <1>14 DEF DrainEnds, WaitersWait, Waiting, Shape, Waiters, Members, Main
  <2>2. (\E t \in Waiters : w[t].pc = "stopped") => run'.pc = "shutdown"
    BY <1>14, <2>1 DEF DrainEnds, DrainStops
  <2>3. run'.pc \in {"shutdown", "bhalt"} /\ run'.again = run.again
    BY <1>14 DEF DrainEnds
  <2> QED
    BY <1>14, <2>2, <2>3, LivePCs DEF DrainEnds
<1>15. CASE BoundaryHalt
  BY <1>15 DEF BoundaryHalt
<1>16. CASE BoundaryStop
  BY <1>16 DEF BoundaryStop
<1> QED
  BY <1>1, <1>2, <1>3, <1>4, <1>5, <1>6, <1>7, <1>8, <1>9, <1>10, <1>11, <1>12, <1>13, <1>14, <1>15, <1>16 DEF Loop

LEMMA WaitsKeepStops ==
  ASSUME TypeOK, TypeOK', Shape, StopIsOwn, StopStands, NEW t \in Waiters, MemberWaits(t) \/ Pass(t) \/ WaitEnds(t)
  PROVE  StopIsOwn' /\ StopStands'
<1> USE SameWaiters, LivePCs DEF TypeOK, At, StopIsOwn, StopStands, Runs, Pasts, Waits
<1>1. CASE MemberWaits(t)
  BY <1>1 DEF MemberWaits
<1>2. CASE PassBegins(t)
  BY <1>2 DEF PassBegins
<1>3. CASE PassStop(t)
  BY <1>3 DEF PassStop, WaitTo
<1>4. CASE PassHalt(t)
  BY <1>4 DEF PassHalt, WaitTo
<1>5. CASE PassRestart(t)
  BY <1>5 DEF PassRestart, WaitTo
<1>6. CASE PassNow(t)
  BY <1>6 DEF PassNow, WaitTo
<1>7. CASE PassRemovesNow(t)
  BY <1>7 DEF PassRemovesNow, WaitTo
<1>8. CASE PassReload(t)
  BY <1>8 DEF PassReload, WaitTo
<1>9. CASE PassRemovesReload(t)
  BY <1>9 DEF PassRemovesReload, WaitTo
<1>10. CASE PassLoads(t)
  BY <1>10 DEF PassLoads, WaitTo, ApplyReload
<1>11. CASE WaitEnds(t)
  BY <1>11 DEF WaitEnds, WaitTo
<1> QED
  BY <1>1, <1>2, <1>3, <1>4, <1>5, <1>6, <1>7, <1>8, <1>9, <1>10, <1>11 DEF Pass

LEMMA RestKeepsStops ==
  ASSUME TypeOK, Shape, StopIsOwn, StopStands, Ends \/ Watcher \/ Outside
  PROVE  StopIsOwn' /\ StopStands'
<1> USE SameWaiters, LivePCs DEF TypeOK, At, StopIsOwn, StopStands, Runs, Pasts
<1>1. CASE ReExecs
  BY <1>1 DEF ReExecs, Image, DownRun, Restarts, EndsImage, NoWait
<1>2. CASE Exits
  BY <1>2 DEF Exits, DownRun, EndsImage, NoWait
<1>3. CASE WatchSees
  BY <1>3 DEF WatchSees
<1>4. CASE WatchActs
  BY <1>4 DEF WatchActs
<1>5. CASE WatchEnds
  BY <1>5 DEF WatchEnds
<1>6. CASE Starts
  BY <1>6 DEF Starts, Image, DownRun, Shape, DownIsClean
<1>7. CASE DeletesHalt
  BY <1>7 DEF DeletesHalt
<1>8. CASE EditsConfig
  BY <1>8 DEF EditsConfig, Files
<1>9. CASE Interrupt
  BY <1>9 DEF Interrupt
<1>10. CASE Crash
  BY <1>10 DEF Crash, EndsImage, DownRun, NoWait
<1>11. ASSUME NEW k \in Markers, Ctl(k)
      PROVE  StopIsOwn' /\ StopStands'
  BY <1>11 DEF Ctl
<1>12. ASSUME NEW k \in Markers, Touch(k)
      PROVE  StopIsOwn' /\ StopStands'
  BY <1>12 DEF Touch
<1> QED
  BY <1>1, <1>2, <1>3, <1>4, <1>5, <1>6, <1>7, <1>8, <1>9, <1>10, <1>11, <1>12 DEF Ends, Watcher, Outside

-----------------------------------------------------------------------------
\* A reload is in its marker, at the file, or done.
LEMMA LoopKeepsReloads ==
  ASSUME TypeOK, Shape, ReloadIsSeen, ReloadsAddUp, OwedIsInTheFile, ReloadAppliesTheEdit, Loop
  PROVE  ReloadIsSeen' /\ ReloadsAddUp' /\ OwedIsInTheFile' /\ ReloadAppliesTheEdit'
<1> USE SameWaiters DEF TypeOK, At, Goto, ReloadIsSeen, ReloadsAddUp, OwedIsInTheFile, ReloadAppliesTheEdit, One, Runs, Pasts, Files
<1>1. CASE SweepsLeftover
  BY <1>1 DEF SweepsLeftover, Moves, Loading
<1>2. CASE ShutsDown
  BY <1>2 DEF ShutsDown, Loading
<1>3. CASE SweepPendingStop
  BY <1>3 DEF SweepPendingStop, Moves, Loading
<1>4. CASE ReadsCancelled
  BY <1>4 DEF ReadsCancelled, Loading
<1>5. CASE ReadsHalt
  BY <1>5 DEF ReadsHalt, Loading
<1>6. CASE ReadsStop
  BY <1>6 DEF ReadsStop, Loading
<1>7. CASE ReadsRestart
  BY <1>7 DEF ReadsRestart, Loading
<1>8. CASE ReadsNow
  BY <1>8 DEF ReadsNow, Loading
<1>9. CASE RemovesNow
  BY <1>9 DEF RemovesNow, Loading
<1>10. CASE ReadsReload
  <2>1. \A t \in Waiters : w[t].pc = "out"
    BY <1>10, NobodyWaits DEF ReadsReload, Shape
  <2>2. ~Loading
    BY <1>10, <2>1 DEF ReadsReload, Loading
  <2>3. CASE TakesReload
    BY <1>10, <2>1, <2>2, <2>3 DEF ReadsReload, TakesReload, Loading
  <2>4. CASE ~TakesReload
    BY <1>10, <2>1, <2>4 DEF ReadsReload, TakesReload, Loading
  <2> QED
    BY <2>3, <2>4
<1>11. CASE LoadsAtHead
  <2>1. \A t \in Waiters : w[t].pc = "out"
    BY <1>11, NobodyWaits DEF LoadsAtHead, Shape
  <2>2. Loading /\ run'.pc = "gate" /\ ~Loading'
    BY <1>11, <2>1 DEF LoadsAtHead, ApplyReload, Loading
  <2>3. past'.loads = past.loads + 1 /\ past'.reloads = past.reloads /\ mark' = mark /\ w' = w /\ conf' = conf
    BY <1>11 DEF LoadsAtHead, ApplyReload
  <2>4. ReloadsAddUp' /\ ReloadIsSeen'
    BY <2>1, <2>2, <2>3
  <2>5. OwedIsInTheFile' /\ ReloadAppliesTheEdit'
    BY <1>11 DEF LoadsAtHead, ApplyReload
  <2> QED
    BY <2>4, <2>5
<1>12. CASE Gates
  <2>0. w' = w \/ w' = [w EXCEPT ![Main].pc = "free"]
    BY <1>12 DEF Gates
  <2>1. \A t \in Waiters : w[t].pc = "out" /\ w'[t].pc \in {"out", "free"}
    <3>1. \A t \in Waiters : w[t].pc = "out"
      BY <1>12, NobodyWaits DEF Gates, Shape
    <3> QED
      BY <2>0, <3>1 DEF Waits
  <2> QED
    BY <1>12, <2>1 DEF Gates, Loading
<1>13. CASE IdleEnds
  BY <1>13, WaitIsOver DEF IdleEnds, NoWait, Loading
<1>14. CASE DrainEnds
  <2>1. \A t \in Waiters : w[t].pc # "load" /\ w'[t].pc = "out"
    BY <1>14, WaitIsOver DEF DrainEnds, NoWait, Shape
  <2>2. run'.pc \in {"shutdown", "bhalt"} /\ run'.cfg = run.cfg
    BY <1>14 DEF DrainEnds
  <2> QED
    BY <1>14, <2>1, <2>2 DEF DrainEnds, Loading
<1>15. CASE BoundaryHalt
  BY <1>15 DEF BoundaryHalt, Loading
<1>16. CASE BoundaryStop
  BY <1>16 DEF BoundaryStop, Loading
<1> QED
  BY <1>1, <1>2, <1>3, <1>4, <1>5, <1>6, <1>7, <1>8, <1>9, <1>10, <1>11, <1>12, <1>13, <1>14, <1>15, <1>16 DEF Loop

LEMMA WaitsKeepReloads ==
  ASSUME TypeOK, TypeOK', Shape, ReloadIsSeen, ReloadsAddUp, OwedIsInTheFile, ReloadAppliesTheEdit, NEW t \in Waiters, MemberWaits(t) \/ Pass(t) \/ WaitEnds(t)
  PROVE  ReloadIsSeen' /\ ReloadsAddUp' /\ OwedIsInTheFile' /\ ReloadAppliesTheEdit'
<1> USE SameWaiters DEF TypeOK, At, ReloadIsSeen, ReloadsAddUp, OwedIsInTheFile, ReloadAppliesTheEdit, One, Runs, Pasts, Files, Waits
<1>1. CASE MemberWaits(t)
  BY <1>1 DEF MemberWaits, Loading
<1>2. CASE PassBegins(t)
  BY <1>2 DEF PassBegins, Loading
<1>3. CASE PassStop(t)
  BY <1>3 DEF PassStop, WaitTo, Loading
<1>4. CASE PassHalt(t)
  BY <1>4 DEF PassHalt, WaitTo, Loading
<1>5. CASE PassRestart(t)
  BY <1>5 DEF PassRestart, WaitTo, Loading
<1>6. CASE PassNow(t)
  BY <1>6 DEF PassNow, WaitTo, Loading
<1>7. CASE PassRemovesNow(t)
  BY <1>7 DEF PassRemovesNow, WaitTo, Loading
<1>8. CASE PassReload(t)
  BY <1>8 DEF PassReload, WaitTo, Loading
<1>9. CASE PassRemovesReload(t)
  <2>1. "RELOAD" \in mark /\ ~At("load")
    BY <1>9, WaitersAreLive DEF PassRemovesReload, Shape
  <2>2. \A u \in Waiters : u # t => w[u].pc \notin Passes
    BY <1>9 DEF PassRemovesReload, Shape, OnePasses, Passes
  <2>3. ~Loading
    BY <1>9, <2>1, <2>2 DEF PassRemovesReload, Passes, Loading
  <2>4. \A u \in Waiters : w'[u].pc # "reloadrm" /\ w'[t].pc = "load"
    BY <1>9, <2>2 DEF PassRemovesReload, WaitTo, Passes
  <2>5. run' = run /\ past' = past /\ file' = file /\ conf' = conf /\ "RELOAD" \notin mark'
    BY <1>9 DEF PassRemovesReload
  <2>6. ReloadsAddUp'
    BY <2>1, <2>3, <2>5
  <2>7. ReloadIsSeen' /\ ReloadAppliesTheEdit'
    BY <2>4, <2>5
  <2>8. OwedIsInTheFile'
    BY <1>9, <2>5, WaitersAreLive, LivePCs DEF PassRemovesReload, Shape
  <2> QED
    BY <2>6, <2>7, <2>8
<1>10. CASE PassLoads(t)
  <2>1. ~At("load")
    BY <1>10, WaitersAreLive DEF PassLoads, Shape
  <2>2. \A u \in Waiters : u # t => w[u].pc \notin Passes
    BY <1>10 DEF PassLoads, Shape, OnePasses, Passes
  <2>3. \A u \in Waiters : w'[u].pc \notin {"reloadrm", "load"}
    BY <1>10, <2>2 DEF PassLoads, WaitTo, Passes
  <2>4. Loading /\ ~Loading' /\ run'.pc = run.pc
    BY <1>10, <2>1, <2>3 DEF PassLoads, ApplyReload, Loading
  <2>5. past'.loads = past.loads + 1 /\ past'.reloads = past.reloads /\ mark' = mark /\ conf' = conf
    BY <1>10 DEF PassLoads, ApplyReload
  <2>6. ReloadsAddUp' /\ ReloadIsSeen'
    BY <2>3, <2>4, <2>5
  <2>7. OwedIsInTheFile' /\ ReloadAppliesTheEdit'
    BY <1>10, WaitersAreLive DEF PassLoads, ApplyReload, Shape
  <2> QED
    BY <2>6, <2>7
<1>11. CASE WaitEnds(t)
  BY <1>11 DEF WaitEnds, WaitTo, Loading
<1> QED
  BY <1>1, <1>2, <1>3, <1>4, <1>5, <1>6, <1>7, <1>8, <1>9, <1>10, <1>11 DEF Pass

LEMMA RestKeepsReloads ==
  ASSUME TypeOK, Shape, ReloadIsSeen, ReloadsAddUp, OwedIsInTheFile, ReloadAppliesTheEdit, Ends \/ Watcher \/ Outside
  PROVE  ReloadIsSeen' /\ ReloadsAddUp' /\ OwedIsInTheFile' /\ ReloadAppliesTheEdit'
<1> USE SameWaiters DEF TypeOK, At, ReloadIsSeen, ReloadsAddUp, OwedIsInTheFile, ReloadAppliesTheEdit, One, Runs, Pasts, Files
<1>1. CASE ReExecs
  BY <1>1 DEF ReExecs, Image, DownRun, Restarts, EndsImage, NoWait, Loading
<1>2. CASE Exits
  BY <1>2 DEF Exits, DownRun, EndsImage, NoWait, Loading
<1>3. CASE WatchSees
  BY <1>3 DEF WatchSees, Loading
<1>4. CASE WatchActs
  BY <1>4 DEF WatchActs, Loading
<1>5. CASE WatchEnds
  BY <1>5 DEF WatchEnds, Loading
<1>6. CASE Starts
  BY <1>6 DEF Starts, Image, DownRun, Shape, DownIsClean, Loading
<1>7. CASE DeletesHalt
  BY <1>7 DEF DeletesHalt, Loading
<1>8. CASE EditsConfig
  BY <1>8 DEF EditsConfig, Files, Loading
<1>9. CASE Interrupt
  BY <1>9 DEF Interrupt, Loading
<1>10. CASE Crash
  BY <1>10 DEF Crash, EndsImage, DownRun, NoWait, Loading
<1>11. ASSUME NEW k \in Markers, Ctl(k)
      PROVE  ReloadIsSeen' /\ ReloadsAddUp' /\ OwedIsInTheFile' /\ ReloadAppliesTheEdit'
  BY <1>11 DEF Ctl, Loading
<1>12. ASSUME NEW k \in Markers, Touch(k)
      PROVE  ReloadIsSeen' /\ ReloadsAddUp' /\ OwedIsInTheFile' /\ ReloadAppliesTheEdit'
  BY <1>12 DEF Touch, Loading
<1> QED
  BY <1>1, <1>2, <1>3, <1>4, <1>5, <1>6, <1>7, <1>8, <1>9, <1>10, <1>11, <1>12 DEF Ends, Watcher, Outside

-----------------------------------------------------------------------------
\* The theorems.

LEMMA NextInv == Inv /\ Next => Inv'
<1> SUFFICES ASSUME Inv, Next PROVE Inv'
  OBVIOUS
<1>1. TypeOK' /\ Shape /\ Shape'
  BY TypeKept, ShapeKept DEF Inv, Shape
<1>2. NowIsSeen' /\ RestartsAddUp'
  BY <1>1, LoopKeepsRestarts, WaitsKeepRestarts, RestKeepsRestarts DEF Inv, Next
<1>3. StopIsOwn' /\ StopStands'
  BY <1>1, LoopKeepsStops, WaitsKeepStops, RestKeepsStops DEF Inv, Next
<1>4. ReloadIsSeen' /\ ReloadsAddUp' /\ OwedIsInTheFile' /\ ReloadAppliesTheEdit'
  BY <1>1, LoopKeepsReloads, WaitsKeepReloads, RestKeepsReloads DEF Inv, Next
<1> QED
  BY <1>1, <1>2, <1>3, <1>4 DEF Inv, Shape

LEMMA StutterInv == Inv /\ UNCHANGED vars => Inv'
  BY SameWaiters DEF Inv, vars, TypeOK, DownIsClean, WaitersWait, Waiting, OnePasses, NowIsSeen, RestartsAddUp, ReloadIsSeen,
     ReloadsAddUp, Loading, OwedIsInTheFile, ReloadAppliesTheEdit, StopIsOwn, StopStands, At

\* The invariant holds throughout.
THEOREM InvHolds == Spec => []Inv
<1>1. Inv /\ [Next]_vars => Inv'
  BY NextInv, StutterInv
<1> QED
  BY <1>1, InitInv, PTL DEF Spec

\* Every reachable state of the daemon, its markers and its waiters has its type
\* (loop.go:733-1153 Run).
THEOREM TypeCorrect == Spec => []TypeOK
<1>1. Inv => TypeOK
  BY DEF Inv
<1> QED
  BY <1>1, InvHolds, PTL

\* However many sessions wait and whatever crashes, the process is replaced at most once
\* for each restart that was asked for (control.go:70-113 watchRestartNow).
THEOREM ExecsAreAskedHolds == Spec => []ExecsAreAsked
<1>1. Inv => ExecsAreAsked
  BY DEF Inv, TypeOK, Pasts, RestartsAddUp, One, ExecsAreAsked
<1> QED
  BY <1>1, InvHolds, PTL

\* One RELOAD is applied once, whichever of the waiters finds it (loop.go:8201-8286).
THEOREM LoadsAreAskedHolds == Spec => []LoadsAreAsked
<1>1. Inv => LoadsAreAsked
  BY DEF Inv, TypeOK, Pasts, ReloadsAddUp, One, LoadsAreAsked
<1> QED
  BY <1>1, InvHolds, PTL

\* An edit that `ctl reload` announced is in force, refused, or still announced
\* (control.go:113-160 applyReload).
THEOREM ReloadAppliesTheEditHolds == Spec => []ReloadAppliesTheEdit
<1>1. Inv => ReloadAppliesTheEdit
  BY DEF Inv
<1> QED
  BY <1>1, InvHolds, PTL

\* A STOP of a live run stands until the run ends, through reloads, waits and restarts
\* (loop.go:777-846 Run, 8244-8249 consumeWaitControls).
THEOREM StopStandsHolds == Spec => []StopStands
<1>1. Inv => StopStands
  BY DEF Inv
<1> QED
  BY <1>1, InvHolds, PTL

\* A run stops only for a STOP written in its lifetime (loop.go:733-762 Run).
THEOREM NoGhostStopsHolds == Spec => NoGhostStops
<1> DEFINE Own == ("STOP" \in mark /\ "STOP" \notin mark' /\ ~At("boot")) => OwnStop
<1>1. Inv /\ Next => Own
  <2> SUFFICES ASSUME Inv, Next, "STOP" \in mark, "STOP" \notin mark', ~At("boot") PROVE past.stop
    BY DEF OwnStop
  <2>1. run.pc \in Live => past.stop
    BY DEF Inv, StopIsOwn
  <2>2. CASE Loop
    BY <2>1, <2>2, LivePCs DEF Loop, SweepsLeftover, ShutsDown, SweepPendingStop, ReadsCancelled, ReadsHalt, ReadsStop,
       ReadsRestart, ReadsNow, RemovesNow, ReadsReload, TakesReload, LoadsAtHead, Gates, IdleEnds, DrainEnds, BoundaryHalt,
       BoundaryStop, At, Moves
  <2>3. CASE Ends \/ Watcher \/ Outside
    BY <2>3 DEF Ends, Watcher, Outside, ReExecs, Exits, WatchSees, WatchActs, WatchEnds, Starts, Ctl, Touch, DeletesHalt,
       EditsConfig, Interrupt, Crash
  <2>4. ASSUME NEW t \in Waiters, MemberWaits(t) \/ Pass(t) \/ WaitEnds(t)
        PROVE  past.stop
    <3>1. Pass(t) /\ w[t].pc # "out"
      BY <2>4 DEF MemberWaits, WaitEnds, Pass, PassBegins, PassStop, PassHalt, PassRestart, PassNow, PassRemovesNow,
         PassReload, PassRemovesReload, PassLoads
    <3> QED
      BY <2>1, <3>1, WaitersAreLive DEF Inv
  <2> QED
    BY <2>2, <2>3, <2>4 DEF Next
<1>2. Inv /\ [Next]_vars => [Own]_vars
  BY <1>1
<1> QED
  BY <1>2, InvHolds, PTL DEF Spec, NoGhostStops

-----------------------------------------------------------------------------
\* The refinement: a daemon with all its waiters is module Daemon's.
IsUp == ~At("down") /\ ~At("boot")
IsLeaving == \/ run.pc \in {"shutdown", "sweep", "return"} \/ run.again \/ run.cancelled
             \/ \E t \in Waiters : w[t].pc = "stopped"

LEMMA UpIsLive == TypeOK => (IsUp <=> run.pc \in Live)
  BY DEF TypeOK, Runs, IsUp, At, Live

\* A step of a live run that leaves STOP and RESTART alone, and at most commits it to end.
LEMMA UpStep ==
  ASSUME TypeOK, TypeOK', IsUp, IsUp', IsLeaving => IsLeaving',
         run'.again = run.again \/ run'.again = TRUE,
         ("STOP" \in mark') = ("STOP" \in mark), ("RESTART" \in mark') = ("RESTART" \in mark)
  PROVE  [Abstract!Next]_(Abstract!vars)
<1>1. run.again \in BOOLEAN /\ run'.again \in BOOLEAN
  BY DEF TypeOK, Runs
<1>2. CASE IsLeaving'
  <2>1. run'.again \in {run.again, TRUE}
    BY <1>1
  <2>2. Abstract!Leaves
    BY <1>1, <1>2, <2>1 DEF Abstract!Leaves, IsUp, IsLeaving, At
  <2> QED
    BY <2>2 DEF Abstract!Next
<1>3. CASE ~IsLeaving'
  <2>1. UNCHANGED Abstract!vars
    BY <1>1, <1>3 DEF Abstract!vars, IsUp, IsLeaving, At
  <2> QED
    BY <2>1
<1> QED
  BY <1>2, <1>3

\* A step that consumes STOP, and one that consumes RESTART, of a live run.
LEMMA StopStep ==
  ASSUME TypeOK, IsUp, IsUp', IsLeaving', "STOP" \in mark, mark' = mark \ {"STOP"}, run'.again = run.again
  PROVE  [Abstract!Next]_(Abstract!vars)
<1>1. Abstract!TakesStop
  BY DEF Abstract!TakesStop, IsUp, IsLeaving, At
<1> QED
  BY <1>1 DEF Abstract!Next

LEMMA RestartStep ==
  ASSUME TypeOK, IsUp, IsUp', IsLeaving', "RESTART" \in mark, mark' = mark \ {"RESTART"}, run'.again = TRUE
  PROVE  [Abstract!Next]_(Abstract!vars)
<1>1. Abstract!TakesRestart
  BY DEF Abstract!TakesRestart, IsUp, IsLeaving, At
<1> QED
  BY <1>1 DEF Abstract!Next

\* A step of the loop that only moves on keeps the run's end.
LEMMA LeavingStays ==
  ASSUME conf' = conf, w' = w, IsLeaving,
         run.pc \in {"shutdown", "sweep", "return"} => run'.pc \in {"shutdown", "sweep", "return"},
         run.again => run'.again, run.cancelled => run'.cancelled
  PROVE  IsLeaving'
  BY SameWaiters DEF IsLeaving

LEMMA LoopIsDaemons ==
  ASSUME Inv, TypeOK', Loop
  PROVE  [Abstract!Next]_(Abstract!vars)
<1> USE LivePCs DEF Inv, TypeOK, IsUp, At, Goto, Runs
<1>1. CASE SweepsLeftover
  <2>1. \A t \in Waiters : w[t].pc = "out"
    BY <1>1, NobodyWaits DEF SweepsLeftover, Moves
  <2>2. Abstract!Settles
    BY <1>1, <2>1, SameWaiters DEF SweepsLeftover, Moves, Abstract!Settles
  <2> QED
    BY <2>2 DEF Abstract!Next
<1>2. CASE SweepPendingStop
  <2>1. Abstract!Sweeps
    BY <1>2, SameWaiters DEF SweepPendingStop, Moves, Abstract!Sweeps
  <2> QED
    BY <2>1 DEF Abstract!Next
<1>3. CASE ReadsStop
  <2>1. IsUp /\ IsUp' /\ (IsLeaving => IsLeaving') /\ run'.again = run.again
    BY <1>3, LeavingStays DEF ReadsStop
  <2>2. CASE "STOP" \in mark
    BY <1>3, <2>1, <2>2, StopStep DEF ReadsStop, IsLeaving
  <2>3. CASE "STOP" \notin mark
    BY <1>3, <2>1, <2>3, UpStep DEF ReadsStop
  <2> QED
    BY <2>2, <2>3
<1>4. CASE ReadsRestart
  <2>1. IsUp /\ IsUp' /\ (IsLeaving => IsLeaving')
    BY <1>4, LeavingStays DEF ReadsRestart
  <2>2. CASE "RESTART" \in mark
    BY <1>4, <2>1, <2>2, RestartStep DEF ReadsRestart, IsLeaving
  <2>3. CASE "RESTART" \notin mark
    BY <1>4, <2>1, <2>3, UpStep DEF ReadsRestart
  <2> QED
    BY <2>2, <2>3
<1>5. CASE BoundaryStop
  <2>1. IsUp /\ IsUp' /\ (IsLeaving => IsLeaving') /\ run'.again = run.again
    BY <1>5, LeavingStays DEF BoundaryStop
  <2>2. CASE "STOP" \in mark
    BY <1>5, <2>1, <2>2, StopStep DEF BoundaryStop, IsLeaving
  <2>3. CASE "STOP" \notin mark
    BY <1>5, <2>1, <2>3, UpStep DEF BoundaryStop
  <2> QED
    BY <2>2, <2>3
<1>6. CASE ShutsDown
  BY <1>6, LeavingStays, UpStep DEF ShutsDown
<1>7. CASE ReadsCancelled
  BY <1>7, LeavingStays, UpStep DEF ReadsCancelled
<1>8. CASE ReadsHalt
  BY <1>8, LeavingStays, UpStep DEF ReadsHalt
<1>9. CASE ReadsNow
  BY <1>9, LeavingStays, UpStep DEF ReadsNow
<1>10. CASE RemovesNow
  BY <1>10, LeavingStays, UpStep DEF RemovesNow
<1>11. CASE ReadsReload
  <2>1. (("STOP" \in mark') = ("STOP" \in mark)) /\ (("RESTART" \in mark') = ("RESTART" \in mark))
    BY <1>11 DEF ReadsReload, TakesReload
  <2>2. IsUp /\ IsUp' /\ run'.again = run.again
    BY <1>11 DEF ReadsReload, TakesReload
  <2>3. IsLeaving => IsLeaving'
    BY <1>11, LeavingStays DEF ReadsReload, TakesReload
  <2> QED
    BY <2>1, <2>2, <2>3, UpStep
<1>12. CASE LoadsAtHead
  BY <1>12, LeavingStays, UpStep DEF LoadsAtHead, ApplyReload
<1>13. CASE BoundaryHalt
  BY <1>13, LeavingStays, UpStep DEF BoundaryHalt
<1>14. CASE Gates
  <2>1. IsLeaving => IsLeaving'
    <3>1. \A t \in Waiters : w[t].pc = "out"
      BY <1>14, NobodyWaits DEF Gates
    <3> QED
      BY <1>14, <3>1 DEF Gates, IsLeaving
  <2> QED
    BY <1>14, <2>1, UpStep DEF Gates
<1>15. CASE IdleEnds
  <2>1. \A t \in Waiters : t # Main => w[t].pc = "out"
    BY <1>15 DEF IdleEnds, WaitersWait, Waiting
  <2>2. IsLeaving => IsLeaving'
    BY <1>15, <2>1 DEF IdleEnds, IsLeaving
  <2> QED
    BY <1>15, <2>2, UpStep DEF IdleEnds
<1>16. CASE DrainEnds
  <2>1. \A t \in Waiters \ Members : w[t].pc = "out"
    BY <1>16 DEF DrainEnds, WaitersWait, Waiting, Waiters, Members, Main
  <2>2. IsLeaving => IsLeaving'
    BY <1>16, <2>1 DEF DrainEnds, DrainStops, IsLeaving
  <2> QED
    BY <1>16, <2>2, UpStep DEF DrainEnds
<1> QED
  BY <1>1, <1>2, <1>3, <1>4, <1>5, <1>6, <1>7, <1>8, <1>9, <1>10, <1>11, <1>12, <1>13, <1>14, <1>15, <1>16 DEF Loop

LEMMA WaitsAreDaemons ==
  ASSUME Inv, TypeOK', NEW t \in Waiters, MemberWaits(t) \/ Pass(t) \/ WaitEnds(t)
  PROVE  [Abstract!Next]_(Abstract!vars)
<1>1. Waiting(t) /\ run.pc \in Live /\ IsUp
  <2>1. Waiting(t)
    BY DEF Inv, WaitersWait, MemberWaits, Pass, WaitEnds, PassBegins, PassStop, PassHalt, PassRestart, PassNow,
       PassRemovesNow, PassReload, PassRemovesReload, PassLoads
  <2> QED
    BY <2>1, LivePCs, UpIsLive DEF Waiting, At, Inv
<1>2. conf' = conf /\ run'.pc = run.pc /\ run'.cancelled = run.cancelled /\ (run'.again = run.again \/ run'.again = TRUE)
  BY DEF Inv, TypeOK, Runs, MemberWaits, Pass, WaitEnds, PassBegins, PassStop, PassHalt, PassRestart, PassNow,
     PassRemovesNow, PassReload, PassRemovesReload, PassLoads, ApplyReload
<1>3. IsUp'
  BY <1>1, <1>2 DEF IsUp, At
<1>4. w[t].pc # "stopped" /\ \A u \in Waiters : u # t => w'[u] = w[u]
  BY DEF Inv, TypeOK, WaitTo, MemberWaits, Pass, WaitEnds, PassBegins, PassStop, PassHalt, PassRestart, PassNow,
     PassRemovesNow, PassReload, PassRemovesReload, PassLoads
<1>5. IsLeaving => IsLeaving'
  BY <1>2, <1>4, SameWaiters DEF IsLeaving, Inv, TypeOK, Runs
<1>6. CASE PassStop(t) /\ "STOP" \in mark
  <2>1. w'[t].pc = "stopped" /\ mark' = mark \ {"STOP"} /\ run' = run
    BY <1>6 DEF PassStop, WaitTo, Inv, TypeOK, Waits
  <2> QED
    BY <1>1, <1>2, <1>3, <1>6, <2>1, StopStep, SameWaiters DEF IsLeaving, Inv
<1>7. CASE PassRestart(t) /\ "RESTART" \in mark
  <2>1. w'[t].pc = "stopped" /\ mark' = mark \ {"RESTART"} /\ run'.again = TRUE
    BY <1>7 DEF PassRestart, WaitTo, Inv, TypeOK, Waits, Runs
  <2> QED
    BY <1>1, <1>2, <1>3, <1>7, <2>1, RestartStep, SameWaiters DEF IsLeaving, Inv
<1>8. CASE ~(PassStop(t) /\ "STOP" \in mark) /\ ~(PassRestart(t) /\ "RESTART" \in mark)
  <2>1. (("STOP" \in mark') = ("STOP" \in mark)) /\ (("RESTART" \in mark') = ("RESTART" \in mark))
    BY <1>8 DEF MemberWaits, Pass, WaitEnds, PassBegins, PassStop, PassHalt, PassRestart, PassNow,
       PassRemovesNow, PassReload, PassRemovesReload, PassLoads
  <2> QED
    BY <1>1, <1>2, <1>3, <1>5, <2>1, UpStep DEF Inv
<1> QED
  BY <1>6, <1>7, <1>8

LEMMA RestIsDaemons ==
  ASSUME Inv, TypeOK', Ends \/ Watcher \/ Outside
  PROVE  [Abstract!Next]_(Abstract!vars)
<1> USE LivePCs DEF Inv, TypeOK, IsUp, At, Runs
<1>1. CASE ReExecs
  <2>1. Abstract!ReExecs
    BY <1>1, SameWaiters DEF ReExecs, Restarts, Image, DownRun, EndsImage, NoWait, Abstract!ReExecs
  <2> QED
    BY <2>1 DEF Abstract!Next
<1>2. CASE Exits
  <2>1. Abstract!Exits
    BY <1>2, SameWaiters DEF Exits, DownRun, EndsImage, NoWait, Abstract!Exits
  <2> QED
    BY <2>1 DEF Abstract!Next
<1>3. CASE Watcher
  <2>1. IsUp /\ IsUp'
    BY <1>3 DEF Watcher, WatchSees, WatchActs, WatchEnds, DownIsClean
  <2>2. IsLeaving => IsLeaving'
    BY <1>3, LeavingStays DEF Watcher, WatchSees, WatchActs, WatchEnds
  <2>3. (("STOP" \in mark') = ("STOP" \in mark)) /\ (("RESTART" \in mark') = ("RESTART" \in mark))
    BY <1>3 DEF Watcher, WatchSees, WatchActs, WatchEnds
  <2>4. run'.again = run.again \/ run'.again = TRUE
    BY <1>3 DEF Watcher, WatchSees, WatchActs, WatchEnds
  <2> QED
    BY <2>1, <2>2, <2>3, <2>4, UpStep
<1>4. CASE Starts
  <2>1. \A t \in Waiters : w[t].pc = "out"
    BY <1>4, NobodyWaits DEF Starts
  <2>2. Abstract!Starts
    BY <1>4, <2>1, SameWaiters DEF Starts, Image, DownRun, DownIsClean, Abstract!Starts
  <2> QED
    BY <2>2 DEF Abstract!Next
<1>5. ASSUME NEW k \in Markers, Ctl(k) \/ Touch(k)
      PROVE  [Abstract!Next]_(Abstract!vars)
  <2>1. Abstract!Steers
    BY <1>5, SameWaiters DEF Ctl, Touch, Abstract!Steers
  <2> QED
    BY <2>1 DEF Abstract!Next
<1>6. CASE DeletesHalt \/ EditsConfig
  <2>1. UNCHANGED Abstract!vars
    BY <1>6, SameWaiters DEF DeletesHalt, EditsConfig, Abstract!vars
  <2> QED
    BY <2>1
<1>7. CASE Interrupt
  <2>1. IsUp /\ IsUp' /\ IsLeaving'
    BY <1>7 DEF Interrupt, IsLeaving
  <2> QED
    BY <1>7, <2>1, UpStep DEF Interrupt
<1>8. CASE Crash
  <2>1. Abstract!Dies
    BY <1>8, SameWaiters DEF Crash, EndsImage, DownRun, NoWait, Abstract!Dies
  <2> QED
    BY <2>1 DEF Abstract!Next
<1> QED
  BY <1>1, <1>2, <1>3, <1>4, <1>5, <1>6, <1>7, <1>8 DEF Ends, Outside

\* The daemon is what whoever steers it through its state directory takes it for:
\* every step of it is a step of Daemon, or none (loop.go:733-1153 Run).
THEOREM ImplementsDaemonHolds == Spec => ImplementsDaemon
<1>1. Init => Abstract!Init
  BY DEF Init, Abstract!Init, DownRun, NoWait, At
<1>2. Inv /\ Next => [Abstract!Next]_(Abstract!vars)
  BY TypeKept, LoopIsDaemons, WaitsAreDaemons, RestIsDaemons DEF Next, Inv
<1>3. UNCHANGED vars => UNCHANGED Abstract!vars
  BY SameWaiters DEF vars, Abstract!vars, At
<1>4. Inv /\ [Next]_vars => [Abstract!Next]_(Abstract!vars)
  BY <1>2, <1>3
<1> QED
  BY <1>1, <1>4, InvHolds, PTL DEF Spec, ImplementsDaemon, Abstract!Spec

-----------------------------------------------------------------------------
\* What the run checks of the markers, for any number of requests, edits, crashes,
\* signals and waiting members (control.go, loop.go:1120-1140).
THEOREM MarkersAreHonouredHolds == Spec => MarkersAreHonoured
  BY TypeCorrect, ExecsAreAskedHolds, LoadsAreAskedHolds, ReloadAppliesTheEditHolds, StopStandsHolds,
     NoGhostStopsHolds, PTL DEF MarkersAreHonoured
=============================================================================
