------------------------------ MODULE CloseOut ------------------------------
(***************************************************************************)
(* The supervisor's deterministic close-out and its conflict sessions. On  *)
(* every roster poll a pass lists a project's approved tasks, judges the   *)
(* pull request of each, claims the task, merges what was judged, verifies *)
(* the merge and completes the task; a conflicting pull request gets one   *)
(* short session, one at a time per state root, that resolves it and hands *)
(* the task back.                                                          *)
(*                                                                         *)
(* Several supervisors share a state root and a project; agents close out  *)
(* the same queue; authors push, GitHub's reads lag, leases expire.        *)
(***************************************************************************)
EXTENDS Integers, Sequences, FiniteSets

CONSTANTS Sups,      \* the supervisors on one state root
          Tasks,     \* the tasks of one project, each on a branch with a pull request
          Configs    \* bounds: the environments looked at, see ConfigsAssumption

Branches == {"integration", "main", "other"}
Marks == {"mechanical", "failed", "behavioural"}
NoBranch == "none"
NoOne == "nobody"
Nobody == <<NoOne, "free">>   \* no run holds the task
Agent == <<NoOne, "agent">>   \* an agent session's close-out
Lost == <<NoOne, "lost">>     \* a run nobody works for any more

\* The calls that may fail; a failing "merge", "claim" or "complete" may have been
\* carried out all the same.
Calls == {"policy", "queue", "pr", "probe", "paths", "claim", "merge", "verify", "complete", "release", "state"}

\* pr_base and what origin answers; the tasks whose checkout is found and that have
\* one open pull request; whether each starts conflicting; the harness of the step;
\* the calls that fail and how often; what authors, agents, operators and the clock
\* may do, how often.
ConfigsAssumption ==
  \A c \in Configs :
    /\ c.override \in Branches \cup {NoBranch} /\ c.onOrigin \in BOOLEAN
    /\ c.default \in Branches \cup {NoBranch}
    /\ c.ready \subseteq Tasks /\ c.conflicting \subseteq Tasks
    /\ c.harness \in {"claude", "codex", "opencode"}
    /\ c.calls \subseteq Calls /\ c.marks \subseteq Marks
    /\ \A f \in {"fails", "pushes", "retargets", "moves", "dials", "agents", "lapses", "crashes", "stops"} :
         c[f] \in Nat

VARIABLES
  conf,    \* the member of Configs this behaviour is about
  dial,    \* the project's authorityIntegrate
  task,    \* per task, the plane's record: status, holder, the markers in its outcome
  pr,      \* per task, its pull request and what GitHub shows of it
  pass,    \* per supervisor, the goroutine of its close-out pass
  sess,    \* per supervisor, the goroutine of its conflict session
  orphan,  \* per supervisor, a session that outlived the process that started it
  slot,    \* the lock on conflict-session.lock: its holder
  sup,     \* per supervisor, the process: its life, and the attempts it has spent
  left,    \* how often each bounded event may still happen
  past     \* what happened, for the properties

vars == <<conf, dial, task, pr, pass, sess, orphan, slot, sup, left, past>>

Holders == {Nobody, Agent, Lost} \cup (Sups \X {"pass", "sess", "orphan"})
PassPCs == {"idle", "policy", "queue", "next", "open", "judge", "claim", "merge", "verify",
            "complete", "release", "paths", "slot", "sclaim"}
Seen == [head : Nat, base : Branches \cup {NoBranch}]
NotSeen == [head |-> 0, base |-> NoBranch]
IdlePass == [pc |-> "idle", todo |-> {}, t |-> NoBranch, base |-> NoBranch, memo |-> FALSE,
             seen |-> NotSeen, green |-> FALSE]
NoSession == [pc |-> "none", t |-> NoBranch, did |-> "nothing"]
SessPCs == {"none", "run", "read", "unlock"}
Events == {"fails", "pushes", "retargets", "moves", "dials", "agents", "lapses", "crashes", "stops"}

TypeOK ==
  /\ conf \in Configs /\ dial \in {"clanker", "human"}
  /\ task \in [Tasks -> [status : {"approved", "in_progress", "in_review", "done"}, by : Holders,
                         outcome : Seq(Marks)]]
  /\ pr \in [Tasks -> [open : BOOLEAN, head : Nat, base : Branches, green : BOOLEAN,
                       clean : BOOLEAN, shown : BOOLEAN]]
  /\ pass \in [Sups -> [pc : PassPCs, todo : SUBSET Tasks, t : Tasks \cup {NoBranch},
                        base : Branches \cup {NoBranch}, memo : BOOLEAN, seen : Seen, green : BOOLEAN]]
  /\ sess \in [Sups -> [pc : SessPCs, t : Tasks \cup {NoBranch}, did : Marks \cup {"nothing"}]]
  /\ orphan \in [Sups -> [pc : SessPCs, t : Tasks \cup {NoBranch}, did : Marks \cup {"nothing"}]]
  /\ slot \in Sups \cup {NoOne}
  /\ sup \in [Sups -> [st : {"up", "stopped", "gone"}, drives : BOOLEAN, tried : [Tasks -> Nat]]]
  /\ left \in [Events -> Nat]
  /\ past.greens \subseteq Tasks \X Nat
  /\ past.landed \subseteq Tasks \X Nat \X Branches
  /\ past.kept \subseteq Tasks
  /\ past.attested \subseteq Marks \cup {"nothing"}
  /\ past.paid \in [Sups -> [Tasks -> Nat]]

Init ==
  /\ conf \in Configs
  /\ dial = "clanker"
  /\ task = [t \in Tasks |-> [status |-> "approved", by |-> Nobody, outcome |-> <<>>]]
  /\ pr = [t \in Tasks |-> [open |-> TRUE, head |-> 1, base |-> "integration", green |-> TRUE,
                            clean |-> t \notin conf.conflicting, shown |-> t \notin conf.conflicting]]
  /\ pass = [s \in Sups |-> IdlePass]
  /\ sess = [s \in Sups |-> NoSession] /\ orphan = [s \in Sups |-> NoSession]
  /\ slot = NoOne
  /\ sup = [s \in Sups |-> [st |-> "up", drives |-> TRUE, tried |-> [t \in Tasks |-> 0]]]
  /\ left = [e \in Events |-> conf[e]]
  /\ past = [greens |-> Tasks \X {1}, landed |-> {}, kept |-> {}, attested |-> {},
             paid |-> [s \in Sups |-> [t \in Tasks |-> 0]]]

Spend(e) == left[e] > 0 /\ left' = [left EXCEPT ![e] = @ - 1]
Fails(call) == call \in conf.calls /\ Spend("fails")
Works == UNCHANGED left

(***************************************************************************)
(* The pass: which tasks it works, and what it knows of each               *)
(***************************************************************************)
Cancelled(s) == sup[s].st = "stopped"
At(s, pc) == sup[s].st # "gone" /\ pass[s].pc = pc
Goto(s, pc) == pass' = [pass EXCEPT ![s].pc = pc]
\* The pass is over, or leaves this task to the agent close-out.
EndPass(s) == pass' = [pass EXCEPT ![s] = IdlePass]
Leaves(s) == pass' = [pass EXCEPT ![s] = [@ EXCEPT !.pc = "next", !.t = NoBranch, !.seen = NotSeen]]

Mine(s) == <<s, "pass">>
OfSession(s) == <<s, "sess">>

\* One pass at a time, and only for a project that a running instance drives.
StartCloseOutPass(s) ==
  /\ At(s, "idle") /\ ~Cancelled(s) /\ sup[s].drives
  /\ Goto(s, "policy")
  /\ UNCHANGED <<conf, dial, task, pr, sess, orphan, slot, sup, left, past>>

ReadsPolicy(s) ==
  /\ At(s, "policy")
  /\ \/ Works /\ ~Cancelled(s) /\ dial = "clanker" /\ Goto(s, "queue")
     \/ Works /\ (Cancelled(s) \/ dial # "clanker") /\ EndPass(s)
     \/ Fails("policy") /\ EndPass(s)
  /\ UNCHANGED <<conf, dial, task, pr, sess, orphan, slot, sup, past>>

Approved == {t \in Tasks : task[t].status = "approved"}

ReadsQueue(s) ==
  /\ At(s, "queue")
  /\ \/ Works /\ ~Cancelled(s) /\ pass' = [pass EXCEPT ![s].pc = "next", ![s].todo = Approved]
     \/ Works /\ Cancelled(s) /\ EndPass(s)
     \/ Fails("queue") /\ EndPass(s)
  /\ UNCHANGED <<conf, dial, task, pr, sess, orphan, slot, sup, past>>

\* A checkout of the task's repo, derived or declared, that its origin proves.
CloseOutRepoDir(t) == t \in conf.ready

\* A task whose checkout cannot be located, or with no branch, is left alone.
TakesTask(s) ==
  /\ At(s, "next")
  /\ IF pass[s].todo = {} \/ Cancelled(s) THEN EndPass(s)
     ELSE \E t \in pass[s].todo :
            pass' = [pass EXCEPT ![s].todo = @ \ {t},
                                 ![s].pc = IF CloseOutRepoDir(t) THEN "open" ELSE "next",
                                 ![s].t = IF CloseOutRepoDir(t) THEN t ELSE NoBranch]
  /\ UNCHANGED <<conf, dial, task, pr, sess, orphan, slot, sup, left, past>>

\* config.ResolvePRBase: the operator's entry, else the integration branch when origin
\* has it, else origin's default branch, else the integration branch.
ResolvePRBase(answers) ==
  CASE conf.override # NoBranch -> conf.override
    [] ~answers \/ conf.onOrigin \/ conf.default = NoBranch -> "integration"
    [] OTHER -> conf.default

IsPromotionBranch(b) == b = "main"

\* The answer of the first task is kept for the rest of the pass, a failure included.
ResolvesBase(s) ==
  /\ At(s, "open")
  /\ \E answers \in BOOLEAN :
       LET base == IF pass[s].memo THEN pass[s].base ELSE ResolvePRBase(answers)
       IN /\ IF answers \/ pass[s].memo THEN Works ELSE Fails("probe")
          /\ pass' = [pass EXCEPT ![s].memo = TRUE, ![s].base = base,
                        ![s].pc = IF pr[pass[s].t].open /\ ~Cancelled(s) /\ ~IsPromotionBranch(base)
                                  THEN "judge" ELSE "next",
                        ![s].t = IF pr[pass[s].t].open /\ ~Cancelled(s) /\ ~IsPromotionBranch(base)
                                 THEN @ ELSE NoBranch]
  /\ UNCHANGED <<conf, dial, task, pr, sess, orphan, slot, sup, past>>

PRReady(p) == p.open /\ p.shown /\ p.green
PRConflict(p) == p.open /\ ~p.shown

\* JudgePR, and the base of that read compared with the merge target. A read that
\* names no base is refused like one that fails.
Judges(s) ==
  /\ At(s, "judge")
  /\ LET p == pr[pass[s].t]
         goes == CASE Cancelled(s) \/ p.base # pass[s].base -> "next"
                   [] PRReady(p) -> "claim"
                   [] PRConflict(p) -> "paths"
                   [] OTHER -> "next"
     IN \/ /\ Works
           /\ IF goes = "next" THEN Leaves(s)
              ELSE pass' = [pass EXCEPT ![s].pc = goes, ![s].seen = [head |-> p.head, base |-> p.base]]
        \/ Fails("pr") /\ Leaves(s)
  /\ UNCHANGED <<conf, dial, task, pr, sess, orphan, slot, sup, past>>

(***************************************************************************)
(* The pass: claim, merge, verify, complete                                *)
(***************************************************************************)
\* The plane's claim_task, first wins: an approved task nobody holds, while the dial
\* says that the fleet integrates.
Claimable(t) == task[t].status = "approved" /\ dial = "clanker"
GrantTo(t, run) == task' = [task EXCEPT ![t].status = "in_progress", ![t].by = run]

\* An answer that is lost leaves the task held by a run nobody signs for.
Claims(s) ==
  /\ At(s, "claim")
  /\ LET t == pass[s].t
     IN \/ /\ Works /\ ~Cancelled(s) /\ Claimable(t)
           /\ GrantTo(t, Mine(s)) /\ Goto(s, "merge")
        \/ /\ Works /\ (Cancelled(s) \/ ~Claimable(t))
           /\ Leaves(s) /\ UNCHANGED task
        \/ /\ Fails("claim") /\ Claimable(t)
           /\ GrantTo(t, Lost) /\ Leaves(s)
  /\ UNCHANGED <<conf, dial, pr, sess, orphan, slot, sup, past>>

\* GitHub closes a pull request as merged when its base holds its head.
Lands(t, head, base) ==
  /\ pr' = [pr EXCEPT ![t].open = @ /\ ~(pr[t].head = head /\ pr[t].base = base)]
  /\ past' = [past EXCEPT !.landed = @ \cup {<<t, head, base>>}]
InBase(t, head, base) == \E h \in head .. pr[t].head : <<t, h, base>> \in past.landed
MergesCleanly(t, head) == pr[t].clean \/ head # pr[t].head
ToRelease(s, green) == pass' = [pass EXCEPT ![s].pc = "release", ![s].green = green]

\* Slip: the merge is the pull request's own, which follows it wherever it points.
MergesWhateverIsThere(s) ==
  /\ At(s, "merge")
  /\ LET t == pass[s].t
     IN \/ /\ Works /\ ~Cancelled(s) /\ pr[t].open /\ pr[t].clean
           /\ Lands(t, pr[t].head, pr[t].base) /\ Goto(s, "verify")
        \/ /\ Works /\ (Cancelled(s) \/ ~pr[t].open \/ ~pr[t].clean)
           /\ ToRelease(s, FALSE) /\ UNCHANGED <<pr, past>>
  /\ UNCHANGED <<conf, dial, task, sess, orphan, slot, sup>>

\* The base and the judged head are named in the request. A merge with no new commit,
\* or whose answer is lost, is an error.
MergePR(s) ==
  /\ At(s, "merge")
  /\ LET t == pass[s].t head == pass[s].seen.head base == pass[s].base
         can == ~InBase(t, head, base) /\ MergesCleanly(t, head)
     IN \/ Works /\ ~Cancelled(s) /\ can /\ Lands(t, head, base) /\ Goto(s, "verify")
        \/ Works /\ (Cancelled(s) \/ ~can) /\ ToRelease(s, FALSE) /\ UNCHANGED <<pr, past>>
        \/ Fails("merge") /\ can /\ Lands(t, head, base) /\ ToRelease(s, FALSE)
  /\ UNCHANGED <<conf, dial, task, sess, orphan, slot, sup>>

\* Slip: a merge that cannot be verified hands the claim back.
VerifiesOrReleases(s) ==
  /\ At(s, "verify")
  /\ \/ Works /\ ~Cancelled(s) /\ pass' = [pass EXCEPT ![s].pc = "complete", ![s].green = TRUE]
     \/ Works /\ Cancelled(s) /\ ToRelease(s, TRUE)
     \/ Fails("verify") /\ ToRelease(s, TRUE)
  /\ UNCHANGED <<conf, dial, task, pr, sess, orphan, slot, sup, past>>

\* Whether or not the merge commit is found on the base, the delivery is recorded:
\* pass.green keeps the attestation.
VerifyMerge(s) ==
  /\ At(s, "verify")
  /\ \/ Works /\ pass' = [pass EXCEPT ![s].pc = "complete", ![s].green = ~Cancelled(s)]
     \/ Fails("verify") /\ pass' = [pass EXCEPT ![s].pc = "complete", ![s].green = FALSE]
  /\ UNCHANGED <<conf, dial, task, pr, sess, orphan, slot, sup, past>>

\* Under a context of its own, which a fleet stop does not cancel. The plane takes a
\* write only from the run that holds the task.
CompleteCloseOut(s) ==
  /\ At(s, "complete")
  /\ LET t == pass[s].t
     IN \/ /\ Works /\ task[t].by = Mine(s)
           /\ task' = [task EXCEPT ![t].status = "done", ![t].by = Nobody] /\ Leaves(s)
        \/ /\ Works /\ task[t].by # Mine(s)
           /\ ToRelease(s, TRUE) /\ UNCHANGED task
        \/ /\ Fails("complete")
           /\ ToRelease(s, TRUE) /\ UNCHANGED task
  /\ UNCHANGED <<conf, dial, pr, sess, orphan, slot, sup, past>>

HandedBack(t) == [task EXCEPT ![t].status = "approved", ![t].by = Nobody]

ReleaseCloseOut(s) ==
  /\ At(s, "release")
  /\ LET t == pass[s].t
     IN \/ /\ Works /\ task[t].by = Mine(s)
           /\ task' = HandedBack(t) /\ UNCHANGED past
        \/ /\ Works /\ task[t].by # Mine(s)
           /\ UNCHANGED <<task, past>>
        \/ /\ Fails("release") /\ task[t].by = Mine(s)
           /\ task' = [task EXCEPT ![t].by = Lost]
           /\ past' = [past EXCEPT !.kept = @ \cup {t}]
  /\ Leaves(s)
  /\ UNCHANGED <<conf, dial, pr, sess, orphan, slot, sup>>

(***************************************************************************)
(* The pass: a conflict gets a session                                     *)
(***************************************************************************)
\* The paths are computed from the fetched tips. None at all means that GitHub's read
\* lags: no session. Paths that cannot be read do not hold a session back.
LogCloseOutConflict(s) ==
  /\ At(s, "paths")
  /\ \/ Works /\ ~Cancelled(s) /\ IF pr[pass[s].t].clean THEN Leaves(s) ELSE Goto(s, "slot")
     \/ Fails("paths") /\ Goto(s, "slot")
     \/ Works /\ Cancelled(s) /\ Goto(s, "slot")
  /\ UNCHANGED <<conf, dial, task, pr, sess, orphan, slot, sup, past>>

Busy(s) == sess[s].pc \in {"run", "read"}
\* A daemon's session never runs on Claude, nor on a harness that drops ExtraDirs.
HarnessServes == conf.harness = "opencode"
ConflictAttemptAllowed(s, t) == sup[s].tried[t] < 2

\* flock, without blocking, on one file of the state root.
SlotTaken == slot # NoOne

\* Everything that costs no write is asked before the claim; the lock comes last. It is
\* per open file: this process's own session contends for it like another's.
StartConflictSession(s) ==
  /\ At(s, "slot")
  /\ IF ~Busy(s) /\ HarnessServes /\ ConflictAttemptAllowed(s, pass[s].t) /\ ~SlotTaken
     THEN slot' = s /\ Goto(s, "sclaim")
     ELSE Leaves(s) /\ UNCHANGED slot
  /\ UNCHANGED <<conf, dial, task, pr, sess, orphan, sup, left, past>>

\* Slip: an attempt is not noted.
NoteNoAttempt(s, t) == UNCHANGED sup

NoteConflictAttempt(s, t) == sup' = [sup EXCEPT ![s].tried[t] = @ + 1]
ClaimsForSession(s) ==
  /\ At(s, "sclaim")
  /\ LET t == pass[s].t
     IN \/ /\ Works /\ ~Cancelled(s) /\ Claimable(t)
           /\ GrantTo(t, OfSession(s)) /\ NoteConflictAttempt(s, t)
           /\ sess' = [sess EXCEPT ![s] = [NoSession EXCEPT !.pc = "run", !.t = t]]
           /\ past' = [past EXCEPT !.paid[s][t] = @ + 1]
           /\ UNCHANGED slot
        \/ /\ Works /\ (Cancelled(s) \/ ~Claimable(t))
           /\ slot' = NoOne /\ UNCHANGED <<task, sess, sup, past>>
        \/ /\ Fails("claim") /\ Claimable(t)
           /\ GrantTo(t, Lost) /\ slot' = NoOne /\ UNCHANGED <<sess, sup, past>>
  /\ Leaves(s)
  /\ UNCHANGED <<conf, dial, pr, orphan>>

(***************************************************************************)
(* A conflict session and what is made of it                               *)
(***************************************************************************)
\* x is the session, or the one that outlived its process, and run its claim.
Pushes(x, t) ==
  /\ pr[t].open /\ ~pr[t].clean
  /\ pr' = [pr EXCEPT ![t].head = @ + 1, ![t].clean = TRUE, ![t].green = FALSE]

\* It appends its block to the outcome that is stored, and a behavioural one ends the
\* claim with the status; the plane takes that only from the run that holds the task.
Declares(t, run, mark) ==
  task' = IF task[t].by # run THEN task
          ELSE [task EXCEPT ![t].outcome = Append(@, mark),
                            ![t].status = IF mark = "behavioural" THEN "in_review" ELSE @,
                            ![t].by = IF mark = "behavioural" THEN Nobody ELSE @]

Resolves(s) ==
  /\ sess[s].pc = "run" /\ sess[s].did = "nothing" /\ sup[s].st = "up"
  /\ \E m \in conf.marks :
       /\ sess' = [sess EXCEPT ![s].did = m]
       /\ IF m = "failed" THEN UNCHANGED pr ELSE Pushes(sess[s].t, sess[s].t)
       /\ Declares(sess[s].t, OfSession(s), m)
  /\ UNCHANGED <<conf, dial, pass, orphan, slot, sup, left, past>>

\* The brief has it release the claim itself.
HandsBack(s) ==
  /\ sess[s].pc = "run" /\ sess[s].did # "nothing" /\ sup[s].st = "up"
  /\ task[sess[s].t].by = OfSession(s)
  /\ task' = HandedBack(sess[s].t)
  /\ UNCHANGED <<conf, dial, pr, pass, sess, orphan, slot, sup, left, past>>

\* It ends, whatever it has done: by itself, by its budget or by a fleet stop.
RunConflictSession(s) ==
  /\ sess[s].pc = "run"
  /\ sess' = [sess EXCEPT ![s].pc = "read"]
  /\ UNCHANGED <<conf, dial, task, pr, pass, orphan, slot, sup, left, past>>

\* config.ConflictResolution: the first marker of the outcome.
ConflictResolution(outcome) == IF outcome = <<>> THEN "nothing" ELSE Head(outcome)

AttestsGreen(outcome) == ConflictResolution(outcome) = "mechanical"
ClaimIsOurs(s, t) == task[t].by = OfSession(s)

\* Slip: a task still in progress is taken for one that was handed back.
FinishesByState(s) ==
  /\ sess[s].pc = "read" /\ Works
  /\ sess' = [sess EXCEPT ![s] = [NoSession EXCEPT !.pc = "unlock"]]
  /\ UNCHANGED <<conf, dial, task, pr, pass, orphan, slot, sup, past>>

\* The hand-back made true: a release that is refused or fails leaves the claim to its
\* lease. Without the state it is released all the same, attested green.
FinishConflictSession(s) ==
  /\ sess[s].pc = "read"
  /\ LET t == sess[s].t
         attest(green) == past' = [past EXCEPT !.attested = IF green THEN @ \cup {sess[s].did} ELSE @]
     IN \/ /\ Works /\ ClaimIsOurs(s, t)
           /\ task' = HandedBack(t) /\ attest(AttestsGreen(task[t].outcome))
        \/ /\ Works /\ ~ClaimIsOurs(s, t)
           /\ UNCHANGED <<task, past>>
        \/ /\ Fails("state") /\ ClaimIsOurs(s, t)
           /\ task' = HandedBack(t) /\ attest(TRUE)
        \/ /\ Fails("release") /\ ClaimIsOurs(s, t)
           /\ task' = [task EXCEPT ![t].by = Lost]
           /\ past' = [past EXCEPT !.kept = @ \cup {t}]
  /\ sess' = [sess EXCEPT ![s] = [NoSession EXCEPT !.pc = "unlock"]]
  /\ UNCHANGED <<conf, dial, pr, pass, orphan, slot, sup>>

\* The slot goes last, after the flag and the wait group.
ReleasesSlot(s) ==
  /\ sess[s].pc = "unlock"
  /\ sess' = [sess EXCEPT ![s] = NoSession]
  /\ slot' = NoOne
  /\ UNCHANGED <<conf, dial, task, pr, pass, orphan, sup, left, past>>

\* A session has a process group of its own: it goes on without its supervisor.
OrphanResolves(s) ==
  /\ orphan[s].pc = "run" /\ orphan[s].did = "nothing"
  /\ \E m \in conf.marks :
       /\ orphan' = [orphan EXCEPT ![s].did = m]
       /\ IF m = "failed" THEN UNCHANGED pr ELSE Pushes(orphan[s].t, orphan[s].t)
       /\ Declares(orphan[s].t, <<s, "orphan">>, m)
  /\ UNCHANGED <<conf, dial, pass, sess, slot, sup, left, past>>
OrphanEnds(s) ==
  /\ orphan[s].pc = "run"
  /\ orphan' = [orphan EXCEPT ![s] = NoSession]
  /\ task' = [t \in Tasks |->
                IF task[t].by # <<s, "orphan">> THEN task[t]
                ELSE IF orphan[s].did = "nothing" THEN [task[t] EXCEPT !.by = Lost]
                     ELSE [task[t] EXCEPT !.status = "approved", !.by = Nobody]]
  /\ UNCHANGED <<conf, dial, pr, pass, sess, slot, sup, left, past>>

(***************************************************************************)
(* The supervisor's life                                                   *)
(***************************************************************************)
\* A fleet stop cancels what runs and gives both goroutines a bounded wait.
Stops(s) ==
  /\ sup[s].st = "up" /\ Spend("stops")
  /\ sup' = [sup EXCEPT ![s].st = "stopped"]
  /\ UNCHANGED <<conf, dial, task, pr, pass, sess, orphan, slot, past>>
WaitCloseOut(s) ==
  /\ sup[s].st = "stopped" /\ pass[s].pc = "idle" /\ sess[s].pc = "none"
  /\ sup' = [sup EXCEPT ![s].st = "gone"]
  /\ UNCHANGED <<conf, dial, task, pr, pass, sess, orphan, slot, left, past>>

\* An operator stops the project, or asks for it again.
Drives(s) ==
  /\ Spend("stops") /\ sup' = [sup EXCEPT ![s].drives = ~@]
  /\ UNCHANGED <<conf, dial, task, pr, pass, sess, orphan, slot, past>>

\* The kernel frees the lock. What the process held on the plane is nobody's.
Crash(s) ==
  /\ sup[s].st # "gone" /\ orphan[s] = NoSession /\ Spend("crashes")
  /\ sup' = [sup EXCEPT ![s] = [st |-> "gone", drives |-> TRUE, tried |-> [t \in Tasks |-> 0]]]
  /\ pass' = [pass EXCEPT ![s] = IdlePass]
  /\ orphan' = [orphan EXCEPT ![s] = IF sess[s].pc = "run" THEN sess[s] ELSE NoSession]
  /\ sess' = [sess EXCEPT ![s] = NoSession]
  /\ slot' = IF slot = s THEN NoOne ELSE slot
  /\ task' = [t \in Tasks |->
                [task[t] EXCEPT !.by = CASE @ = Mine(s) -> Lost
                                         [] @ = OfSession(s) /\ sess[s].pc = "run" -> <<s, "orphan">>
                                         [] @ = OfSession(s) /\ sess[s].pc # "run" -> Lost
                                         [] OTHER -> @]]
  /\ past' = [past EXCEPT !.kept = @ \cup {t \in Tasks : task[t].by = Mine(s) \/ task[t].by = OfSession(s)},
                          !.paid[s] = [t \in Tasks |-> 0]]
  /\ UNCHANGED <<conf, dial, pr>>
Restarts(s) ==
  /\ sup[s].st = "gone" /\ left["crashes"] < conf.crashes
  /\ sup' = [sup EXCEPT ![s] = [st |-> "up", drives |-> TRUE, tried |-> [t \in Tasks |-> 0]]]
  /\ past' = [past EXCEPT !.paid[s] = [t \in Tasks |-> 0]]
  /\ UNCHANGED <<conf, dial, task, pr, pass, sess, orphan, slot, left>>

(***************************************************************************)
(* Authors, agents, GitHub and the plane                                   *)
(***************************************************************************)
AuthorPushes(t) ==
  /\ pr[t].open /\ Spend("pushes")
  /\ \E clean \in BOOLEAN : pr' = [pr EXCEPT ![t].head = @ + 1, ![t].green = FALSE, ![t].clean = clean]
  /\ UNCHANGED <<conf, dial, task, pass, sess, orphan, slot, sup, past>>
Retargets(t) ==
  /\ pr[t].open /\ Spend("retargets")
  /\ \E b \in Branches : pr' = [pr EXCEPT ![t].base = b]
  /\ UNCHANGED <<conf, dial, task, pass, sess, orphan, slot, sup, past>>
\* Another delivery lands on the base, and this one now conflicts with it.
BaseMoves(t) ==
  /\ pr[t].open /\ pr[t].clean /\ Spend("moves")
  /\ pr' = [pr EXCEPT ![t].clean = FALSE]
  /\ UNCHANGED <<conf, dial, task, pass, sess, orphan, slot, sup, past>>
ChecksPass(t) ==
  /\ pr[t].open /\ ~pr[t].green
  /\ pr' = [pr EXCEPT ![t].green = TRUE]
  /\ past' = [past EXCEPT !.greens = @ \cup {<<t, pr[t].head>>}]
  /\ UNCHANGED <<conf, dial, task, pass, sess, orphan, slot, sup, left>>
GitHubLooksAgain(t) ==
  /\ pr[t].shown # pr[t].clean
  /\ pr' = [pr EXCEPT ![t].shown = pr[t].clean]
  /\ UNCHANGED <<conf, dial, task, pass, sess, orphan, slot, sup, left, past>>

TurnsDial ==
  /\ Spend("dials") /\ dial' = IF dial = "clanker" THEN "human" ELSE "clanker"
  /\ UNCHANGED <<conf, task, pr, pass, sess, orphan, slot, sup, past>>

AgentClaims(t) ==
  /\ Claimable(t) /\ Spend("agents") /\ GrantTo(t, Agent)
  /\ UNCHANGED <<conf, dial, pr, pass, sess, orphan, slot, sup, past>>
AgentDelivers(t) ==
  /\ task[t].by = Agent /\ pr[t].open /\ pr[t].clean /\ pr[t].green
  /\ pr' = [pr EXCEPT ![t].open = FALSE]
  /\ task' = [task EXCEPT ![t].status = "done", ![t].by = Nobody]
  /\ past' = [past EXCEPT !.landed = @ \cup {<<t, pr[t].head, pr[t].base>>}]
  /\ UNCHANGED <<conf, dial, pass, sess, orphan, slot, sup, left>>
AgentReleases(t) ==
  /\ task[t].by = Agent /\ task' = HandedBack(t)
  /\ UNCHANGED <<conf, dial, pr, pass, sess, orphan, slot, sup, left, past>>

\* A session may outlive a lease; a pass, bounded to minutes per task, does not.
LeaseExpires(t) ==
  /\ \/ task[t].by = Lost /\ UNCHANGED left
     \/ task[t].by \in Sups \X {"sess", "orphan"} /\ Spend("lapses")
  /\ task' = HandedBack(t)
  /\ UNCHANGED <<conf, dial, pr, pass, sess, orphan, slot, sup, past>>

PassSteps(s) ==
  \/ ReadsPolicy(s) \/ ReadsQueue(s) \/ TakesTask(s) \/ ResolvesBase(s) \/ Judges(s)
  \/ Claims(s) \/ MergePR(s) \/ VerifyMerge(s) \/ CompleteCloseOut(s) \/ ReleaseCloseOut(s)
  \/ LogCloseOutConflict(s) \/ StartConflictSession(s) \/ ClaimsForSession(s)
SessionEnds(s) == RunConflictSession(s) \/ FinishConflictSession(s) \/ ReleasesSlot(s)

Next ==
  \/ \E s \in Sups :
       \/ StartCloseOutPass(s) \/ PassSteps(s) \/ SessionEnds(s)
       \/ Resolves(s) \/ HandsBack(s) \/ OrphanResolves(s) \/ OrphanEnds(s)
       \/ Stops(s) \/ WaitCloseOut(s) \/ Drives(s) \/ Crash(s) \/ Restarts(s)
  \/ \E t \in Tasks :
       \/ AuthorPushes(t) \/ Retargets(t) \/ BaseMoves(t) \/ ChecksPass(t) \/ GitHubLooksAgain(t)
       \/ AgentClaims(t) \/ AgentDelivers(t) \/ AgentReleases(t) \/ LeaseExpires(t)
  \/ TurnsDial

Spec == Init /\ [][Next]_vars

\* The poll starts passes again and again, and every call is bounded, so a pass and a
\* session end; a service manager starts a dead supervisor again; checks finish,
\* GitHub catches up, agents finish, leases expire.
Fairness ==
  /\ \A s \in Sups :
       /\ WF_vars(StartCloseOutPass(s)) /\ WF_vars(PassSteps(s)) /\ WF_vars(SessionEnds(s))
       /\ SF_vars(Resolves(s)) /\ WF_vars(OrphanEnds(s)) /\ WF_vars(Restarts(s))
  /\ \A t \in Tasks :
       /\ WF_vars(ChecksPass(t)) /\ WF_vars(GitHubLooksAgain(t))
       /\ WF_vars(AgentReleases(t)) /\ WF_vars(LeaseExpires(t))

FairSpec == Spec /\ Fairness

(***************************************************************************)
(* Properties                                                              *)
(***************************************************************************)
\* What the pass puts on a branch passed its checks, and the branch is the merge target
\* and no release line, however the pull request is pushed to or retargeted between the
\* judgement and the merge (closeout.go:417, prclose.go:183). Merges by agents are theirs.
LandsWhatItJudged ==
  \A s \in Sups, l \in past'.landed \ past.landed :
       pass[s].pc = "merge" /\ pass'[s].pc # "merge" =>
         <<l[1], l[2]>> \in past.greens /\ l[3] = pass[s].base /\ l[3] # "main"
JudgedLands == [][LandsWhatItJudged]_vars

\* A merge is made by the run that holds the task: of an agent and two supervisors at
\* the same pull request one integrates (closeout.go:390 "Claim BEFORE merging").
MergesOnItsClaim ==
  \A s \in Sups : pass[s].pc = "merge" /\ past'.landed # past.landed /\ pass'[s].pc # "merge"
       => task[pass[s].t].by = Mine(s)
ClaimBeforeMerge == [][MergesOnItsClaim]_vars

\* A claim of the pass or of its session is worked by that goroutine, or its release
\* failed or its process died: no task is left held by one that went on
\* (closeout.go:398 "every failure has to hand it back").
ClaimsAreWorked ==
  \A s \in Sups, t \in Tasks :
    /\ task[t].by = Mine(s) => pass[s].t = t /\ pass[s].pc \in {"merge", "verify", "complete", "release"}
    /\ task[t].by = OfSession(s) => sess[s].t = t /\ sess[s].pc \in {"run", "read"}

\* A task that is done was delivered, and unless its process died none is handed back
\* with its pull request gone: neither path would find it again (closeout.go:46, 429).
NotStranded ==
  \A t \in Tasks :
    /\ task[t].status = "done" => \E l \in past.landed : l[1] = t
    /\ task[t].status = "approved" /\ t \notin past.kept => pr[t].open

\* One session runs on the state root, whatever supervisors share it
\* (conflictlock.go:5 "One conflict session may run at a time").
OneSession ==
  Cardinality({x \in Sups \X {"sess", "orphan"} :
                 (IF x[2] = "sess" THEN sess ELSE orphan)[x[1]].pc = "run"}) <= 1

\* The lock is held by whoever starts or runs a session, and by nobody for longer: no
\* path leaves it taken (conflictlock.go:20, conflict.go:132).
SlotIsUsed ==
  \A s \in Sups : slot = s <=> sess[s].pc # "none" \/ pass[s].pc = "sclaim"

\* No task costs a supervisor's lifetime more than two sessions (conflict.go:71).
AttemptsBounded == \A s \in Sups, t \in Tasks : past.paid[s][t] <= 2

\* Green is attested for a session that resolved its conflict mechanically, and for no
\* other (conflict.go:343 "attests green ONLY for a mechanical resolution").
GreenMeansResolved == past.attested \subseteq {"mechanical"}

\* An approved task whose pull request is clean and targets the merge target is closed,
\* however GitHub lags, reads fail, agents take it and hand it back, and processes die,
\* but for the one that dies between its merge and its completion.
Deliverable(t) ==
  /\ t \in conf.ready /\ pr[t].clean /\ pr[t].base = "integration" /\ dial = "clanker"
  /\ t \in past.kept => pr[t].open \/ task[t].status = "done"
Closed(t) == task[t].status \in {"done", "in_review"}
CleanIsClosed == \A t \in Tasks : <>[]Deliverable(t) => <>Closed(t)

=============================================================================
