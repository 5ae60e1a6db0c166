------------------------------ MODULE Delivery ------------------------------
(***************************************************************************)
(* The delivery check: after a session ends, the driver looks up what the  *)
(* session told the plane it delivered. It finds the repository among the  *)
(* checkouts below the workdir, compares the recorded branch with origin,  *)
(* the declared commit with origin's integration branch, polls the named   *)
(* pull request, and writes the verdict on the merge to the plane.         *)
(*                                                                         *)
(* Every command it runs may fail or be cut off by the deadline of the     *)
(* check, while authors push, merge and amend and CI registers and ends.   *)
(***************************************************************************)
EXTENDS Integers, Sequences, FiniteSets, SequencesExt

CONSTANT Configs   \* the layouts, claims and faults looked at, see ConfigsAssumption

\* A small history: w2 follows w1, "merge" contains w2, "squash" and "other" do not.
Commits == {"base", "w1", "w2", "other", "merge", "squash"}
Past(c) == CASE c = "base" -> {"base"} [] c = "w1" -> {"base", "w1"}
             [] c = "w2" -> {"base", "w1", "w2"} [] c = "other" -> {"base", "other"}
             [] c = "merge" -> {"base", "w1", "w2", "other", "merge"}
             [] c = "squash" -> {"base", "other", "squash"}
None == "none"
Tips == Commits \cup {None}
Checks == {"build", "lint"}
CheckStates == {"absent", "pending", "green", "red", "neutral"}
Calls == {"repoAt", "remoteURL", "revParse", "lsRemote", "haveObject", "fetch", "isAncestor", "gh", "garbled", "attest"}
Events == {"fails", "pushes", "merges", "commits", "ci"}
Outcomes == {"none", "pass", "fail", "unknown", "warn"}

\* The directories at and below the workdir in listing order, each with the directory
\* above it and the checkout git answers with there; what each clone holds; the claim;
\* whose reads the active account and gh's tokens can serve; which calls may fail.
ConfigsAssumption ==
  \A c \in Configs :
    /\ \A i \in DOMAIN c.dirs : c.dirs[i].up \in 0 .. (i - 1) /\ (c.dirs[i].up = 0) = (i = 1)
    /\ \A i \in DOMAIN c.dirs : c.dirs[i].clone \in DOMAIN c.clones \cup {None}
    /\ \A k \in DOMAIN c.clones : c.clones[k].tip \in Tips /\ c.clones[k].has \subseteq Commits
    /\ c.commit \in Commits \cup {None, "HEAD"} /\ c.branch \in BOOLEAN
    /\ c.pr \in {None, "42", "my-branch"}
    /\ c.tools \subseteq {"git", "gh"} /\ c.unchecked \in BOOLEAN /\ c.expires \in BOOLEAN
    /\ c.onto \subseteq Tips /\ c.calls \subseteq Calls /\ c.budget \in Nat
    /\ \A e \in Events : c[e] \in Nat

VARIABLES
  conf,     \* the member of Configs this behaviour is about
  clone,    \* per clone: the local tip of the recorded branch, the commits it has
  origin,   \* per project: the branch and the integration branch on its remote
  pr,       \* per project: the pull request as GitHub would show it
  ver,      \* the check: where it is, what it has read, what it has said
  over,     \* whether the deadline of the check has passed
  record,   \* mergeVerified on the task's delivery record
  left,     \* how often each bounded event may still happen
  past      \* what was true at some moment of the check, and what it was not answered

vars == <<conf, clone, origin, pr, ver, over, record, left, past>>
world == <<clone, origin, pr>>

PCs == {"start", "walk", "branch", "tip", "ls", "have", "fetch", "haveAgain", "judge",
        "merge", "pr", "poll", "wait", "attest", "done"}

TypeOK ==
  /\ conf \in Configs
  /\ \A k \in DOMAIN clone : clone[k].tip \in Tips /\ clone[k].has \subseteq Commits
  /\ \A s \in DOMAIN origin : origin[s].branch \in Tips /\ origin[s].main \in Tips
  /\ \A s \in DOMAIN pr : pr[s].exists \in BOOLEAN /\ pr[s].dirty \in BOOLEAN
                            /\ pr[s].mergeable \in {"MERGEABLE", "CONFLICTING", "UNKNOWN"}
                            /\ pr[s].checks \in [Checks -> CheckStates]
  /\ ver.pc \in PCs /\ ver.kind \in {"branch", "merge"}
  /\ \A k \in {"branch", "merge", "pr"} : ver.out[k] \in Outcomes
  /\ ver.sha \in [{"branch", "merge"} -> Tips] /\ ver.tip \in Tips /\ ver.spent \in Nat
  /\ over \in BOOLEAN /\ record \in {"none", "true", "false"}
  /\ left \in [Events -> Nat]
  /\ past.missed \subseteq DOMAIN clone /\ past.unanswered \subseteq {"branch", "merge"}

----------------------------------------------------------------------------
(* The search for checkouts.                                               *)

MaxDepth == 2
MaxEntries == 2   \* 128 in the code

\* git answers with the nearest enclosing checkout; a bare repository is none.
InRepo(blind, i) == conf.dirs[i].clone /= None /\ i \notin blind
AtRoot(blind, i) == InRepo(blind, i) /\ conf.dirs[i].root

Depth[i \in Nat] == IF conf.dirs[i].up = 0 THEN 0 ELSE 1 + Depth[conf.dirs[i].up]
Listed(i) == {j \in DOMAIN conf.dirs : conf.dirs[j].up = conf.dirs[i].up /\ ~conf.dirs[j].hidden /\ j <= i}

\* A checkout is never descended into, a dot directory never entered.
Visited(blind) ==
  LET seen[i \in DOMAIN conf.dirs] ==
        LET u == conf.dirs[i].up
        IN  \/ u = 0
            \/ /\ seen[u] /\ ~AtRoot(blind, u) /\ Depth[u] < MaxDepth
               /\ ~conf.dirs[i].hidden /\ Cardinality(Listed(i)) <= MaxEntries
  IN  {i \in DOMAIN conf.dirs : seen[i]}

\* One working tree per repository; a worktree shares its repository's refs.
candidateRepos(blind) ==
  LET ok(i) == i \in Visited(blind) /\ InRepo(blind, i) /\ (AtRoot(blind, i) \/ Depth[i] = 0)
      first(i) == ok(i) /\ \A j \in 1 .. (i - 1) : ok(j) => conf.dirs[j].clone /= conf.dirs[i].clone
  IN  [n \in 1 .. Cardinality({i \in DOMAIN conf.dirs : first(i)}) |->
         conf.dirs[CHOOSE i \in DOMAIN conf.dirs :
                     first(i) /\ Cardinality({j \in 1 .. i : first(j)}) = n].clone]

slug(k) == conf.clones[k].slug

\* The checkouts whose remote names the claim's repository; every one when none does. One
\* that does not tell its remote (deaf) is passed over.
resolveRepoByURL(repos, deaf) ==
  LET matched == SelectSeq(repos, LAMBDA k : k \notin deaf /\ slug(k) = ver.repo)
  IN  IF ver.repo = None \/ matched = <<>> THEN repos ELSE matched
----------------------------------------------------------------------------
(* What a command answers.                                                 *)

\* Whether the call goes through: never once the deadline has passed.
Goes(call) ==
  IF over THEN {FALSE}
  ELSE {TRUE} \cup (IF call \in conf.calls /\ left.fails > 0 THEN {FALSE} ELSE {})
\* Of a call made in each of several checkouts, those where it may fail.
Losable(call, ks) ==
  IF over THEN {ks}
  ELSE {lost \in SUBSET ks : Cardinality(lost) <= (IF call \in conf.calls THEN left.fails ELSE 0)}
Spend(ok) == left' = IF ok \/ over THEN left ELSE [left EXCEPT !.fails = @ - 1]
SpendBoth(lost, more) == left' = IF over THEN left ELSE [left EXCEPT !.fails = @ - Cardinality(lost) - Cardinality(more)]
SpendAll(lost) == SpendBoth(lost, {})

\* Whose account reads the remote: the owner's when gh has a token for it, else the
\* active one. An ssh remote is read by git with the machine's key.
ScopeEnv(s) == s \in conf.tokens

Readable(s, tool) == s \in conf.sees \/ ScopeEnv(s) \/ (tool = "git" /\ s \in conf.ssh)
haveObject(k, c) == c \in clone[k].has

\* Slip: the arguments of merge-base are swapped.
isDescendant(a, b) == b \in Past(a)

isAncestor(a, b) == a \in Past(b)

\* Hex digits, which name one object; "HEAD" and a branch are revisions.
isCommitID(c) == c \in Commits
----------------------------------------------------------------------------
(* The verdict on one read of the pull request.                            *)

Red(v) == \E c \in Checks : v.checks[c] = "red"
Running(v) == \E c \in Checks : v.checks[c] = "pending"
Empty(v) == \A c \in Checks : v.checks[c] = "absent"

judgePR(v) ==
  CASE v.mergeable = "CONFLICTING" \/ v.dirty -> "conflict"
    [] v.mergeable = "UNKNOWN" /\ ~v.dirty -> "mergeableUnknown"
    [] v.mergeable = "MERGEABLE" /\ ~v.dirty ->
         CASE Red(v) -> "failed" [] ~Red(v) /\ Running(v) -> "pending"
           [] Empty(v) -> "noChecks" [] OTHER -> "pass"
settlePR(j) ==
  IF j = "pass" THEN "pass" ELSE IF j = "noChecks" /\ conf.unchecked THEN "warn" ELSE "fail"
----------------------------------------------------------------------------
NotYet == [branch |-> "none", merge |-> "none", pr |-> "none"]

Init ==
  /\ conf \in Configs
  /\ clone = [k \in DOMAIN conf.clones |-> [tip |-> conf.clones[k].tip, has |-> conf.clones[k].has]]
  /\ origin = conf.origin
  /\ pr = [s \in DOMAIN conf.origin |->
             [exists |-> s \in conf.prs, mergeable |-> "UNKNOWN", dirty |-> FALSE,
              checks |-> [c \in Checks |-> "absent"]]]
  /\ ver = [pc |-> "start", kind |-> "branch", repos |-> <<>>, at |-> None, in |-> None, repo |-> None,
            sha |-> [k \in {"branch", "merge"} |-> None], tip |-> None, spent |-> 0, out |-> NotYet,
            why |-> "none"]
  /\ over = FALSE /\ record = "none"
  /\ left = [e \in Events |-> conf[e]]
  /\ past = [branch |-> [s \in DOMAIN conf.origin |-> {conf.origin[s].branch}],
             main |-> [s \in DOMAIN conf.origin |-> {conf.origin[s].main}],
             green |-> [s \in DOMAIN conf.origin |-> FALSE],
             missed |-> {}, unanswered |-> {}]

Say(kind, o, pc) == ver' = [ver EXCEPT !.out[kind] = o, !.pc = pc]

AfterBranch == "merge"   \* the claims are resolved independently
After(kind) == IF kind = "branch" THEN AfterBranch ELSE "pr"
Same == UNCHANGED <<conf, world, over, record, past>>

\* verifyDeliveries: the claim's repository is the one of the task's row, the
\* session's when the row cannot be read, this target's primary one when neither says.
claimRepo(read) ==
  IF read /\ conf.row /= None THEN conf.row ELSE IF conf.declared /= None THEN conf.declared
  ELSE IF read THEN conf.primary ELSE None

Start ==
  /\ ver.pc = "start"
  /\ \E read \in BOOLEAN : ver' = [ver EXCEPT !.pc = "walk", !.repo = claimRepo(read)]
  /\ UNCHANGED left /\ Same

\* One search for the three claims. A directory git cannot be asked about is none.
Walk ==
  /\ ver.pc = "walk"
  /\ \E blind \in Losable("repoAt", DOMAIN conf.dirs) :
       /\ SpendAll(blind)
       /\ LET repos == IF "git" \in conf.tools THEN candidateRepos(blind) ELSE <<>>
          IN  ver' = IF repos = <<>>
                     THEN [ver EXCEPT !.pc = "attest",
                             !.out = [branch |-> IF conf.branch THEN "unknown" ELSE "none",
                                      merge |-> IF conf.commit /= None THEN "unknown" ELSE "none",
                                      pr |-> IF conf.pr /= None THEN "unknown" ELSE "none"]]
                     ELSE [ver EXCEPT !.repos = repos, !.pc = IF conf.branch THEN "branch" ELSE "merge"]
  /\ Same

\* branchCheck: exactly one candidate must carry the branch. The remotes are read only for
\* a claim that names its repository; a candidate whose branch cannot be read has none.
\* (A deadline among these reads fails all that follow, checkBranch's too: no verdict.)
branchCheck ==
  /\ ver.pc = "branch"
  /\ \E deaf \in Losable("remoteURL", IF ver.repo = None THEN {} ELSE ToSet(ver.repos)) :
       LET found == SelectSeq(resolveRepoByURL(ver.repos, deaf), LAMBDA k : clone[k].tip /= None)
       IN  \E lost \in Losable("revParse", ToSet(found)) :
             LET seen == SelectSeq(found, LAMBDA k : k \notin lost)
             IN  /\ over \/ Cardinality(deaf) + Cardinality(lost) <= left.fails
                 /\ SpendBoth(deaf, lost) /\ past' = [past EXCEPT !.missed = deaf \cup lost]
                 /\ IF Len(seen) = 1
                    THEN ver' = [ver EXCEPT !.at = seen[1], !.in = seen[1], !.kind = "branch", !.pc = "tip"]
                    ELSE Say("branch", "unknown", AfterBranch)
  /\ UNCHANGED <<conf, world, over, record>>
\* checkBranch reads the local tip first.
checkBranch ==
  /\ ver.pc = "tip"
  /\ \E ok \in Goes("revParse") :
       /\ IF ok /\ clone[ver.at].tip /= None
          THEN ver' = [ver EXCEPT !.sha.branch = clone[ver.at].tip, !.pc = "ls"]
          ELSE Say("branch", "unknown", AfterBranch)
       /\ Spend(ok)
  /\ Same

\* mergeCheck: the first candidate that answers for the declared commit.
mergeCheck ==
  /\ ver.pc = "merge"
  /\ \/ conf.commit = None /\ ver' = [ver EXCEPT !.pc = "pr"] /\ UNCHANGED left
     \/ conf.commit /= None /\ ~isCommitID(conf.commit) /\ Say("merge", "unknown", "pr") /\ UNCHANGED left
     \/ /\ isCommitID(conf.commit)
        /\ LET held == SelectSeq(ver.repos, LAMBDA k : haveObject(k, conf.commit))
           IN  \E lost \in Losable("revParse", ToSet(held)) :
                 LET seen == SelectSeq(held, LAMBDA k : k \notin lost)
                 IN  /\ SpendAll(lost)
                     /\ IF seen = <<>> THEN Say("merge", "unknown", "pr")
                        ELSE ver' = [ver EXCEPT !.at = seen[1], !.in = IF @ = None THEN seen[1] ELSE @,
                                                !.kind = "merge", !.pc = "ls", !.sha.merge = conf.commit]
  /\ Same

Ref(s) == IF ver.kind = "branch" THEN origin[s].branch ELSE origin[s].main

\* ls-remote: the remote decides, never a local ref. An absent branch is not pushed; an
\* absent integration branch settles nothing.
lsRemote ==
  /\ ver.pc = "ls"
  /\ \E ok \in Goes("lsRemote") :
       LET s == slug(ver.at)
           tip == Ref(s)
       IN  /\ Spend(ok)
           /\ IF ~ok \/ ~Readable(s, "git") THEN Say(ver.kind, "unknown", After(ver.kind))
              ELSE IF tip = None
              THEN Say(ver.kind, IF ver.kind = "branch" THEN "fail" ELSE "unknown", After(ver.kind))
              ELSE IF ver.kind = "branch" /\ tip = ver.sha.branch THEN Say("branch", "pass", After("branch"))
              ELSE ver' = [ver EXCEPT !.tip = tip, !.pc = "have"]
  /\ Same

Have ==
  /\ ver.pc = "have"
  /\ \E ok \in Goes("haveObject") :
       /\ Spend(ok)
       /\ ver' = [ver EXCEPT !.pc = IF ok /\ haveObject(ver.at, ver.tip) THEN "haveAgain" ELSE "fetch"]
  /\ Same

\* The fetch brings what the branch is by now, which may not be the tip that was read.
fetch ==
  /\ ver.pc = "fetch"
  /\ \E ok \in Goes("fetch") :
       /\ Spend(ok)
       /\ clone' = IF ok /\ Readable(slug(ver.at), "git") /\ Ref(slug(ver.at)) /= None
                   THEN [clone EXCEPT ![ver.at].has = @ \cup Past(Ref(slug(ver.at)))] ELSE clone
       /\ ver' = [ver EXCEPT !.pc = "haveAgain"]
  /\ UNCHANGED <<conf, origin, pr, over, record, past>>

HaveAgain ==
  /\ ver.pc = "haveAgain"
  /\ \E ok \in Goes("haveObject") :
       /\ Spend(ok)
       /\ IF ok /\ haveObject(ver.at, ver.tip) THEN ver' = [ver EXCEPT !.pc = "judge"]
          ELSE Say(ver.kind, "unknown", After(ver.kind))
  /\ Same
\* merge-base --is-ancestor: any failure reads as "no".
Judge ==
  /\ ver.pc = "judge"
  /\ \E ok \in Goes("isAncestor") :
       /\ Spend(ok)
       /\ Say(ver.kind, IF ok /\ haveObject(ver.at, ver.tip) /\ isAncestor(ver.sha[ver.kind], ver.tip)
                        THEN "pass" ELSE "fail", After(ver.kind))
       /\ past' = [past EXCEPT !.unanswered = @ \cup (IF ok THEN {} ELSE {ver.kind})]
  /\ UNCHANGED <<conf, world, over, record>>

\* prCheck: the checkout the git checks settled on, else the first on github.com.
prCheck ==
  /\ ver.pc = "pr"
  /\ LET hub == SelectSeq(ver.repos, LAMBDA k : slug(k) \in conf.hub)
         k == IF ver.in /= None THEN ver.in ELSE IF hub /= <<>> /\ ~over THEN hub[1] ELSE None
     IN  IF conf.pr = None THEN ver' = [ver EXCEPT !.pc = "attest"]
         ELSE IF conf.pr /= "42" \/ "gh" \notin conf.tools \/ k = None \/ over THEN Say("pr", "unknown", "attest")
         ELSE IF slug(k) \notin conf.hub THEN Say("pr", "unknown", "attest")
         ELSE ver' = [ver EXCEPT !.in = k, !.pc = "poll"]
  /\ UNCHANGED left /\ Same

Waiting == {"mergeableUnknown", "noChecks", "pending"}

closed(spent) == spent >= conf.budget \/ over
\* pollPR: one read. Not found, as gh words it, is a refusal; so is unreadable output.
pollPR ==
  /\ ver.pc = "poll"
  /\ \E ok \in Goes("gh"), plain \in Goes("garbled") :
       LET s == slug(ver.in)
           v == judgePR(pr[s])
       IN  /\ left' = IF over \/ (ok /\ plain) THEN left ELSE [left EXCEPT !.fails = @ - 1]
           /\ CASE ~ok -> Say("pr", "unknown", "attest")
                [] ok /\ (~pr[s].exists \/ ~Readable(s, "gh")) ->
                     ver' = [ver EXCEPT !.out.pr = "fail", !.why = "notFound", !.pc = "attest"]
                [] ok /\ pr[s].exists /\ Readable(s, "gh") /\ ~plain ->
                     ver' = [ver EXCEPT !.out.pr = "fail", !.why = "garbled", !.pc = "attest"]
                [] OTHER -> ver' = IF v \in Waiting /\ ~closed(ver.spent)
                                   THEN [ver EXCEPT !.pc = "wait"]
                                   ELSE [ver EXCEPT !.out.pr = settlePR(v), !.why = v, !.pc = "attest"]
  /\ Same

\* The interval between two reads; the deadline cuts it short.
Wait ==
  /\ ver.pc = "wait"
  /\ IF over THEN Say("pr", "unknown", "attest")
     ELSE ver' = [ver EXCEPT !.spent = IF @ < conf.budget THEN @ + 1 ELSE @, !.pc = "poll"]
  /\ UNCHANGED left /\ Same

MergeVerified == ver.out.merge \in {"pass", "fail"}
\* attestMerge: only a check that ran is written; the write is best effort.
attestMerge ==
  /\ ver.pc = "attest"
  /\ \E ok \in BOOLEAN :
       /\ ~ok => FALSE \in Goes("attest") /\ left.fails > 0
       /\ left' = IF ok THEN left ELSE [left EXCEPT !.fails = @ - 1]
       /\ record' = IF ~ok \/ ~MergeVerified THEN record
                    ELSE IF ver.out.merge = "pass" THEN "true" ELSE "false"
  /\ ver' = [ver EXCEPT !.pc = "done"]
  /\ UNCHANGED <<conf, world, over, past>>

Step == \/ Start \/ Walk \/ branchCheck \/ checkBranch \/ mergeCheck \/ lsRemote \/ Have \/ fetch
        \/ HaveAgain \/ Judge \/ prCheck \/ pollPR \/ Wait \/ attestMerge

----------------------------------------------------------------------------
(* Everybody else.                                                         *)

Checking == ver.pc /= "done"
Take(e) == left[e] > 0 /\ left' = [left EXCEPT ![e] = @ - 1]
Green(v) == v.exists /\ v.mergeable = "MERGEABLE" /\ ~v.dirty /\ ~Red(v) /\ ~Running(v) /\ ~Empty(v)
Watch == past' = [past EXCEPT !.branch = [s \in DOMAIN origin |-> @[s] \cup {origin'[s].branch}],
                              !.main = [s \in DOMAIN origin |-> @[s] \cup {origin'[s].main}],
                              !.green = [s \in DOMAIN origin |-> @[s] \/ Green(pr'[s])]]

\* A push, forced or not, or a deletion; GitHub forgets what it knew of the pull request.
Push(s, c) ==
  /\ Checking /\ Take("pushes") /\ c \in conf.onto \ {origin[s].branch}
  /\ origin' = [origin EXCEPT ![s].branch = c]
  /\ pr' = [pr EXCEPT ![s].mergeable = "UNKNOWN", ![s].dirty = FALSE, ![s].checks = [k \in Checks |-> "absent"]]
  /\ Watch /\ UNCHANGED <<conf, clone, ver, over, record>>

\* The integration branch moves, rewound too.
Merge(s, c) ==
  /\ Checking /\ Take("merges") /\ c \in conf.onto \ {origin[s].main}
  /\ origin' = [origin EXCEPT ![s].main = c]
  /\ UNCHANGED <<conf, clone, pr, ver, over, record>> /\ Watch

\* A commit in, or the deletion of, the local branch.
Commit(k, c) ==
  /\ Checking /\ Take("commits") /\ c /= clone[k].tip
  /\ clone' = [clone EXCEPT ![k] = [tip |-> c, has |-> IF c = None THEN @.has ELSE @.has \cup Past(c)]]
  /\ UNCHANGED <<conf, origin, pr, ver, over, record, past>>

GitHub(s) ==
  /\ Checking /\ Take("ci") /\ pr[s].exists
  /\ \/ \E m \in {"MERGEABLE", "CONFLICTING"} :
          pr[s].mergeable = "UNKNOWN" /\ pr' = [pr EXCEPT ![s].mergeable = m]
     \/ ~pr[s].dirty /\ pr[s].mergeable = "UNKNOWN" /\ pr' = [pr EXCEPT ![s].dirty = TRUE]
     \/ \E c \in Checks : pr[s].checks[c] = "absent" /\ pr' = [pr EXCEPT ![s].checks[c] = "pending"]
     \/ \E c \in Checks, e \in {"green", "red", "neutral"} :
          pr[s].checks[c] = "pending" /\ pr' = [pr EXCEPT ![s].checks[c] = e]
  /\ past' = [past EXCEPT !.green[s] = @ \/ Green(pr'[s])]
  /\ UNCHANGED <<conf, clone, origin, ver, over, record>>

Expire ==
  /\ Checking /\ conf.expires /\ ~over /\ over' = TRUE
  /\ UNCHANGED <<conf, world, ver, record, left, past>>

Next == \/ Step \/ Expire
        \/ \E s \in DOMAIN origin : \/ GitHub(s)
                                    \/ \E c \in Tips : Push(s, c)
                                    \/ \E c \in Tips : Merge(s, c)
        \/ \E k \in DOMAIN clone, c \in {None, "w2"} : Commit(k, c)

\* Every command is bounded by the deadline of the check and by WaitDelay after it.
Fairness == WF_vars(Step)
Spec == Init /\ [][Next]_vars
FairSpec == Spec /\ Fairness

----------------------------------------------------------------------------
(* Properties.                                                             *)

Said(kind) == ver.out[kind]
Holds(c, t) == t /= None /\ c \in Past(t)

\* A branch reported pushed was: at some moment of the check origin's branch contained
\* the local tip the check had read, however origin and the clone moved meanwhile
\* (delivery.go:23 "never 'verified'").
PassMeansPushed ==
  Said("branch") = "pass" => \E t \in past.branch[slug(ver.in)] : Holds(ver.sha.branch, t)

\* A branch reported unpushed was: origin's branch lacked that tip at some moment of the
\* check. A tip that was not fetched is no evidence (delivery.go:449). The one exemption is
\* a merge-base that did not answer, which the code reads as "no".
FailMeansNotPushed ==
  Said("branch") = "fail" /\ "branch" \notin past.unanswered =>
    \E t \in past.branch[slug(ver.in)] : ~Holds(ver.sha.branch, t)

\* mergeVerified = true on the record: the declared commit is a commit, and origin's
\* integration branch contained it at some moment of the check (delivery.go:354-359).
RecordTrueMeansMerged ==
  record = "true" => ver.at /= None /\ \E t \in past.main[slug(ver.at)] : Holds(conf.commit, t)

\* mergeVerified = false: the integration branch lacked it at some moment of the check, or
\* merge-base did not answer.
RecordFalseMeansNotMerged ==
  record = "false" /\ "merge" \notin past.unanswered =>
    ver.at /= None /\ \E t \in past.main[slug(ver.at)] : ~Holds(conf.commit, t)

\* Nothing is attested off a check that could not run (loop.go:6677-6681): a merge-base
\* that did not answer is no verdict, on a branch or on a merge.
VerdictsAreAnswered ==
  \A kind \in past.unanswered : Said(kind) /= "fail" /\ (kind = "merge" => record /= "false")

\* Two clones that both carry the branch are not told apart: neither is judged
\* (delivery.go:316-320), of those that answered for themselves.
Twin(k) ==
  /\ conf.clones[k].tip /= None /\ clone[k].tip /= None /\ left.commits = conf.commits
  /\ slug(k) = slug(ver.in) /\ k /= ver.in
AmbiguityIsReported ==
  Said("branch") \in {"pass", "fail"} => ~ \E k \in ToSet(ver.repos) \ past.missed : Twin(k)

\* "Ambiguity is reported, not guessed at" (delivery.go:319-320), whatever git could not
\* be asked about.
AmbiguityIsNotGuessed ==
  Said("branch") \in {"pass", "fail"} => ~ \E k \in ToSet(candidateRepos({})) : Twin(k)

\* A claim that names its repository has its branch judged there, when a checkout of it
\* was found that answered for itself.
BranchIsTheClaims ==
  Said("branch") \in {"pass", "fail"} /\ ver.repo \in {slug(k) : k \in ToSet(ver.repos) \ past.missed} =>
    slug(ver.in) = ver.repo

\* Or whenever one was found: "it resolves ambiguity when the same branch exists in multiple
\* repos" (delivery.go:104).
BranchIsNoOthers ==
  Said("branch") \in {"pass", "fail"} /\ ver.repo \in {slug(k) : k \in ToSet(ver.repos)} =>
    slug(ver.in) = ver.repo

\* So is its pull request: a number belongs to a repository (prcheck.go:546-549).
PRIsTheClaims ==
  Said("pr") \in {"pass", "fail"} /\ ver.repo \in {slug(k) : k \in ToSet(ver.repos)} =>
    slug(ver.in) = ver.repo

\* One unresolvable claim does not cost the other: with every call going through and
\* origin's integration branch at rest, a commit some checkout holds is judged, the
\* branch deleted or not (delivery.go:284-290).
ClaimsAreIndependent ==
  /\ ver.pc = "done" /\ left.fails = conf.fails /\ left.merges = conf.merges /\ ~over
  /\ \A s \in DOMAIN origin : origin[s].main /= None /\ Readable(s, "git")
  /\ \E k \in ToSet(ver.repos) : conf.commit \in conf.clones[k].has
  => Said("merge") \in {"pass", "fail"}

\* A pull request reported good was: at some moment of the check GitHub had it mergeable
\* with checks that ran, ended and did not fail. Silence is no pass (prcheck.go:26-32).
PRPassIsEarned == Said("pr") = "pass" => past.green[slug(ver.in)]

\* A delivery is refused for a pull request that does not exist only when it does not,
\* whichever account is active (prcheck.go:499-501).
NotFoundMeansAbsent == ver.why = "notFound" => ~pr[slug(ver.in)].exists

\* What is undecided is refused only once the window has closed (prcheck.go:625-628).
RefusedOnceSpent == ver.why \in Waiting /\ ~over => ver.spent >= conf.budget

\* The check ends, whatever CI and GitHub do (prcheck.go:36-40).
CheckEnds == <>(ver.pc = "done")

=============================================================================
