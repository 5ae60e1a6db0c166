---------------------------- MODULE ClaudeStream ----------------------------
(***************************************************************************)
(* One claude session: the child that writes its events into a pipe, the   *)
(* adapter that reads them as they arrive and kills the session when it    *)
(* crosses its token ceiling or repeats one failing call, and what Invoke  *)
(* returns once the child is gone.                                         *)
(***************************************************************************)
EXTENDS Integers, Sequences, FiniteSets

CONSTANTS Configs   \* the events, how many, the pipe, the ceiling, the guard, the exits, a descendant's hold

ConfigOK(c) == /\ c.length \in Nat /\ c.pipe \in Nat \ {0} /\ c.ceiling \in Nat /\ c.max \in Nat
               /\ c.exits \subseteq Nat /\ c.cancels \in BOOLEAN
               /\ c.holds \subseteq {"nothing", "stderr"}
ConfigsAssumption == \A c \in Configs : ConfigOK(c)

VARIABLES
  conf,      \* the member of Configs this behaviour is about
  pc,        \* the adapter: reading, draining, waiting, returned
  child,     \* running, exited, killed; how it exited; what a descendant holds
  sent,      \* every event the child wrote
  pipe,      \* those not read yet
  read,      \* those parsed
  p,         \* the Result: tokens, buckets, what was reported, the final event, the markers
  guard,     \* the repeated-failure guard and the names of the calls in flight
  killing,   \* the session's context is cancelled
  answer     \* what Invoke returned

vars == <<conf, pc, child, sent, pipe, read, p, guard, killing, answer>>

NoUsage == [fresh |-> 0, cached |-> 0]
total(u) == u.fresh + u.cached
Plus(u, v) == [fresh |-> u.fresh + v.fresh, cached |-> u.cached + v.cached]

Init ==
  /\ conf \in Configs
  /\ pc = "reading" /\ sent = <<>> /\ pipe = <<>> /\ read = <<>> /\ killing = FALSE
  /\ \E h \in conf.holds : child = [state |-> "running", code |-> 0, holds |-> h]
  /\ p = [tokens |-> 0, usage |-> NoUsage, reported |-> FALSE, cost |-> FALSE, got |-> FALSE,
          ceiling |-> FALSE, loop |-> FALSE, untrusted |-> FALSE]
  /\ guard = [tool |-> "", err |-> "", count |-> 0, names |-> {}]
  /\ answer = [error |-> FALSE, exit |-> 0]

----------------------------------------------------------------------------
(* The child.                                                              *)

\* A call is made once, and answered once.
Said(kind, id) == \E i \in 1 .. Len(sent) : sent[i].kind = kind /\ sent[i].id = id
InOrder(e) == /\ e.kind = "call" => ~Said("call", e.id)
              /\ e.kind = "returned" => Said("call", e.id) /\ ~Said("returned", e.id)
Writes(e) ==
  /\ InOrder(e)
  /\ child.state = "running" /\ Len(sent) < conf.length /\ Len(pipe) < conf.pipe
  /\ sent' = Append(sent, e) /\ pipe' = Append(pipe, e)
  /\ UNCHANGED <<conf, pc, child, read, p, guard, killing, answer>>
Ends(code) ==
  /\ child.state = "running"
  /\ child' = [child EXCEPT !.state = "exited", !.code = code]
  /\ UNCHANGED <<conf, pc, sent, pipe, read, p, guard, killing, answer>>
\* The kill reaches its process group.
Dies ==
  /\ child.state = "running" /\ killing
  /\ child' = [child EXCEPT !.state = "killed"]
  /\ UNCHANGED <<conf, pc, sent, pipe, read, p, guard, killing, answer>>
\* The operator stops the daemon.
Cancel ==
  /\ conf.cancels /\ pc /= "returned" /\ ~killing
  /\ killing' = TRUE
  /\ UNCHANGED <<conf, pc, child, sent, pipe, read, p, guard, answer>>

----------------------------------------------------------------------------
(* The reader.                                                             *)

\* A turn's own usage is added; one of zero is a report, and none is not.
NoteTurn(r, e) == IF ~e.reports THEN r
                  ELSE [r EXCEPT !.reported = TRUE, !.tokens = @ + total(e.usage), !.usage = Plus(@, e.usage)]

\* The session's own total replaces the sum.
NoteFinal(r, e) == [r EXCEPT !.reported = TRUE, !.tokens = total(e.usage), !.usage = e.usage,
                             !.cost = @ \/ e.cost, !.got = TRUE, !.ceiling = FALSE]
renderAndParse(r, e) == CASE e.kind = "turn" -> NoteTurn(r, e)
                          [] e.kind = "final" -> NoteFinal(r, e)
                          [] OTHER -> r

\* A call's name is remembered until its result comes.
NameOf(g, e) == IF \E n \in g.names : n.id = e.id THEN (CHOOSE n \in g.names : n.id = e.id).tool ELSE ""
observe(g, e) ==
  CASE e.kind = "call" /\ conf.max > 0 -> [g EXCEPT !.names = @ \cup {[id |-> e.id, tool |-> e.tool]}]
    [] e.kind = "returned" /\ conf.max > 0 ->
         LET tool == NameOf(g, e)
             count == IF g.count > 0 /\ g.tool = tool /\ g.err = e.err THEN g.count + 1 ELSE 1 IN
         [names |-> {n \in g.names : n.id /= e.id},
          tool |-> IF e.err = "" THEN "" ELSE tool, err |-> e.err, count |-> IF e.err = "" THEN 0 ELSE count]
    [] OTHER -> g
Tripped(g) == conf.max > 0 /\ g.count >= conf.max

\* A session that has said its total is over: there is nothing left to stop.
Crossed(r) == conf.ceiling > 0 /\ ~r.got /\ r.tokens > conf.ceiling
\* The verdict is the end of the stream: what is still in the pipe came after it.
AfterKill == "waiting"

\* Slip: the reader stops, the session does not.
KillNot == killing

Kill == TRUE
\* The end of the stream: the child is gone and all of it is read.
Drained == pipe = <<>> /\ child.state /= "running"

Reads ==
  /\ pc = "reading" /\ pipe /= <<>>
  /\ LET e == Head(pipe)
         r == renderAndParse(p, e)
         g == observe(guard, e) IN
     /\ e.kind /= "huge"
     /\ read' = Append(read, e) /\ guard' = g
     /\ \/ ~Crossed(r) /\ ~Tripped(g) /\ p' = r /\ UNCHANGED <<pc, killing>>
        \/ Crossed(r) /\ p' = [r EXCEPT !.ceiling = TRUE] /\ pc' = AfterKill /\ killing' = Kill
        \/ ~Crossed(r) /\ Tripped(g) /\ p' = [r EXCEPT !.loop = TRUE] /\ pc' = AfterKill /\ killing' = Kill
  /\ pipe' = Tail(pipe)
  /\ UNCHANGED <<conf, child, sent, answer>>

\* A line the scanner cannot hold: the framing is lost with it.
Untrusts == TRUE
Overruns ==
  /\ pc = "reading" /\ pipe /= <<>> /\ Head(pipe).kind = "huge"
  /\ p' = [p EXCEPT !.untrusted = Untrusts]
  /\ pc' = "draining" /\ pipe' = Tail(pipe)
  /\ UNCHANGED <<conf, child, sent, read, guard, killing, answer>>
\* The rest is read and thrown away, so that the child ends on its own terms.
Discards ==
  /\ pc = "draining" /\ pipe /= <<>>
  /\ pipe' = <<>>
  /\ UNCHANGED <<conf, pc, child, sent, read, p, guard, killing, answer>>
StreamEnds ==
  /\ pc \in {"reading", "draining"} /\ Drained
  /\ pc' = "waiting"
  /\ UNCHANGED <<conf, child, sent, pipe, read, p, guard, killing, answer>>

\* What Wait says of a clean exit: that a cancellation was on its way, or that a
\* descendant held a stream too long.
WaitErrs == {"none"} \cup (IF killing THEN {"canceled"} ELSE {}) \cup (IF child.holds = "stderr" THEN {"delay"} ELSE {})

\* The adapter ended the session itself: the exit is the kill's.
Judged == p.ceiling \/ p.loop
Returns ==
  /\ pc = "waiting" /\ child.state /= "running"
  /\ \/ /\ child.state = "killed" /\ answer' = [error |-> FALSE, exit |-> -1]
     \/ /\ child.state = "exited" /\ child.code /= 0 /\ answer' = [error |-> FALSE, exit |-> child.code]
     \/ /\ child.state = "exited" /\ child.code = 0
        /\ \E w \in WaitErrs : answer' =
             CASE w = "none" -> [error |-> FALSE, exit |-> 0]
               [] w /= "none" /\ ~Judged -> [error |-> TRUE, exit |-> 0]
               [] OTHER -> [error |-> FALSE, exit |-> -1]
  /\ pc' = "returned"
  /\ UNCHANGED <<conf, child, sent, pipe, read, p, guard, killing>>

Next == (\E e \in conf.events : Writes(e)) \/ (\E code \in conf.exits : Ends(code)) \/ Dies \/ Cancel
        \/ Reads \/ Overruns \/ Discards \/ StreamEnds \/ Returns

\* The reader runs until the stream ends; a kill reaches the process group. Nothing makes
\* a session end that is not killed.
Spec == /\ Init /\ [][Next]_vars
        /\ WF_vars(Reads) /\ WF_vars(Overruns) /\ WF_vars(Discards) /\ WF_vars(StreamEnds) /\ WF_vars(Returns)
        /\ WF_vars(Dies)

TypeOK ==
  /\ pc \in {"reading", "draining", "waiting", "returned"} /\ child.state \in {"running", "exited", "killed"}
  /\ Len(pipe) <= conf.pipe /\ Len(sent) <= conf.length /\ Len(read) + Len(pipe) <= Len(sent)
  /\ p.tokens \in Nat /\ guard.count \in 0 .. conf.max /\ answer.error \in BOOLEAN

----------------------------------------------------------------------------
(* Properties.                                                             *)

\* The buckets add up to the figure the budget is charged, however the session ended
\* (harness.go:563-570).
TokensAreTheBuckets == p.tokens = total(p.usage)

\* A session that has not finished never spends on past its ceiling: the turn that
\* crosses it is the last one read (claude.go:217-223).
SpendIsStopped == pc \in {"reading", "draining"} /\ ~p.got /\ conf.ceiling > 0 => p.tokens <= conf.ceiling

\* A finished session is not killed for the total it reports, whatever that is
\* (claude.go:254-256).
FinishedIsNotKilled == p.ceiling => ~p.got

\* The kill's marker is the verdict: nothing read later takes it back, and the death it
\* caused is not reported as a failure to run (claude.go:204-207, 260-264).
VerdictStays == (p.ceiling => p'.ceiling) /\ (p.loop => p'.loop)
VerdictStands == [][VerdictStays]_vars
KillIsNoFailure == pc = "returned" /\ (p.ceiling \/ p.loop) => ~answer.error

\* What the child said and the parser did not see is said to be missing
\* (claude.go:226-244).
UnreadIsSaid == pc = "returned" /\ Len(read) < Len(sent) => p.untrusted \/ p.ceiling \/ p.loop

\* The same tool failed the same way every time, whatever calls were in flight
\* (toolloop.go:12-34).
LoopIsOneCall == p.loop =>
  LET called(i) == {c.tool : c \in {read[j] : j \in {k \in 1 .. i : read[k].kind = "call" /\ read[k].id = read[i].id}}}
      results == {i \in 1 .. Len(read) : read[i].kind = "returned"}
      last == {i \in results : Cardinality({j \in results : j > i}) < conf.max} IN
  /\ Cardinality(last) = conf.max
  /\ \A i \in last, j \in last : read[i].err /= "" /\ read[i].err = read[j].err /\ called(i) = called(j)

\* A session that was judged ends, and Invoke returns (claude.go:114-127).
KillIsDue == p.ceiling \/ p.loop \/ (killing /\ pc /= "returned")
KilledReturns == KillIsDue ~> pc = "returned"

\* A session that ended on its own with nothing wrong is a clean end, although a
\* descendant still held one of its streams; opencode's adapter calls the error it was
\* given there no failure (opencode.go:505-512).
CleanEndIsNoError == pc = "returned" /\ child.state = "exited" /\ child.code = 0 /\ ~killing => ~answer.error
=============================================================================
