--------------------------- MODULE OpenCodeProofs ---------------------------
(***************************************************************************)
(* One call of the opencode adapter keeps its accounts, for any routes,    *)
(* budget, rounds and ends of its runs.  The invariant has a part for each *)
(* concern: what the log and the Result say was spent, the time that is    *)
(* left, the routes that were left, the rounds, the limit that was         *)
(* abandoned, and the claim.  Each is inductive beside the types alone.    *)
(***************************************************************************)
EXTENDS OpenCode, TLAPS, WellFoundedInduction

-----------------------------------------------------------------------------
(* Sum, the recursive function the model counts tokens with.  A set of     *)
(* numbers has a least member: what fails for some number fails for a      *)
(* least one, which stands in for induction.                               *)

LEMMA LeastMember ==
  ASSUME NEW T, T \subseteq Nat, T # {}
  PROVE  \E x \in T : \A y \in T : x <= y
<1> DEFINE Less == {p \in Nat \X Nat : p[1] < p[2]}
<1>1. IsWellFoundedOn(Less, Nat)
  BY NatLessThanWellFounded DEF OpToRel
<1> HIDE DEF Less
<1>2. PICK x \in T : \A y \in T : ~ (<<y, x>> \in Less)
  BY <1>1, WFMin
<1>3. ASSUME NEW y \in T, y < x PROVE <<y, x>> \in Less
  <2>1. <<y, x>> \in Nat \X Nat /\ <<y, x>>[1] = y /\ <<y, x>>[2] = x
    OBVIOUS
  <2> QED BY <2>1, <1>3 DEF Less
<1>4. x \in Nat /\ \A y \in T : y \in Nat /\ ~ (y < x)
  BY <1>2, <1>3
<1> QED BY <1>2, <1>4

Partial(s, n, g) ==
  g \in [0 .. n -> Nat] /\ \A i \in 0 .. n : g[i] = IF i = 0 THEN 0 ELSE s[i] + g[i - 1]

LEMMA PartialsExist ==
  ASSUME NEW s \in Seq(Nat)
  PROVE  \A n \in 0 .. Len(s) : \E g : Partial(s, n, g)
<1> DEFINE Bad == {n \in 0 .. Len(s) : ~ \E g : Partial(s, n, g)}
<1>1. SUFFICES ASSUME Bad # {} PROVE FALSE
  OBVIOUS
<1>2. PICK n \in Bad : \A k \in Bad : n <= k
  <2>1. Bad \subseteq Nat
    OBVIOUS
  <2> HIDE DEF Bad
  <2> QED BY <2>1, <1>1, LeastMember
<1>3. n \in 0 .. Len(s) /\ \A g : ~ Partial(s, n, g)
  BY <1>2
<1>4. n # 0
  <2>1. Partial(s, 0, [i \in 0 .. 0 |-> 0])
    BY DEF Partial
  <2> QED BY <1>3, <2>1
<1>5. n - 1 \in 0 .. Len(s) /\ n - 1 \notin Bad
  BY <1>2, <1>3, <1>4
<1>6. PICK g : Partial(s, n - 1, g)
  BY <1>5
<1>7. Partial(s, n, [i \in 0 .. n |-> IF i < n THEN g[i] ELSE s[n] + g[n - 1]])
  <2> DEFINE h == [i \in 0 .. n |-> IF i < n THEN g[i] ELSE s[n] + g[n - 1]]
  <2>1. s[n] \in Nat /\ g[n - 1] \in Nat
    BY <1>3, <1>4, <1>6 DEF Partial
  <2>2. h \in [0 .. n -> Nat]
    BY <2>1, <1>3, <1>6 DEF Partial
  <2>3. ASSUME NEW i \in 0 .. n PROVE h[i] = IF i = 0 THEN 0 ELSE s[i] + h[i - 1]
    BY <1>3, <1>4, <1>6 DEF Partial
  <2> QED BY <2>2, <2>3 DEF Partial
<1> QED BY <1>3, <1>7

LEMMA SumUnfolds ==
  ASSUME NEW s \in Seq(Nat)
  PROVE  \E f : Partial(s, Len(s), f) /\ Sum(s) = f[Len(s)]
<1> DEFINE IsSum(f) == f = [i \in 0 .. Len(s) |-> IF i = 0 THEN 0 ELSE s[i] + f[i - 1]]
<1>1. Len(s) \in Nat
  OBVIOUS
<1>2. PICK g : Partial(s, Len(s), g)
  BY <1>1, PartialsExist
<1>3. IsSum(g)
  BY <1>2 DEF Partial
<1>4. IsSum(CHOOSE f : IsSum(f))
  BY <1>3
<1> DEFINE f0 == CHOOSE f : IsSum(f)
<1>5. Sum(s) = f0[Len(s)]
  BY DEF Sum
<1>6. f0 = [i \in 0 .. Len(s) |-> IF i = 0 THEN 0 ELSE s[i] + f0[i - 1]]
  BY <1>4
<1> HIDE DEF f0
<1>7. \A i \in 0 .. Len(s) : f0[i] = g[i]
  <2> DEFINE Apart == {i \in 0 .. Len(s) : f0[i] # g[i]}
  <2>1. SUFFICES ASSUME Apart # {} PROVE FALSE
    OBVIOUS
  <2>2. PICK n \in Apart : \A k \in Apart : n <= k
    <3>1. Apart \subseteq Nat
      BY <1>1
    <3> HIDE DEF Apart
    <3> QED BY <2>1, <3>1, LeastMember
  <2>3. n \in 0 .. Len(s) /\ f0[n] # g[n]
    BY <2>2
  <2>4. n # 0
    BY <2>3, <1>2, <1>6 DEF Partial
  <2>5. n - 1 \in 0 .. Len(s) /\ n - 1 \notin Apart
    BY <2>2, <2>3, <2>4
  <2>6. f0[n - 1] = g[n - 1]
    BY <2>5
  <2>7. f0[n] = s[n] + f0[n - 1] /\ g[n] = s[n] + g[n - 1]
    BY <2>3, <2>4, <1>2, <1>6 DEF Partial
  <2> QED BY <2>3, <2>6, <2>7
<1>8. Sum(s) = g[Len(s)]
  BY <1>1, <1>5, <1>7
<1> QED BY <1>2, <1>8

LEMMA SumIsTyped == ASSUME NEW s \in Seq(Nat) PROVE Sum(s) \in Nat
BY SumUnfolds DEF Partial

LEMMA SumOfNothing == Sum(<<>>) = 0
<1>0. <<>> \in Seq(Nat)
  OBVIOUS
<1>1. PICK f : Partial(<<>>, Len(<<>>), f) /\ Sum(<<>>) = f[Len(<<>>)]
  BY <1>0, SumUnfolds
<1> QED BY <1>1 DEF Partial

\* The sum of a longer log is the sum of what was there and of what came.
LEMMA SumOfTwoMore ==
  ASSUME NEW s \in Seq(Nat), NEW a \in Nat, NEW b \in Nat
  PROVE  Sum(s \o <<a, b>>) = Sum(s) + a + b
<1> DEFINE t == s \o <<a, b>>
<1>1. /\ t \in Seq(Nat) /\ Len(t) = Len(s) + 2 /\ Len(s) \in Nat
      /\ \A i \in 1 .. Len(s) : t[i] = s[i]
      /\ t[Len(s) + 1] = a /\ t[Len(s) + 2] = b
  OBVIOUS
<1>2. PICK f : Partial(s, Len(s), f) /\ Sum(s) = f[Len(s)]
  BY SumUnfolds
<1> HIDE DEF t
<1>3. PICK g : Partial(t, Len(t), g) /\ Sum(t) = g[Len(t)]
  BY <1>1, SumUnfolds
<1>4. \A i \in 0 .. Len(s) : f[i] = g[i]
  <2> DEFINE Apart == {i \in 0 .. Len(s) : f[i] # g[i]}
  <2>1. SUFFICES ASSUME Apart # {} PROVE FALSE
    OBVIOUS
  <2>2. PICK n \in Apart : \A k \in Apart : n <= k
    <3>1. Apart \subseteq Nat
      BY <1>1
    <3> HIDE DEF Apart
    <3> QED BY <2>1, <3>1, LeastMember
  <2>3. n \in 0 .. Len(s) /\ f[n] # g[n]
    BY <2>2
  <2>4. n # 0
    BY <2>3, <1>1, <1>2, <1>3 DEF Partial
  <2>5. n - 1 \in 0 .. Len(s) /\ n - 1 \notin Apart
    <3>1. n \in Nat /\ n - 1 \in Nat /\ n - 1 \in 0 .. Len(s) /\ ~(n <= n - 1)
      BY <2>3, <2>4, <1>1
    <3> HIDE DEF Apart
    <3> QED BY <2>2, <3>1
  <2>6. f[n - 1] = g[n - 1]
    BY <2>5
  <2>7. f[n] = s[n] + f[n - 1] /\ g[n] = t[n] + g[n - 1] /\ t[n] = s[n]
    BY <2>3, <2>4, <1>1, <1>2, <1>3 DEF Partial
  <2> QED BY <2>3, <2>6, <2>7
<1>5. f[Len(s)] \in Nat /\ f[Len(s)] = g[Len(s)]
  BY <1>1, <1>2, <1>4 DEF Partial
<1> DEFINE n == Len(s)
<1>a. n \in Nat /\ Len(t) = n + 2 /\ t[n + 1] = a /\ t[n + 2] = b
  BY <1>1
<1>b. g \in [0 .. Len(t) -> Nat] /\ \A i \in 0 .. Len(t) : g[i] = IF i = 0 THEN 0 ELSE t[i] + g[i - 1]
  BY <1>3 DEF Partial
<1> HIDE DEF n
<1>6. g[n + 1] = a + g[n]
  <2>1. n + 1 \in 0 .. Len(t) /\ n + 1 # 0 /\ (n + 1) - 1 = n
    BY <1>a
  <2> QED BY <2>1, <1>a, <1>b
<1>7. g[n + 2] = b + g[n + 1]
  <2>1. n + 2 \in 0 .. Len(t) /\ n + 2 # 0 /\ (n + 2) - 1 = n + 1
    BY <1>a
  <2> QED BY <2>1, <1>a, <1>b
<1> QED BY <1>1, <1>2, <1>3, <1>5, <1>6, <1>7 DEF t, n

-----------------------------------------------------------------------------
(* Types.  TypeOK says of the Result and of the run in flight what the     *)
(* properties need; a step needs to know that they are records.            *)

Claims == [task : {"none", "A", "B"}, settled : BOOLEAN]
Results == [term : Terms, loop : BOOLEAN, untrusted : BOOLEAN, sid : BOOLEAN, claim : Claims,
            stderr : BOOLEAN, event : BOOLEAN, tokens : Nat]
Runs == [stage : Stages, route : Nat, since : Nat \ {0}, budget : Int,
         end : Ends \cup {"none", "running", "capped"}]

Typed ==
  /\ conf \in Configs
  /\ pc \in Gates \cup Stages \cup {"done"}
  /\ clock \in Nat /\ cancelled \in BOOLEAN /\ log \in Seq(Nat)
  /\ run \in Runs /\ res \in Results
  /\ next \in Nat /\ current \in Nat /\ falls \in Seq(Nat) /\ attempt \in Nat /\ failed \in BOOLEAN
  /\ task \in {"free", "held", "settled"} /\ other \in BOOLEAN /\ memory \in BOOLEAN
  /\ looped \in BOOLEAN /\ missed \in Nat
  /\ seen \in {"nothing", "held", "settled"}
  /\ counts \in [work : Nat, probes : Nat, quiet : Nat]

\* The configuration of a behaviour is one ConfigsAssumption admits.
LEMMA ConfIsTyped == ASSUME ConfigsAssumption, conf \in Configs PROVE ConfigOK(conf)
BY DEF ConfigsAssumption

LEMMA TurnIsTyped ==
  ASSUME NEW end \in Ends
  PROVE  /\ ~HasTurn(end) => Turn(end) = <<>>
         /\ HasTurn(end) => \E b \in {0, 1} : Turn(end) = <<1, b>>
         /\ Turn(end) \in Seq(Nat)
         /\ Sum(Turn(end)) - Streamed(Turn(end)) \in Nat
         /\ Streamed(Turn(end)) \in Nat
<1>1. CASE ~HasTurn(end)
  BY <1>1, SumOfNothing DEF Turn, Streamed
<1>2. CASE HasTurn(end)
  <2>1. PICK b \in {0, 1} : Turn(end) = <<1, b>>
    BY <1>2 DEF Turn
  <2>2. <<1, b>> = <<>> \o <<1, b>> /\ <<>> \in Seq(Nat) /\ <<1, b>> \in Seq(Nat)
    OBVIOUS
  <2>3. Sum(<<1, b>>) = 1 + b
    <3>1. Sum(<<>> \o <<1, b>>) = Sum(<<>>) + 1 + b
      <4>1. <<>> \in Seq(Nat) /\ 1 \in Nat /\ b \in Nat
        BY <2>2
      <4> QED BY <4>1, SumOfTwoMore
    <3> QED BY <3>1, <2>2, SumOfNothing
  <2>4. Streamed(<<1, b>>) = 1
    BY DEF Streamed
  <2> QED BY <1>2, <2>1, <2>2, <2>3, <2>4
<1> QED BY <1>1, <1>2

\* What the run that is named leaves behind, whatever its Result is used for.
LEMMA RunEndsIsTyped ==
  ASSUME Typed, NEW stage \in Stages, NEW end \in Ends, NEW effect \in Effects, NEW capped \in BOOLEAN,
         NEW untrusted \in BOOLEAN, NEW exported \in BOOLEAN, NEW took \in Nat,
         RunEnds(stage, end, effect, capped, untrusted, exported, took)
  PROVE  /\ conf' \in Configs /\ conf' = conf /\ cancelled' = cancelled /\ cancelled' \in BOOLEAN
         /\ log' \in Seq(Nat) /\ log' = log \o Turn(end)
         /\ clock' \in Nat /\ clock' = clock + Lasts(took)
         /\ task' \in {"free", "held", "settled"} /\ other' \in BOOLEAN /\ looped' \in BOOLEAN
         /\ missed' \in Nat /\ seen' \in {"nothing", "held", "settled"}
         /\ run' = [run EXCEPT !.end = IF capped THEN "capped" ELSE end] /\ run' \in Runs
<1>1. log' \in Seq(Nat) /\ log' = log \o Turn(end)
  BY TurnIsTyped DEF RunEnds, Typed
<1>2. clock' \in Nat /\ clock' = clock + Lasts(took)
  <2>1. Lasts(took) \in Nat
    <3>1. CappedAt(took) => run.budget > 0
      BY DEF CappedAt
    <3> QED BY <3>1 DEF Lasts, Typed, Runs
  <2> QED BY <2>1 DEF RunEnds, Typed
<1>3. task' \in {"free", "held", "settled"} /\ other' \in BOOLEAN
  BY DEF RunEnds, Does, Typed
<1>4. looped' \in BOOLEAN
  BY DEF RunEnds, Typed
<1>5. missed' \in Nat
  <2>1. /\ missed \in Nat /\ Sum(Turn(end)) - Streamed(Turn(end)) \in Nat /\ Title \in Nat
        /\ missed' = missed + (IF ~HasTurn(end) THEN 0
                               ELSE IF exported /\ ~Errs(end) THEN 0
                               ELSE Sum(Turn(end)) - Streamed(Turn(end)) + (IF stage = "first" THEN Title ELSE 0))
    BY TurnIsTyped DEF RunEnds, Typed, Title
  <2> QED BY <2>1
<1>6. seen' \in {"nothing", "held", "settled"}
  BY DEF RunEnds, SeenBy, Typed
<1>7. run' = [run EXCEPT !.end = IF capped THEN "capped" ELSE end] /\ run' \in Runs
  BY DEF RunEnds, Runs, Typed
<1> QED BY <1>1, <1>2, <1>3, <1>4, <1>5, <1>6, <1>7 DEF RunEnds, Typed

LEMMA GivesIsTyped ==
  ASSUME Typed, NEW stage \in Stages, NEW end \in Ends, NEW effect \in Effects, NEW capped \in BOOLEAN,
         NEW untrusted \in BOOLEAN, NEW exported \in BOOLEAN, NEW all \in Seq(Nat)
  PROVE  Gives(stage, end, effect, capped, untrusted, exported, all) \in Results
<1>1. Term(end, capped) \in Terms
  BY DEF Term, Terms
<1>2. /\ (Loops(end) /\ ~capped) \in BOOLEAN /\ HasTurn(end) \in BOOLEAN /\ Warns(end) \in BOOLEAN
      /\ (end = "limit" /\ ~capped) \in BOOLEAN
  BY DEF Loops, HasTurn, Warns
<1>3. Observed(stage, effect, untrusted) \in Claims
  BY DEF Observed, Seed, HeldClaim, NoClaim, Claims, Typed, Results
<1>4. Share(all) \in Nat
  <2>1. SubSeq(all, run.since, Len(all)) \in Seq(Nat)
    <3>1. run.since \in Nat \ {0} /\ Len(all) \in Nat
      BY DEF Typed, Runs
    <3>2. \A i \in run.since .. Len(all) : i \in 1 .. Len(all)
      BY <3>1
    <3> QED BY <3>1, <3>2
  <2>2. Sum(SubSeq(all, run.since, Len(all))) \in Nat
    BY <2>1, SumIsTyped
  <2> QED BY <2>2 DEF Share, Title
<1>5. Streamed(Turn(end)) \in Nat
  BY TurnIsTyped
<1> QED BY <1>1, <1>2, <1>3, <1>4, <1>5 DEF Gives, Results

\* The ways a Result is folded into another.
LEMMA FoldsAreTyped ==
  ASSUME NEW r \in Results, NEW add \in Results
  PROVE  /\ ChargeOnly(r, add) \in Results
         /\ FoldClaim(r, add) \in Results /\ FoldSame(r, add) \in Results
         /\ MergeResume(r, add) \in Results /\ MergeRouteSwitch(r, add) \in Results
<1>1. ChargeOnly(r, add) \in Results
  BY DEF ChargeOnly, Results
<1>2. FoldClaim(r, add) \in Results
  BY DEF FoldClaim, Results
<1>3. FoldSame(r, add) \in Results
  BY <1>2 DEF FoldSame
<1>4. MergeResume(r, add) \in Results
  <2> DEFINE c == FoldClaim(r, add)
  <2>1. /\ c \in Results /\ c.tokens + add.tokens \in Nat /\ add.term \in Terms
        /\ (c.loop \/ add.loop) \in BOOLEAN /\ (c.untrusted \/ add.untrusted) \in BOOLEAN
        /\ (c.sid \/ add.sid) \in BOOLEAN /\ (c.stderr \/ add.stderr) \in BOOLEAN
        /\ (IF add.sid THEN add.event ELSE c.event) \in BOOLEAN
    BY <1>2 DEF Results
  <2>2. MergeResume(r, add) =
          [c EXCEPT !.tokens = c.tokens + add.tokens, !.term = add.term, !.loop = c.loop \/ add.loop,
                    !.untrusted = c.untrusted \/ add.untrusted, !.sid = c.sid \/ add.sid,
                    !.stderr = c.stderr \/ add.stderr, !.event = IF add.sid THEN add.event ELSE c.event]
    BY DEF MergeResume
  <2> DEFINE tokens == c.tokens + add.tokens
             loop == c.loop \/ add.loop
             untrusted == c.untrusted \/ add.untrusted
             sid == c.sid \/ add.sid
             stderr == c.stderr \/ add.stderr
             event == IF add.sid THEN add.event ELSE c.event
  <2>3. /\ tokens \in Nat /\ loop \in BOOLEAN /\ untrusted \in BOOLEAN /\ sid \in BOOLEAN
        /\ stderr \in BOOLEAN /\ event \in BOOLEAN /\ c \in Results /\ add.term \in Terms
        /\ MergeResume(r, add) = [c EXCEPT !.tokens = tokens, !.term = add.term, !.loop = loop, !.untrusted = untrusted,
                                           !.sid = sid, !.stderr = stderr, !.event = event]
    BY <2>1, <2>2
  <2> HIDE DEF c, tokens, loop, untrusted, sid, stderr, event
  <2> QED BY <2>3 DEF Results
<1>5. MergeRouteSwitch(r, add) \in Results
  BY <1>4 DEF MergeRouteSwitch, Results
<1> QED BY <1>1, <1>2, <1>3, <1>4, <1>5

LEMMA InitIsTyped == ASSUME ConfigsAssumption, Init PROVE Typed
<1>1. NoClaim \in Claims /\ EmptyResult \in Results
  BY DEF NoClaim, Claims, EmptyResult, Results, Terms
<1>2. run \in Runs
  BY DEF Init, Runs, Stages
<1>3. counts \in [work : Nat, probes : Nat, quiet : Nat] /\ log \in Seq(Nat) /\ falls \in Seq(Nat)
  BY DEF Init
<1> QED BY <1>1, <1>2, <1>3 DEF Init, Typed, Gates

LEMMA StartsIsTyped ==
  ASSUME Typed, NEW stage \in Stages, NEW route \in Nat, NEW budget \in Int, Starts(stage, route, budget)
  PROVE  /\ run' \in Runs /\ pc' = stage /\ counts' \in [work : Nat, probes : Nat, quiet : Nat]
         /\ counts'.quiet = counts.quiet
         /\ counts'.probes = counts.probes + (IF stage = "probe" THEN 1 ELSE 0)
         /\ counts'.work = counts.work + (IF stage = "probe" THEN 0 ELSE 1)
         /\ run' = [stage |-> stage, route |-> route, since |-> Len(log) + 1, budget |-> budget, end |-> "running"]
<1>1. run' = [stage |-> stage, route |-> route, since |-> Len(log) + 1, budget |-> budget, end |-> "running"]
  BY DEF Starts
<1>2. Len(log) + 1 \in Nat \ {0}
  BY DEF Typed
<1>3. run' \in Runs
  BY <1>1, <1>2 DEF Runs
<1>4. counts \in [work : Nat, probes : Nat, quiet : Nat] /\ pc' = stage
  BY DEF Starts, Typed
<1>5. CASE stage = "probe"
  <2>1. counts' = [counts EXCEPT !.probes = counts.probes + 1]
    BY <1>5 DEF Starts
  <2> QED BY <1>1, <1>3, <1>4, <1>5, <2>1
<1>6. CASE stage # "probe"
  <2>1. counts' = [counts EXCEPT !.work = counts.work + 1]
    BY <1>6 DEF Starts
  <2> QED BY <1>1, <1>3, <1>4, <1>6, <2>1
<1> QED BY <1>5, <1>6

LEMMA BudgetIsTyped == ASSUME ConfigsAssumption, Typed PROVE Remaining \in Int /\ Budget \in Int /\ conf.cap \in Nat
BY ConfIsTyped DEF Typed, ConfigOK, Remaining, Budget

LEMMA GateIsTyped ==
  ASSUME ConfigsAssumption, Typed,
         \/ Begin \/ StallResumes \/ StallStands \/ SwitchRoute \/ SwitchEnds
         \/ RoundBegins \/ Returns \/ BackoffEnds \/ BackoffCancelled \/ Continues \/ TooLateToContinue
         \/ Cancel \/ UNCHANGED vars
  PROVE  Typed'
<1>0. ConfigOK(conf) /\ Remaining \in Int /\ Budget \in Int /\ conf.cap \in Nat
  BY ConfIsTyped, BudgetIsTyped DEF Typed
<1>1. CASE Begin
  BY <1>1, <1>0, StartsIsTyped DEF Begin, RunKeeps, Typed, Stages
<1>2. CASE StallResumes
  BY <1>2, <1>0, StartsIsTyped DEF StallResumes, RunKeeps, Typed, Stages
<1>3. CASE StallStands
  BY <1>3 DEF StallStands, RunKeeps, Typed, Gates
<1>4. CASE SwitchRoute
  BY <1>4, <1>0, StartsIsTyped DEF SwitchRoute, RunKeeps, Typed, Stages
<1>5. CASE SwitchEnds
  BY <1>5 DEF SwitchEnds, Reported, RunKeeps, Typed, Gates
<1>6. CASE RoundBegins
  BY <1>6 DEF RoundBegins, RunKeeps, Typed, Gates
<1>7. CASE Returns
  BY <1>7 DEF Returns, RunKeeps, Typed
<1>8. CASE BackoffEnds
  BY <1>8, <1>0, StartsIsTyped DEF BackoffEnds, Typed, Stages, ResumeRoute, ProbeBox, Backoff
<1>9. CASE BackoffCancelled
  BY <1>9 DEF BackoffCancelled, RunKeeps, Typed
<1>10. CASE Continues
  BY <1>10, <1>0, StartsIsTyped DEF Continues, RunKeeps, ResumeRoute, Typed, Stages
<1>11. CASE TooLateToContinue
  BY <1>11 DEF TooLateToContinue, RunKeeps, Typed
<1>12. CASE Cancel
  BY <1>12 DEF Cancel, Typed
<1>13. CASE UNCHANGED vars
  BY <1>13 DEF vars, Typed
<1> QED BY <1>1, <1>2, <1>3, <1>4, <1>5, <1>6, <1>7, <1>8, <1>9, <1>10, <1>11, <1>12, <1>13

-----------------------------------------------------------------------------
(* What the five ends of a run share: a run ends, and gives a Result.      *)

Ended(stage, end, effect, capped, untrusted, exported, took, add) ==
  /\ stage \in Stages /\ end \in Ends /\ effect \in Effects /\ capped \in BOOLEAN
  /\ untrusted \in BOOLEAN /\ exported \in BOOLEAN /\ took \in Nat
  /\ RunEnds(stage, end, effect, capped, untrusted, exported, took)
  /\ add = Gives(stage, end, effect, capped, untrusted, exported, log')
  /\ add \in Results

\* The working runs that end quiet are counted.
Quiet(was, now, isQuiet) ==
  /\ now \in [work : Nat, probes : Nat, quiet : Nat]
  /\ now.work = was.work /\ now.probes = was.probes
  /\ isQuiet => now.quiet = was.quiet + 1
  /\ ~isQuiet => now.quiet = was.quiet

\* A counter raised by one.
LEMMA QuietIsCounted ==
  ASSUME NEW was \in [work : Nat, probes : Nat, quiet : Nat]
  PROVE  LET now == [was EXCEPT !.quiet = was.quiet + 1] IN
         /\ now \in [work : Nat, probes : Nat, quiet : Nat]
         /\ now.work = was.work /\ now.probes = was.probes /\ now.quiet = was.quiet + 1
<1>1. was.quiet \in Nat /\ was.quiet + 1 \in Nat
  OBVIOUS
<1> QED BY <1>1

LEMMA EndedIsTyped ==
  ASSUME Typed, NEW stage, NEW end, NEW effect, NEW capped, NEW untrusted, NEW exported, NEW took, NEW add,
         Ended(stage, end, effect, capped, untrusted, exported, took, add)
  PROVE  /\ conf' = conf /\ conf' \in Configs /\ cancelled' \in BOOLEAN /\ log' \in Seq(Nat) /\ clock' \in Nat
         /\ task' \in {"free", "held", "settled"} /\ other' \in BOOLEAN /\ looped' \in BOOLEAN
         /\ missed' \in Nat /\ seen' \in {"nothing", "held", "settled"} /\ run' \in Runs
         /\ res \in Results /\ ChargeOnly(res, add) \in Results
         /\ FoldSame(ChargeOnly(res, add), add) \in Results
         /\ MergeResume(res, add) \in Results /\ MergeRouteSwitch(res, add) \in Results
<1>1. /\ conf' = conf /\ conf' \in Configs /\ cancelled' \in BOOLEAN /\ log' \in Seq(Nat) /\ clock' \in Nat
      /\ task' \in {"free", "held", "settled"} /\ other' \in BOOLEAN /\ looped' \in BOOLEAN
      /\ missed' \in Nat /\ seen' \in {"nothing", "held", "settled"} /\ run' \in Runs
  BY RunEndsIsTyped DEF Ended
<1>2. add \in Results /\ res \in Results
  BY DEF Ended, Typed
<1>3. ChargeOnly(res, add) \in Results /\ MergeResume(res, add) \in Results /\ MergeRouteSwitch(res, add) \in Results
  BY <1>2, FoldsAreTyped
<1>4. FoldSame(ChargeOnly(res, add), add) \in Results
  BY <1>2, <1>3, FoldsAreTyped
<1> QED BY <1>1, <1>2, <1>3, <1>4

LEMMA FirstEnded ==
  ASSUME ConfigsAssumption, Typed, FirstRunEnds
  PROVE  /\ pc = "first" /\ memory' = memory /\ UNCHANGED <<next, current, falls, attempt>>
         /\ \E end, effect, capped, untrusted, exported, took, add :
              /\ Ended("first", end, effect, capped, untrusted, exported, took, add)
              /\ res' = add
              /\ failed' = Errs(end)
              /\ pc' = (IF Errs(end) \/ res'.loop THEN "done" ELSE "stallGate")
              /\ Quiet(counts, counts', res'.term = "quiet")
<1>0. ConfigOK(conf) /\ conf.times \subseteq Nat /\ "first" \in Stages
  BY ConfIsTyped DEF Typed, ConfigOK, Stages
<1>1. PICK end \in Ends, effect \in Effects, capped \in BOOLEAN, untrusted \in BOOLEAN, exported \in BOOLEAN,
           took \in conf.times :
        LET add == Gives("first", end, effect, capped, untrusted, exported, log') IN
        /\ memory' = memory
        /\ RunEnds("first", end, effect, capped, untrusted, exported, took)
        /\ res' = add
        /\ failed' = Errs(end)
        /\ pc' = (IF Errs(end) \/ res'.loop THEN "done" ELSE "stallGate")
        /\ counts' = [counts EXCEPT !.quiet = IF res'.term = "quiet" THEN @ + 1 ELSE @]
  BY DEF FirstRunEnds
<1> DEFINE add == Gives("first", end, effect, capped, untrusted, exported, log')
<1>2. took \in Nat
  BY <1>0, <1>1
<1>3. add \in Results
  <2>1. log' \in Seq(Nat)
    BY <1>0, <1>1, <1>2, RunEndsIsTyped
  <2> QED BY <2>1, <1>0, <1>1, GivesIsTyped
<1>4. Ended("first", end, effect, capped, untrusted, exported, took, add)
  BY <1>0, <1>1, <1>2, <1>3 DEF Ended
<1>5. Quiet(counts, counts', res'.term = "quiet")
  <2>1. counts' = [counts EXCEPT !.quiet = IF res'.term = "quiet" THEN counts.quiet + 1 ELSE counts.quiet]
    BY <1>1
  <2>2. CASE res'.term = "quiet"
    <3>1. counts' = [counts EXCEPT !.quiet = counts.quiet + 1] /\ counts \in [work : Nat, probes : Nat, quiet : Nat]
      BY <2>1, <2>2 DEF Typed
    <3> QED BY <2>2, <3>1, QuietIsCounted DEF Quiet
  <2>3. CASE ~(res'.term = "quiet")
    BY <2>1, <2>3 DEF Quiet, Typed
  <2> QED BY <2>2, <2>3
<1>6. /\ memory' = memory
      /\ res' = add
      /\ failed' = Errs(end)
      /\ pc' = (IF Errs(end) \/ res'.loop THEN "done" ELSE "stallGate")
  BY <1>1
<1> HIDE DEF add
<1>7. pc = "first" /\ UNCHANGED <<next, current, falls, attempt>>
  BY DEF FirstRunEnds
<1> QED BY <1>4, <1>5, <1>6, <1>7

LEMMA StallEnded ==
  ASSUME ConfigsAssumption, Typed, StallRunEnds
  PROVE  /\ pc = "stall" /\ memory' = memory /\ pc' = "switchGate" /\ UNCHANGED <<next, current, falls, attempt, failed>>
         /\ \E end, effect, capped, untrusted, exported, took, add :
              /\ Ended("stall", end, effect, capped, untrusted, exported, took, add)
              /\ res' = (IF Errs(end) THEN FoldSame(ChargeOnly(res, add), add) ELSE MergeResume(res, add))
              /\ Quiet(counts, counts', ~Errs(end) /\ add.term = "quiet")
<1>0. ConfigOK(conf) /\ conf.times \subseteq Nat /\ "stall" \in Stages
  BY ConfIsTyped DEF Typed, ConfigOK, Stages
<1>1. PICK end \in Ends, effect \in Effects, capped \in BOOLEAN, untrusted \in BOOLEAN, exported \in BOOLEAN,
           took \in conf.times :
        LET add == Gives("stall", end, effect, capped, untrusted, exported, log') IN
        /\ memory' = memory
        /\ RunEnds("stall", end, effect, capped, untrusted, exported, took)
        /\ res' = (IF Errs(end) THEN FoldSame(ChargeOnly(res, add), add) ELSE MergeResume(res, add))
        /\ counts' = [counts EXCEPT !.quiet = IF ~Errs(end) /\ add.term = "quiet" THEN @ + 1 ELSE @]
  BY DEF StallRunEnds
<1> DEFINE add == Gives("stall", end, effect, capped, untrusted, exported, log')
<1>2. took \in Nat
  BY <1>0, <1>1
<1>3. add \in Results
  <2>1. log' \in Seq(Nat)
    BY <1>0, <1>1, <1>2, RunEndsIsTyped
  <2> QED BY <2>1, <1>0, <1>1, GivesIsTyped
<1>4. Ended("stall", end, effect, capped, untrusted, exported, took, add)
  BY <1>0, <1>1, <1>2, <1>3 DEF Ended
<1>5. Quiet(counts, counts', ~Errs(end) /\ add.term = "quiet")
  <2>1. counts' = [counts EXCEPT !.quiet = IF ~Errs(end) /\ add.term = "quiet" THEN counts.quiet + 1 ELSE counts.quiet]
    BY <1>1
  <2>2. CASE ~Errs(end) /\ add.term = "quiet"
    <3>1. counts' = [counts EXCEPT !.quiet = counts.quiet + 1] /\ counts \in [work : Nat, probes : Nat, quiet : Nat]
      BY <2>1, <2>2 DEF Typed
    <3> QED BY <2>2, <3>1, QuietIsCounted DEF Quiet
  <2>3. CASE ~(~Errs(end) /\ add.term = "quiet")
    BY <2>1, <2>3 DEF Quiet, Typed
  <2> QED BY <2>2, <2>3
<1>6. /\ memory' = memory
      /\ res' = (IF Errs(end) THEN FoldSame(ChargeOnly(res, add), add) ELSE MergeResume(res, add))
  BY <1>1
<1> HIDE DEF add
<1>7. pc = "stall" /\ pc' = "switchGate" /\ UNCHANGED <<next, current, falls, attempt, failed>>
  BY DEF StallRunEnds
<1> QED BY <1>4, <1>5, <1>6, <1>7

LEMMA SwitchEnded ==
  ASSUME ConfigsAssumption, Typed, SwitchRunEnds
  PROVE  /\ pc = "switch" /\ memory' = memory /\ UNCHANGED <<next, falls, attempt>>
         /\ \E end, effect, capped, untrusted, exported, took, add :
              /\ Ended("switch", end, effect, capped, untrusted, exported, took, add)
              /\ res' = (IF Errs(end) THEN ChargeOnly(res, add) ELSE MergeRouteSwitch(res, add))
              /\ failed' = Errs(end)
              /\ current' = (IF Errs(end) THEN current ELSE run.route)
              /\ pc' = (IF Errs(end) THEN "done" ELSE "switchGate")
              /\ Quiet(counts, counts', ~Errs(end) /\ add.term = "quiet")
<1>0. ConfigOK(conf) /\ conf.times \subseteq Nat /\ "switch" \in Stages
  BY ConfIsTyped DEF Typed, ConfigOK, Stages
<1>1. PICK end \in Ends, effect \in Effects, capped \in BOOLEAN, untrusted \in BOOLEAN, exported \in BOOLEAN,
           took \in conf.times :
        LET add == Gives("switch", end, effect, capped, untrusted, exported, log') IN
        /\ memory' = memory
        /\ RunEnds("switch", end, effect, capped, untrusted, exported, took)
        /\ res' = (IF Errs(end) THEN ChargeOnly(res, add) ELSE MergeRouteSwitch(res, add))
        /\ failed' = Errs(end)
        /\ current' = (IF Errs(end) THEN current ELSE run.route)
        /\ pc' = (IF Errs(end) THEN "done" ELSE "switchGate")
        /\ counts' = [counts EXCEPT !.quiet = IF ~Errs(end) /\ add.term = "quiet" THEN @ + 1 ELSE @]
  BY DEF SwitchRunEnds
<1> DEFINE add == Gives("switch", end, effect, capped, untrusted, exported, log')
<1>2. took \in Nat
  BY <1>0, <1>1
<1>3. add \in Results
  <2>1. log' \in Seq(Nat)
    BY <1>0, <1>1, <1>2, RunEndsIsTyped
  <2> QED BY <2>1, <1>0, <1>1, GivesIsTyped
<1>4. Ended("switch", end, effect, capped, untrusted, exported, took, add)
  BY <1>0, <1>1, <1>2, <1>3 DEF Ended
<1>5. Quiet(counts, counts', ~Errs(end) /\ add.term = "quiet")
  <2>1. counts' = [counts EXCEPT !.quiet = IF ~Errs(end) /\ add.term = "quiet" THEN counts.quiet + 1 ELSE counts.quiet]
    BY <1>1
  <2>2. CASE ~Errs(end) /\ add.term = "quiet"
    <3>1. counts' = [counts EXCEPT !.quiet = counts.quiet + 1] /\ counts \in [work : Nat, probes : Nat, quiet : Nat]
      BY <2>1, <2>2 DEF Typed
    <3> QED BY <2>2, <3>1, QuietIsCounted DEF Quiet
  <2>3. CASE ~(~Errs(end) /\ add.term = "quiet")
    BY <2>1, <2>3 DEF Quiet, Typed
  <2> QED BY <2>2, <2>3
<1>6. /\ memory' = memory
      /\ res' = (IF Errs(end) THEN ChargeOnly(res, add) ELSE MergeRouteSwitch(res, add))
      /\ failed' = Errs(end)
      /\ current' = (IF Errs(end) THEN current ELSE run.route)
      /\ pc' = (IF Errs(end) THEN "done" ELSE "switchGate")
  BY <1>1
<1> HIDE DEF add
<1>7. pc = "switch" /\ UNCHANGED <<next, falls, attempt>>
  BY DEF SwitchRunEnds
<1> QED BY <1>4, <1>5, <1>6, <1>7

LEMMA ContEnded ==
  ASSUME ConfigsAssumption, Typed, ContRunEnds
  PROVE  /\ pc = "cont" /\ memory' = memory /\ attempt' = attempt + 1 /\ UNCHANGED <<next, current, falls, failed>>
         /\ \E end, effect, capped, untrusted, exported, took, add :
              /\ Ended("cont", end, effect, capped, untrusted, exported, took, add)
              /\ res' = (IF Errs(end) THEN ChargeOnly(res, add) ELSE MergeResume(res, add))
              /\ pc' = (IF Errs(end) THEN "done" ELSE "roundGate")
              /\ Quiet(counts, counts', ~Errs(end) /\ add.term = "quiet")
<1>0. ConfigOK(conf) /\ conf.times \subseteq Nat /\ "cont" \in Stages
  BY ConfIsTyped DEF Typed, ConfigOK, Stages
<1>1. PICK end \in Ends, effect \in Effects, capped \in BOOLEAN, untrusted \in BOOLEAN, exported \in BOOLEAN,
           took \in conf.times :
        LET add == Gives("cont", end, effect, capped, untrusted, exported, log') IN
        /\ memory' = memory
        /\ RunEnds("cont", end, effect, capped, untrusted, exported, took)
        /\ res' = (IF Errs(end) THEN ChargeOnly(res, add) ELSE MergeResume(res, add))
        /\ pc' = (IF Errs(end) THEN "done" ELSE "roundGate")
        /\ counts' = [counts EXCEPT !.quiet = IF ~Errs(end) /\ add.term = "quiet" THEN @ + 1 ELSE @]
  BY DEF ContRunEnds
<1> DEFINE add == Gives("cont", end, effect, capped, untrusted, exported, log')
<1>2. took \in Nat
  BY <1>0, <1>1
<1>3. add \in Results
  <2>1. log' \in Seq(Nat)
    BY <1>0, <1>1, <1>2, RunEndsIsTyped
  <2> QED BY <2>1, <1>0, <1>1, GivesIsTyped
<1>4. Ended("cont", end, effect, capped, untrusted, exported, took, add)
  BY <1>0, <1>1, <1>2, <1>3 DEF Ended
<1>5. Quiet(counts, counts', ~Errs(end) /\ add.term = "quiet")
  <2>1. counts' = [counts EXCEPT !.quiet = IF ~Errs(end) /\ add.term = "quiet" THEN counts.quiet + 1 ELSE counts.quiet]
    BY <1>1
  <2>2. CASE ~Errs(end) /\ add.term = "quiet"
    <3>1. counts' = [counts EXCEPT !.quiet = counts.quiet + 1] /\ counts \in [work : Nat, probes : Nat, quiet : Nat]
      BY <2>1, <2>2 DEF Typed
    <3> QED BY <2>2, <3>1, QuietIsCounted DEF Quiet
  <2>3. CASE ~(~Errs(end) /\ add.term = "quiet")
    BY <2>1, <2>3 DEF Quiet, Typed
  <2> QED BY <2>2, <2>3
<1>6. /\ memory' = memory
      /\ res' = (IF Errs(end) THEN ChargeOnly(res, add) ELSE MergeResume(res, add))
      /\ pc' = (IF Errs(end) THEN "done" ELSE "roundGate")
  BY <1>1
<1> HIDE DEF add
<1>7. pc = "cont" /\ attempt' = attempt + 1 /\ UNCHANGED <<next, current, falls, failed>>
  BY DEF ContRunEnds
<1> QED BY <1>4, <1>5, <1>6, <1>7

LEMMA ProbeEnded ==
  ASSUME ConfigsAssumption, Typed, ProbeRunEnds
  PROVE  /\ pc = "probe" /\ pc' \in {"contGate", "done"} /\ memory' \in BOOLEAN
         /\ (pc' = "contGate" => memory' = memory) /\ (memory' => memory)
         /\ UNCHANGED <<next, current, falls, attempt, failed, counts>>
         /\ \E end, effect, untrusted, exported, took, add :
              /\ Ended("probe", end, effect, FALSE, untrusted, exported, took, add)
              /\ took <= ProbeBox + Winding
              /\ res' = FoldSame(ChargeOnly(res, add), add)
<1>0. "probe" \in Stages /\ FALSE \in BOOLEAN
  BY DEF Stages
<1>1. PICK end \in Ends, effect \in Effects, untrusted \in BOOLEAN, exported \in BOOLEAN, intact \in BOOLEAN,
           took \in 0 .. ProbeBox + Winding :
        \E names \in Names(end, untrusted, intact, took) :
          LET add == Gives("probe", end, effect, FALSE, untrusted, exported, log') IN
          /\ intact => memory
          /\ memory' = intact
          /\ RunEnds("probe", end, effect, FALSE, untrusted, exported, took)
          /\ res' = FoldSame(ChargeOnly(res, add), add)
          /\ pc' = (IF Coherent(end, untrusted, names) THEN "contGate" ELSE "done")
  BY DEF ProbeRunEnds
<1> DEFINE add == Gives("probe", end, effect, FALSE, untrusted, exported, log')
<1>2. took \in Nat /\ took <= ProbeBox + Winding
  BY DEF ProbeBox, Winding
<1>3. add \in Results
  <2>1. RunEnds("probe", end, effect, FALSE, untrusted, exported, took)
    BY <1>1
  <2>2. log' \in Seq(Nat)
    BY <2>1, TurnIsTyped DEF RunEnds, Typed
  <2> QED BY <2>2, <1>0, GivesIsTyped
<1>4. Ended("probe", end, effect, FALSE, untrusted, exported, took, add)
  BY <1>0, <1>1, <1>2, <1>3 DEF Ended
<1>5. res' = FoldSame(ChargeOnly(res, add), add) /\ pc' \in {"contGate", "done"}
  BY <1>1
<1>6. pc' = "contGate" => intact = TRUE
  <2> SUFFICES ASSUME pc' = "contGate" PROVE intact = TRUE
    OBVIOUS
  <2>1. PICK names \in Names(end, untrusted, intact, took) : Coherent(end, untrusted, names)
    BY <1>1
  <2> QED BY <2>1 DEF Coherent, Names
<1>7. memory' \in BOOLEAN /\ (memory' => memory) /\ (pc' = "contGate" => memory' = memory)
  BY <1>1, <1>6 DEF Typed
<1> HIDE DEF add
<1>8. pc = "probe" /\ UNCHANGED <<next, current, falls, attempt, failed, counts>>
  BY DEF ProbeRunEnds
<1> QED BY <1>2, <1>4, <1>5, <1>7, <1>8

LEMMA EndIsTyped ==
  ASSUME ConfigsAssumption, Typed,
         FirstRunEnds \/ StallRunEnds \/ SwitchRunEnds \/ ProbeRunEnds \/ ContRunEnds
  PROVE  Typed'
<1>1. CASE FirstRunEnds
  <2>1. PICK end, effect, capped, untrusted, exported, took, add :
          /\ Ended("first", end, effect, capped, untrusted, exported, took, add)
          /\ res' = add
          /\ failed' = Errs(end)
          /\ pc' = (IF Errs(end) \/ res'.loop THEN "done" ELSE "stallGate")
          /\ Quiet(counts, counts', res'.term = "quiet")
    BY <1>1, FirstEnded
  <2>2. res' \in Results /\ failed' \in BOOLEAN /\ pc' \in {"done", "stallGate"}
    BY <2>1 DEF Ended, Errs
  <2>3. counts' \in [work : Nat, probes : Nat, quiet : Nat]
    BY <2>1 DEF Quiet
  <2>4. /\ conf' \in Configs /\ cancelled' \in BOOLEAN /\ log' \in Seq(Nat) /\ clock' \in Nat
        /\ task' \in {"free", "held", "settled"} /\ other' \in BOOLEAN /\ looped' \in BOOLEAN
        /\ missed' \in Nat /\ seen' \in {"nothing", "held", "settled"} /\ run' \in Runs
    BY <2>1, EndedIsTyped
  <2>5. memory' = memory /\ UNCHANGED <<next, current, falls, attempt>>
    BY <1>1, FirstEnded
  <2> QED BY <2>2, <2>3, <2>4, <2>5 DEF Typed, Gates
<1>2. CASE StallRunEnds
  <2>1. PICK end, effect, capped, untrusted, exported, took, add :
          /\ Ended("stall", end, effect, capped, untrusted, exported, took, add)
          /\ res' = (IF Errs(end) THEN FoldSame(ChargeOnly(res, add), add) ELSE MergeResume(res, add))
          /\ Quiet(counts, counts', ~Errs(end) /\ add.term = "quiet")
    BY <1>2, StallEnded
  <2>2. res' \in Results
    BY <2>1, EndedIsTyped
  <2>3. counts' \in [work : Nat, probes : Nat, quiet : Nat]
    BY <2>1 DEF Quiet
  <2>4. /\ conf' \in Configs /\ cancelled' \in BOOLEAN /\ log' \in Seq(Nat) /\ clock' \in Nat
        /\ task' \in {"free", "held", "settled"} /\ other' \in BOOLEAN /\ looped' \in BOOLEAN
        /\ missed' \in Nat /\ seen' \in {"nothing", "held", "settled"} /\ run' \in Runs
    BY <2>1, EndedIsTyped
  <2>5. memory' = memory /\ pc' = "switchGate" /\ UNCHANGED <<next, current, falls, attempt, failed>>
    BY <1>2, StallEnded
  <2> QED BY <2>2, <2>3, <2>4, <2>5 DEF Typed, Gates
<1>3. CASE SwitchRunEnds
  <2>1. PICK end, effect, capped, untrusted, exported, took, add :
          /\ Ended("switch", end, effect, capped, untrusted, exported, took, add)
          /\ res' = (IF Errs(end) THEN ChargeOnly(res, add) ELSE MergeRouteSwitch(res, add))
          /\ failed' = Errs(end)
          /\ current' = (IF Errs(end) THEN current ELSE run.route)
          /\ pc' = (IF Errs(end) THEN "done" ELSE "switchGate")
          /\ Quiet(counts, counts', ~Errs(end) /\ add.term = "quiet")
    BY <1>3, SwitchEnded
  <2>2. res' \in Results /\ failed' \in BOOLEAN /\ pc' \in {"done", "switchGate"} /\ current' \in Nat
    BY <2>1, EndedIsTyped DEF Errs, Typed, Runs
  <2>3. counts' \in [work : Nat, probes : Nat, quiet : Nat]
    BY <2>1 DEF Quiet
  <2>4. /\ conf' \in Configs /\ cancelled' \in BOOLEAN /\ log' \in Seq(Nat) /\ clock' \in Nat
        /\ task' \in {"free", "held", "settled"} /\ other' \in BOOLEAN /\ looped' \in BOOLEAN
        /\ missed' \in Nat /\ seen' \in {"nothing", "held", "settled"} /\ run' \in Runs
    BY <2>1, EndedIsTyped
  <2>5. memory' = memory /\ UNCHANGED <<next, falls, attempt>>
    BY <1>3, SwitchEnded
  <2> QED BY <2>2, <2>3, <2>4, <2>5 DEF Typed, Gates
<1>4. CASE ProbeRunEnds
  <2>1. PICK end, effect, untrusted, exported, took, add :
          /\ Ended("probe", end, effect, FALSE, untrusted, exported, took, add)
          /\ res' = FoldSame(ChargeOnly(res, add), add)
    BY <1>4, ProbeEnded
  <2>2. res' \in Results
    BY <2>1, EndedIsTyped
  <2> QED BY <1>4, <2>1, <2>2, ProbeEnded, EndedIsTyped DEF Typed, Gates
<1>5. CASE ContRunEnds
  <2>1. PICK end, effect, capped, untrusted, exported, took, add :
          /\ Ended("cont", end, effect, capped, untrusted, exported, took, add)
          /\ res' = (IF Errs(end) THEN ChargeOnly(res, add) ELSE MergeResume(res, add))
          /\ pc' = (IF Errs(end) THEN "done" ELSE "roundGate")
          /\ Quiet(counts, counts', ~Errs(end) /\ add.term = "quiet")
    BY <1>5, ContEnded
  <2>2. res' \in Results /\ pc' \in {"done", "roundGate"}
    BY <2>1, EndedIsTyped
  <2>3. counts' \in [work : Nat, probes : Nat, quiet : Nat]
    BY <2>1 DEF Quiet
  <2>4. /\ conf' \in Configs /\ cancelled' \in BOOLEAN /\ log' \in Seq(Nat) /\ clock' \in Nat
        /\ task' \in {"free", "held", "settled"} /\ other' \in BOOLEAN /\ looped' \in BOOLEAN
        /\ missed' \in Nat /\ seen' \in {"nothing", "held", "settled"} /\ run' \in Runs
    BY <2>1, EndedIsTyped
  <2>5. memory' = memory /\ attempt' = attempt + 1 /\ UNCHANGED <<next, current, falls, failed>>
    BY <1>5, ContEnded
  <2>6. attempt' \in Nat
    BY <2>5 DEF Typed
  <2> QED BY <2>2, <2>3, <2>4, <2>5, <2>6 DEF Typed, Gates
<1> QED BY <1>1, <1>2, <1>3, <1>4, <1>5

LEMMA StepIsTyped == ASSUME ConfigsAssumption, Typed, [Next]_vars PROVE Typed'
BY GateIsTyped, EndIsTyped DEF Next

-----------------------------------------------------------------------------
(* The inductive parts, one for each question.                             *)

\* What is left of the call's time covers the run in flight, or the round that begins.
Clocked ==
  /\ pc = "start" => clock = 0
  /\ pc \in Stages => run.stage = pc
  /\ Bounded => /\ clock <= conf.cap
                /\ pc \in Stages \ {"probe"} => run.budget > 0 /\ clock + run.budget <= conf.cap
                /\ pc = "backoff" => clock + RoundFloor <= conf.cap
                /\ pc = "probe" => clock + ProbeBox + Winding <= conf.cap

\* A run in flight starts where the log ends; a session that exists has been charged for.
Charged ==
  /\ ChargedOnce
  /\ pc \in {"start", "first"} => log = <<>> /\ res = EmptyResult /\ missed = 0
  /\ pc \in Stages => run.stage = pc /\ run.since = Len(log) + 1
  /\ res.sid => log # <<>>
  /\ pc \in {"stall", "switch", "backoff", "probe", "contGate", "cont"} => res.sid

\* A lost transcript and an unreadable stream leave nothing to go on with.
Reads ==
  /\ ~memory => pc = "done"
  /\ res.untrusted => pc \in {"stallGate", "switchGate", "roundGate", "done"}

\* The routes are tried in order; what was denied lies behind the session's route.
Behind(route) == \A i \in 1 .. Len(falls) : falls[i] < route
Routed ==
  /\ current \in 1 .. conf.routes /\ next \in 2 .. conf.routes + 1
  /\ \A i \in 1 .. Len(falls) : falls[i] \in 1 .. conf.routes
  /\ pc \in Stages => run.route \in 1 .. conf.routes
  /\ pc \in {"start", "first", "stallGate", "stall"} => current = 1
  /\ pc \in {"start", "first", "stallGate", "stall", "switchGate"} => current = next - 1 /\ Behind(current)
  /\ pc = "switch" => run.route = next - 1 /\ Behind(run.route)
  /\ pc \in {"stall", "probe", "cont"} => run.route = current
  /\ pc = "roundGate" /\ current \in SentOn => current = conf.routes \/ ~res.sid \/ (Bounded /\ Remaining < Floor)
  /\ pc \in {"backoff", "probe", "contGate", "cont"} => current \notin SentOn \/ current = conf.routes

\* A death not yet probed is ahead of the probes; each round probes once and continues once.
Counted ==
  /\ counts.probes <= counts.quiet
  /\ pc \in {"stallGate", "switchGate", "roundGate", "backoff"} /\ res.term = "quiet" => counts.probes < counts.quiet
  /\ pc = "backoff" => res.term = "quiet"
  /\ pc = "stall" => res.term = "stall"
  /\ attempt \in 1 .. conf.rounds + 1
  /\ pc \in {"backoff", "probe", "contGate", "cont"} => attempt <= conf.rounds
  /\ counts.probes <= attempt /\ counts.probes <= conf.rounds
  /\ pc \notin {"probe", "contGate", "cont", "done"} => counts.probes < attempt
  /\ pc = "start" => counts.work = 0
  /\ pc \in {"first", "stallGate"} => counts.work <= 1
  /\ pc \in {"stall", "switchGate", "switch"} => counts.work <= next
  /\ counts.work <= (IF pc = "cont" THEN next + attempt ELSE next + attempt - 1)

\* On a route that was switched to, a session that goes on is not limited.
Limits ==
  /\ pc # "done" => ~failed
  /\ pc \in {"start", "first", "stallGate", "stall"} => current = 1
  /\ pc \in {"switchGate", "roundGate", "done"} /\ ~failed /\ current > 1 /\ run.end \in {"clean", "quiet"} => ~Limited(res)
  /\ pc \in {"switchGate", "roundGate"} /\ current > 1 /\ res.term = "quiet" => run.end = "quiet"
  /\ pc \in {"backoff", "probe", "contGate", "cont"} /\ current > 1 => ~Limited(res)

Past == pc \notin {"start", "first"}
\* What the Result says of the task is what readable streams showed of it.
Known ==
  /\ ~Past => seen = (IF conf.phase2 THEN "held" ELSE "nothing") /\ task = (IF conf.phase2 THEN "held" ELSE "free")
              /\ res = EmptyResult
  /\ memory \/ pc = "done"
  /\ res.untrusted => pc \in {"stallGate", "switchGate", "roundGate", "done"}
  /\ Past /\ seen = "held" /\ task = "held" => res.claim = HeldClaim("A")
  /\ seen = "settled" => ~Held(res.claim)
  /\ Past /\ ~res.untrusted /\ task # "free" => res.claim.task = "A"
  /\ res.claim.task \in {"none", "A"}

\* Once the routes are gone through, a limit that stands is on the route that is reported.
Denied ==
  pc \in {"roundGate", "backoff", "probe", "contGate", "cont", "done"} /\ ~failed /\ conf.routes > 1
    /\ Limited(res) /\ ~res.untrusted => current \in SentOn

-----------------------------------------------------------------------------
(* What a run's Result holds, and what becomes of it in each fold.         *)

Keeps(r, m) == /\ m.term = r.term /\ (m.untrusted <=> r.untrusted) /\ (m.sid <=> r.sid)
               /\ (m.stderr <=> r.stderr) /\ (m.event <=> r.event)
Speaks(c) == Held(c) \/ c.settled

LEMMA ChargeFields ==
  ASSUME NEW r \in Results, NEW add \in Results
  PROVE  LET m == ChargeOnly(r, add) IN
         Keeps(r, m) /\ m.claim = r.claim /\ m.tokens = r.tokens + add.tokens
BY DEF ChargeOnly, Keeps, Results

LEMMA SameFields ==
  ASSUME NEW r \in Results, NEW add \in Results
  PROVE  LET m == FoldSame(ChargeOnly(r, add), add) IN
         /\ Keeps(r, m) /\ m.tokens = r.tokens + add.tokens
         /\ m.claim = r.claim \/ (m.claim = add.claim /\ ~add.untrusted /\ SameTask(r.claim, add.claim) /\ Speaks(add.claim))
         /\ ~add.untrusted /\ SameTask(r.claim, add.claim) /\ Speaks(add.claim) => m.claim = add.claim
<1> DEFINE c == ChargeOnly(r, add)
<1>1. c \in Results /\ Keeps(r, c) /\ c.claim = r.claim /\ c.tokens = r.tokens + add.tokens
  BY FoldsAreTyped, ChargeFields
<1> HIDE DEF c
<1>2. CASE ~add.untrusted /\ SameTask(r.claim, add.claim) /\ Speaks(add.claim)
  <2>1. FoldSame(c, add) = [c EXCEPT !.claim = add.claim]
    BY <1>1, <1>2 DEF FoldSame, FoldClaim, Speaks
  <2>2. LET m == FoldSame(c, add) IN Keeps(r, m) /\ m.tokens = r.tokens + add.tokens /\ m.claim = add.claim
    BY <1>1, <2>1 DEF Keeps, Results
  <2> QED BY <1>2, <2>2 DEF c
<1>3. CASE ~(~add.untrusted /\ SameTask(r.claim, add.claim) /\ Speaks(add.claim))
  <2>1. FoldSame(c, add) = c
    BY <1>1, <1>3 DEF FoldSame, FoldClaim, Speaks
  <2> QED BY <1>1, <1>3, <2>1 DEF c
<1> QED BY <1>2, <1>3

LEMMA MergeFields ==
  ASSUME NEW r \in Results, NEW add \in Results
  PROVE  LET m == MergeResume(r, add) IN
         /\ m.tokens = r.tokens + add.tokens /\ m.term = add.term
         /\ m.claim = (IF Speaks(add.claim) THEN add.claim ELSE r.claim)
         /\ m.untrusted <=> r.untrusted \/ add.untrusted
         /\ m.sid <=> r.sid \/ add.sid
         /\ m.stderr <=> r.stderr \/ add.stderr
         /\ m.event <=> (IF add.sid THEN add.event ELSE r.event)
<1> DEFINE c == FoldClaim(r, add)
<1>1. /\ c \in Results /\ c.claim = (IF Speaks(add.claim) THEN add.claim ELSE r.claim)
      /\ c.tokens = r.tokens /\ (c.untrusted <=> r.untrusted) /\ (c.sid <=> r.sid)
      /\ (c.stderr <=> r.stderr) /\ (c.event <=> r.event)
  <2>1. CASE Speaks(add.claim)
    <3>1. c = [r EXCEPT !.claim = add.claim]
      BY <2>1 DEF FoldClaim, Speaks
    <3> QED BY <2>1, <3>1, FoldsAreTyped DEF Results
  <2>2. CASE ~Speaks(add.claim)
    <3>1. c = r
      BY <2>2 DEF FoldClaim, Speaks
    <3> QED BY <2>2, <3>1
  <2> QED BY <2>1, <2>2
<1>2. MergeResume(r, add) =
        [c EXCEPT !.tokens = c.tokens + add.tokens, !.term = add.term, !.loop = c.loop \/ add.loop,
                  !.untrusted = c.untrusted \/ add.untrusted, !.sid = c.sid \/ add.sid,
                  !.stderr = c.stderr \/ add.stderr, !.event = IF add.sid THEN add.event ELSE c.event]
  BY DEF MergeResume
<1> HIDE DEF c
<1>3. LET m == MergeResume(r, add) IN
      /\ m.tokens = c.tokens + add.tokens /\ m.term = add.term /\ m.claim = c.claim
      /\ m.untrusted = (c.untrusted \/ add.untrusted)
      /\ m.sid = (c.sid \/ add.sid)
      /\ m.stderr = (c.stderr \/ add.stderr)
      /\ m.event = (IF add.sid THEN add.event ELSE c.event)
  BY <1>1, <1>2 DEF Results
<1> QED BY <1>1, <1>3

LEMMA SwitchFields ==
  ASSUME NEW r \in Results, NEW add \in Results
  PROVE  LET m == MergeRouteSwitch(r, add) IN
         /\ m.tokens = r.tokens + add.tokens /\ m.term = add.term
         /\ m.claim = (IF Speaks(add.claim) THEN add.claim ELSE r.claim)
         /\ m.untrusted <=> r.untrusted \/ add.untrusted
         /\ m.sid <=> r.sid \/ add.sid
         /\ m.stderr <=> add.stderr
         /\ m.event <=> add.event
<1> DEFINE c == MergeResume(r, add)
<1>1. /\ c \in Results
      /\ c.tokens = r.tokens + add.tokens /\ c.term = add.term
      /\ c.claim = (IF Speaks(add.claim) THEN add.claim ELSE r.claim)
      /\ c.untrusted <=> r.untrusted \/ add.untrusted
      /\ c.sid <=> r.sid \/ add.sid
  BY FoldsAreTyped, MergeFields
<1>2. MergeRouteSwitch(r, add) = [c EXCEPT !.stderr = add.stderr, !.event = add.event]
  BY DEF MergeRouteSwitch
<1> HIDE DEF c
<1>3. LET m == MergeRouteSwitch(r, add) IN
      /\ m.tokens = c.tokens /\ m.term = c.term /\ m.claim = c.claim /\ m.untrusted = c.untrusted
      /\ m.sid = c.sid /\ m.stderr = add.stderr /\ m.event = add.event
  BY <1>1, <1>2 DEF Results
<1> QED BY <1>1, <1>3

\* Only a run that stopped without a word is quiet.
LEMMA QuietEnd ==
  ASSUME NEW end, NEW capped \in BOOLEAN, Term(end, capped) = "quiet"
  PROVE  end = "quiet" /\ ~capped
<1>1. CASE capped
  BY <1>1 DEF Term
<1>2. CASE ~capped /\ end = "quiet"
  BY <1>2
<1>3. CASE ~capped /\ end # "quiet"
  BY <1>3 DEF Term
<1> QED BY <1>1, <1>2, <1>3

\* What the caller can read in the Result of a run that ended.
LEMMA EndedFields ==
  ASSUME Typed, NEW stage, NEW end, NEW effect, NEW capped, NEW untrusted, NEW exported, NEW took, NEW add,
         Ended(stage, end, effect, capped, untrusted, exported, took, add)
  PROVE  /\ add.term = Term(end, capped)
         /\ add.untrusted <=> untrusted
         /\ add.sid <=> HasTurn(end)
         /\ add.claim = Observed(stage, effect, untrusted)
         /\ add.stderr <=> Warns(end)
         /\ add.event <=> end = "limit" /\ ~capped
         /\ add.tokens = (IF ~HasTurn(end) THEN 0 ELSE IF exported /\ ~Errs(end) THEN Share(log') ELSE Streamed(Turn(end)))
         /\ log' = log \o Turn(end) /\ clock' = clock + Lasts(took) /\ took \in Nat /\ end \in Ends /\ conf' = conf
         /\ run' = [run EXCEPT !.end = IF capped THEN "capped" ELSE end]
         /\ run'.stage = run.stage /\ run'.route = run.route /\ run'.end = (IF capped THEN "capped" ELSE end)
<1>1. add = Gives(stage, end, effect, capped, untrusted, exported, log')
  BY DEF Ended
<1>2. /\ add.term = Term(end, capped)
      /\ add.claim = Observed(stage, effect, untrusted)
      /\ add.tokens = (IF ~HasTurn(end) THEN 0 ELSE IF exported /\ ~Errs(end) THEN Share(log') ELSE Streamed(Turn(end)))
  BY <1>1 DEF Gives
<1>3. add.untrusted = untrusted /\ add.sid = HasTurn(end) /\ add.stderr = Warns(end) /\ add.event = (end = "limit" /\ ~capped)
  BY <1>1 DEF Gives
<1>4. run' = [run EXCEPT !.end = IF capped THEN "capped" ELSE end]
  BY DEF Ended, RunEnds
<1>5. run'.stage = run.stage /\ run'.route = run.route /\ run'.end = (IF capped THEN "capped" ELSE end)
  BY <1>4 DEF Typed, Runs
<1>6. log' = log \o Turn(end) /\ clock' = clock + Lasts(took) /\ took \in Nat /\ end \in Ends /\ conf' = conf
  BY DEF Ended, RunEnds
<1> QED BY <1>2, <1>3, <1>4, <1>5, <1>6

\* The four ends of a working run have this in common.
LEMMA WorkEnded ==
  ASSUME ConfigsAssumption, Typed, FirstRunEnds \/ StallRunEnds \/ SwitchRunEnds \/ ContRunEnds
  PROVE  /\ pc \in Stages \ {"probe"} /\ pc' \in {"done", "stallGate", "switchGate", "roundGate"} /\ memory' = memory
         /\ \E end, effect, capped, untrusted, exported, took, add :
              Ended(pc, end, effect, capped, untrusted, exported, took, add)
<1>1. CASE FirstRunEnds
  <2>1. PICK end, effect, capped, untrusted, exported, took, add :
          /\ Ended("first", end, effect, capped, untrusted, exported, took, add)
          /\ pc' = (IF Errs(end) \/ res'.loop THEN "done" ELSE "stallGate")
    BY <1>1, FirstEnded
  <2> QED BY <1>1, <2>1, FirstEnded DEF Stages
<1>2. CASE StallRunEnds
  BY <1>2, StallEnded DEF Stages
<1>3. CASE SwitchRunEnds
  <2>1. PICK end, effect, capped, untrusted, exported, took, add :
          /\ Ended("switch", end, effect, capped, untrusted, exported, took, add)
          /\ pc' = (IF Errs(end) THEN "done" ELSE "switchGate")
    BY <1>3, SwitchEnded
  <2> QED BY <1>3, <2>1, SwitchEnded DEF Stages
<1>4. CASE ContRunEnds
  <2>1. PICK end, effect, capped, untrusted, exported, took, add :
          /\ Ended("cont", end, effect, capped, untrusted, exported, took, add)
          /\ pc' = (IF Errs(end) THEN "done" ELSE "roundGate")
    BY <1>4, ContEnded
  <2> QED BY <1>4, <2>1, ContEnded DEF Stages
<1> QED BY <1>1, <1>2, <1>3, <1>4

\* The disjuncts of the next-state relation, the ends of working runs as one.
Gate == \/ Begin \/ StallResumes \/ StallStands \/ SwitchRoute \/ SwitchEnds
        \/ RoundBegins \/ Returns \/ BackoffEnds \/ BackoffCancelled \/ Continues \/ TooLateToContinue
        \/ Cancel \/ UNCHANGED vars
WorkEnds == FirstRunEnds \/ StallRunEnds \/ SwitchRunEnds \/ ContRunEnds

LEMMA StepCases == ASSUME [Next]_vars PROVE Gate \/ WorkEnds \/ ProbeRunEnds
BY DEF Next, Gate, WorkEnds

-----------------------------------------------------------------------------
(* The cap.                                                                *)

LEMMA ClockedInit == ASSUME ConfigsAssumption, Init PROVE Clocked
<1>1. conf.cap \in Nat
  BY ConfIsTyped DEF Init, ConfigOK
<1> QED BY <1>1 DEF Init, Clocked, Bounded, Stages

LEMMA ClockedGate ==
  ASSUME ConfigsAssumption, Typed, Clocked, Gate
  PROVE  Clocked'
<1>0. /\ conf.cap \in Nat /\ clock \in Nat /\ Remaining = conf.cap - clock /\ Remaining \in Int
      /\ Budget \in Int /\ (Bounded => Budget = Remaining) /\ (Bounded <=> conf.cap > 0)
      /\ RoundFloor = 3 /\ Backoff = 1 /\ ProbeBox = 1 /\ Winding = 1 /\ Floor = 1
  BY BudgetIsTyped DEF Typed, Remaining, Budget, Bounded, RoundFloor, Backoff, ProbeBox, Winding, Floor
<1>n. current \in Nat /\ next \in Nat
  BY DEF Typed
<1>1. CASE Begin
  <2>1. /\ pc' = "first" /\ run'.stage = "first" /\ run'.budget = conf.cap /\ clock' = 0 /\ conf' = conf
    BY <1>1, <1>0, StartsIsTyped DEF Begin, RunKeeps, Clocked, Stages
  <2>2. (Bounded <=> conf.cap > 0)'
    BY DEF Bounded
  <2> QED BY <2>1, <2>2, <1>0 DEF Clocked, Stages
<1>2. CASE StallResumes
  <2>1. /\ pc' = "stall" /\ run'.stage = "stall" /\ run'.budget = Budget /\ clock' = clock /\ conf' = conf
        /\ Bounded => Remaining >= Floor
    BY <1>2, <1>0, <1>n, StartsIsTyped DEF StallResumes, StallResumable, RunKeeps, Stages
  <2>2. (Bounded <=> conf.cap > 0)'
    BY DEF Bounded
  <2> QED BY <2>1, <2>2, <1>0 DEF Clocked, Stages
<1>3. CASE SwitchRoute
  <2>1. /\ pc' = "switch" /\ run'.stage = "switch" /\ run'.budget = Budget /\ clock' = clock /\ conf' = conf
        /\ Bounded => Remaining >= Floor
    BY <1>3, <1>0, <1>n, StartsIsTyped DEF SwitchRoute, Switchable, RunKeeps, Stages
  <2>2. (Bounded <=> conf.cap > 0)'
    BY DEF Bounded
  <2> QED BY <2>1, <2>2, <1>0 DEF Clocked, Stages
<1>4. CASE Continues
  <2>1. /\ pc' = "cont" /\ run'.stage = "cont" /\ run'.budget = Budget /\ clock' = clock /\ conf' = conf
        /\ Bounded => Remaining >= Floor
    BY <1>4, <1>0, <1>n, StartsIsTyped DEF Continues, ResumeRoute, RunKeeps, Stages
  <2>2. (Bounded <=> conf.cap > 0)'
    BY DEF Bounded
  <2> QED BY <2>1, <2>2, <1>0 DEF Clocked, Stages
<1>5. CASE BackoffEnds
  <2>1. /\ pc = "backoff" /\ pc' = "probe" /\ run'.stage = "probe" /\ clock' = clock + Backoff /\ conf' = conf
    BY <1>5, <1>0, <1>n, StartsIsTyped DEF BackoffEnds, ResumeRoute, Stages
  <2>2. (Bounded <=> conf.cap > 0)'
    BY DEF Bounded
  <2> QED BY <2>1, <2>2, <1>0 DEF Clocked, Stages
<1>6. CASE RoundBegins
  <2>1. pc' = "backoff" /\ clock' = clock /\ conf' = conf /\ (Bounded => Remaining >= RoundFloor)
    BY <1>6 DEF RoundBegins, Resurrectable, RunKeeps
  <2>2. (Bounded <=> conf.cap > 0)'
    BY DEF Bounded
  <2> QED BY <2>1, <2>2, <1>0 DEF Clocked, Stages
<1>7. CASE StallStands \/ SwitchEnds \/ Returns \/ BackoffCancelled \/ TooLateToContinue
  <2>1. pc' \in {"switchGate", "roundGate", "done"} /\ clock' = clock /\ conf' = conf
    BY <1>7 DEF StallStands, SwitchEnds, Returns, BackoffCancelled, TooLateToContinue, RunKeeps
  <2>2. (Bounded <=> conf.cap > 0)'
    BY DEF Bounded
  <2> QED BY <2>1, <2>2, <1>0 DEF Clocked, Stages
<1>8. CASE Cancel \/ UNCHANGED vars
  <2>1. pc' = pc /\ clock' = clock /\ conf' = conf /\ run' = run
    BY <1>8 DEF Cancel, vars
  <2> QED BY <2>1 DEF Clocked, Bounded
<1> QED BY <1>1, <1>2, <1>3, <1>4, <1>5, <1>6, <1>7, <1>8 DEF Gate

LEMMA ClockedEnd ==
  ASSUME ConfigsAssumption, Typed, Clocked, WorkEnds \/ ProbeRunEnds
  PROVE  Clocked'
<1>0. /\ conf.cap \in Nat /\ clock \in Nat /\ run.budget \in Int /\ (Bounded <=> conf.cap > 0)
      /\ (Bounded <=> conf.cap > 0)' /\ ProbeBox = 1 /\ Winding = 1
  BY BudgetIsTyped DEF Typed, Runs, Bounded, ProbeBox, Winding
<1>1. CASE WorkEnds
  <2>1. PICK end, effect, capped, untrusted, exported, took, add :
          Ended(pc, end, effect, capped, untrusted, exported, took, add)
    BY <1>1, WorkEnded DEF WorkEnds
  <2>2. /\ pc \in Stages \ {"probe"} /\ pc' \in {"done", "stallGate", "switchGate", "roundGate"}
    BY <1>1, WorkEnded DEF WorkEnds
  <2>3. conf' = conf /\ clock' = clock + Lasts(took) /\ took \in Nat
    BY <2>1, EndedFields
  <2>4. run.stage = pc
    BY <2>2 DEF Clocked
  <2>5. Bounded => clock' <= conf.cap
    <3> SUFFICES ASSUME Bounded PROVE clock' <= conf.cap
      OBVIOUS
    <3>1. run.budget > 0 /\ clock + run.budget <= conf.cap
      BY <2>2 DEF Clocked
    <3>2. Lasts(took) <= run.budget /\ Lasts(took) \in Int
      BY <3>1, <2>2, <2>3, <2>4, <1>0 DEF Lasts, CappedAt
    <3> QED BY <3>1, <3>2, <2>3, <1>0
  <2> QED BY <2>2, <2>3, <2>5, <1>0 DEF Clocked, Stages
<1>2. CASE ProbeRunEnds
  <2>1. PICK end, effect, untrusted, exported, took, add :
          /\ Ended("probe", end, effect, FALSE, untrusted, exported, took, add)
          /\ took <= ProbeBox + Winding
    BY <1>2, ProbeEnded
  <2>2. pc = "probe" /\ pc' \in {"contGate", "done"}
    BY <1>2, ProbeEnded
  <2>3. conf' = conf /\ clock' = clock + Lasts(took) /\ took \in Nat
    BY <2>1, EndedFields
  <2>4. run.stage = "probe"
    BY <2>2 DEF Clocked, Stages
  <2>5. Lasts(took) = took
    BY <2>4 DEF Lasts, CappedAt
  <2> QED BY <2>1, <2>2, <2>3, <2>5, <1>0 DEF Clocked, Stages
<1> QED BY <1>1, <1>2

-----------------------------------------------------------------------------
(* What is lost or cannot be read.                                         *)

LEMMA ReadsStep ==
  ASSUME ConfigsAssumption, Typed, Reads, [Next]_vars
  PROVE  Reads'
<1>0. Gate \/ WorkEnds \/ ProbeRunEnds
  BY StepCases
<1>n. current \in Nat /\ next \in Nat /\ Budget \in Int /\ conf.cap \in Nat
  BY BudgetIsTyped DEF Typed
<1>1. CASE Gate
  <2>1. res' = res /\ memory' = memory /\ (pc = "done" => pc' = "done")
    BY <1>1 DEF Gate, Begin, StallResumes, StallStands, SwitchRoute, SwitchEnds, RoundBegins, Returns, BackoffEnds,
                BackoffCancelled, Continues, TooLateToContinue, Cancel, vars, RunKeeps
  <2>2. res.untrusted => pc' \in {"stallGate", "switchGate", "roundGate", "done"}
    BY <1>1 DEF Reads, Gate, Begin, StallResumes, StallStands, SwitchRoute, SwitchEnds, RoundBegins, Returns, BackoffEnds,
                BackoffCancelled, Continues, TooLateToContinue, Cancel, vars,
                StallResumable, Switchable, Resurrectable
  <2> QED BY <2>1, <2>2 DEF Reads
<1>2. CASE WorkEnds
  BY <1>2, WorkEnded DEF WorkEnds, Reads, Stages
<1>3. CASE ProbeRunEnds
  <2>1. PICK end, effect, untrusted, exported, took, add :
          /\ Ended("probe", end, effect, FALSE, untrusted, exported, took, add)
          /\ res' = FoldSame(ChargeOnly(res, add), add)
    BY <1>3, ProbeEnded
  <2>2. Keeps(res, res')
    <3>1. res \in Results /\ add \in Results
      BY <2>1 DEF Ended, Typed
    <3> QED BY <2>1, <3>1, SameFields
  <2> QED BY <1>3, <2>2, ProbeEnded DEF Reads, Keeps
<1> QED BY <1>0, <1>1, <1>2, <1>3

-----------------------------------------------------------------------------
(* The charge.                                                             *)

\* A turn at the end of the log adds its tokens to the log's, and is the log's last share.
LEMMA TurnIsAppended ==
  ASSUME NEW s \in Seq(Nat), NEW end \in Ends
  PROVE  /\ Sum(s) \in Nat /\ Sum(Turn(end)) \in Nat
         /\ Sum(s \o Turn(end)) = Sum(s) + Sum(Turn(end))
         /\ HasTurn(end) => SubSeq(s \o Turn(end), Len(s) + 1, Len(s \o Turn(end))) = Turn(end) /\ s \o Turn(end) # <<>>
         /\ ~HasTurn(end) => s \o Turn(end) = s /\ Sum(Turn(end)) = 0
<1>1. Sum(s) \in Nat /\ Sum(<<>>) = 0
  BY SumIsTyped, SumOfNothing
<1>2. CASE ~HasTurn(end)
  <2>1. s \o <<>> = s
    OBVIOUS
  <2>2. Turn(end) = <<>>
    BY <1>2, TurnIsTyped
  <2>3. s \o Turn(end) = s /\ Sum(Turn(end)) = 0
    BY <1>1, <2>1, <2>2
  <2> QED BY <1>1, <1>2, <2>3
<1>3. CASE HasTurn(end)
  <2>1. PICK b \in {0, 1} : Turn(end) = <<1, b>>
    BY <1>3, TurnIsTyped
  <2>2. Sum(s \o <<1, b>>) = Sum(s) + 1 + b
    BY <2>1, SumOfTwoMore
  <2>3. Sum(<<1, b>>) = 1 + b
    <3>1. <<>> \o <<1, b>> = <<1, b>> /\ <<>> \in Seq(Nat) /\ 1 \in Nat /\ b \in Nat
      OBVIOUS
    <3>2. Sum(<<>> \o <<1, b>>) = Sum(<<>>) + 1 + b
      BY <3>1, SumOfTwoMore
    <3> QED BY <3>1, <3>2, <1>1
  <2>4. SubSeq(s \o <<1, b>>, Len(s) + 1, Len(s \o <<1, b>>)) = <<1, b>> /\ s \o <<1, b>> # <<>>
    <3> DEFINE t == s \o <<1, b>>
    <3>1. /\ Len(s) \in Nat /\ t \in Seq(Nat) /\ Len(t) = Len(s) + 2
          /\ t[Len(s) + 1] = 1 /\ t[Len(s) + 2] = b
      OBVIOUS
    <3> HIDE DEF t
    <3> DEFINE u == SubSeq(t, Len(s) + 1, Len(t))
    <3>2. Len(u) = 2 /\ u[1] = 1 /\ u[2] = b /\ u \in Seq(Nat)
      BY <3>1
    <3> HIDE DEF u
    <3>3. u = <<1, b>>
      BY <3>2
    <3> QED BY <3>1, <3>3 DEF t, u
  <2> QED BY <1>1, <1>3, <2>1, <2>2, <2>3, <2>4
<1> QED BY <1>2, <1>3

\* A run is charged what it added: in its Result, or in what no report mentions.
LEMMA RunIsCharged ==
  ASSUME Typed, Charged, NEW end, NEW effect, NEW capped, NEW untrusted, NEW exported, NEW took, NEW add,
         pc \in Stages, Ended(pc, end, effect, capped, untrusted, exported, took, add)
  PROVE  /\ add.tokens \in Nat /\ missed' \in Nat
         /\ add.tokens + missed' = missed + (Sum(log') - Sum(log))
              + (IF HasTurn(end) /\ pc = "first" THEN Title ELSE 0)
         /\ HasTurn(end) => log' # <<>>
         /\ ~HasTurn(end) => log' = log
<1>0. /\ log \in Seq(Nat) /\ end \in Ends /\ log' = log \o Turn(end) /\ missed \in Nat /\ Title = 1
  BY EndedFields DEF Typed, Title
<1>1. run.stage = pc /\ run.since = Len(log) + 1
  BY DEF Charged
<1>2. /\ missed' \in Nat /\ add.tokens \in Nat
  BY EndedIsTyped DEF Ended, Results
<1>3. missed' = missed + (IF ~HasTurn(end) THEN 0
                          ELSE IF exported /\ ~Errs(end) THEN 0
                          ELSE Sum(Turn(end)) - Streamed(Turn(end)) + (IF pc = "first" THEN Title ELSE 0))
  BY DEF Ended, RunEnds
<1>4. add.tokens = (IF ~HasTurn(end) THEN 0 ELSE IF exported /\ ~Errs(end) THEN Share(log') ELSE Streamed(Turn(end)))
  BY EndedFields
<1>5. /\ Sum(log) \in Nat /\ Sum(Turn(end)) \in Nat /\ Sum(log') = Sum(log) + Sum(Turn(end))
      /\ HasTurn(end) => SubSeq(log', Len(log) + 1, Len(log')) = Turn(end) /\ log' # <<>>
      /\ ~HasTurn(end) => log' = log /\ Sum(Turn(end)) = 0
  BY <1>0, TurnIsAppended
<1>6. Streamed(Turn(end)) \in Nat
  BY <1>0, TurnIsTyped
<1>7. CASE ~HasTurn(end)
  BY <1>0, <1>2, <1>3, <1>4, <1>5, <1>7
<1>8. CASE HasTurn(end) /\ exported /\ ~Errs(end)
  <2>1. Share(log') = Sum(Turn(end)) + (IF pc = "first" THEN Title ELSE 0)
    BY <1>0, <1>1, <1>5, <1>8 DEF Share, Resumes
  <2> QED BY <1>0, <1>2, <1>3, <1>4, <1>5, <1>8, <2>1
<1>9. CASE HasTurn(end) /\ ~(exported /\ ~Errs(end))
  <2> DEFINE all == Sum(Turn(end))
             told == Streamed(Turn(end))
             extra == IF pc = "first" THEN Title ELSE 0
  <2>1. all \in Nat /\ told \in Nat /\ extra \in Nat /\ missed \in Nat
    BY <1>0, <1>5, <1>6
  <2>2. add.tokens = told /\ missed' = missed + (all - told + extra) /\ Sum(log') - Sum(log) = all
    BY <1>3, <1>4, <1>5, <1>9
  <2>3. extra = (IF HasTurn(end) /\ pc = "first" THEN Title ELSE 0) /\ log' # <<>>
    BY <1>5, <1>9
  <2> HIDE DEF all, told, extra
  <2>4. add.tokens + missed' = missed + (Sum(log') - Sum(log)) + extra
    BY <2>1, <2>2
  <2> QED BY <1>2, <1>9, <2>3, <2>4
<1> QED BY <1>7, <1>8, <1>9

LEMMA ChargedInit == ASSUME Init PROVE Charged
<1>1. Sum(<<>>) = 0
  BY SumOfNothing
<1>2. pc = "start" /\ log = <<>> /\ res = EmptyResult /\ missed = 0
  BY DEF Init
<1>3. res.tokens = 0 /\ res.sid = FALSE
  BY <1>2 DEF EmptyResult
<1> QED BY <1>1, <1>2, <1>3 DEF Charged, ChargedOnce, Stages

LEMMA ChargedGate ==
  ASSUME ConfigsAssumption, Typed, Charged, Gate
  PROVE  Charged'
<1>n. current \in Nat /\ next \in Nat /\ Budget \in Int /\ conf.cap \in Nat /\ ProbeBox \in Int
  BY BudgetIsTyped DEF Typed, ProbeBox
<1>0. res' = res /\ missed' = missed /\ log' = log
  BY DEF Gate, Begin, StallResumes, StallStands, SwitchRoute, SwitchEnds, RoundBegins, Returns, BackoffEnds,
         BackoffCancelled, Continues, TooLateToContinue, Cancel, vars, RunKeeps
<1>1. ChargedOnce'
  BY <1>0 DEF Charged, ChargedOnce
<1>2. CASE Begin \/ StallResumes \/ SwitchRoute \/ BackoffEnds \/ Continues
  <2>1. \E stage \in Stages, route \in Nat, budget \in Int :
          /\ Starts(stage, route, budget)
          /\ stage = "first" => pc = "start"
          /\ stage # "first" => res.sid
    <3>1. CASE Begin
      BY <3>1, <1>n DEF Begin, Stages
    <3>2. CASE StallResumes
      BY <3>2, <1>n DEF StallResumes, StallResumable, Stages
    <3>3. CASE SwitchRoute
      BY <3>3, <1>n DEF SwitchRoute, Switchable, Stages
    <3>4. CASE BackoffEnds
      BY <3>4, <1>n DEF BackoffEnds, ResumeRoute, Stages, Charged
    <3>5. CASE Continues
      BY <3>5, <1>n DEF Continues, ResumeRoute, Stages, Charged
    <3> QED BY <1>2, <3>1, <3>2, <3>3, <3>4, <3>5
  <2>2. PICK stage \in Stages, route \in Nat, budget \in Int :
          /\ Starts(stage, route, budget)
          /\ stage = "first" => pc = "start"
          /\ stage # "first" => res.sid
    BY <2>1
  <2>3. pc' = stage /\ run'.stage = stage /\ run'.since = Len(log) + 1
    BY <2>2, StartsIsTyped
  <2>4. pc' \in {"start", "first"} => log = <<>> /\ res = EmptyResult /\ missed = 0
    BY <2>2, <2>3 DEF Charged, Stages
  <2>5. pc' \in {"stall", "switch", "backoff", "probe", "contGate", "cont"} => res.sid
    BY <2>2, <2>3
  <2>6. res.sid => log # <<>>
    BY DEF Charged
  <2> QED BY <1>0, <1>1, <2>3, <2>4, <2>5, <2>6 DEF Charged
<1>3. CASE StallStands \/ SwitchEnds \/ RoundBegins \/ Returns \/ BackoffCancelled \/ TooLateToContinue
  <2>1. pc' \in {"switchGate", "roundGate", "backoff", "done"} /\ (pc' = "backoff" => res.sid)
    BY <1>3 DEF StallStands, SwitchEnds, RoundBegins, Resurrectable, Returns, BackoffCancelled, TooLateToContinue
  <2> QED BY <1>0, <1>1, <2>1 DEF Charged, Stages
<1>4. CASE Cancel \/ UNCHANGED vars
  <2>1. pc' = pc /\ run' = run
    BY <1>4 DEF Cancel, vars
  <2> QED BY <1>0, <1>1, <2>1 DEF Charged
<1> QED BY <1>2, <1>3, <1>4 DEF Gate

\* What a run is charged, added once to the Result, keeps the account.
LEMMA AccountIsKept ==
  ASSUME Typed, Charged, NEW end, NEW effect, NEW capped, NEW untrusted, NEW exported, NEW took, NEW add,
         pc \in Stages \ {"first"}, Ended(pc, end, effect, capped, untrusted, exported, took, add),
         res'.tokens = res.tokens + add.tokens
  PROVE  ChargedOnce' /\ log' # <<>>
<1>2. log # <<>> /\ res.tokens + missed = Sum(log) + Title
  BY DEF Charged, ChargedOnce, Stages
<1>3. log' \in Seq(Nat) /\ log \in Seq(Nat)
  BY EndedIsTyped DEF Typed
<1>4. Sum(log) \in Nat /\ Sum(log') \in Nat
  BY <1>3, SumIsTyped
<1>5. res.tokens \in Nat /\ missed \in Nat /\ Title \in Nat
  BY DEF Typed, Results, Title
<1>1. /\ add.tokens \in Nat /\ missed' \in Nat
      /\ add.tokens + missed' = missed + (Sum(log') - Sum(log))
      /\ log' # <<>>
  <2>1. pc \in Stages /\ pc # "first"
    OBVIOUS
  <2>2. /\ add.tokens \in Nat /\ missed' \in Nat
        /\ add.tokens + missed' = missed + (Sum(log') - Sum(log)) + (IF HasTurn(end) /\ pc = "first" THEN Title ELSE 0)
        /\ HasTurn(end) => log' # <<>>
        /\ ~HasTurn(end) => log' = log
    BY <2>1, RunIsCharged
  <2> QED BY <2>1, <2>2, <1>2, <1>4, <1>5
<1>6. res'.tokens + missed' = Sum(log') + Title
  <2> DEFINE before == Sum(log)
             after == Sum(log')
  <2>1. before \in Nat /\ after \in Nat /\ res.tokens + missed = before + Title
        /\ add.tokens + missed' = missed + (after - before) /\ res'.tokens = res.tokens + add.tokens
    BY <1>1, <1>2, <1>4
  <2> HIDE DEF before, after
  <2>2. res'.tokens + missed' = after + Title
    BY <1>1, <1>5, <2>1
  <2> QED BY <2>2 DEF after
<1> QED BY <1>1, <1>6 DEF ChargedOnce

LEMMA ChargedEnd ==
  ASSUME ConfigsAssumption, Typed, Charged, WorkEnds \/ ProbeRunEnds
  PROVE  Charged'
<1>1. CASE FirstRunEnds
  <2>1. PICK end, effect, capped, untrusted, exported, took, add :
          /\ Ended("first", end, effect, capped, untrusted, exported, took, add)
          /\ res' = add
          /\ failed' = Errs(end)
          /\ pc' = (IF Errs(end) \/ res'.loop THEN "done" ELSE "stallGate")
          /\ Quiet(counts, counts', res'.term = "quiet")
    BY <1>1, FirstEnded
  <2>2. pc = "first" /\ pc \in Stages
    BY <1>1, FirstEnded DEF Stages
  <2>3. log = <<>> /\ missed = 0 /\ Sum(log) = 0
    BY <2>2, SumOfNothing DEF Charged
  <2>4. Ended(pc, end, effect, capped, untrusted, exported, took, add)
    BY <2>1, <2>2
  <2>5. /\ add.tokens \in Nat /\ missed' \in Nat
        /\ add.tokens + missed' = missed + (Sum(log') - Sum(log)) + (IF HasTurn(end) /\ pc = "first" THEN Title ELSE 0)
        /\ HasTurn(end) => log' # <<>>
        /\ ~HasTurn(end) => log' = log
    BY <2>2, <2>4, RunIsCharged
  <2>6. log' \in Seq(Nat)
    BY <2>4, EndedIsTyped
  <2>7. Sum(log') \in Nat /\ Title \in Nat
    BY <2>6, SumIsTyped DEF Title
  <2>8. ChargedOnce'
    <3>1. add.tokens + missed' = Sum(log') + (IF log' = <<>> THEN 0 ELSE Title)
      BY <2>2, <2>3, <2>5, <2>7
    <3> QED BY <3>1, <2>1 DEF ChargedOnce
  <2>9. res'.sid => log' # <<>>
    BY <2>1, <2>4, <2>5, EndedFields
  <2>10. pc' \in {"done", "stallGate"}
    BY <2>1
  <2> QED BY <2>8, <2>9, <2>10 DEF Charged, Stages
<1>2. CASE StallRunEnds
  <2>1. PICK end, effect, capped, untrusted, exported, took, add :
          /\ Ended("stall", end, effect, capped, untrusted, exported, took, add)
          /\ res' = (IF Errs(end) THEN FoldSame(ChargeOnly(res, add), add) ELSE MergeResume(res, add))
          /\ Quiet(counts, counts', ~Errs(end) /\ add.term = "quiet")
    BY <1>2, StallEnded
  <2>2. pc = "stall" /\ pc' = "switchGate"
    BY <1>2, StallEnded
  <2>3. res \in Results /\ add \in Results
    BY <2>1 DEF Ended, Typed
  <2>4. res'.tokens = res.tokens + add.tokens
    BY <2>1, <2>3, SameFields, MergeFields
  <2>5. ChargedOnce' /\ log' # <<>>
    BY <2>1, <2>2, <2>4, AccountIsKept DEF Stages
  <2> QED BY <2>2, <2>5 DEF Charged, Stages
<1>3. CASE SwitchRunEnds
  <2>1. PICK end, effect, capped, untrusted, exported, took, add :
          /\ Ended("switch", end, effect, capped, untrusted, exported, took, add)
          /\ res' = (IF Errs(end) THEN ChargeOnly(res, add) ELSE MergeRouteSwitch(res, add))
          /\ failed' = Errs(end)
          /\ current' = (IF Errs(end) THEN current ELSE run.route)
          /\ pc' = (IF Errs(end) THEN "done" ELSE "switchGate")
          /\ Quiet(counts, counts', ~Errs(end) /\ add.term = "quiet")
    BY <1>3, SwitchEnded
  <2>2. pc = "switch" /\ pc' \in {"done", "switchGate"}
    BY <1>3, <2>1, SwitchEnded
  <2>3. res \in Results /\ add \in Results
    BY <2>1 DEF Ended, Typed
  <2>4. res'.tokens = res.tokens + add.tokens
    BY <2>1, <2>3, ChargeFields, SwitchFields
  <2>5. ChargedOnce' /\ log' # <<>>
    BY <2>1, <2>2, <2>4, AccountIsKept DEF Stages
  <2> QED BY <2>2, <2>5 DEF Charged, Stages
<1>4. CASE ContRunEnds
  <2>1. PICK end, effect, capped, untrusted, exported, took, add :
          /\ Ended("cont", end, effect, capped, untrusted, exported, took, add)
          /\ res' = (IF Errs(end) THEN ChargeOnly(res, add) ELSE MergeResume(res, add))
          /\ pc' = (IF Errs(end) THEN "done" ELSE "roundGate")
          /\ Quiet(counts, counts', ~Errs(end) /\ add.term = "quiet")
    BY <1>4, ContEnded
  <2>2. pc = "cont" /\ pc' \in {"done", "roundGate"}
    BY <1>4, <2>1, ContEnded
  <2>3. res \in Results /\ add \in Results
    BY <2>1 DEF Ended, Typed
  <2>4. res'.tokens = res.tokens + add.tokens
    BY <2>1, <2>3, ChargeFields, MergeFields
  <2>5. ChargedOnce' /\ log' # <<>>
    BY <2>1, <2>2, <2>4, AccountIsKept DEF Stages
  <2> QED BY <2>2, <2>5 DEF Charged, Stages
<1>5. CASE ProbeRunEnds
  <2>1. PICK end, effect, untrusted, exported, took, add :
          /\ Ended("probe", end, effect, FALSE, untrusted, exported, took, add)
          /\ took <= ProbeBox + Winding
          /\ res' = FoldSame(ChargeOnly(res, add), add)
    BY <1>5, ProbeEnded
  <2>2. pc = "probe" /\ pc' \in {"contGate", "done"}
    BY <1>5, ProbeEnded
  <2>3. res \in Results /\ add \in Results
    BY <2>1 DEF Ended, Typed
  <2>4. res'.tokens = res.tokens + add.tokens /\ (res'.sid <=> res.sid)
    BY <2>1, <2>3, SameFields DEF Keeps
  <2>5. ChargedOnce' /\ log' # <<>>
    BY <2>1, <2>2, <2>4, AccountIsKept DEF Stages
  <2>6. res.sid
    BY <2>2 DEF Charged
  <2> QED BY <2>2, <2>4, <2>5, <2>6 DEF Charged, Stages
<1> QED BY <1>1, <1>2, <1>3, <1>4, <1>5 DEF WorkEnds

-----------------------------------------------------------------------------
(* The routes.                                                             *)

LEMMA RoutedInit == ASSUME ConfigsAssumption, Init PROVE Routed
<1>1. conf.routes \in Nat \ {0}
  BY ConfIsTyped DEF Init, ConfigOK
<1>2. /\ pc = "start" /\ current = 1 /\ next = 2 /\ falls = <<>>
  BY DEF Init
<1>3. Len(falls) = 0
  BY <1>2
<1> QED BY <1>1, <1>2, <1>3 DEF Routed, Behind, Stages

\* A route that is reported comes after those that were reported before.
LEMMA FallIsAppended ==
  ASSUME Typed, NEW route \in Nat, falls' = Append(falls, route)
  PROVE  /\ falls' \in Seq(Nat) /\ Len(falls') = Len(falls) + 1 /\ Len(falls) \in Nat
         /\ falls'[Len(falls) + 1] = route
         /\ \A i \in 1 .. Len(falls) : falls'[i] = falls[i]
BY DEF Typed

LEMMA RoutedGate ==
  ASSUME ConfigsAssumption, Typed, Routed, Gate
  PROVE  Routed'
<1>0. /\ conf.routes \in Nat \ {0} /\ current \in Nat /\ next \in Nat /\ Budget \in Int /\ conf.cap \in Nat /\ ProbeBox \in Int
      /\ Len(falls) \in Nat /\ Floor = 1 /\ RoundFloor = 3 /\ Remaining \in Int
  BY BudgetIsTyped, ConfIsTyped DEF Typed, ConfigOK, ProbeBox, Floor, RoundFloor, Backoff
<1>1. CASE Begin
  <2>1. /\ pc = "start" /\ pc' = "first" /\ run'.route = 1 /\ UNCHANGED <<conf, next, current, falls>>
    BY <1>1, <1>0, StartsIsTyped DEF Begin, RunKeeps, Stages
  <2> QED BY <2>1, <1>0 DEF Routed, Behind, Stages
<1>2. CASE StallResumes
  <2>1. /\ pc = "stallGate" /\ pc' = "stall" /\ run'.route = current /\ UNCHANGED <<conf, next, current, falls>>
    BY <1>2, <1>0, StartsIsTyped DEF StallResumes, RunKeeps, Stages
  <2> QED BY <2>1, <1>0 DEF Routed, Behind, Stages
<1>3. CASE StallStands
  <2>1. /\ pc = "stallGate" /\ pc' = "switchGate" /\ UNCHANGED <<conf, next, current, falls>>
    BY <1>3 DEF StallStands, RunKeeps
  <2> QED BY <2>1, <1>0 DEF Routed, Behind, Stages
<1>4. CASE SwitchRoute
  <2>1. /\ pc = "switchGate" /\ pc' = "switch" /\ run'.route = next /\ next' = next + 1 /\ next <= conf.routes
        /\ falls' = Append(falls, current) /\ UNCHANGED <<conf, current>>
    BY <1>4, <1>0, StartsIsTyped DEF SwitchRoute, Switchable, RunKeeps, Stages
  <2>2. current = next - 1 /\ Behind(current) /\ current \in 1 .. conf.routes /\ next \in 2 .. conf.routes + 1
        /\ \A i \in 1 .. Len(falls) : falls[i] \in 1 .. conf.routes
    BY <2>1 DEF Routed
  <2>3. /\ Len(falls') = Len(falls) + 1 /\ falls'[Len(falls) + 1] = current
        /\ \A i \in 1 .. Len(falls) : falls'[i] = falls[i]
    BY <2>1, <1>0, FallIsAppended
  <2>4. \A i \in 1 .. Len(falls') : falls'[i] < next /\ falls'[i] \in 1 .. conf.routes
    <3> SUFFICES ASSUME NEW i \in 1 .. Len(falls') PROVE falls'[i] < next /\ falls'[i] \in 1 .. conf.routes
      OBVIOUS
    <3>1. CASE i = Len(falls) + 1
      BY <3>1, <2>2, <2>3, <1>0
    <3>2. CASE i \in 1 .. Len(falls)
      BY <3>2, <2>2, <2>3, <1>0 DEF Behind
    <3> QED BY <3>1, <3>2, <2>3, <1>0
  <2> QED BY <2>1, <2>2, <2>4, <1>0 DEF Routed, Behind, Stages
<1>5. CASE SwitchEnds
  <2>1. /\ pc = "switchGate" /\ pc' = "roundGate" /\ ~Switchable /\ falls' = Reported
        /\ UNCHANGED <<conf, clock, res, next, current>>
    BY <1>5 DEF SwitchEnds, RunKeeps
  <2>2. current = next - 1 /\ Behind(current) /\ current \in 1 .. conf.routes /\ next \in 2 .. conf.routes + 1
        /\ \A i \in 1 .. Len(falls) : falls[i] \in 1 .. conf.routes
    BY <2>1 DEF Routed
  <2>3. CASE conf.routes > 1 /\ Limited(res) /\ ~res.untrusted
    <3>1. falls' = Append(falls, current)
      BY <2>1, <2>3 DEF Reported
    <3>2. /\ Len(falls') = Len(falls) + 1 /\ falls'[Len(falls) + 1] = current
          /\ \A i \in 1 .. Len(falls) : falls'[i] = falls[i]
      BY <3>1, <1>0, FallIsAppended
    <3>3. \A i \in 1 .. Len(falls') : falls'[i] \in 1 .. conf.routes
      BY <3>2, <2>2, <1>0
    <3>4. next > conf.routes \/ ~res.sid \/ (Bounded /\ Remaining < Floor)
      BY <2>1, <2>3, <1>0 DEF Switchable
    <3>5. current = conf.routes \/ ~res.sid \/ (Bounded /\ Remaining < Floor)
      BY <3>4, <2>2, <1>0
    <3>6. (current = conf.routes \/ ~res.sid \/ (Bounded /\ Remaining < Floor))'
      BY <3>5, <2>1 DEF Bounded, Remaining
    <3> QED BY <3>3, <3>6, <2>1, <2>2 DEF Routed, Stages
  <2>4. CASE ~(conf.routes > 1 /\ Limited(res) /\ ~res.untrusted)
    <3>1. falls' = falls
      BY <2>1, <2>4 DEF Reported
    <3>2. current \notin SentOn
      BY <2>2, <1>0 DEF SentOn, Behind
    <3>3. (current \notin SentOn)'
      BY <3>1, <3>2, <2>1 DEF SentOn
    <3> QED BY <3>1, <3>3, <2>1, <2>2 DEF Routed, Stages
  <2> QED BY <2>3, <2>4
<1>6. CASE RoundBegins
  <2>1. /\ pc = "roundGate" /\ pc' = "backoff" /\ UNCHANGED <<conf, next, current, falls>>
        /\ res.sid /\ (Bounded => Remaining >= RoundFloor)
    BY <1>6 DEF RoundBegins, Resurrectable, RunKeeps
  <2>2. current \in SentOn => current = conf.routes
    BY <2>1, <1>0 DEF Routed
  <2>3. (current \in SentOn => current = conf.routes)'
    BY <2>1, <2>2 DEF SentOn
  <2> QED BY <2>1, <2>3 DEF Routed, Stages
<1>7. CASE Returns \/ BackoffCancelled \/ TooLateToContinue
  <2>1. /\ pc' = "done" /\ UNCHANGED <<conf, next, current, falls>>
    BY <1>7 DEF Returns, BackoffCancelled, TooLateToContinue, RunKeeps
  <2> QED BY <2>1 DEF Routed, Stages
<1>8. CASE BackoffEnds \/ Continues
  <2>1. /\ pc \in {"backoff", "contGate"} /\ pc' \in {"probe", "cont"} /\ run'.route = current /\ UNCHANGED <<conf, next, current, falls>>
    <3>1. CASE BackoffEnds
      BY <3>1, <1>0, StartsIsTyped DEF BackoffEnds, ResumeRoute, Stages
    <3>2. CASE Continues
      BY <3>2, <1>0, StartsIsTyped DEF Continues, ResumeRoute, RunKeeps, Stages
    <3> QED BY <1>8, <3>1, <3>2
  <2>2. (current \notin SentOn \/ current = conf.routes)'
    BY <2>1 DEF Routed, SentOn
  <2> QED BY <2>1, <2>2 DEF Routed, Stages
<1>9. CASE Cancel \/ UNCHANGED vars
  <2>1. UNCHANGED <<conf, pc, run, res, clock, next, current, falls>>
    BY <1>9 DEF Cancel, vars
  <2> QED BY <2>1 DEF Routed, Behind, SentOn, Bounded, Remaining
<1> QED BY <1>1, <1>2, <1>3, <1>4, <1>5, <1>6, <1>7, <1>8, <1>9 DEF Gate

LEMMA RoutedEnd ==
  ASSUME ConfigsAssumption, Typed, Routed, WorkEnds \/ ProbeRunEnds
  PROVE  Routed'
<1>0. conf.routes \in Nat \ {0} /\ current \in Nat /\ next \in Nat
  BY ConfIsTyped DEF Typed, ConfigOK
<1>1. CASE FirstRunEnds
  <2>1. PICK end, effect, capped, untrusted, exported, took, add :
          /\ Ended("first", end, effect, capped, untrusted, exported, took, add)
          /\ pc' = (IF Errs(end) \/ res'.loop THEN "done" ELSE "stallGate")
    BY <1>1, FirstEnded
  <2>2. pc = "first" /\ pc' \in {"done", "stallGate"} /\ UNCHANGED <<conf, next, current, falls>>
    BY <1>1, <2>1, FirstEnded, EndedFields
  <2> QED BY <2>2 DEF Routed, Behind, Stages
<1>2. CASE StallRunEnds
  <2>1. PICK end, effect, capped, untrusted, exported, took, add :
          Ended("stall", end, effect, capped, untrusted, exported, took, add)
    BY <1>2, StallEnded
  <2>2. pc = "stall" /\ pc' = "switchGate" /\ UNCHANGED <<conf, next, current, falls>>
    BY <1>2, <2>1, StallEnded, EndedFields
  <2> QED BY <2>2 DEF Routed, Behind, Stages
<1>3. CASE SwitchRunEnds
  <2>1. PICK end, effect, capped, untrusted, exported, took, add :
          /\ Ended("switch", end, effect, capped, untrusted, exported, took, add)
          /\ current' = (IF Errs(end) THEN current ELSE run.route)
          /\ pc' = (IF Errs(end) THEN "done" ELSE "switchGate")
    BY <1>3, SwitchEnded
  <2>2. pc = "switch" /\ UNCHANGED <<conf, next, falls>>
    BY <1>3, <2>1, SwitchEnded, EndedFields
  <2>3. CASE Errs(end)
    <3>1. pc' = "done" /\ current' = current
      BY <2>1, <2>3
    <3> QED BY <2>2, <3>1 DEF Routed, Stages
  <2>4. CASE ~Errs(end)
    <3>1. pc' = "switchGate" /\ current' = run.route
      BY <2>1, <2>4
    <3> QED BY <2>2, <3>1 DEF Routed, Behind, Stages
  <2> QED BY <2>3, <2>4
<1>4. CASE ContRunEnds
  <2>1. PICK end, effect, capped, untrusted, exported, took, add :
          /\ Ended("cont", end, effect, capped, untrusted, exported, took, add)
          /\ pc' = (IF Errs(end) THEN "done" ELSE "roundGate")
    BY <1>4, ContEnded
  <2>2. pc = "cont" /\ pc' \in {"done", "roundGate"} /\ UNCHANGED <<conf, next, current, falls>>
    BY <1>4, <2>1, ContEnded, EndedFields
  <2>3. (current \notin SentOn \/ current = conf.routes)'
    BY <2>2 DEF Routed, SentOn
  <2> QED BY <2>2, <2>3 DEF Routed, Stages
<1>5. CASE ProbeRunEnds
  <2>1. PICK end, effect, untrusted, exported, took, add :
          Ended("probe", end, effect, FALSE, untrusted, exported, took, add)
    BY <1>5, ProbeEnded
  <2>2. pc = "probe" /\ pc' \in {"contGate", "done"} /\ UNCHANGED <<conf, next, current, falls>>
    BY <1>5, <2>1, ProbeEnded, EndedFields
  <2>3. (current \notin SentOn \/ current = conf.routes)'
    BY <2>2 DEF Routed, SentOn
  <2> QED BY <2>2, <2>3 DEF Routed, Stages
<1> QED BY <1>1, <1>2, <1>3, <1>4, <1>5 DEF WorkEnds

-----------------------------------------------------------------------------
(* The rounds and the runs.                                                *)

LEMMA CountedInit == ASSUME ConfigsAssumption, Init PROVE Counted
<1>1. conf.rounds \in Nat
  BY ConfIsTyped DEF Init, ConfigOK
<1>2. pc = "start" /\ next = 2 /\ attempt = 1 /\ counts.work = 0 /\ counts.probes = 0 /\ counts.quiet = 0
  BY DEF Init
<1> QED BY <1>1, <1>2 DEF Counted

LEMMA CountedGate ==
  ASSUME ConfigsAssumption, Typed, Counted, 2 <= next, Gate
  PROVE  Counted'
<1>0. /\ conf.rounds \in Nat /\ current \in Nat /\ next \in Nat /\ Budget \in Int /\ conf.cap \in Nat /\ ProbeBox \in Int
      /\ attempt \in Nat /\ counts.work \in Nat /\ counts.probes \in Nat /\ counts.quiet \in Nat
  BY BudgetIsTyped, ConfIsTyped DEF Typed, ConfigOK, ProbeBox
<1>1. CASE Begin
  <2>1. /\ pc = "start" /\ pc' = "first" /\ UNCHANGED <<conf, next, attempt, res>>
        /\ counts'.work = counts.work + 1 /\ counts'.probes = counts.probes /\ counts'.quiet = counts.quiet
    BY <1>1, <1>0, StartsIsTyped DEF Begin, RunKeeps, Stages
  <2> QED BY <2>1, <1>0 DEF Counted
<1>2. CASE StallResumes
  <2>1. /\ pc = "stallGate" /\ pc' = "stall" /\ res.term = "stall" /\ UNCHANGED <<conf, next, attempt, res>>
        /\ counts'.work = counts.work + 1 /\ counts'.probes = counts.probes /\ counts'.quiet = counts.quiet
    BY <1>2, <1>0, StartsIsTyped DEF StallResumes, StallResumable, RunKeeps, Stages
  <2> QED BY <2>1, <1>0 DEF Counted
<1>3. CASE StallStands
  <2>1. /\ pc = "stallGate" /\ pc' = "switchGate" /\ UNCHANGED <<conf, next, attempt, res, counts>>
    BY <1>3 DEF StallStands, RunKeeps
  <2> QED BY <2>1, <1>0 DEF Counted
<1>4. CASE SwitchRoute
  <2>1. /\ pc = "switchGate" /\ pc' = "switch" /\ next' = next + 1 /\ UNCHANGED <<conf, attempt, res>>
        /\ counts'.work = counts.work + 1 /\ counts'.probes = counts.probes /\ counts'.quiet = counts.quiet
    BY <1>4, <1>0, StartsIsTyped DEF SwitchRoute, RunKeeps, Stages
  <2> QED BY <2>1, <1>0 DEF Counted
<1>5. CASE SwitchEnds
  <2>1. /\ pc = "switchGate" /\ pc' = "roundGate" /\ UNCHANGED <<conf, next, attempt, res, counts>>
    BY <1>5 DEF SwitchEnds, RunKeeps
  <2> QED BY <2>1, <1>0 DEF Counted
<1>6. CASE RoundBegins
  <2>1. /\ pc = "roundGate" /\ pc' = "backoff" /\ UNCHANGED <<conf, next, attempt, res, counts>>
        /\ res.term = "quiet" /\ attempt <= conf.rounds
    BY <1>6 DEF RoundBegins, Resurrectable, RunKeeps
  <2> QED BY <2>1, <1>0 DEF Counted
<1>7. CASE Returns \/ BackoffCancelled \/ TooLateToContinue
  <2>1. /\ pc \in {"roundGate", "backoff", "contGate"} /\ pc' = "done" /\ UNCHANGED <<conf, next, attempt, res, counts>>
    BY <1>7 DEF Returns, BackoffCancelled, TooLateToContinue, RunKeeps
  <2> QED BY <2>1, <1>0 DEF Counted
<1>8. CASE BackoffEnds
  <2>1. /\ pc = "backoff" /\ pc' = "probe" /\ UNCHANGED <<conf, next, attempt, res>>
        /\ counts'.work = counts.work /\ counts'.probes = counts.probes + 1 /\ counts'.quiet = counts.quiet
    BY <1>8, <1>0, StartsIsTyped DEF BackoffEnds, ResumeRoute, Stages
  <2>2. res.term = "quiet" /\ counts.probes < counts.quiet /\ counts.probes < attempt /\ attempt <= conf.rounds
    BY <2>1 DEF Counted
  <2> QED BY <2>1, <2>2, <1>0 DEF Counted
<1>9. CASE Continues
  <2>1. /\ pc = "contGate" /\ pc' = "cont" /\ UNCHANGED <<conf, next, attempt, res>>
        /\ counts'.work = counts.work + 1 /\ counts'.probes = counts.probes /\ counts'.quiet = counts.quiet
    BY <1>9, <1>0, StartsIsTyped DEF Continues, ResumeRoute, RunKeeps, Stages
  <2> QED BY <2>1, <1>0 DEF Counted
<1>10. CASE Cancel \/ UNCHANGED vars
  <2>1. UNCHANGED <<conf, pc, res, next, attempt, counts>>
    BY <1>10 DEF Cancel, vars
  <2> QED BY <2>1 DEF Counted
<1> QED BY <1>1, <1>2, <1>3, <1>4, <1>5, <1>6, <1>7, <1>8, <1>9, <1>10 DEF Gate

LEMMA CountedEnd ==
  ASSUME ConfigsAssumption, Typed, Counted, 2 <= next, WorkEnds \/ ProbeRunEnds
  PROVE  Counted'
<1>0. /\ conf.rounds \in Nat /\ next \in Nat
      /\ attempt \in Nat /\ counts.work \in Nat /\ counts.probes \in Nat /\ counts.quiet \in Nat
  BY ConfIsTyped DEF Typed, ConfigOK
<1>1. CASE FirstRunEnds
  <2>1. PICK end, effect, capped, untrusted, exported, took, add :
          /\ Ended("first", end, effect, capped, untrusted, exported, took, add)
          /\ pc' = (IF Errs(end) \/ res'.loop THEN "done" ELSE "stallGate")
          /\ Quiet(counts, counts', res'.term = "quiet")
    BY <1>1, FirstEnded
  <2>2. pc = "first" /\ pc' \in {"done", "stallGate"} /\ UNCHANGED <<conf, next, attempt>>
    BY <1>1, <2>1, FirstEnded, EndedFields
  <2>3. /\ counts'.work = counts.work /\ counts'.probes = counts.probes
        /\ res'.term = "quiet" => counts'.quiet = counts.quiet + 1
        /\ res'.term # "quiet" => counts'.quiet = counts.quiet
    BY <2>1 DEF Quiet
  <2> QED BY <2>2, <2>3, <1>0 DEF Counted
<1>2. CASE StallRunEnds
  <2>1. PICK end, effect, capped, untrusted, exported, took, add :
          /\ Ended("stall", end, effect, capped, untrusted, exported, took, add)
          /\ res' = (IF Errs(end) THEN FoldSame(ChargeOnly(res, add), add) ELSE MergeResume(res, add))
          /\ Quiet(counts, counts', ~Errs(end) /\ add.term = "quiet")
    BY <1>2, StallEnded
  <2>2. pc = "stall" /\ pc' = "switchGate" /\ UNCHANGED <<conf, next, attempt>> /\ res.term = "stall"
    BY <1>2, <2>1, StallEnded, EndedFields DEF Counted
  <2>3. res \in Results /\ add \in Results
    BY <2>1 DEF Ended, Typed
  <2>4. res'.term = (IF Errs(end) THEN res.term ELSE add.term)
    BY <2>1, <2>3, SameFields, MergeFields DEF Keeps
  <2>5. /\ counts'.work = counts.work /\ counts'.probes = counts.probes
        /\ res'.term = "quiet" => counts'.quiet = counts.quiet + 1
        /\ res'.term # "quiet" => counts'.quiet = counts.quiet \/ counts'.quiet = counts.quiet + 1
    BY <2>1, <2>2, <2>4 DEF Quiet
  <2> QED BY <2>2, <2>5, <1>0 DEF Counted
<1>3. CASE SwitchRunEnds
  <2>1. PICK end, effect, capped, untrusted, exported, took, add :
          /\ Ended("switch", end, effect, capped, untrusted, exported, took, add)
          /\ res' = (IF Errs(end) THEN ChargeOnly(res, add) ELSE MergeRouteSwitch(res, add))
          /\ pc' = (IF Errs(end) THEN "done" ELSE "switchGate")
          /\ Quiet(counts, counts', ~Errs(end) /\ add.term = "quiet")
    BY <1>3, SwitchEnded
  <2>2. pc = "switch" /\ UNCHANGED <<conf, next, attempt>>
    BY <1>3, <2>1, SwitchEnded, EndedFields
  <2>3. res \in Results /\ add \in Results
    BY <2>1 DEF Ended, Typed
  <2>4. ~Errs(end) => res'.term = add.term
    BY <2>1, <2>3, SwitchFields
  <2>5. /\ counts'.work = counts.work /\ counts'.probes = counts.probes
        /\ ~Errs(end) /\ res'.term = "quiet" => counts'.quiet = counts.quiet + 1
        /\ counts'.quiet = counts.quiet \/ counts'.quiet = counts.quiet + 1
    BY <2>1, <2>4 DEF Quiet
  <2>6. pc' \in {"done", "switchGate"} /\ (pc' = "switchGate" => ~Errs(end))
    BY <2>1
  <2> QED BY <2>2, <2>5, <2>6, <1>0 DEF Counted
<1>4. CASE ContRunEnds
  <2>1. PICK end, effect, capped, untrusted, exported, took, add :
          /\ Ended("cont", end, effect, capped, untrusted, exported, took, add)
          /\ res' = (IF Errs(end) THEN ChargeOnly(res, add) ELSE MergeResume(res, add))
          /\ pc' = (IF Errs(end) THEN "done" ELSE "roundGate")
          /\ Quiet(counts, counts', ~Errs(end) /\ add.term = "quiet")
    BY <1>4, ContEnded
  <2>2. pc = "cont" /\ UNCHANGED <<conf, next>> /\ attempt' = attempt + 1
    BY <1>4, <2>1, ContEnded, EndedFields
  <2>3. res \in Results /\ add \in Results
    BY <2>1 DEF Ended, Typed
  <2>4. ~Errs(end) => res'.term = add.term
    BY <2>1, <2>3, MergeFields
  <2>5. /\ counts'.work = counts.work /\ counts'.probes = counts.probes
        /\ ~Errs(end) /\ res'.term = "quiet" => counts'.quiet = counts.quiet + 1
        /\ counts'.quiet = counts.quiet \/ counts'.quiet = counts.quiet + 1
    BY <2>1, <2>4 DEF Quiet
  <2>6. pc' \in {"done", "roundGate"} /\ (pc' = "roundGate" => ~Errs(end))
    BY <2>1
  <2> QED BY <2>2, <2>5, <2>6, <1>0 DEF Counted
<1>5. CASE ProbeRunEnds
  <2>1. PICK end, effect, untrusted, exported, took, add :
          Ended("probe", end, effect, FALSE, untrusted, exported, took, add)
    BY <1>5, ProbeEnded
  <2>2. pc = "probe" /\ pc' \in {"contGate", "done"} /\ UNCHANGED <<conf, next, attempt, counts>>
    BY <1>5, <2>1, ProbeEnded, EndedFields
  <2> QED BY <2>2, <1>0 DEF Counted
<1> QED BY <1>1, <1>2, <1>3, <1>4, <1>5 DEF WorkEnds

-----------------------------------------------------------------------------
(* The limit of a route that was left.                                     *)

LEMMA LimitsInit == ASSUME Init PROVE Limits
BY DEF Init, Limits

LEMMA LimitsGate ==
  ASSUME ConfigsAssumption, Typed, Limits, Gate
  PROVE  Limits'
<1>0. /\ current \in Nat /\ next \in Nat /\ Budget \in Int /\ conf.cap \in Nat /\ ProbeBox \in Int
  BY BudgetIsTyped DEF Typed, ProbeBox
<1>1. /\ UNCHANGED <<res, current, failed>> /\ Limited(res)' = Limited(res)
  BY DEF Gate, Begin, StallResumes, StallStands, SwitchRoute, SwitchEnds, RoundBegins, Returns, BackoffEnds,
         BackoffCancelled, Continues, TooLateToContinue, Cancel, vars, RunKeeps, Limited
<1>2. CASE Begin \/ StallResumes \/ SwitchRoute
  <2>1. pc' \in {"first", "stall", "switch"} /\ (pc' # "switch" => pc \in {"start", "stallGate"})
    BY <1>2 DEF Begin, StallResumes, SwitchRoute, Starts
  <2>2. pc # "done"
    BY <1>2 DEF Begin, StallResumes, SwitchRoute
  <2> QED BY <1>1, <2>1, <2>2 DEF Limits
<1>3. CASE StallStands
  <2>1. pc = "stallGate" /\ pc' = "switchGate"
    BY <1>3 DEF StallStands
  <2> QED BY <1>0, <1>1, <2>1 DEF Limits
<1>4. CASE SwitchEnds \/ Returns
  <2>1. pc \in {"switchGate", "roundGate"} /\ pc' \in {"roundGate", "done"} /\ run' = run
    BY <1>4 DEF SwitchEnds, Returns
  <2> QED BY <1>0, <1>1, <2>1 DEF Limits
<1>5. CASE RoundBegins
  <2>1. pc = "roundGate" /\ pc' = "backoff" /\ res.term = "quiet"
    BY <1>5 DEF RoundBegins, Resurrectable
  <2>2. current > 1 => ~Limited(res)
    BY <2>1 DEF Limits
  <2> QED BY <1>0, <1>1, <2>1, <2>2 DEF Limits
<1>6. CASE BackoffEnds \/ Continues \/ BackoffCancelled \/ TooLateToContinue
  <2>1. pc \in {"backoff", "contGate"} /\ pc' \in {"probe", "cont", "done"}
    BY <1>6 DEF BackoffEnds, Continues, BackoffCancelled, TooLateToContinue, Starts
  <2> QED BY <1>0, <1>1, <2>1 DEF Limits
<1>7. CASE Cancel \/ UNCHANGED vars
  <2>1. UNCHANGED <<pc, run>>
    BY <1>7 DEF Cancel, vars
  <2> QED BY <1>1, <2>1 DEF Limits
<1> QED BY <1>2, <1>3, <1>4, <1>5, <1>6, <1>7 DEF Gate

LEMMA LimitsEnd ==
  ASSUME ConfigsAssumption, Typed, Limits, WorkEnds \/ ProbeRunEnds
  PROVE  Limits'
<1>0. current \in Nat
  BY DEF Typed
<1>1. CASE FirstRunEnds
  <2>1. PICK end, effect, capped, untrusted, exported, took, add :
          /\ Ended("first", end, effect, capped, untrusted, exported, took, add)
          /\ failed' = Errs(end)
          /\ pc' = (IF Errs(end) \/ res'.loop THEN "done" ELSE "stallGate")
    BY <1>1, FirstEnded
  <2>2. pc = "first" /\ pc' \in {"done", "stallGate"} /\ (pc' # "done" => ~failed')
    BY <1>1, <2>1, FirstEnded
  <2>3. current = 1 /\ current' = 1
    BY <1>1, <2>2, FirstEnded DEF Limits
  <2> QED BY <2>2, <2>3 DEF Limits
<1>2. CASE StallRunEnds
  <2>1. pc = "stall" /\ pc' = "switchGate" /\ current' = current /\ failed' = failed
    BY <1>2, StallEnded
  <2>2. current = 1 /\ ~failed
    BY <2>1 DEF Limits
  <2> QED BY <2>1, <2>2 DEF Limits
<1>3. CASE SwitchRunEnds
  <2>1. PICK end, effect, capped, untrusted, exported, took, add :
          /\ Ended("switch", end, effect, capped, untrusted, exported, took, add)
          /\ res' = (IF Errs(end) THEN ChargeOnly(res, add) ELSE MergeRouteSwitch(res, add))
          /\ failed' = Errs(end)
          /\ pc' = (IF Errs(end) THEN "done" ELSE "switchGate")
    BY <1>3, SwitchEnded
  <2>2. CASE Errs(end)
    <3>1. pc' = "done" /\ failed'
      BY <2>1, <2>2
    <3> QED BY <3>1 DEF Limits
  <2>3. CASE ~Errs(end)
    <3>1. pc' = "switchGate" /\ ~failed' /\ res' = MergeRouteSwitch(res, add)
      BY <2>1, <2>3
    <3>2. res \in Results /\ add \in Results
      BY <2>1 DEF Ended, Typed
    <3>3. /\ res'.term = Term(end, capped)
          /\ res'.stderr <=> Warns(end)
          /\ res'.event <=> end = "limit" /\ ~capped
          /\ run'.end = (IF capped THEN "capped" ELSE end)
      BY <2>1, <3>1, <3>2, SwitchFields, EndedFields
    <3>4. run'.end \in {"clean", "quiet"} => ~Limited(res)'
      BY <3>3 DEF Limited, Warns
    <3>5. res'.term = "quiet" => run'.end = "quiet"
      <4>1. capped \in BOOLEAN
        BY <2>1 DEF Ended
      <4> QED BY <4>1, <3>3, QuietEnd
    <3> QED BY <3>1, <3>4, <3>5 DEF Limits
  <2> QED BY <2>2, <2>3
<1>4. CASE ContRunEnds
  <2>1. PICK end, effect, capped, untrusted, exported, took, add :
          /\ Ended("cont", end, effect, capped, untrusted, exported, took, add)
          /\ res' = (IF Errs(end) THEN ChargeOnly(res, add) ELSE MergeResume(res, add))
          /\ pc' = (IF Errs(end) THEN "done" ELSE "roundGate")
    BY <1>4, ContEnded
  <2>2. pc = "cont" /\ current' = current /\ failed' = failed /\ ~failed /\ (current > 1 => ~Limited(res))
    BY <1>4, ContEnded DEF Limits
  <2>3. res \in Results /\ add \in Results
    BY <2>1 DEF Ended, Typed
  <2>4. /\ add.term = Term(end, capped)
        /\ add.stderr <=> Warns(end)
        /\ add.event <=> end = "limit" /\ ~capped
        /\ run'.end = (IF capped THEN "capped" ELSE end)
    BY <2>1, EndedFields
  <2>5. CASE Errs(end)
    <3>1. pc' = "done" /\ res' = ChargeOnly(res, add)
      BY <2>1, <2>5
    <3>2. (res'.stderr <=> res.stderr) /\ (res'.event <=> res.event)
      BY <3>1, <2>3, ChargeFields DEF Keeps
    <3>3. current' > 1 => ~Limited(res)'
      BY <3>2, <2>2 DEF Limited
    <3> QED BY <3>1, <3>3, <2>2 DEF Limits
  <2>6. CASE ~Errs(end)
    <3>1. pc' = "roundGate" /\ res' = MergeResume(res, add)
      BY <2>1, <2>6
    <3>2. /\ res'.term = add.term
          /\ res'.stderr <=> res.stderr \/ add.stderr
          /\ res'.event <=> (IF add.sid THEN add.event ELSE res.event)
      BY <3>1, <2>3, MergeFields
    <3>3. current' > 1 /\ run'.end \in {"clean", "quiet"} => ~Limited(res)'
      BY <3>2, <2>2, <2>4 DEF Limited, Warns
    <3>4. res'.term = "quiet" => run'.end = "quiet"
      <4>1. capped \in BOOLEAN
        BY <2>1 DEF Ended
      <4> QED BY <4>1, <3>2, <2>4, QuietEnd
    <3> QED BY <3>1, <3>3, <3>4, <2>2 DEF Limits
  <2> QED BY <2>5, <2>6
<1>5. CASE ProbeRunEnds
  <2>1. PICK end, effect, untrusted, exported, took, add :
          /\ Ended("probe", end, effect, FALSE, untrusted, exported, took, add)
          /\ took <= ProbeBox + Winding
          /\ res' = FoldSame(ChargeOnly(res, add), add)
    BY <1>5, ProbeEnded
  <2>2. pc = "probe" /\ pc' \in {"contGate", "done"} /\ current' = current /\ failed' = failed /\ ~failed
        /\ (current > 1 => ~Limited(res))
    BY <1>5, ProbeEnded DEF Limits
  <2>3. res \in Results /\ add \in Results
    BY <2>1 DEF Ended, Typed
  <2>4. (res'.stderr <=> res.stderr) /\ (res'.event <=> res.event)
    BY <2>1, <2>3, SameFields DEF Keeps
  <2>5. current' > 1 => ~Limited(res)'
    BY <2>4, <2>2 DEF Limited
  <2> QED BY <2>2, <2>5 DEF Limits
<1> QED BY <1>1, <1>2, <1>3, <1>4, <1>5 DEF WorkEnds

-----------------------------------------------------------------------------
(* The claim, in the calls Ordinary admits.                                *)

LEMMA OrdinaryRuns ==
  ASSUME Typed, \A c \in Configs : Ordinary(c), NEW stage \in Stages, NEW end, NEW effect, NEW capped, NEW untrusted,
         NEW exported, NEW took, NEW add, Ended(stage, end, effect, capped, untrusted, exported, took, add)
  PROVE  /\ stage # "first" => effect # "claim"
         /\ stage \in {"switch", "cont"} /\ Errs(end) => ~HasTurn(end)
         /\ stage = "first" => end # "warnedLoop"
         /\ stage = "cont" => end \notin {"limit", "warnedStall", "warnedLoop"}
<1>1. Ordinary(conf)
  BY DEF Typed
<1>2. effect \in conf.effects[stage] /\ (end = "launch" \/ end \in conf.ends[stage])
  BY DEF Ended, RunEnds, EndOK
<1> QED BY <1>1, <1>2 DEF Ordinary, Errs, HasTurn

\* What a run does to the task, and what its Result says of it.
LEMMA EndedClaims ==
  ASSUME Typed, NEW stage \in Stages, NEW end, NEW effect, NEW capped, NEW untrusted, NEW exported, NEW took, NEW add,
         Ended(stage, end, effect, capped, untrusted, exported, took, add)
  PROVE  /\ effect \in Effects /\ untrusted \in BOOLEAN
         /\ ~HasTurn(end) => effect = "none" /\ ~untrusted
         /\ effect = "claim" => task = "free" /\ task' = "held"
         /\ effect = "settle" => task = "held" /\ memory' /\ task' = "settled"
         /\ effect = "other" => ~memory' /\ task' = task
         /\ effect = "none" => task' = task
         /\ untrusted => add.claim = Seed(stage) /\ seen' = seen
         /\ ~untrusted /\ effect = "claim" => add.claim = HeldClaim("A") /\ seen' = "held"
         /\ ~untrusted /\ effect = "settle" => add.claim = [task |-> "A", settled |-> TRUE] /\ seen' = "settled"
         /\ ~untrusted /\ effect = "other" => add.claim = HeldClaim("B") /\ seen' = seen
         /\ ~untrusted /\ effect = "none" => add.claim = Seed(stage) /\ seen' = seen
<1>1. effect \in Effects /\ untrusted \in BOOLEAN
  BY DEF Ended
<1>2. Does(stage, end, effect) /\ (untrusted => HasTurn(end)) /\ seen' = SeenBy(effect, untrusted)
  BY DEF Ended, RunEnds
<1>3. add.claim = Observed(stage, effect, untrusted)
  BY EndedFields
<1>4. /\ ~HasTurn(end) => effect = "none" /\ ~untrusted
      /\ effect = "claim" => task = "free" /\ task' = "held"
      /\ effect = "settle" => task = "held" /\ memory' /\ task' = "settled"
      /\ effect = "other" => ~memory' /\ task' = task
      /\ effect = "none" => task' = task
  BY <1>1, <1>2 DEF Does
<1>5. CASE untrusted
  BY <1>1, <1>2, <1>3, <1>4, <1>5 DEF Observed, SeenBy
<1>6. CASE ~untrusted /\ effect = "claim"
  BY <1>1, <1>2, <1>3, <1>4, <1>6 DEF Observed, SeenBy
<1>7. CASE ~untrusted /\ effect = "settle"
  BY <1>1, <1>2, <1>3, <1>4, <1>7 DEF Observed, SeenBy
<1>8. CASE ~untrusted /\ effect = "other"
  BY <1>1, <1>2, <1>3, <1>4, <1>8 DEF Observed, SeenBy
<1>9. CASE ~untrusted /\ effect = "none"
  BY <1>1, <1>2, <1>3, <1>4, <1>9 DEF Observed, SeenBy
<1> QED BY <1>1, <1>5, <1>6, <1>7, <1>8, <1>9 DEF Effects

LEMMA KnownInit == ASSUME Init PROVE Known
BY DEF Init, Known, Past, EmptyResult, NoClaim, Held

LEMMA KnownGate ==
  ASSUME ConfigsAssumption, Typed, Known, Gate
  PROVE  Known'
<1>1. /\ UNCHANGED <<res, memory, task, seen, conf>> /\ (pc = "done" => pc' = "done")
  BY DEF Gate, Begin, StallResumes, StallStands, SwitchRoute, SwitchEnds, RoundBegins, Returns, BackoffEnds,
         BackoffCancelled, Continues, TooLateToContinue, Cancel, vars, RunKeeps
<1>2. /\ res.untrusted => pc' \in {"stallGate", "switchGate", "roundGate", "done"}
      /\ pc \in {"start", "first"} <=> pc' \in {"start", "first"}
  BY DEF Known, Gate, Begin, StallResumes, StallStands, SwitchRoute, SwitchEnds, RoundBegins, Returns, BackoffEnds,
         BackoffCancelled, Continues, TooLateToContinue, Cancel, vars, Starts,
         StallResumable, Switchable, Resurrectable
<1>3. (~Past)' <=> ~Past
  BY <1>2 DEF Past
<1> QED BY <1>1, <1>2, <1>3 DEF Known, Held, HeldClaim

\* A later run's Result, folded in or not, says of the task what the run was seen to do.
LEMMA LaterRunIsKnown ==
  ASSUME ConfigsAssumption, \A c \in Configs : Ordinary(c), Typed, Known, WorkEnds \/ ProbeRunEnds, pc # "first"
  PROVE  Known'
<1>0. HeldClaim("A") = [task |-> "A", settled |-> FALSE] /\ HeldClaim("B") = [task |-> "B", settled |-> FALSE]
  BY DEF HeldClaim
<1>1. ASSUME NEW stage \in {"stall", "switch", "probe", "cont"}, NEW end, NEW effect, NEW capped, NEW untrusted, NEW exported, NEW took, NEW add,
             Ended(stage, end, effect, capped, untrusted, exported, took, add), pc = stage,
             memory' = memory \/ (stage = "probe" /\ memory' \in BOOLEAN /\ (memory' => memory)),
             \/ res'.claim = (IF Speaks(add.claim) THEN add.claim ELSE res.claim) /\ stage # "probe"
             \/ /\ stage \in {"stall", "probe"}
                /\ res'.claim = res.claim \/ (res'.claim = add.claim /\ ~untrusted /\ SameTask(res.claim, add.claim) /\ Speaks(add.claim))
                /\ ~untrusted /\ SameTask(res.claim, add.claim) /\ Speaks(add.claim) => res'.claim = add.claim
             \/ stage \in {"switch", "cont"} /\ Errs(end) /\ res'.claim = res.claim
      PROVE  /\ res'.claim.task \in {"none", "A"}
             /\ seen' = "held" /\ task' = "held" => res'.claim = HeldClaim("A")
             /\ seen' = "settled" => ~Held(res'.claim)
             /\ task' # "free" => res'.claim.task = "A"
  <2>0. stage \in Stages /\ stage # "first"
    BY <1>1 DEF Stages
  <2>1. /\ effect # "claim"
        /\ stage \in {"switch", "cont"} /\ Errs(end) => ~HasTurn(end)
    BY <1>1, <2>0, OrdinaryRuns
  <2>2. /\ ~res.untrusted /\ memory
        /\ seen = "held" /\ task = "held" => res.claim = HeldClaim("A")
        /\ seen = "settled" => ~Held(res.claim)
        /\ task # "free" => res.claim.task = "A"
        /\ res.claim.task \in {"none", "A"}
        /\ res.claim \in Claims
    BY <1>1 DEF Known, Past, Typed, Results
  <2>3. Seed(stage) = res.claim
    BY <2>0 DEF Seed
  <2>4. /\ effect \in Effects /\ untrusted \in BOOLEAN
        /\ ~HasTurn(end) => effect = "none" /\ ~untrusted
        /\ effect = "settle" => task = "held" /\ memory' /\ task' = "settled"
        /\ effect = "other" => ~memory' /\ task' = task
        /\ effect = "none" => task' = task
        /\ untrusted => add.claim = Seed(stage) /\ seen' = seen
        /\ ~untrusted /\ effect = "settle" => add.claim = [task |-> "A", settled |-> TRUE] /\ seen' = "settled"
        /\ ~untrusted /\ effect = "other" => add.claim = HeldClaim("B") /\ seen' = seen
        /\ ~untrusted /\ effect = "none" => add.claim = Seed(stage) /\ seen' = seen
    BY <1>1, <2>0, EndedClaims
  <2>5. CASE effect = "none"
    <3>1. add.claim = res.claim /\ seen' = seen /\ task' = task
      BY <2>3, <2>4, <2>5
    <3>2. res'.claim = res.claim
      BY <1>1, <3>1
    <3> QED BY <2>2, <3>1, <3>2
  <2>6. CASE effect = "settle" /\ untrusted
    <3>1. add.claim = res.claim /\ seen' = seen /\ task' = "settled" /\ task = "held" /\ HasTurn(end)
      BY <2>3, <2>4, <2>6
    <3>2. res'.claim = res.claim
      BY <1>1, <3>1, <2>1
    <3> QED BY <2>2, <3>1, <3>2
  <2>7. CASE effect = "settle" /\ ~untrusted
    <3>1. add.claim = [task |-> "A", settled |-> TRUE] /\ seen' = "settled" /\ task' = "settled" /\ task = "held" /\ HasTurn(end)
      BY <2>4, <2>7
    <3>2. Speaks(add.claim) /\ SameTask(res.claim, add.claim)
      BY <3>1, <2>2 DEF Speaks, SameTask
    <3>3. res'.claim = add.claim
      BY <1>1, <3>1, <3>2, <2>1, <2>7
    <3> QED BY <3>1, <3>3 DEF Held
  <2>8. CASE effect = "other"
    <3>1. stage = "probe" /\ task' = task /\ seen' = seen
      BY <1>1, <2>2, <2>4, <2>8
    <3>2. res'.claim = res.claim
      <4>1. CASE untrusted
        BY <1>1, <3>1, <4>1
      <4>2. CASE ~untrusted
        <5>1. add.claim.task = "B"
          BY <1>0, <2>4, <2>8, <4>2
        <5>2. ~SameTask(res.claim, add.claim)
          BY <5>1, <2>2 DEF SameTask
        <5> QED BY <1>1, <3>1, <5>2
      <4> QED BY <4>1, <4>2, <2>4
    <3> QED BY <2>2, <3>1, <3>2
  <2> QED BY <2>1, <2>4, <2>5, <2>6, <2>7, <2>8 DEF Effects
<1>2. CASE StallRunEnds
  <2>1. PICK end, effect, capped, untrusted, exported, took, add :
          /\ Ended("stall", end, effect, capped, untrusted, exported, took, add)
          /\ res' = (IF Errs(end) THEN FoldSame(ChargeOnly(res, add), add) ELSE MergeResume(res, add))
    BY <1>2, StallEnded
  <2>2. pc = "stall" /\ pc' = "switchGate" /\ memory' = memory
    BY <1>2, StallEnded
  <2>3. res \in Results /\ add \in Results /\ (add.untrusted <=> untrusted)
    <3>1. res \in Results /\ add \in Results
      BY <2>1 DEF Ended, Typed
    <3> QED BY <2>1, <3>1, EndedFields
  <2>4. \/ res'.claim = (IF Speaks(add.claim) THEN add.claim ELSE res.claim)
        \/ /\ res'.claim = res.claim \/ (res'.claim = add.claim /\ ~untrusted /\ SameTask(res.claim, add.claim) /\ Speaks(add.claim))
           /\ ~untrusted /\ SameTask(res.claim, add.claim) /\ Speaks(add.claim) => res'.claim = add.claim
    <3>1. CASE Errs(end)
      <4>1. res' = FoldSame(ChargeOnly(res, add), add)
        BY <2>1, <3>1
      <4> QED BY <4>1, <2>3, SameFields
    <3>2. CASE ~Errs(end)
      <4>1. res' = MergeResume(res, add)
        BY <2>1, <3>2
      <4> QED BY <4>1, <2>3, MergeFields
    <3> QED BY <3>1, <3>2
  <2>5. /\ res'.claim.task \in {"none", "A"}
        /\ seen' = "held" /\ task' = "held" => res'.claim = HeldClaim("A")
        /\ seen' = "settled" => ~Held(res'.claim)
        /\ task' # "free" => res'.claim.task = "A"
    BY <1>1, <2>1, <2>2, <2>4
  <2>6. memory
    BY <2>2 DEF Known
  <2> QED BY <2>2, <2>5, <2>6 DEF Known, Past
<1>3. CASE SwitchRunEnds
  <2>1. PICK end, effect, capped, untrusted, exported, took, add :
          /\ Ended("switch", end, effect, capped, untrusted, exported, took, add)
          /\ res' = (IF Errs(end) THEN ChargeOnly(res, add) ELSE MergeRouteSwitch(res, add))
          /\ pc' = (IF Errs(end) THEN "done" ELSE "switchGate")
    BY <1>3, SwitchEnded
  <2>2. pc = "switch" /\ pc' \in {"done", "switchGate"} /\ memory' = memory
    BY <1>3, <2>1, SwitchEnded
  <2>3. res \in Results /\ add \in Results
    BY <2>1 DEF Ended, Typed
  <2>4. \/ res'.claim = (IF Speaks(add.claim) THEN add.claim ELSE res.claim)
        \/ Errs(end) /\ res'.claim = res.claim
    <3>1. CASE Errs(end)
      BY <2>1, <3>1, <2>3, ChargeFields
    <3>2. CASE ~Errs(end)
      <4>1. res' = MergeRouteSwitch(res, add)
        BY <2>1, <3>2
      <4> QED BY <4>1, <2>3, SwitchFields
    <3> QED BY <3>1, <3>2
  <2>5. /\ res'.claim.task \in {"none", "A"}
        /\ seen' = "held" /\ task' = "held" => res'.claim = HeldClaim("A")
        /\ seen' = "settled" => ~Held(res'.claim)
        /\ task' # "free" => res'.claim.task = "A"
    BY <1>1, <2>1, <2>2, <2>4
  <2>6. memory
    BY <2>2 DEF Known
  <2> QED BY <2>2, <2>5, <2>6 DEF Known, Past
<1>4. CASE ContRunEnds
  <2>1. PICK end, effect, capped, untrusted, exported, took, add :
          /\ Ended("cont", end, effect, capped, untrusted, exported, took, add)
          /\ res' = (IF Errs(end) THEN ChargeOnly(res, add) ELSE MergeResume(res, add))
          /\ pc' = (IF Errs(end) THEN "done" ELSE "roundGate")
    BY <1>4, ContEnded
  <2>2. pc = "cont" /\ pc' \in {"done", "roundGate"} /\ memory' = memory
    BY <1>4, <2>1, ContEnded
  <2>3. res \in Results /\ add \in Results
    BY <2>1 DEF Ended, Typed
  <2>4. \/ res'.claim = (IF Speaks(add.claim) THEN add.claim ELSE res.claim)
        \/ Errs(end) /\ res'.claim = res.claim
    <3>1. CASE Errs(end)
      BY <2>1, <3>1, <2>3, ChargeFields
    <3>2. CASE ~Errs(end)
      <4>1. res' = MergeResume(res, add)
        BY <2>1, <3>2
      <4> QED BY <4>1, <2>3, MergeFields
    <3> QED BY <3>1, <3>2
  <2>5. /\ res'.claim.task \in {"none", "A"}
        /\ seen' = "held" /\ task' = "held" => res'.claim = HeldClaim("A")
        /\ seen' = "settled" => ~Held(res'.claim)
        /\ task' # "free" => res'.claim.task = "A"
    BY <1>1, <2>1, <2>2, <2>4
  <2>6. memory
    BY <2>2 DEF Known
  <2> QED BY <2>2, <2>5, <2>6 DEF Known, Past
<1>5. CASE ProbeRunEnds
  <2>1. PICK end, effect, untrusted, exported, took, add :
          /\ Ended("probe", end, effect, FALSE, untrusted, exported, took, add)
          /\ took <= ProbeBox + Winding
          /\ res' = FoldSame(ChargeOnly(res, add), add)
    BY <1>5, ProbeEnded
  <2>2. pc = "probe" /\ pc' \in {"contGate", "done"} /\ memory' \in BOOLEAN /\ (memory' => memory)
        /\ (pc' = "contGate" => memory' = memory)
    BY <1>5, ProbeEnded
  <2>3. res \in Results /\ add \in Results /\ (add.untrusted <=> untrusted)
    <3>1. res \in Results /\ add \in Results
      BY <2>1 DEF Ended, Typed
    <3> QED BY <2>1, <3>1, EndedFields
  <2>4. /\ res'.claim = res.claim \/ (res'.claim = add.claim /\ ~untrusted /\ SameTask(res.claim, add.claim) /\ Speaks(add.claim))
        /\ ~untrusted /\ SameTask(res.claim, add.claim) /\ Speaks(add.claim) => res'.claim = add.claim
        /\ (res'.untrusted <=> res.untrusted)
    BY <2>1, <2>3, SameFields DEF Keeps
  <2>5. /\ res'.claim.task \in {"none", "A"}
        /\ seen' = "held" /\ task' = "held" => res'.claim = HeldClaim("A")
        /\ seen' = "settled" => ~Held(res'.claim)
        /\ task' # "free" => res'.claim.task = "A"
    BY <1>1, <2>1, <2>2, <2>4
  <2>6. memory /\ ~res.untrusted
    BY <2>2 DEF Known
  <2> QED BY <2>2, <2>4, <2>5, <2>6 DEF Known, Past
<1>6. CASE FirstRunEnds
  BY <1>6, FirstEnded
<1> QED BY <1>2, <1>3, <1>4, <1>5, <1>6 DEF WorkEnds

LEMMA FirstRunIsKnown ==
  ASSUME ConfigsAssumption, Typed, Known, FirstRunEnds
  PROVE  Known'
<1>1. PICK end, effect, capped, untrusted, exported, took, add :
        /\ Ended("first", end, effect, capped, untrusted, exported, took, add)
        /\ res' = add
        /\ failed' = Errs(end)
        /\ pc' = (IF Errs(end) \/ res'.loop THEN "done" ELSE "stallGate")
        /\ Quiet(counts, counts', res'.term = "quiet")
  BY FirstEnded
<1>2. pc = "first" /\ pc' \in {"done", "stallGate"} /\ memory' = memory /\ memory
  BY <1>1, FirstEnded DEF Known
<1>3. seen = (IF conf.phase2 THEN "held" ELSE "nothing") /\ task = (IF conf.phase2 THEN "held" ELSE "free")
  BY <1>2 DEF Known, Past
<1>4. Seed("first") = (IF conf.phase2 THEN HeldClaim("A") ELSE NoClaim)
  BY DEF Seed
<1>5. HeldClaim("A") = [task |-> "A", settled |-> FALSE] /\ NoClaim = [task |-> "none", settled |-> FALSE]
  BY DEF HeldClaim, NoClaim
<1>6. /\ effect \in Effects /\ untrusted \in BOOLEAN
      /\ effect = "claim" => task = "free" /\ task' = "held"
      /\ effect = "settle" => task = "held" /\ memory' /\ task' = "settled"
      /\ effect = "other" => ~memory' /\ task' = task
      /\ effect = "none" => task' = task
      /\ untrusted => add.claim = Seed("first") /\ seen' = seen
      /\ ~untrusted /\ effect = "claim" => add.claim = HeldClaim("A") /\ seen' = "held"
      /\ ~untrusted /\ effect = "settle" => add.claim = [task |-> "A", settled |-> TRUE] /\ seen' = "settled"
      /\ ~untrusted /\ effect = "none" => add.claim = Seed("first") /\ seen' = seen
  <2>1. "first" \in Stages
    BY DEF Stages
  <2> QED BY <1>1, <2>1, EndedClaims
<1>7. res'.claim = add.claim /\ (res'.untrusted <=> untrusted)
  BY <1>1, EndedFields
<1>8. effect # "other"
  BY <1>2, <1>6
<1>9. CASE untrusted
  <2>1. /\ res'.claim = Seed("first") /\ seen' = seen /\ res'.untrusted
    BY <1>6, <1>7, <1>9
  <2>2. CASE conf.phase2
    BY <1>2, <1>3, <1>4, <1>5, <2>1, <2>2 DEF Known, Past, Held
  <2>3. CASE ~conf.phase2
    BY <1>2, <1>3, <1>4, <1>5, <2>1, <2>3 DEF Known, Past, Held
  <2> QED BY <2>2, <2>3
<1>10. CASE ~untrusted /\ effect = "none"
  <2>1. /\ res'.claim = Seed("first") /\ seen' = seen /\ task' = task /\ ~res'.untrusted
    BY <1>6, <1>7, <1>10
  <2>2. CASE conf.phase2
    BY <1>2, <1>3, <1>4, <1>5, <2>1, <2>2 DEF Known, Past, Held
  <2>3. CASE ~conf.phase2
    BY <1>2, <1>3, <1>4, <1>5, <2>1, <2>3 DEF Known, Past, Held
  <2> QED BY <2>2, <2>3
<1>11. CASE ~untrusted /\ effect = "claim"
  <2>1. res'.claim = HeldClaim("A") /\ seen' = "held" /\ task' = "held" /\ ~res'.untrusted
    BY <1>6, <1>7, <1>11
  <2> QED BY <1>2, <1>5, <2>1 DEF Known, Past
<1>12. CASE ~untrusted /\ effect = "settle"
  <2>1. res'.claim = [task |-> "A", settled |-> TRUE] /\ seen' = "settled" /\ ~res'.untrusted
    BY <1>6, <1>7, <1>12
  <2> QED BY <1>2, <2>1 DEF Known, Past, Held
<1> QED BY <1>6, <1>8, <1>9, <1>10, <1>11, <1>12 DEF Effects

-----------------------------------------------------------------------------
(* The limit that is reported, in the calls Ordinary admits.               *)

LEMMA DeniedInit == ASSUME Init PROVE Denied
BY DEF Init, Denied

LEMMA DeniedGate ==
  ASSUME ConfigsAssumption, Typed, Denied, Gate
  PROVE  Denied'
<1>1. /\ UNCHANGED <<res, current, failed, conf>> /\ Limited(res)' = Limited(res)
  BY DEF Gate, Begin, StallResumes, StallStands, SwitchRoute, SwitchEnds, RoundBegins, Returns, BackoffEnds,
         BackoffCancelled, Continues, TooLateToContinue, Cancel, vars, RunKeeps, Limited
<1>2. CASE Begin \/ StallResumes \/ StallStands \/ SwitchRoute
  <2>1. pc' \in {"first", "stall", "switchGate", "switch"}
    BY <1>2 DEF Begin, StallResumes, StallStands, SwitchRoute, Starts
  <2> QED BY <2>1 DEF Denied
<1>3. CASE SwitchEnds
  <2> SUFFICES ASSUME conf.routes > 1, Limited(res), ~res.untrusted PROVE (current \in SentOn)'
    BY <1>1 DEF Denied
  <2>1. falls' = Append(falls, current) /\ current \in Nat
    BY <1>3 DEF SwitchEnds, Reported, Typed
  <2>2. /\ Len(falls') = Len(falls) + 1 /\ Len(falls) \in Nat /\ falls'[Len(falls) + 1] = current
    BY <2>1, FallIsAppended
  <2>3. Len(falls) + 1 \in 1 .. Len(falls')
    BY <2>2
  <2>4. \E i \in 1 .. Len(falls') : falls'[i] = current'
    BY <1>1, <2>2, <2>3
  <2> QED BY <2>4 DEF SentOn
<1>4. CASE RoundBegins \/ Returns \/ BackoffEnds \/ BackoffCancelled \/ Continues \/ TooLateToContinue
  <2>1. pc \in {"roundGate", "backoff", "contGate"} /\ falls' = falls
    BY <1>4 DEF RoundBegins, Returns, BackoffEnds, BackoffCancelled, Continues, TooLateToContinue
  <2>2. (current \in SentOn)' <=> current \in SentOn
    BY <1>1, <2>1 DEF SentOn
  <2> QED BY <1>1, <2>1, <2>2 DEF Denied
<1>5. CASE Cancel \/ UNCHANGED vars
  <2>1. UNCHANGED <<pc, falls>>
    BY <1>5 DEF Cancel, vars
  <2>2. (current \in SentOn)' <=> current \in SentOn
    BY <1>1, <2>1 DEF SentOn
  <2> QED BY <1>1, <2>1, <2>2 DEF Denied
<1> QED BY <1>2, <1>3, <1>4, <1>5 DEF Gate

LEMMA DeniedEnd ==
  ASSUME ConfigsAssumption, \A c \in Configs : Ordinary(c), Typed, Limits, Denied, WorkEnds \/ ProbeRunEnds
  PROVE  Denied'
<1>1. CASE FirstRunEnds
  <2>1. PICK end, effect, capped, untrusted, exported, took, add :
          /\ Ended("first", end, effect, capped, untrusted, exported, took, add)
          /\ res' = add
          /\ failed' = Errs(end)
          /\ pc' = (IF Errs(end) \/ res'.loop THEN "done" ELSE "stallGate")
    BY <1>1, FirstEnded
  <2>2. CASE Errs(end)
    BY <2>1, <2>2 DEF Denied
  <2>3. CASE ~Errs(end) /\ ~res'.loop
    <3>1. pc' = "stallGate"
      BY <2>1, <2>3
    <3> QED BY <3>1 DEF Denied
  <2>4. CASE ~Errs(end) /\ res'.loop
    <3>1. add = Gives("first", end, effect, capped, untrusted, exported, log')
      BY <2>1 DEF Ended
    <3>2. Loops(end) /\ ~capped
      BY <2>1, <2>4, <3>1 DEF Gives
    <3>3. end # "warnedLoop"
      BY <2>1, OrdinaryRuns DEF Stages
    <3>4. end = "loop"
      BY <3>2, <3>3 DEF Loops
    <3>5. /\ res'.stderr <=> Warns(end)
          /\ res'.event <=> end = "limit" /\ ~capped
      BY <2>1, EndedFields
    <3>6. ~Limited(res)'
      BY <3>4, <3>5 DEF Limited, Warns
    <3> QED BY <3>6 DEF Denied
  <2> QED BY <2>2, <2>3, <2>4
<1>2. CASE StallRunEnds
  BY <1>2, StallEnded DEF Denied
<1>3. CASE SwitchRunEnds
  <2>1. PICK end, effect, capped, untrusted, exported, took, add :
          /\ Ended("switch", end, effect, capped, untrusted, exported, took, add)
          /\ failed' = Errs(end)
          /\ pc' = (IF Errs(end) THEN "done" ELSE "switchGate")
    BY <1>3, SwitchEnded
  <2> QED BY <2>1 DEF Denied
<1>4. CASE ContRunEnds
  <2>1. PICK end, effect, capped, untrusted, exported, took, add :
          /\ Ended("cont", end, effect, capped, untrusted, exported, took, add)
          /\ res' = (IF Errs(end) THEN ChargeOnly(res, add) ELSE MergeResume(res, add))
          /\ pc' = (IF Errs(end) THEN "done" ELSE "roundGate")
    BY <1>4, ContEnded
  <2>2. pc = "cont" /\ UNCHANGED <<current, falls, failed, conf>>
    BY <1>4, <2>1, ContEnded, EndedFields
  <2>3. res \in Results /\ add \in Results
    BY <2>1 DEF Ended, Typed
  <2>4. end \notin {"limit", "warnedStall", "warnedLoop"}
    BY <2>1, OrdinaryRuns DEF Stages
  <2>5. ~add.stderr /\ ~add.event
    BY <2>1, <2>4, EndedFields DEF Warns
  <2>6. /\ Limited(res)' => Limited(res)
        /\ res.untrusted => res'.untrusted
    <3>1. CASE Errs(end)
      <4>1. res' = ChargeOnly(res, add)
        BY <2>1, <3>1
      <4> QED BY <4>1, <2>3, ChargeFields DEF Keeps, Limited
    <3>2. CASE ~Errs(end)
      <4>1. res' = MergeResume(res, add)
        BY <2>1, <3>2
      <4>2. /\ res'.untrusted <=> res.untrusted \/ add.untrusted
            /\ res'.stderr <=> res.stderr \/ add.stderr
            /\ res'.event <=> (IF add.sid THEN add.event ELSE res.event)
        BY <4>1, <2>3, MergeFields
      <4> QED BY <4>2, <2>5 DEF Limited
    <3> QED BY <3>1, <3>2
  <2>7. (current \in SentOn)' <=> current \in SentOn
    BY <2>2 DEF SentOn
  <2> QED BY <2>2, <2>6, <2>7 DEF Denied
<1>5. CASE ProbeRunEnds
  <2>1. PICK end, effect, untrusted, exported, took, add :
          /\ Ended("probe", end, effect, FALSE, untrusted, exported, took, add)
          /\ took <= ProbeBox + Winding
          /\ res' = FoldSame(ChargeOnly(res, add), add)
    BY <1>5, ProbeEnded
  <2>2. pc = "probe" /\ UNCHANGED <<current, falls, failed, conf>>
    BY <1>5, <2>1, ProbeEnded, EndedFields
  <2>3. res \in Results /\ add \in Results
    BY <2>1 DEF Ended, Typed
  <2>4. (res'.stderr <=> res.stderr) /\ (res'.event <=> res.event) /\ (res'.untrusted <=> res.untrusted)
    BY <2>1, <2>3, SameFields DEF Keeps
  <2>5. Limited(res)' => Limited(res)
    BY <2>4 DEF Limited
  <2>7. (current \in SentOn)' <=> current \in SentOn
    BY <2>2 DEF SentOn
  <2> QED BY <2>2, <2>4, <2>5, <2>7 DEF Denied
<1> QED BY <1>1, <1>2, <1>3, <1>4, <1>5 DEF WorkEnds

-----------------------------------------------------------------------------
(* The theorems.                                                           *)

IInv == Typed /\ Clocked /\ Charged /\ Reads /\ Routed /\ Counted /\ Limits

LEMMA IInvInit == ASSUME ConfigsAssumption, Init PROVE IInv
BY InitIsTyped, ClockedInit, ChargedInit, RoutedInit, CountedInit, LimitsInit DEF IInv, Reads, Init, EmptyResult

LEMMA IInvStep == ASSUME ConfigsAssumption, IInv, [Next]_vars PROVE IInv'
<1>0. Typed /\ Clocked /\ Charged /\ Reads /\ Routed /\ Counted /\ Limits
  BY DEF IInv
<1>1. 2 <= next
  BY <1>0, ConfIsTyped DEF Routed, Typed, ConfigOK
<1>2. Typed' /\ Reads'
  BY <1>0, StepIsTyped, ReadsStep
<1>3. Gate \/ WorkEnds \/ ProbeRunEnds
  BY StepCases
<1>4. CASE Gate
  BY <1>0, <1>1, <1>2, <1>4, ClockedGate, ChargedGate, RoutedGate, CountedGate, LimitsGate DEF IInv
<1>5. CASE WorkEnds \/ ProbeRunEnds
  BY <1>0, <1>1, <1>2, <1>5, ClockedEnd, ChargedEnd, RoutedEnd, CountedEnd, LimitsEnd DEF IInv
<1> QED BY <1>3, <1>4, <1>5

\* What the properties read off the invariant.
LEMMA CallFollows == ASSUME ConfigsAssumption, IInv PROVE CallIsAccounted
<1>0. Typed /\ Clocked /\ Charged /\ Reads /\ Routed /\ Counted /\ Limits
  BY DEF IInv
<1>c. conf.routes \in Nat \ {0} /\ conf.rounds \in Nat
  BY <1>0, ConfIsTyped DEF Typed, ConfigOK
<1>1. TypeOK
  <2>1. ResultOK(res)
    BY <1>0 DEF Typed, Results, Claims, ResultOK
  <2> QED BY <1>0, <2>1 DEF TypeOK, Typed, Routed, Counted
<1>2. ChargedOnce /\ InBudget
  BY <1>0 DEF Charged, Clocked, InBudget
<1>3. ContinuesOnlyItself /\ UnreadIsFinal
  BY <1>0 DEF Reads, ContinuesOnlyItself, UnreadIsFinal, Resumed
<1>4. OneProbePerDeath
  <2>1. counts.work \in Nat /\ next \in 2 .. conf.routes + 1 /\ attempt \in 1 .. conf.rounds + 1
        /\ (pc = "cont" => attempt <= conf.rounds)
        /\ counts.work <= (IF pc = "cont" THEN next + attempt ELSE next + attempt - 1)
    BY <1>0 DEF Typed, Routed, Counted
  <2>2. counts.work <= 1 + conf.routes + conf.rounds
    BY <2>1, <1>c
  <2> QED BY <1>0, <2>2 DEF Counted, OneProbePerDeath
<1>5. AbandonedLimitIsForgotten
  BY <1>0 DEF Limits, AbandonedLimitIsForgotten, done
<1>6. NeverReturns
  <2> SUFFICES ASSUME Resumed PROVE run.route \notin SentOn \/ run.route = conf.routes
    BY DEF NeverReturns
  <2>1. CASE pc \in {"probe", "cont"}
    BY <1>0, <2>1 DEF Routed
  <2>2. CASE pc \in {"stall", "switch"}
    <3>1. Behind(run.route)
      BY <1>0, <2>2 DEF Routed
    <3>2. run.route \in Nat
      BY <1>0 DEF Typed, Runs
    <3> QED BY <3>1, <3>2 DEF Behind, SentOn
  <2> QED BY <2>1, <2>2 DEF Resumed
<1> QED BY <1>1, <1>2, <1>3, <1>4, <1>5, <1>6 DEF CallIsAccounted

\* For any routes, budget, rounds and ways its runs may end, a call of the opencode adapter
\* charges each of its processes exactly once, returns within its cap, continues only a
\* session that has its transcript and a stream that was read, probes once for each death
\* and never more than the rounds allow, forgets the limit of a route it left when a later
\* route finished, and does not return to a route it left (opencode.go:94-230).
THEOREM OpenCodeCallIsAccounted == ConfigsAssumption => (Spec => []CallIsAccounted)
<1> SUFFICES ASSUME ConfigsAssumption PROVE Spec => []CallIsAccounted
  OBVIOUS
<1>1. Init => IInv
  BY IInvInit
<1>2. IInv /\ [Next]_vars => IInv'
  BY IInvStep
<1>3. IInv => CallIsAccounted
  BY CallFollows
<1> QED BY <1>1, <1>2, <1>3, PTL DEF Spec

\* In the calls Ordinary admits the driver is also told the truth: a task the session was
\* seen to hold is the one the Result names, whatever a probe without its memory claimed;
\* one that was seen to be settled is not reported as held; and the route that stands limited
\* at the end is among those the driver marks (opencode.go:212-220, opencode_routes.go:116-119).
THEOREM OpenCodeTellsTheTruth ==
  ConfigsAssumption /\ (\A c \in Configs : Ordinary(c)) => (Spec => []OpenCodeIsAccounted)
<1> SUFFICES ASSUME ConfigsAssumption, \A c \in Configs : Ordinary(c) PROVE Spec => []OpenCodeIsAccounted
  OBVIOUS
<1> DEFINE Inv == IInv /\ Known /\ Denied
<1>1. Init => Inv
  BY IInvInit, KnownInit, DeniedInit
<1>2. Inv /\ [Next]_vars => Inv'
  <2> SUFFICES ASSUME Inv, [Next]_vars PROVE Inv'
    OBVIOUS
  <2>1. IInv' /\ Typed /\ Limits
    BY IInvStep DEF IInv
  <2>2. Gate \/ WorkEnds \/ ProbeRunEnds
    BY StepCases
  <2>3. CASE Gate
    BY <2>1, <2>3, KnownGate, DeniedGate
  <2>4. CASE WorkEnds \/ ProbeRunEnds
    <3>1. Denied'
      BY <2>1, <2>4, DeniedEnd
    <3>2. Known'
      <4>1. CASE pc = "first"
        <5>1. FirstRunEnds
          BY <2>4, <4>1 DEF WorkEnds, StallRunEnds, SwitchRunEnds, ContRunEnds, ProbeRunEnds
        <5> QED BY <2>1, <5>1, FirstRunIsKnown
      <4>2. CASE pc # "first"
        BY <2>1, <2>4, <4>2, LaterRunIsKnown
      <4> QED BY <4>1, <4>2
    <3> QED BY <2>1, <3>1, <3>2
  <2> QED BY <2>2, <2>3, <2>4
<1>3. Inv => OpenCodeIsAccounted
  <2> SUFFICES ASSUME Inv PROVE OpenCodeIsAccounted
    OBVIOUS
  <2>1. CallIsAccounted
    BY CallFollows
  <2>2. HeldIsKnown /\ SettledIsKnown
    BY DEF Known, Past, HeldIsKnown, SettledIsKnown, done
  <2>3. LimitIsReported
    BY DEF Denied, LimitIsReported, done
  <2> QED BY <2>1, <2>2, <2>3 DEF OpenCodeIsAccounted
<1> QED BY <1>1, <1>2, <1>3, PTL DEF Spec

=============================================================================
