------------------------------- MODULE Config -------------------------------
(***************************************************************************)
(* What a config comes to: which harness, model and wiring each session    *)
(* gets, the sequence of phases a task runs as once the built-in briefs    *)
(* are resolved and the review panel is expanded, and what Validate        *)
(* refuses.  Pure: the modules that build and overlay configs use it.      *)
(*                                                                         *)
(* A path is the harness whose dialect it is in, a model alias one of      *)
(* Aliases, a tier map its one bucket.  Names are well-formed.             *)
(***************************************************************************)
EXTENDS Integers, Sequences, FiniteSets, SequencesExt

\* The names of harnesses, those registered and those that observe a claim; the model
\* aliases and the harness each is an alias of.
CONSTANTS Names, Known, Tracking, Aliases, Speaks, None

NamesAssumption == Tracking \subseteq Known /\ Known \subseteq Names /\ None \notin Names
SpeaksAssumption == Speaks \in [Aliases -> Known]

Machine == {"config_dir", "mcp_config_path", "settings_path"}
Builtins == {"implement", "review", "fix", "verify"}

IsBuiltin(ph, name) == ~ph.own /\ ph.name = name
Length(c) == Len(c.phases)

(***************************************************************************)
(* Harness, wiring and model of a session                                  *)
(***************************************************************************)
HarnessFor(c, ph) == IF ph.harness # None THEN ph.harness ELSE c.harness

Empty(block) == block.machine = {} /\ block.model = <<>> /\ block.models = <<>>

\* The run-wide fields fill the gaps of the top-level harness, and of no other.
SessionFor(c, h) ==
  LET block == c.blocks[h]
      top == h = c.harness
  IN [machine |-> [f \in Machine |-> IF f \in block.machine THEN h
                                     ELSE IF top /\ f \in c.machine THEN c.dialect ELSE None],
      model |-> IF block.model = <<>> /\ top THEN c.model ELSE block.model,
      models |-> IF block.models = <<>> /\ top THEN c.models ELSE block.models]

ModelRoutesForPhase(c, ph) ==
  LET session == SessionFor(c, HarnessFor(c, ph)) IN
  CASE ph.model # <<>> -> ph.model
    [] ph.model = <<>> /\ ph.tier /\ session.models # <<>> -> session.models
    [] OTHER -> session.model

\* The project's file for this harness, else the project's own for the top-level one.
ResolveMCPConfig(c, h, project) ==
  IF h \in project.paths THEN h
  ELSE IF h = c.harness /\ project.path THEN c.dialect
  ELSE SessionFor(c, h).machine["mcp_config_path"]

(***************************************************************************)
(* The sequence a task runs as                                             *)
(***************************************************************************)
EffectivePanel(c) == IF c.panel = None THEN <<>> ELSE c.panel

BuiltinReviews(c) == {i \in DOMAIN c.phases : IsBuiltin(c.phases[i], "review")}
Expands(c, i) == i \in BuiltinReviews(c) /\ i < Length(c)
ExpandsReviewPanel(c) == \E i \in DOMAIN c.phases : Expands(c, i)

ReviewPhaseHarness(c) ==
  IF BuiltinReviews(c) = {} THEN c.harness ELSE HarnessFor(c, c.phases[Min(BuiltinReviews(c))])

PanelMemberLabel(panel, i) == IF panel[i].name # "" THEN panel[i].name ELSE "review-" \o ToString(i)

VerifyFollows(c, i) == i < Length(c) /\ IsBuiltin(c.phases[i + 1], "verify")

\* The review's mode and the fix's terminal step are positional.
Brief(c, i) ==
  LET ph == c.phases[i] IN
  CASE ph.own -> "own"
    [] IsBuiltin(ph, "review") /\ i < Length(c) -> "reviewOnly"
    [] IsBuiltin(ph, "fix") /\ VerifyFollows(c, i) -> "fixVerify"
    [] OTHER -> ph.name

Resolved(c, i) ==
  LET ph == c.phases[i] IN
  [name |-> ph.name, own |-> ph.own, harness |-> ph.harness, model |-> ph.model, tier |-> ph.tier,
   brief |-> Brief(c, i), seat |-> 0, optional |-> FALSE, source |-> i]

\* The configured review's knobs, and over them what the member says itself: a model or a
\* tier of its own clears the other.
PanelMember(c, i, seat) ==
  LET m == c.panel[seat]
      ph == Resolved(c, i)
  IN [ph EXCEPT !.name = PanelMemberLabel(c.panel, seat), !.seat = seat, !.optional = m.optional,
                !.harness = IF m.harness # None THEN m.harness ELSE @,
                !.model = IF m.model # <<>> THEN m.model ELSE IF m.tier THEN <<>> ELSE @,
                !.tier = m.model = <<>> /\ (m.tier \/ @)]

Unphased == [name |-> "", own |-> TRUE, harness |-> None, model |-> <<>>, tier |-> FALSE]

Expanded(c) ==
  FlattenSeq([i \in DOMAIN c.phases |->
    IF EffectivePanel(c) # <<>> /\ Expands(c, i)
    THEN [seat \in DOMAIN c.panel |-> PanelMember(c, i, seat)]
    ELSE <<Resolved(c, i)>>])

\* A verifier that says nothing of its own runs as the fix before it does.
VerifyInherits(phases) ==
  [i \in DOMAIN phases |->
     LET ph == phases[i]
         fixes == {j \in 1 .. i - 1 : phases[j].name = "fix"}
     IN IF ph.brief # "verify" \/ fixes = {} THEN ph
        ELSE LET fix == phases[Max(fixes)]
                 silent == ph.model = <<>> /\ ~ph.tier
             IN [ph EXCEPT !.harness = IF @ = None THEN fix.harness ELSE @,
                           !.model = IF silent THEN fix.model ELSE @,
                           !.tier = IF silent THEN fix.tier ELSE @]]

EffectivePhases(c) ==
  LET phases == IF c.phases = <<>> THEN Expanded([c EXCEPT !.phases = <<Unphased>>, !.panel = None])
                ELSE VerifyInherits(Expanded(c))
  IN [i \in DOMAIN phases |-> [phases[i] EXCEPT !.harness = HarnessFor(c, phases[i])]]

(***************************************************************************)
(* The conflict-only session, and the lists of harnesses                   *)
(***************************************************************************)
First(routes) == IF routes = <<>> THEN <<>> ELSE <<Head(routes)>>

ImplementPhases(c) == {i \in DOMAIN c.phases : c.phases[i].name = "implement"}

ImplementStep(c) ==
  LET ph == IF ImplementPhases(c) = {} THEN Unphased ELSE c.phases[Min(ImplementPhases(c))] IN
  [harness |-> HarnessFor(c, ph), model |-> First(ModelRoutesForPhase(c, ph))]

\* The block's own fields, and the implement step's for the rest: its model only with its
\* harness.
ConflictStep(c) ==
  LET implement == ImplementStep(c)
      harness == IF c.conflict # None /\ c.conflict.harness # None THEN c.conflict.harness ELSE implement.harness
  IN [harness |-> harness,
      model |-> CASE c.conflict # None /\ c.conflict.model # <<>> -> c.conflict.model
                  [] (c.conflict = None \/ c.conflict.model = <<>>) /\ harness = implement.harness -> implement.model
                  [] OTHER -> First(SessionFor(c, harness).model)]

ConflictHarness(c) == IF c.conflict = None \/ c.conflict.harness = None THEN {} ELSE {c.conflict.harness}

MemberHarness(c, seat) ==
  IF c.panel[seat].harness # None THEN c.panel[seat].harness ELSE ReviewPhaseHarness(c)

PanelMemberHarnesses(c) ==
  IF ExpandsReviewPanel(c) THEN {MemberHarness(c, seat) : seat \in DOMAIN EffectivePanel(c)} ELSE {}

\* What is declared, and what is said to be spawned.
ConfiguredHarnesses(c) == {HarnessFor(c, c.phases[i]) : i \in DOMAIN c.phases}
PhaseHarnesses(c) == {c.harness} \cup ConfiguredHarnesses(c) \cup PanelMemberHarnesses(c) \cup ConflictHarness(c)
SpawnedHarnesses(c) ==
  IF c.phases = <<>> THEN {c.harness} \cup ConflictHarness(c)
  ELSE ConfiguredHarnesses(c) \cup PanelMemberHarnesses(c) \cup ConflictHarness(c)

(***************************************************************************)
(* Validate: the rules it refuses by                                       *)
(***************************************************************************)
\* A session on another harness than the run's has a block of that harness to live on.
Usable(c, h) == h \in Known /\ (h = c.harness \/ ~Empty(c.blocks[h]))
Tracks(c, h) == Len(c.phases) > 1 /\ h \in Known => h \in Tracking

Blocks(c) == {h \in Names : ~Empty(c.blocks[h])}
HarnessRules(c) ==
  /\ c.harness \in Known /\ Blocks(c) \subseteq Known
  /\ c.flagged => Blocks(c) = {} /\ Cardinality(PhaseHarnesses(c)) = 1
  /\ \A i \in DOMAIN c.phases : Usable(c, HarnessFor(c, c.phases[i])) /\ Tracks(c, HarnessFor(c, c.phases[i]))
  /\ c.conflict # None => Usable(c, ConflictStep(c).harness)

PromptRules(c) == IF c.phases = <<>> THEN c.prompt # "" ELSE c.prompt # "own"

\* A label is one member's, no built-in phase's and no configured one's, and the names
\* review-1, review-2, ... are the members' by position.
LabelRules(c) ==
  \A i \in DOMAIN c.panel :
    LET label == PanelMemberLabel(c.panel, i) IN
    /\ \A j \in 1 .. i - 1 : PanelMemberLabel(c.panel, j) # label
    /\ label \notin Builtins /\ \A j \in DOMAIN c.phases : c.phases[j].name # label
    /\ \A j \in Nat \cap 1 .. 9 : label = "review-" \o ToString(j) => j = i

MemberRules(c) ==
  \A seat \in DOMAIN c.panel : Usable(c, MemberHarness(c, seat)) /\ Tracks(c, MemberHarness(c, seat))

PanelRules(c) ==
  /\ c.panel = <<>> => ~ExpandsReviewPanel(c)
  /\ EffectivePanel(c) # <<>> =>
       /\ Cardinality(BuiltinReviews(c)) <= 1
       /\ \E seat \in DOMAIN c.panel : ~c.panel[seat].optional
       /\ LabelRules(c) /\ MemberRules(c)
       /\ c.phases # <<>> => ExpandsReviewPanel(c)

ModelRules(c) == \A i \in DOMAIN c.phases : ~(c.phases[i].model # <<>> /\ c.phases[i].tier)

Reviewed(c, i) == \E j \in 1 .. i - 1 : c.phases[j].name = "review"

\* Slip: the fix may be anywhere after a review.
FixAnywhere(c) == \A i \in DOMAIN c.phases : IsBuiltin(c.phases[i], "fix") => Reviewed(c, i)

FixRules(c) ==
  \A i \in DOMAIN c.phases : IsBuiltin(c.phases[i], "fix") =>
    (i = Length(c) \/ VerifyFollows(c, i)) /\ Reviewed(c, i)

VerifyRules(c) ==
  \A i \in DOMAIN c.phases : IsBuiltin(c.phases[i], "verify") =>
    i = Length(c) /\ i > 1 /\ IsBuiltin(c.phases[i - 1], "fix") /\ Reviewed(c, i)

\* A review-only brief hands its findings to the fix, or to a prompt of the operator's.
ReviewRules(c) ==
  \A i \in DOMAIN c.phases : Expands(c, i) => c.phases[i + 1].own \/ c.phases[i + 1].name = "fix"

OrderRules(c) ==
  /\ \A i \in DOMAIN c.phases : c.phases[i].own \/ c.phases[i].name \in Builtins
  /\ c.phases # <<>> => c.phases[1].own \/ c.phases[1].name = "implement"
  /\ c.phases # <<>> => ~IsBuiltin(c.phases[Length(c)], "implement")
  /\ FixRules(c) /\ VerifyRules(c) /\ ReviewRules(c)

Validate(c) == HarnessRules(c) /\ PromptRules(c) /\ PanelRules(c) /\ ModelRules(c) /\ OrderRules(c)
=============================================================================
