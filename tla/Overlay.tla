------------------------------ MODULE Overlay ------------------------------
(***************************************************************************)
(* The configs that are made of a config: the daemon's base with the       *)
(* document ratified for a project laid over it and the flags over that,   *)
(* a supervised instance with what its roster entry overrides, and the     *)
(* document a base proposes of itself.  Each is a clone that is refused or *)
(* accepted whole, and the sessions then run by it.                        *)
(***************************************************************************)
EXTENDS Config

CONSTANTS Bases, Docs, Entries, FlagSets

VARIABLES
  base,    \* the config the process runs on
  flags,   \* its flag overrides
  eff,     \* the config made of it, or None
  made     \* what eff was made of: [by, of]

vars == <<base, flags, eff, made>>

NoFlags == [harness |-> None, model |-> <<>>]

(***************************************************************************)
(* The flags                                                               *)
(***************************************************************************)
ApplyFlagOverrides(c, f) ==
  [c EXCEPT !.harness = IF f.harness # None THEN f.harness ELSE @,
            !.model = IF f.model # <<>> THEN f.model ELSE @,
            !.flagged = @ \/ f # NoFlags]

Init ==
  /\ flags \in FlagSets
  /\ base \in {ApplyFlagOverrides(b, flags) : b \in Bases} /\ Validate(base)
  /\ eff = None /\ made = [by |-> "nothing", of |-> None]

(***************************************************************************)
(* Whether the new top-level harness would inherit the old one's dialect   *)
(***************************************************************************)
\* Slip: a block of its own is enough.
InheritsNothingByBlock(c, h, model, models, blocks) == ~Empty(c.blocks[h])

\* Each run-wide field that is set is the new harness's own as well, or for the model and
\* the tiers the document's.
Disinherited(c, h, model, models, blocks) ==
  /\ c.model # <<>> => model # <<>> \/ blocks[h].model # <<>> \/ c.blocks[h].model # <<>>
  /\ c.models # <<>> => models # <<>> \/ blocks[h].models # <<>> \/ c.blocks[h].models # <<>>
  /\ c.machine \subseteq c.blocks[h].machine
  /\ \A project \in c.projects : project.path => h \in project.paths

CheckHarnessSwap(c, h, model, models, blocks) ==
  h \notin {None, c.harness} => Disinherited(c, h, model, models, blocks)

(***************************************************************************)
(* The ratified document                                                   *)
(***************************************************************************)
Fills(block, policy) ==
  [block EXCEPT !.model = IF policy.model # <<>> THEN policy.model ELSE @,
                !.models = IF policy.models # <<>> THEN policy.models ELSE @]

PipelineSet(doc) == doc.prompt # None \/ doc.phases # None \/ doc.panel # None

\* The pipeline is one section: a key the document omits is cleared.
ReplacePipeline(c, doc) ==
  IF ~PipelineSet(doc) THEN c
  ELSE [c EXCEPT !.prompt = IF doc.prompt = None THEN "" ELSE doc.prompt,
                 !.phases = IF doc.phases = None THEN <<>> ELSE doc.phases,
                 !.panel = doc.panel]

ApplyRunConfig(c, doc) ==
  [ReplacePipeline(c, doc) EXCEPT
     !.harness = IF doc.harness # None THEN doc.harness ELSE @,
     !.model = IF doc.model # <<>> THEN doc.model ELSE @,
     !.models = IF doc.models # <<>> THEN doc.models ELSE @,
     !.blocks = [h \in Names |-> Fills(@[h], doc.blocks[h])]]

\* A map of its own for each map an overlay writes to.
OwnBlocks(c) == UNCHANGED base

Accepted(c, by, of) == eff' = c /\ made' = [by |-> by, of |-> of]

\* Refused documents leave what is in force.
Overlay(doc) ==
  /\ LET c == ApplyRunConfig(base, doc)
         flagged == ApplyFlagOverrides(c, flags)
     IN IF CheckHarnessSwap(base, doc.harness, doc.model, doc.models, doc.blocks)
        THEN /\ OwnBlocks(c)
             /\ IF Validate(flagged) THEN Accepted(flagged, "document", doc) ELSE UNCHANGED <<eff, made>>
        ELSE UNCHANGED <<base, eff, made>>
  /\ UNCHANGED flags

Drop == eff # None /\ Accepted(None, "nothing", None) /\ UNCHANGED <<base, flags>>

(***************************************************************************)
(* The roster entry of a supervised instance                               *)
(***************************************************************************)
\* A block without a model clears the model that was there.
Overrides(block, policy) ==
  [block EXCEPT !.model = policy.model, !.models = IF policy.models # <<>> THEN policy.models ELSE @]

\* Only the supervisor builds instances, and it has no flags of a run.
Instance(entry) ==
  /\ flags = NoFlags
  /\ CheckHarnessSwap(base, entry.harness, <<>>, <<>>, [h \in Names |-> entry.blocks[h]])
  /\ LET c == [base EXCEPT !.harness = IF entry.harness # None THEN entry.harness ELSE @,
                           !.blocks = [h \in Names |-> IF h \in entry.named THEN Overrides(@[h], entry.blocks[h]) ELSE @[h]]]
     IN Validate(c) /\ OwnBlocks(c) /\ Accepted(c, "entry", entry)
  /\ UNCHANGED flags

(***************************************************************************)
(* The document a config proposes of itself                                *)
(***************************************************************************)
Policy(block) == [model |-> First(block.model), models |-> First(block.models)]

ExportedPrompt(c) == IF c.prompt = "own" THEN "own" ELSE None

\* The plane's schema has one alias per model.
ExportedPhase(ph) == [ph EXCEPT !.model = First(@)]

RunConfigDocument(c) ==
  [harness |-> c.harness, model |-> c.model, models |-> c.models,
   blocks |-> [h \in Names |-> Policy(c.blocks[h])],
   prompt |-> ExportedPrompt(c),
   phases |-> IF c.phases = <<>> THEN None ELSE [i \in DOMAIN c.phases |-> ExportedPhase(c.phases[i])],
   panel |-> IF EffectivePanel(c) = <<>> THEN None ELSE [i \in DOMAIN c.panel |-> [c.panel[i] EXCEPT !.model = First(@)]]]

Proposable(c) ==
  EffectivePanel(c) # <<>> => ExpandsReviewPanel(c) /\ \A i \in DOMAIN c.panel : ~c.panel[i].optional

\* The operator ratifies what propose-config proposed.
RatifyProposal ==
  /\ flags = NoFlags /\ Proposable(base)
  /\ LET doc == RunConfigDocument(base)
         c == ApplyRunConfig(base, doc)
     IN IF Validate(c) THEN Accepted(c, "proposal", doc) ELSE UNCHANGED <<eff, made>>
  /\ UNCHANGED <<base, flags>>

Next ==
  \/ \E doc \in Docs : Overlay(doc)
  \/ \E entry \in Entries : Instance(entry)
  \/ Drop \/ RatifyProposal

Spec == Init /\ [][Next]_vars

(***************************************************************************)
(* Properties                                                              *)
(***************************************************************************)
Spoken(routes, h) == \A i \in DOMAIN routes : Speaks[routes[i]] = h
OwnDialect(path, h) == path \in {None, h}

\* The session of a harness has paths, a model and tiers of that harness only.
OwnSession(c, h) ==
  LET session == SessionFor(c, h) IN
  /\ \A f \in Machine : OwnDialect(session.machine[f], h)
  /\ Spoken(session.model, h) /\ Spoken(session.models, h)
  /\ \A project \in c.projects : OwnDialect(ResolveMCPConfig(c, h, project), h)

TypeOK ==
  /\ base.harness \in Known /\ flags \in FlagSets
  /\ made.by \in {"nothing", "document", "entry", "proposal"}
  /\ (eff = None) = (made.by = "nothing")
  /\ eff # None => Validate(eff) /\ eff.machine = base.machine

\* No document re-homes the machine's wiring: whatever it makes the top-level harness,
\* each harness's sessions stay in its own dialect.
NothingIsReHomed ==
  made.by = "document" => \A h \in Known : OwnSession(eff, h)

\* What is made of the base leaves it as it was: the next clone starts from the file.
BaseStays == UNCHANGED <<base, flags>>
BaseStands == [][BaseStays]_vars

\* The pipeline in force is the file's or the document's, never some of each.
PipelineIsOneSection ==
  made.by = "document" =>
    \/ eff.prompt = base.prompt /\ eff.phases = base.phases /\ eff.panel = base.panel
    \/ /\ eff.prompt \in {made.of.prompt, ""} /\ eff.panel = made.of.panel
       /\ eff.phases = IF made.of.phases = None THEN <<>> ELSE made.of.phases

\* A proposal that is ratified changes no session: the same briefs, on the same harness
\* and the same first model.
ProposalRunsTheSame ==
  made.by = "proposal" =>
    LET was == EffectivePhases(base)
        now == EffectivePhases(eff)
    IN /\ eff.prompt = base.prompt \/ base.phases # <<>>
       /\ Len(was) = Len(now)
       /\ \A i \in DOMAIN was :
            /\ was[i].brief = now[i].brief /\ was[i].harness = now[i].harness
            /\ First(ModelRoutesForPhase(base, was[i])) = First(ModelRoutesForPhase(eff, now[i]))

\* "This is the file's movable half verbatim" (proposeconfig.go:93).
ProposalIsVerbatim ==
  made.by = "proposal" =>
    \A i \in DOMAIN EffectivePhases(base) :
      ModelRoutesForPhase(base, EffectivePhases(base)[i]) = ModelRoutesForPhase(eff, EffectivePhases(eff)[i])

\* "an overlay can only fill these two fields of an existing local block"
\* (runconfig.go:50-51).
FillsExistingBlocks ==
  made.by = "document" => \A h \in Names : Empty(base.blocks[h]) => Empty(eff.blocks[h])

\* "it cannot hand a session somebody else's dialect" (runconfig.go:51-52): every phase
\* runs on a model of its harness.
PhasesAreSpoken ==
  made.by = "document" =>
    \A i \in DOMAIN EffectivePhases(eff) :
      Spoken(ModelRoutesForPhase(eff, EffectivePhases(eff)[i]), EffectivePhases(eff)[i].harness)

\* "the synthetic document captures the override exactly, and a refusal keeps the
\* last-known-good" (supervisor.go:834-835): an instance inherits nothing either.
OverridesReHomeNothing ==
  made.by = "entry" => \A h \in Known : OwnSession(eff, h)
=============================================================================
