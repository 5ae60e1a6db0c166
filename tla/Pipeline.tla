------------------------------ MODULE Pipeline ------------------------------
(***************************************************************************)
(* The operator writes a pipeline: phases one after the other, a review    *)
(* panel seat by seat.  What Validate accepts of it is what the driver     *)
(* spawns, phase by phase, so the properties are about the sequence that   *)
(* comes of an accepted config.                                            *)
(***************************************************************************)
EXTENDS Config

CONSTANTS Bases, Phases, Seats, MaxPhases, MaxSeats

BoundsAssumption == MaxPhases \in Nat /\ MaxSeats \in Nat

VARIABLE cfg

Init == cfg \in Bases

Write(ph) ==
  /\ Len(cfg.phases) < MaxPhases
  /\ cfg' = [cfg EXCEPT !.phases = Append(@, ph)]

\* The key of the panel, and each of its members.
Seat(m) ==
  /\ Len(EffectivePanel(cfg)) < MaxSeats
  /\ cfg' = [cfg EXCEPT !.panel = Append(EffectivePanel(cfg), m)]

EmptyPanel == cfg.panel = None /\ cfg' = [cfg EXCEPT !.panel = <<>>]

Next == (\E ph \in Phases : Write(ph)) \/ (\E m \in Seats : Seat(m)) \/ EmptyPanel

Spec == Init /\ [][Next]_cfg

(***************************************************************************)
(* Properties                                                              *)
(***************************************************************************)
Effective == EffectivePhases(cfg)
Steps == DOMAIN Effective
Accepted == Validate(cfg)

\* Every phase the driver iterates names the harness it runs on, and a seat of the panel
\* that there is.
TypeOK ==
  Accepted => \A i \in Steps :
    /\ Effective[i].harness \in Names /\ Effective[i].source \in 1 .. Len(cfg.phases) \cup {1}
    /\ Effective[i].seat \in 0 .. Len(EffectivePanel(cfg))
    /\ Effective[i].brief \in Builtins \cup {"own", "reviewOnly", "fixVerify"}

\* An accepted sequence of built-in briefs opens the pull request once, in its last
\* phase, and begins with the one that claims.
DeliversOnce ==
  Accepted /\ cfg.phases # <<>> /\ (\A i \in DOMAIN cfg.phases : ~cfg.phases[i].own) =>
    /\ {i \in Steps : Effective[i].brief \in {"review", "fix", "verify"}} = {Len(Effective)}
    /\ Effective[1].brief = "implement"

\* Findings do not end with the review that made them: after it, and after the other
\* seats of its round, comes a phase that applies them.
FindingsAreApplied ==
  Accepted => \A i \in Steps : Effective[i].brief = "reviewOnly" =>
    \E j \in Steps :
      /\ j > i /\ Effective[j].brief \in {"fix", "fixVerify", "own"}
      /\ \A k \in i + 1 .. j - 1 : Effective[k].brief = "reviewOnly" /\ Effective[k].source = Effective[i].source

\* A panel in force is one round: every seat once, next to each other, one of them
\* required, and each under a label no other phase has.
PanelIsOneRound ==
  Accepted /\ cfg.phases # <<>> /\ EffectivePanel(cfg) # <<>> =>
    LET seats == {i \in Steps : Effective[i].seat # 0} IN
    /\ \E first \in Steps : seats = first .. first + Len(cfg.panel) - 1
                            /\ \A i \in seats : Effective[i].seat = i - first + 1
    /\ \E i \in seats : ~Effective[i].optional
    /\ \A i \in seats, j \in Steps : Effective[i].name = Effective[j].name => i = j

\* A session starts on a harness that exists, that has its own wiring or is the run's,
\* that observes the claim the sequence rests on, and that doctor was told of.
SessionsCanRun ==
  Accepted => \A i \in Steps :
    LET h == Effective[i].harness IN
    /\ h \in Known /\ (h = cfg.harness \/ ~Empty(cfg.blocks[h])) /\ h \in PhaseHarnesses(cfg)
    /\ Len(Effective) > 1 => h \in Tracking

Spoken(routes, h) == \A i \in DOMAIN routes : Speaks[routes[i]] = h

\* The operator's own words are consistent: each pin is an alias of the harness beside it.
Meant ==
  /\ \A i \in DOMAIN cfg.phases : Spoken(cfg.phases[i].model, HarnessFor(cfg, cfg.phases[i]))
  /\ \A seat \in DOMAIN EffectivePanel(cfg) : Spoken(cfg.panel[seat].model, MemberHarness(cfg, seat))

\* The conflict session speaks the language of its harness.
ConflictIsSpoken ==
  Accepted /\ Meant => Spoken(ConflictStep(cfg).model, ConflictStep(cfg).harness)

\* "exactly the harnesses its phases resolve to" (config.go:3728): what is said to
\* be spawned is what the sequence spawns.
SpawnsAreExact ==
  Accepted => SpawnedHarnesses(cfg) = {Effective[i].harness : i \in Steps} \cup ConflictHarness(cfg)

\* A model alias is "an alias only one provider has" (config.go:400), and a verify phase
\* inherits the fix's pair when it "names neither a harness nor a tier nor a model"
\* (config.go:3341): no session is handed an alias of another harness.
ModelsAreSpoken ==
  Accepted /\ Meant => \A i \in Steps : Spoken(ModelRoutesForPhase(cfg, Effective[i]), Effective[i].harness)
=============================================================================
