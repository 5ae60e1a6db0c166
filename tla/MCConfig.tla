------------------------------ MODULE MCConfig ------------------------------
(***************************************************************************)
(* What a run is configured by: the pipeline of a file, the overlays made  *)
(* of it, the run configuration fetched while the loop runs, and the marks *)
(* on denied routes.  They share no state, so a behaviour is about one of  *)
(* them.                                                                   *)
(***************************************************************************)
EXTENDS Integers, Sequences, FiniteSets

CONSTANTS
  None,     \* nothing; also a variable of a component this behaviour is not about
  p1, p2    \* targets

\* The harnesses of a machine, and what each model alias is an alias of.
Harnesses4 == {"claude", "opencode", "aider", "gone"}
Harnesses2 == {"claude", "opencode"}
Aliases == {"opus", "luna", "sol"}
Speaks == [a \in Aliases |-> IF a = "opus" THEN "claude" ELSE "opencode"]
Builtins == {"implement", "review", "fix", "verify"}
Machine == {"config_dir", "mcp_config_path", "settings_path"}

Block(machine, model, models) == [machine |-> machine, model |-> model, models |-> models]
Bare == Block({}, <<>>, <<>>)
Wired == Block({"config_dir"}, <<>>, <<>>)
Ph(name, own) == [name |-> name, own |-> own, harness |-> None, model |-> <<>>, tier |-> FALSE]
On(h, ph) == [ph EXCEPT !.harness = h]
Pinned(a, ph) == [ph EXCEPT !.model = <<a>>]
Member(name, h, opt) == [name |-> name, harness |-> h, model |-> <<>>, tier |-> FALSE, optional |-> opt]
BuiltinPhases == {Ph(n, FALSE) : n \in Builtins}

-----------------------------------------------------------------------------
(* Pipelines, written a phase and a seat at a time.                        *)

File(wired) ==
  [harness |-> "claude", dialect |-> "claude", model |-> <<"opus">>, models |-> <<"opus">>, machine |-> {"config_dir"},
   blocks |-> [h \in Harnesses4 |-> IF h \in wired THEN Wired ELSE Bare], flagged |-> FALSE,
   prompt |-> "default", phases |-> <<>>, panel |-> None, conflict |-> None]

\* Orders: the built-in briefs and prompts of the operator's, every order of up to five.
OrderPhases == BuiltinPhases \cup {Ph("review", TRUE), Ph("docs", TRUE)}
OrderSeats == {Member("", None, FALSE), Member("", None, TRUE), Member("review-2", None, FALSE),
               Member("docs", None, FALSE), Member("fix", None, FALSE)}

\* Harnesses: phases and seats on others than the run's, with and without wiring.
HarnessFiles ==
  { File({"opencode"}), File({}), File({"aider", "opencode"}), [File({}) EXCEPT !.flagged = TRUE],
    [File({"opencode"}) EXCEPT !.conflict = [harness |-> "opencode", model |-> <<>>]],
    [File({"opencode"}) EXCEPT !.conflict = [harness |-> None, model |-> <<>>]] }
HarnessPhases ==
  BuiltinPhases \cup {On("opencode", Ph("fix", FALSE)), On("aider", Ph("review", FALSE)), On("gone", Ph("docs", TRUE)),
                      Pinned("luna", On("opencode", Ph("implement", FALSE)))}
HarnessSeats == {Member("", None, FALSE), Member("", "opencode", FALSE), Member("", "aider", TRUE)}

-----------------------------------------------------------------------------
(* Overlays: a claude machine that may also be wired for opencode.         *)

Only(h, block) == [n \in Harnesses2 |-> IF n = h THEN block ELSE Bare]
Three == <<Ph("implement", FALSE), Ph("review", FALSE), Ph("fix", FALSE)>>
Tiered == <<[Ph("implement", FALSE) EXCEPT !.tier = TRUE], On("claude", Ph("review", FALSE))>>
OnOpencode(routes) == [Three EXCEPT ![3].harness = "opencode", ![3].model = routes]
Pipe(prompt, phases, panel) == [prompt |-> prompt, phases |-> phases, panel |-> panel]
Pipes ==
  { Pipe("default", <<>>, None), Pipe("own", <<>>, None), Pipe("default", Three, <<Member("a", None, FALSE), Member("b", None, FALSE)>>),
    Pipe("default", Tiered, None), Pipe("", [Three EXCEPT ![1].model = <<"opus">>], None), Pipe("default", OnOpencode(<<"luna", "sol">>), None) }

Laid(machine, model, models, block, projects, pipe) ==
  [harness |-> "claude", dialect |-> "claude", machine |-> machine, model |-> model, models |-> models,
   blocks |-> Only("opencode", block), projects |-> projects, flagged |-> FALSE, conflict |-> None,
   prompt |-> pipe.prompt, phases |-> pipe.phases, panel |-> pipe.panel]
OpencodeBlocks == { Bare, Wired, Block(Machine, <<"luna", "sol">>, <<>>), Block(Machine, <<>>, <<"luna">>) }
LaidFiles ==
  { Laid(machine, model, models, block, projects, pipe) :
      machine \in { {}, {"config_dir", "mcp_config_path"} }, model \in {<<>>, <<"opus">>}, models \in {<<>>, <<"opus">>},
      block \in OpencodeBlocks, projects \in { {}, {[path |-> TRUE, paths |-> {}]}, {[path |-> TRUE, paths |-> {"opencode"}]} },
      pipe \in Pipes }

\* Documents are ratified for the harness they name.
Policies == { Bare, Block({}, <<"sol">>, <<>>), Block({}, <<>>, <<"sol">>) }
Document(h, model, models, policy, pipe) ==
  [harness |-> h, model |-> model, models |-> models, blocks |-> Only("opencode", policy),
   prompt |-> pipe.prompt, phases |-> pipe.phases, panel |-> pipe.panel]
DocPipes ==
  { Pipe(None, None, None), Pipe("own", None, None), Pipe(None, Three, <<Member("c", None, FALSE)>>) }
Docs ==
  { Document(None, model, <<>>, policy, pipe) : model \in {<<>>, <<"opus">>}, policy \in Policies, pipe \in DocPipes }
  \cup { Document("opencode", model, models, policy, pipe) :
           model \in {<<>>, <<"luna">>}, models \in {<<>>, <<"luna">>}, policy \in Policies, pipe \in DocPipes }
Entries ==
  { [harness |-> h, named |-> {"opencode"}, blocks |-> Only("opencode", policy)] : h \in {None, "opencode"}, policy \in Policies }
  \cup { [harness |-> "opencode", named |-> {}, blocks |-> Only("opencode", Bare)] }
NoFlags == [harness |-> None, model |-> <<>>]

-----------------------------------------------------------------------------
(* The run configuration: two versions of a document, two files.           *)

Plain == [kind |-> [v \in 1 .. 2 |-> "good"], clash |-> {}, broken |-> {}, unwired |-> {}, edits |-> 1, fails |-> 1, drops |-> 1]
Second(k) == [v \in 1 .. 2 |-> IF v = 2 THEN k ELSE "good"]

\* Every kind of document, a file that does not load, and failures up to the backoff's cap.
RunConfigs ==
  { Plain, [Plain EXCEPT !.kind = Second("empty")], [Plain EXCEPT !.kind = Second("unreadable")],
    [Plain EXCEPT !.kind = Second("newer")], [Plain EXCEPT !.clash = {<<1, 2>>, <<2, 1>>}],
    [Plain EXCEPT !.broken = {2}, !.edits = 2], [Plain EXCEPT !.unwired = {p1}], [Plain EXCEPT !.fails = 4, !.drops = 0] }
\* Two projects, one of them perhaps without a wire.
PairConfigs == { [Plain EXCEPT !.kind = Second("newer"), !.fails = 0], [Plain EXCEPT !.unwired = {p2}, !.fails = 0] }

-----------------------------------------------------------------------------
(* Denied routes: a free route and its paid twin, with a stated reset or   *)
(* none and an interval that is reloaded; three routes, only stated resets.*)

RouteConfigs ==
  { [routes |-> <<"free", "paid">>, intervals |-> {1, 2}, stated |-> {0, 2, 3}],
    [routes |-> <<"free", "paid", "spare">>, intervals |-> {1}, stated |-> {2, 4}] }

-----------------------------------------------------------------------------
VARIABLES
  part,   \* the component this behaviour is about
  \* those of the components, by their names there
  cfg, base, conf,
  flags, eff, made,
  plane, file, rc, loop, drain, past,
  now, marks, offered, reports, runs, denials

Orders ==
  INSTANCE Pipeline WITH Names <- Harnesses4, Known <- Harnesses4 \ {"gone"}, Tracking <- Harnesses2,
    Bases <- {File({"opencode"})}, Phases <- OrderPhases, Seats <- OrderSeats, MaxPhases <- 5, MaxSeats <- 2
Harnesses ==
  INSTANCE Pipeline WITH Names <- Harnesses4, Known <- Harnesses4 \ {"gone"}, Tracking <- Harnesses2,
    Bases <- HarnessFiles, Phases <- HarnessPhases, Seats <- HarnessSeats, MaxPhases <- 4, MaxSeats <- 2
Overlay ==
  INSTANCE Overlay WITH Names <- Harnesses2, Known <- Harnesses2, Tracking <- Harnesses2, Bases <- LaidFiles, FlagSets <- {NoFlags}
One ==
  INSTANCE RunConfig WITH Targets <- {p1}, Versions <- {1, 2}, Files <- {1, 2}, Configs <- RunConfigs, MaxPhases <- 2, Cap <- 4
Pair ==
  INSTANCE RunConfig WITH Targets <- {p1, p2}, Versions <- {1, 2}, Files <- {1, 2}, Configs <- PairConfigs, MaxPhases <- 1, Cap <- 1
Marks == INSTANCE RouteMarks WITH Members <- {"a", "b"}, Configs <- RouteConfigs, MaxTime <- 4, MaxRuns <- 3

ASSUME ConfigAssumption ==
  /\ Orders!NamesAssumption /\ Orders!SpeaksAssumption /\ Orders!BoundsAssumption /\ Harnesses!BoundsAssumption
  /\ Overlay!NamesAssumption /\ One!ConfigsAssumption /\ Pair!ConfigsAssumption /\ Marks!ConfigsAssumption

\* A behaviour is about one component: the variables of the others stay blank.
OverlayOwn == <<flags, eff, made>>
RunConfigOwn == <<plane, file, rc, loop, drain, past>>
RouteMarksOwn == <<now, marks, offered, reports, runs, denials>>
vars == <<part, cfg, base, conf, OverlayOwn, RunConfigOwn, RouteMarksOwn>>

NoOverlay == flags = None /\ eff = None /\ made = None
NoRunConfig == plane = None /\ file = None /\ rc = None /\ loop = None /\ drain = None
               /\ past = None
NoRouteMarks == now = None /\ marks = None /\ offered = None /\ reports = None /\ runs = None
                /\ denials = None

Init ==
  \/ part = "orders" /\ Orders!Init
     /\ NoOverlay /\ NoRunConfig /\ NoRouteMarks /\ base = None /\ conf = None
  \/ part = "harnesses" /\ Harnesses!Init
     /\ NoOverlay /\ NoRunConfig /\ NoRouteMarks /\ base = None /\ conf = None
  \/ part = "overlay" /\ Overlay!Init
     /\ NoRunConfig /\ NoRouteMarks /\ cfg = None /\ conf = None
  \/ part = "runconfig" /\ One!Init
     /\ NoOverlay /\ NoRouteMarks
  \/ part = "pair" /\ Pair!Init
     /\ NoOverlay /\ NoRouteMarks
  \/ part = "marks" /\ Marks!Init
     /\ NoOverlay /\ NoRunConfig /\ cfg = None /\ base = None

OrdersAlone == part = "orders" /\ UNCHANGED <<part, OverlayOwn, RunConfigOwn, RouteMarksOwn, base,
                                            conf>>
HarnessesAlone == part = "harnesses" /\ UNCHANGED <<part, OverlayOwn, RunConfigOwn, RouteMarksOwn,
                                                  base, conf>>
OverlayAlone == part = "overlay" /\ UNCHANGED <<part, RunConfigOwn, RouteMarksOwn, cfg, conf>>
RunConfigAlone == part = "runconfig" /\ UNCHANGED <<part, OverlayOwn, RouteMarksOwn>>
RunConfigPairAlone == part = "pair" /\ UNCHANGED <<part, OverlayOwn, RouteMarksOwn>>
RouteMarksAlone == part = "marks" /\ UNCHANGED <<part, OverlayOwn, RunConfigOwn, cfg, base>>

OrdersStep == OrdersAlone /\ Orders!Next
HarnessesStep == HarnessesAlone /\ Harnesses!Next
OverlayStep == OverlayAlone /\ Overlay!Next
RunConfigStep == RunConfigAlone /\ One!Next
RunConfigPairStep == RunConfigPairAlone /\ Pair!Next
RouteMarksStep == RouteMarksAlone /\ Marks!Next
Next == OrdersStep \/ HarnessesStep \/ OverlayStep \/ RunConfigStep \/ RunConfigPairStep
        \/ RouteMarksStep

Spec == Init /\ [][Next]_vars

-----------------------------------------------------------------------------
(* Properties                                                              *)

\* Of a pipeline that Validate accepts: it claims first and delivers once, findings go on
\* to a phase that applies them, a panel is one round, and every session starts on a
\* harness that can run it and in that harness's language
\* (config.go:2964-3320, 3340-3420, 3660-3800).
PipelineDelivers ==
  /\ [](part = "orders" =>
          Orders!TypeOK /\ Orders!DeliversOnce /\ Orders!FindingsAreApplied /\ Orders!PanelIsOneRound)
  /\ [](part = "harnesses" => Harnesses!SessionsCanRun /\ Harnesses!ConflictIsSpoken)

\* A document or a proposal laid over a file: no harness is handed another's paths, models
\* or tiers, the pipeline in force is the file's or the document's, the file it is laid
\* over stays as it was, and ratifying what the file proposes changes no session
\* (config/runconfig.go:342-480, 500-640).
OverlayReHomesNothing ==
  /\ [](part = "overlay" =>
          /\ Overlay!TypeOK /\ Overlay!NothingIsReHomed /\ Overlay!PipelineIsOneSection /\ Overlay!ProposalRunsTheSame)
  /\ [][part = "overlay" => Overlay!BaseStays]_vars

\* What is in force is ratified and goes with the file it is on; a target in step with the
\* plane runs what the plane says; retries back off; a sequence that began on an overlay
\* keeps it (loop/runconfig.go:40-230).
RunConfigIsRatified ==
  /\ [](part = "runconfig" => One!TypeOK /\ One!InForceIsRatified /\ One!InStep /\ One!OverlaidSequenceStands)
  /\ [](part = "pair" => Pair!InForceIsRatified /\ Pair!InStep)
  /\ [][part = "runconfig" => One!RetryWaited]_vars

\* A denied route is passed over until the reset its provider stated, whatever another
\* member's report says; a phase always has a route; and the run goes back to its first
\* route when the reset has passed (route_fallback.go:41-120, opencode_routes.go:116-118).
RoutesAreMarked ==
  /\ [](part = "marks" => Marks!LastIsMarked)
  /\ [][part = "marks" => Marks!PaysOnce /\ Marks!StartsSomewhere /\ Marks!MarksStand /\ Marks!ReturnsToTheFirst]_vars
=============================================================================
