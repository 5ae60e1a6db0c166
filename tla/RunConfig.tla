------------------------------ MODULE RunConfig ------------------------------
(***************************************************************************)
(* The execution config a project's sessions run under: the operator's     *)
(* file, read again on RELOAD, and over it the document ratified on the    *)
(* plane, which each poll names by version.  A version that moved is       *)
(* fetched at the iteration boundary, laid over the file or refused, while *)
(* the operator ratifies, edits and reloads, fetches fail, and a drain of  *)
(* several phases waits in the middle.                                     *)
(*                                                                         *)
(* A config is the file it was read from and the document laid over it.    *)
(* Time is counted in units of the first backoff.                          *)
(***************************************************************************)
EXTENDS Integers, Sequences, FiniteSets

CONSTANTS Targets, Versions, Files, None, Configs, MaxPhases, Cap

\* What a document is to this build: it applies, sets nothing this build consumes, does
\* not decode or is of a schema newer than the build.
Kinds == {"good", "empty", "unreadable", "newer"}
ConfigsAssumption ==
  /\ Versions \subseteq Nat \ {0} /\ IsFiniteSet(Versions) /\ None \notin Versions \cup {0}
  /\ Files \subseteq Nat /\ 1 \in Files /\ MaxPhases \in Nat /\ Cap \in Nat \ {0}
  /\ \A c \in Configs :
       /\ 1 \notin c.broken
       /\ c.kind \in [Versions -> Kinds]
       /\ c.clash \subseteq Versions \X Files   \* a document that file refuses
       /\ c.broken \subseteq Files              \* a file that does not load
       /\ c.unwired \subseteq Targets           \* no project to ask about
       /\ c.edits \in Nat /\ c.fails \in Nat /\ c.drops \in Nat

VARIABLES
  conf,    \* the member of Configs this behaviour is about
  plane,   \* per target: the version in force on the plane, and the newest it ever had
  file,    \* the operator's: the file on disk, whether RELOAD is there
  base,    \* d.cfg: the file the daemon runs on
  cfg,     \* per target: Target.Cfg, the overlay or None
  rc,      \* per target: rcVersions, rcAttempt as what is left of it, rcAttemptVer, rcFails
  loop,    \* where the run is, at which target, and the version the poll answered
  drain,   \* the sequence in flight
  past     \* what happened, for the bounds and the properties

vars == <<conf, plane, file, base, cfg, rc, loop, drain, past>>

Overlays == [file : Files, doc : Versions]
Config == [file : Files, doc : Versions \cup {None}]
Fetch == [version : Versions \cup {0, -1}, rest : -1 .. Cap, tried : Versions \cup {0}, fails : Nat]

TypeOK ==
  /\ conf \in Configs
  /\ plane \in [Targets -> [version : Versions \cup {0}, newest : Versions \cup {0}]]
  /\ file \in [disk : Files, reload : BOOLEAN]
  /\ base \in Files
  /\ cfg \in [Targets -> Overlays \cup {None}]
  /\ rc \in [Targets -> Fetch]
  /\ loop \in [pc : {"top", "poll", "check", "pick", "drain", "wait"}, todo : SUBSET Targets,
               at : Targets \cup {None}, polled : Versions \cup {0}]
  /\ drain \in [target : Targets \cup {None}, cfg : Overlays \cup {None}, ran : Seq(Config), told : Config \cup {None}]
  /\ past \in [edits : Nat, fails : Nat, drops : Nat, since : [Targets -> 0 .. Cap + 1], run : [Targets -> Nat],
               asked : [Targets -> Versions \cup {None}]]

Fresh == [version |-> -1, rest |-> -1, tried |-> 0, fails |-> 0]
NoDrain == [target |-> None, cfg |-> None, ran |-> <<>>, told |-> None]

Init ==
  /\ conf \in Configs
  /\ plane = [t \in Targets |-> [version |-> 0, newest |-> 0]]
  /\ file = [disk |-> 1, reload |-> FALSE]
  /\ base = 1
  /\ cfg = [t \in Targets |-> None]
  /\ rc = [t \in Targets |-> Fresh]
  /\ loop = [pc |-> "top", todo |-> {}, at |-> None, polled |-> 0]
  /\ drain = NoDrain
  /\ past = [edits |-> 0, fails |-> 0, drops |-> 0, since |-> [t \in Targets |-> 0], run |-> [t \in Targets |-> 0],
             asked |-> [t \in Targets |-> None]]

(***************************************************************************)
(* The operator and time                                                   *)
(***************************************************************************)
Ratify(t) ==
  /\ plane[t].newest + 1 \in Versions
  /\ plane' = [plane EXCEPT ![t] = [version |-> @.newest + 1, newest |-> @.newest + 1]]
  /\ UNCHANGED <<conf, file, base, cfg, rc, loop, drain, past>>

Remove(t) ==
  /\ plane[t].version # 0 /\ past.drops < conf.drops
  /\ plane' = [plane EXCEPT ![t].version = 0]
  /\ past' = [past EXCEPT !.drops = @ + 1]
  /\ UNCHANGED <<conf, file, base, cfg, rc, loop, drain>>

Edit ==
  /\ past.edits < conf.edits
  /\ \E f \in Files : file' = [disk |-> f, reload |-> TRUE]
  /\ past' = [past EXCEPT !.edits = @ + 1]
  /\ UNCHANGED <<conf, plane, base, cfg, rc, loop, drain>>

Sooner(n) == IF n >= 0 THEN n - 1 ELSE n
Later(n) == IF n <= Cap THEN n + 1 ELSE n

Tick ==
  /\ \E t \in Targets : rc[t].rest >= 0
  /\ rc' = [t \in Targets |-> [rc[t] EXCEPT !.rest = Sooner(@)]]
  /\ past' = [past EXCEPT !.since = [t \in Targets |-> Later(@[t])]]
  /\ UNCHANGED <<conf, plane, file, base, cfg, loop, drain>>

(***************************************************************************)
(* RELOAD                                                                  *)
(***************************************************************************)
\* Slip: only the file is read again.
InvalidateNothing == UNCHANGED <<rc, past>>

\* Unfetched again: what is in force stays until the next poll.
InvalidateRunConfigs ==
  /\ rc' = [t \in Targets |-> Fresh]
  /\ past' = [past EXCEPT !.run = [t \in Targets |-> 0]]

ApplyReload ==
  IF file.disk \in conf.broken THEN UNCHANGED <<base, rc, past>>
  ELSE base' = file.disk /\ InvalidateRunConfigs

\* At the top of an iteration, and in every wait of a session.
Reload ==
  /\ loop.pc \in {"top", "wait"} /\ file.reload
  /\ file' = [file EXCEPT !.reload = FALSE]
  /\ ApplyReload
  /\ UNCHANGED <<conf, plane, cfg, loop, drain>>

(***************************************************************************)
(* The boundary                                                            *)
(***************************************************************************)
BeginPolls ==
  /\ loop.pc = "top" /\ ~file.reload
  /\ loop' = [loop EXCEPT !.pc = "poll", !.todo = Targets]
  /\ UNCHANGED <<conf, plane, file, base, cfg, rc, drain, past>>

\* The targets one after the other; a poll that fails says nothing of the version.
Poll(t) ==
  /\ loop.pc = "poll" /\ t \in loop.todo
  /\ \/ loop' = [loop EXCEPT !.todo = @ \ {t}, !.pc = "check", !.at = t, !.polled = plane[t].version]
        /\ UNCHANGED past
     \/ past.fails < conf.fails
        /\ loop' = [loop EXCEPT !.todo = @ \ {t}]
        /\ past' = [past EXCEPT !.fails = @ + 1]
  /\ UNCHANGED <<conf, plane, file, base, cfg, rc, drain>>

Polled == loop.polled
Here == rc[loop.at]
Checked == loop' = [loop EXCEPT !.pc = "poll", !.at = None]
Sets(fetch) == rc' = [rc EXCEPT ![loop.at] = fetch]
Runs(overlay) == cfg' = [cfg EXCEPT ![loop.at] = overlay]
Latched(v) == [version |-> v, rest |-> -1, tried |-> 0, fails |-> 0]
Asked(answer, run) == past' = [past EXCEPT !.asked[loop.at] = answer, !.run[loop.at] = run]

SameVersion == Polled = Here.version
NeverSet == Polled = 0 /\ Here.version <= 0

CheckSame ==
  /\ loop.pc = "check" /\ SameVersion /\ Checked
  /\ UNCHANGED <<conf, plane, file, base, cfg, rc, drain, past>>

\* Nothing is stored and nothing is known to be: no need to ask.
CheckNeverSet ==
  /\ loop.pc = "check" /\ ~SameVersion /\ NeverSet
  /\ Sets(Latched(0)) /\ Runs(None) /\ Checked
  /\ UNCHANGED <<conf, plane, file, base, drain, past>>

\* Slip: a version that failed once is not asked for again.
ThrottledForGood == Polled = Here.tried

Throttled == Polled = Here.tried /\ Here.rest >= 0

CheckThrottled ==
  /\ loop.pc = "check" /\ ~SameVersion /\ ~NeverSet /\ Throttled /\ Checked
  /\ UNCHANGED <<conf, plane, file, base, cfg, rc, drain, past>>

Fetches == loop.pc = "check" /\ ~SameVersion /\ ~NeverSet /\ ~Throttled /\ Checked

Backoff(n) == IF n <= 1 THEN 1 ELSE IF 2 ^ (n - 1) >= Cap THEN Cap ELSE 2 ^ (n - 1)

Fails == IF Polled # Here.tried THEN 1 ELSE Here.fails + 1

FetchFails ==
  /\ Fetches /\ past.fails < conf.fails /\ loop.at \notin conf.unwired
  /\ Sets([Here EXCEPT !.tried = Polled, !.fails = Fails, !.rest = Backoff(Fails)])
  /\ past' = [past EXCEPT !.fails = @ + 1, !.since[loop.at] = 0,
                          !.run[loop.at] = IF Polled # Here.tried THEN 1 ELSE @ + 1]
  /\ UNCHANGED <<conf, plane, file, base, cfg, drain>>

Stored == plane[loop.at].version

NoneStored ==
  /\ Sets(Latched(Polled))
  /\ IF cfg[loop.at] # None \/ Here.version > 0 THEN Runs(None) ELSE UNCHANGED cfg

FetchNone ==
  /\ Fetches /\ (Stored = 0 \/ loop.at \in conf.unwired)
  /\ NoneStored /\ Asked(None, 0)
  /\ UNCHANGED <<conf, plane, file, base, drain>>

\* It does not decode, its schema is newer, or the file and it do not go together.
Refuses(v) == conf.kind[v] \in {"unreadable", "newer"} \/ <<v, base>> \in conf.clash

\* What was fetched may be newer than what the poll named.
FetchStored ==
  /\ Fetches /\ Stored # 0 /\ loop.at \notin conf.unwired
  /\ Sets(Latched(Stored)) /\ Asked(Stored, 0)
  /\ \/ conf.kind[Stored] = "empty" /\ Runs(None)
     \/ conf.kind[Stored] # "empty" /\ Refuses(Stored) /\ UNCHANGED cfg
     \/ conf.kind[Stored] # "empty" /\ ~Refuses(Stored) /\ Runs([file |-> base, doc |-> Stored])
  /\ UNCHANGED <<conf, plane, file, base, drain>>

(***************************************************************************)
(* The drain                                                               *)
(***************************************************************************)
Boundary == loop' = [loop EXCEPT !.pc = "top"]

EndPolls ==
  /\ loop.pc = "poll" /\ loop.todo = {}
  /\ \/ Boundary /\ UNCHANGED drain
     \/ \E t \in Targets : /\ loop' = [loop EXCEPT !.pc = "drain"]
                           /\ drain' = [NoDrain EXCEPT !.target = t, !.cfg = cfg[t]]
  /\ UNCHANGED <<conf, plane, file, base, cfg, rc, past>>

\* The drain holds a copy of its target, and the overlay with it; without one it reads
\* the daemon's config, which a RELOAD replaces.
TargetCfg == IF drain.cfg # None THEN drain.cfg ELSE [file |-> base, doc |-> None]

\* The next phase resolves its models, and those of the phase before it, by TargetCfg.
Spawn ==
  /\ loop.pc = "drain" /\ Len(drain.ran) < MaxPhases
  /\ drain' = [drain EXCEPT !.ran = Append(@, TargetCfg), !.told = IF drain.ran = <<>> THEN None ELSE TargetCfg]
  /\ \E pc \in {"drain", "wait"} : loop' = [loop EXCEPT !.pc = pc]
  /\ UNCHANGED <<conf, plane, file, base, cfg, rc, past>>

WaitEnds ==
  /\ loop.pc = "wait" /\ loop' = [loop EXCEPT !.pc = "drain"]
  /\ UNCHANGED <<conf, plane, file, base, cfg, rc, drain, past>>

DrainEnds ==
  /\ loop.pc = "drain" /\ Boundary /\ drain' = NoDrain
  /\ UNCHANGED <<conf, plane, file, base, cfg, rc, past>>

CheckRunConfigVersion == CheckSame \/ CheckNeverSet \/ CheckThrottled \/ FetchFails \/ FetchNone \/ FetchStored

Run ==
  \/ Reload \/ BeginPolls \/ (\E t \in Targets : Poll(t)) \/ CheckRunConfigVersion \/ EndPolls
  \/ Spawn \/ WaitEnds \/ DrainEnds

Next == Run \/ Edit \/ Tick \/ \E t \in Targets : Ratify(t) \/ Remove(t)

Spec == Init /\ [][Next]_vars

\* The loop goes on, each wait ends, and time
\* passes.
FairSpec == Spec /\ WF_vars(Run) /\ WF_vars(Tick)

(***************************************************************************)
(* Properties                                                              *)
(***************************************************************************)
Applies(v, f) == conf.kind[v] = "good" /\ <<v, f>> \notin conf.clash

\* An overlay is of a document that was ratified for its project, of this build's schema,
\* and laid over a file it goes together with: a refused one is never half in force.
InForceIsRatified ==
  \A t \in Targets : cfg[t] # None =>
    /\ cfg[t].doc <= plane[t].newest
    /\ Applies(cfg[t].doc, cfg[t].file) /\ cfg[t].file \notin conf.broken

\* A target that is in step with the plane runs what the plane says, on the file that was
\* loaded last: the document if it applies, the file alone if there is none or it says
\* nothing.
InStep ==
  \A t \in Targets \ conf.unwired :
    LET v == rc[t].version IN
    v = plane[t].version =>
      /\ (v = 0 => cfg[t] = None)
      /\ (v > 0 => (conf.kind[v] = "empty" => cfg[t] = None))
      /\ (v > 0 => (Applies(v, base) => cfg[t] = [file |-> base, doc |-> v]))

\* Retries of one version are spaced, and ever wider: the nth failure in a row is at
\* least the backoff of the one before it after that.
RetryWaited ==
  \A t \in Targets :
       past'.run[t] > 1 /\ past'.run[t] = past.run[t] + 1 => past.since[t] > Backoff(past.run[t])
RetriesAreSpaced == [][RetryWaited]_vars

\* A sequence that began on an overlay runs all its phases on it, whatever is reloaded,
\* ratified or removed meanwhile.
OverlaidSequenceStands ==
  drain.cfg # None => \A i \in DOMAIN drain.ran : drain.ran[i] = drain.cfg

\* Once the operator rests and the plane answers, every target is in step for good.
Converges == \A t \in Targets : <>[](rc[t].version = plane[t].version)

\* "a target's existing overlay was built from the OLD base ... and must not outlive it"
\* (runconfig.go:150-153): a target that has heard the plane since the reload, and keeps an
\* overlay, has it on the file that was loaded.
OverlayIsOnTheFile ==
  \A t \in Targets : cfg[t] # None /\ rc[t].version > 0 => cfg[t].file = base

\* "A 0 arriving while a stored overlay is in force ... still fetches below, so the drop
\* to local is confirmed and logged" (runconfig.go:57-58).
DropsAreConfirmed ==
  [][\A t \in Targets : cfg[t] # None /\ cfg'[t] = None =>
       past'.asked[t] = None \/ conf.kind[past'.asked[t]] = "empty"]_vars

\* "the sequence must keep its own shape and attribution until the next drain"
\* (loop.go:7426-7427): a phase is told of the config its predecessor ran on.
AttributionIsWhatRan ==
  drain.told # None => drain.told = drain.ran[Len(drain.ran) - 1]
=============================================================================
