--------------------------- MODULE OpenCodeServer ---------------------------
(***************************************************************************)
(* The preflight of one opencode session: which servers the loaded config  *)
(* declares, the private server that is started for the run, the wait      *)
(* until they are connected, and how the session ends when they are not.   *)
(* The wait of either stage is a timer that may fire at any moment.        *)
(***************************************************************************)
EXTENDS Integers, Sequences, FiniteSets

CONSTANTS
  Configs,   \* what may be asked of this model
  Buffer     \* the lines the reader may run ahead of the preflight

Read(direct, servers) == [ok |-> "read", direct |-> direct, servers |-> servers]
Container(entries) == [shaped |-> FALSE, keyed |-> FALSE, entries |-> entries]
NoServers == Container({})
Absent == [ok |-> "absent", direct |-> {}, servers |-> NoServers]
Unreadable == [ok |-> "unreadable", direct |-> {}, servers |-> NoServers]
Entry(n, k) == [name |-> n, keyed |-> k]

LayerOK(l) == l.ok \in {"read", "absent", "unreadable"} /\ \A e \in l.direct \cup l.servers.entries : e.keyed \in BOOLEAN
Faults == {"exit", "status", "error", "elsewhere", "wall", "cancel", "noStart"}
ConfigsAssumption ==
  /\ Buffer \in Nat \ {0}
  /\ \A c \in Configs :
       /\ c.named \in BOOLEAN /\ LayerOK(c.file) /\ c.dir \in BOOLEAN /\ \A i \in DOMAIN c.layers : LayerOK(c.layers[i])
       /\ c.lines \in Seq({"address", "password", "chatter"}) /\ c.seed \in BOOLEAN /\ c.faults \subseteq Faults

VARIABLES
  conf,      \* the member of Configs this behaviour is about
  pc,        \* start, starting, polling, pausing, ready, running, returned
  names,     \* the servers to wait for
  server,    \* the private server: none, up, gone, stopped
  said,      \* what it has yet to write
  lines,     \* what the preflight has yet to read
  heard,     \* what it announced
  status,    \* what it would answer of each server
  answer,    \* the last answer that was taken as this session's
  wall, cancelled,   \* the session's own deadline has passed; the run is stopped
  out        \* what the session returned

vars == <<conf, pc, names, server, said, lines, heard, status, answer, wall, cancelled, out>>

Statuses == {"unlisted", "pending", "connected", "failed", "needs_auth", "disabled", "odd"}
NoAnswer == [here |-> FALSE, states |-> <<>>]
Nothing == [kind |-> "none", claim |-> FALSE]

----------------------------------------------------------------------------
(* The config.                                                             *)

\* The documented name, or an entry handed the credential; a disabled one too.
Waited(e) == e.name = "clankerbar" \/ e.keyed

\* `servers` is 2.x's container, or a 1.x server of that name.
InServers(s) == IF s.shaped THEN {Entry("servers", s.keyed)} ELSE s.entries
Collected(layer) == {e.name : e \in {d \in layer.direct \cup InServers(layer.servers) : Waited(d)}}

\* A named file is pinned last, and read alone.
Layers(c) == IF c.named THEN <<c.file>> ELSE c.layers

Readable(c) == (c.named \/ c.dir) /\ \A i \in DOMAIN Layers(c) : Layers(c)[i].ok /= "unreadable"
Effective(c) == UNION {Collected(Layers(c)[i]) : i \in DOMAIN Layers(c)}

----------------------------------------------------------------------------
(* How a preflight that failed is returned.                                *)

Done == wall \/ cancelled

Verdict ==
  IF wall /\ ~cancelled THEN [kind |-> "capped", claim |-> FALSE]
  ELSE IF cancelled THEN [kind |-> "cancelled", claim |-> FALSE]
  ELSE [kind |-> "infra", claim |-> FALSE]
\* The deferred stop, and the one of each failing stage.
Stopped(s) == IF s = "none" THEN "none" ELSE "stopped"
Fails == pc' = "returned" /\ out' = Verdict /\ server' = Stopped(server)

----------------------------------------------------------------------------
(* The adapter.                                                            *)

Init ==
  /\ conf \in Configs /\ pc = "start" /\ names = {} /\ server = "none" /\ said = conf.lines /\ lines = <<>> /\ heard = {}
  /\ status = [n \in {"clankerbar", "servers", "mine"} |-> "unlisted"] /\ answer = NoAnswer
  /\ wall = FALSE /\ cancelled = FALSE /\ out = Nothing

Resolves ==
  /\ pc = "start"
  /\ \/ ~Readable(conf) /\ Fails /\ UNCHANGED names
     \/ /\ Readable(conf) /\ names' = Effective(conf)
        /\ pc' = IF names' = {} THEN "ready" ELSE "starting"
        /\ UNCHANGED <<server, out>>
  /\ UNCHANGED <<conf, said, lines, heard, status, answer, wall, cancelled>>

StartsServer == /\ pc = "starting" /\ server = "none" /\ ~Done /\ server' = "up"
                /\ UNCHANGED <<conf, pc, names, said, lines, heard, status, answer, wall, cancelled, out>>
StartFails == /\ pc = "starting" /\ server = "none" /\ (Done \/ "noStart" \in conf.faults) /\ Fails
              /\ UNCHANGED <<conf, names, said, lines, heard, status, answer, wall, cancelled>>

Announced(h) == h = {"address", "password"}
Hears ==
  /\ pc = "starting" /\ server /= "none" /\ ~Announced(heard) /\ lines /= <<>>
  /\ lines' = Tail(lines)
  /\ heard' = heard \cup ({Head(lines)} \ {"chatter"})
  /\ pc' = IF Announced(heard') THEN "polling" ELSE "starting"
  /\ UNCHANGED <<conf, names, server, said, status, answer, wall, cancelled, out>>
HearsTheEnd == /\ pc = "starting" /\ server = "gone" /\ lines = <<>> /\ Fails
               /\ UNCHANGED <<conf, names, said, lines, heard, status, answer, wall, cancelled>>
\* The timer of the stage, or the context; the select may take either before a line.
StartTimesOut == /\ pc = "starting" /\ server /= "none" /\ Fails
                 /\ UNCHANGED <<conf, names, said, lines, heard, status, answer, wall, cancelled>>

\* Slip: whatever it says of its location.
TakenAnyway(where) == TRUE

\* An answer is this session's when it names its location and no other.
Taken(where) == where = "here"
Pending(states) == \E n \in names : states[n] \in {"unlisted", "pending", "odd"}
Settled(states) == \E n \in names : states[n] \in {"disabled", "failed", "needs_auth"}

\* Another location's answer may say anything; so may one that names none.
Answers(where) == IF where = "here" THEN {status} ELSE {[n \in DOMAIN status |-> "connected"], status}
Unanswered == server /= "up" \/ "error" \in conf.faults
PollErrs == /\ pc = "polling" /\ (Unanswered \/ Done) /\ pc' = "pausing"
            /\ UNCHANGED <<conf, names, server, said, lines, heard, status, answer, wall, cancelled, out>>
Polls ==
  /\ pc = "polling" /\ server = "up"
  /\ \E where \in {"here"} \cup (IF "elsewhere" \in conf.faults THEN {"there", "unsaid"} ELSE {}) :
       \E states \in Answers(where) :
         \/ ~Taken(where) /\ pc' = "pausing" /\ UNCHANGED <<answer, out, server>>
         \/ /\ Taken(where) /\ answer' = [here |-> where = "here", states |-> states]
            /\ \/ Settled(states) /\ Fails
               \/ ~Settled(states) /\ pc' = (IF Pending(states) THEN "pausing" ELSE "ready") /\ UNCHANGED <<out, server>>
  /\ UNCHANGED <<conf, names, said, lines, heard, status, wall, cancelled>>
PollsAgain == /\ pc = "pausing" /\ pc' = "polling"
              /\ UNCHANGED <<conf, names, server, said, lines, heard, status, answer, wall, cancelled, out>>

\* The deadline is looked at after an answer that settles nothing; the context in the pause.
GivesUp == pc = "pausing"
PollTimesOut == /\ GivesUp /\ Fails
                /\ UNCHANGED <<conf, names, said, lines, heard, status, answer, wall, cancelled>>

\* The run is attached to the server, and its own end is another module's.
TakesFirstTurn == /\ pc = "ready" /\ ~Done /\ pc' = "running"
                  /\ UNCHANGED <<conf, names, server, said, lines, heard, status, answer, wall, cancelled, out>>
LaunchStopped == /\ pc = "ready" /\ Done /\ pc' = "returned" /\ server' = Stopped(server)
                 /\ out' = [kind |-> IF cancelled THEN "cancelled" ELSE "capped", claim |-> conf.seed]
                 /\ UNCHANGED <<conf, names, said, lines, heard, status, answer, wall, cancelled>>
RunEnds == /\ pc = "running" /\ pc' = "returned" /\ out' = [kind |-> "ran", claim |-> conf.seed] /\ server' = Stopped(server)
           /\ UNCHANGED <<conf, names, said, lines, heard, status, answer, wall, cancelled>>

----------------------------------------------------------------------------
(* The server, its own servers, and what stops the session.                *)

\* The reader drops what finds the buffer full.
Kept(q, line) == IF Len(q) < Buffer THEN Append(q, line) ELSE q
Writes == /\ server = "up" /\ said /= <<>> /\ said' = Tail(said) /\ lines' = Kept(lines, Head(said))
          /\ UNCHANGED <<conf, pc, names, server, heard, status, answer, wall, cancelled, out>>
Exits == /\ server = "up" /\ "exit" \in conf.faults /\ server' = "gone"
         /\ UNCHANGED <<conf, pc, names, said, lines, heard, status, answer, wall, cancelled, out>>
Reports == /\ server = "up" /\ pc \in {"polling", "pausing", "ready"}
           /\ \E n \in names : \E s \in IF "status" \in conf.faults THEN Statuses ELSE {"connected"} :
                s /= status[n] /\ status' = [status EXCEPT ![n] = s]
           /\ UNCHANGED <<conf, pc, names, server, said, lines, heard, answer, wall, cancelled, out>>
\* Both kill the server's group.
Killed(s) == IF s = "up" THEN "gone" ELSE s
WallClock == /\ "wall" \in conf.faults /\ ~wall /\ pc /= "returned" /\ wall' = TRUE /\ server' = Killed(server)
             /\ UNCHANGED <<conf, pc, names, said, lines, heard, status, answer, cancelled, out>>
Cancel == /\ "cancel" \in conf.faults /\ ~cancelled /\ pc /= "returned" /\ cancelled' = TRUE /\ server' = Killed(server)
          /\ UNCHANGED <<conf, pc, names, said, lines, heard, status, answer, wall, out>>

Adapter == Resolves \/ StartsServer \/ StartFails \/ Hears \/ HearsTheEnd \/ StartTimesOut \/ PollErrs \/ Polls \/ PollsAgain \/ PollTimesOut \/ TakesFirstTurn \/ LaunchStopped
Next == Adapter \/ RunEnds \/ Writes \/ Exits \/ Reports \/ WallClock \/ Cancel
Spec == Init /\ [][Next]_vars
\* The adapter runs on, its timers fire, and the server writes what it has to write.
FairSpec == Spec /\ WF_vars(Adapter) /\ WF_vars(Writes) /\ SF_vars(PollTimesOut)

----------------------------------------------------------------------------
(* Properties.                                                             *)

\* What the files declare, asked of every loaded entry at once.
DeclaresBacklog(c) ==
  {e.name : e \in {d \in UNION {LET l == Layers(c)[i] IN l.direct \cup IF l.servers.shaped THEN {Entry("servers", l.servers.keyed)} ELSE l.servers.entries : i \in DOMAIN Layers(c)} :
                     d.name = "clankerbar" \/ d.keyed}}

\* The first turn is the first turn that can use the tools: one answer about this very
\* location had every declared server connected (opencode_mcp.go:14-22, 83-88, 308-319).
FirstTurnHasTools == pc \in {"ready", "running"} =>
  \A n \in DeclaresBacklog(conf) : answer.here /\ answer.states[n] = "connected"

\* A layer that exists and cannot be read is no evidence that nothing is declared
\* (opencode_mcp.go:358-362).
UnknownIsNotNone == (\E i \in DOMAIN Layers(conf) : Layers(conf)[i].ok = "unreadable") => pc \notin {"ready", "running"} /\ server = "none"

\* The cap and a shutdown are not infrastructure errors, though both kill the server the
\* preflight is listening to (opencode_mcp.go:598-603).
FailsUnstopped == out.kind = "none" /\ out'.kind = "infra" => ~Done
StopIsNotAFailure == [][FailsUnstopped]_vars

\* No private server outlives its session, whichever way it ended (opencode_mcp.go:73-75).
ServerIsStopped == pc = "returned" => server \in {"none", "stopped"}

\* The preflight ends, whatever the server does (opencode_mcp.go:50-55).
PreflightEnds == pc = "start" ~> pc \in {"running", "returned"}

\* A line is dropped when nobody is reading any more, so what the preflight waits for is
\* not (opencode_mcp.go:152-156).
AnnouncementIsKept == [][pc = "starting" /\ said' /= said /\ Head(said) /= "chatter" => lines' /= lines]_vars

\* A resumed session's end reports the claim it was resumed with, since it never claims
\* itself (opencode.go:1299-1304).
SeedIsReported == out.kind \in {"ran", "capped"} => out.claim = conf.seed
=============================================================================
