------------------------------ MODULE LogFile ------------------------------
(***************************************************************************)
(* The rotating log of one process: lines go to the terminal and to NAME,  *)
(* and a line that would take NAME past its bound first shifts NAME to     *)
(* NAME.1, NAME.1 to NAME.2 and so on, and opens NAME again.               *)
(*                                                                         *)
(* The directory breaks and heals: it becomes read-only, the process runs  *)
(* out of descriptors, the oldest name is taken, the directory is moved,   *)
(* the disk is full.                                                       *)
(***************************************************************************)
EXTENDS Integers, Sequences, FiniteSets

CONSTANTS Configs   \* keep, the bound, the lines logged, the faults that happen

\* A full disk still makes and renames files; one out of inodes is "nofds".
Dirs == {"ok", "readonly", "nofds", "blocked", "moved", "full"}
ConfigOK(c) == /\ c.keep \in Nat \ {0} /\ c.max \in Nat \ {0} /\ c.lines \in Nat /\ c.faults \in Nat
               /\ c.dirs \subseteq Dirs /\ c.lengths \subseteq Nat \ {0}
ConfigsAssumption == \A c \in Configs : ConfigOK(c)

VARIABLES
  conf,     \* the member of Configs this behaviour is about
  dir,      \* how the directory is
  term,     \* whether the terminal still has a reader
  files,    \* per name, newest first, the lines it holds, with what of each; none when absent
  at,       \* the name of the file the handle is on; keep when that file has none
  open,     \* whether there is a handle
  size,     \* the size the handle is believed to have
  warned,   \* a rotation failure has been reported
  n,        \* lines logged
  told,     \* reports of rotation failures
  streaks,  \* streaks of failed rotations
  failing,  \* whether the last rotation failed
  lost,     \* history: the lines that the disk did not take whole
  left      \* faults that may still happen

vars == <<conf, dir, term, files, at, open, size, warned, n, told, streaks, failing, lost, left>>

keep == conf.keep
Names == 0 .. keep - 1
SizeOf(f) == LET sum[i \in 0 .. Len(f)] == IF i = 0 THEN 0 ELSE f[i].len + sum[i - 1]
             IN  sum[Len(f)]

TypeOK ==
  /\ dir \in Dirs /\ term \in BOOLEAN /\ open \in BOOLEAN /\ warned \in BOOLEAN /\ failing \in BOOLEAN
  /\ DOMAIN files = Names /\ at \in 0 .. keep
  /\ size \in Nat /\ n \in 0 .. conf.lines /\ told \in Nat /\ streaks \in Nat /\ left \in 0 .. conf.faults
  /\ lost \subseteq 1 .. n

Init ==
  /\ conf \in Configs
  /\ dir = "ok" /\ term = TRUE
  /\ files = [i \in 0 .. conf.keep - 1 |-> <<>>]
  /\ at = 0 /\ open = TRUE /\ size = 0 /\ warned = FALSE
  /\ n = 0 /\ told = 0 /\ streaks = 0 /\ failing = FALSE /\ lost = {} /\ left = conf.faults

----------------------------------------------------------------------------
(* Rotation.                                                               *)

\* Oldest first. A taken last name stops the shift unless there is a gap before it.
Shifts == \/ dir \in {"ok", "nofds", "full"}
          \/ dir = "blocked" /\ (keep = 1 \/ files[keep - 2] = <<>>)

Shifted ==
  IF ~Shifts THEN files
  ELSE [i \in Names |-> IF i = 0 \/ (dir = "blocked" /\ i = keep - 1) THEN <<>> ELSE files[i - 1]]
\* A name that is not there is no failure.
renameFails == /\ ~Shifts /\ dir /= "moved"
               /\ \E i \in Names : files[i] /= <<>> /\ (i < keep - 1 \/ keep = 1)
reopens == dir \in {"ok", "blocked", "full"} \/ (dir = "readonly" /\ files[0] /= <<>>)

\* What the write goes on with: the file opened afresh, or the old handle, wherever
\* its file is named now, or nothing where the truncating mode removed that file.
Handle == IF reopens THEN 0 ELSE IF Shifts /\ at < keep THEN at + 1 ELSE at
StaysOpen == reopens \/ keep > 1 \/ ~Shifts
\* Slip: the size is forgotten though the file is not a new one.
SizeForgotten == IF reopens THEN SizeOf(Shifted[0]) ELSE 0
SizeAfter == IF reopens THEN SizeOf(Shifted[0]) ELSE size

\* Reported unless a report is out already; a rotation that reopens ends the streak.
Fails == renameFails \/ ~reopens
Reports == Fails /\ ~warned
WarnedAfter == Fails /\ ~reopens

Full(len) == size > 0 /\ size + len > conf.max
----------------------------------------------------------------------------
(* The steps.                                                              *)

\* How much of a line the disk takes: all, or from a full one any part, with an error that
\* the logger swallows. Only what was taken counts.
Takes(len) == IF dir = "full" THEN 0 .. len ELSE {len}
Loses(len, k) == lost' = lost \cup {l \in {n + 1} : k < len}
Appends(fs, i, len, k) ==
  IF i \in DOMAIN fs /\ k > 0 THEN [fs EXCEPT ![i] = Append(@, [n |-> n + 1, len |-> k, whole |-> k = len])] ELSE fs

\* Tee: the terminal first, and the file whatever became of that.
reaches == TRUE
Write(len) ==
  /\ open /\ reaches /\ ~Full(len)
  /\ \E k \in Takes(len) : files' = Appends(files, at, len, k) /\ size' = size + k /\ Loses(len, k)
  /\ UNCHANGED <<at, open, warned, told, streaks, failing>>
WriteRotates(len) ==
  /\ open /\ reaches /\ Full(len)
  /\ open' = StaysOpen /\ at' = Handle /\ warned' = WarnedAfter
  /\ \/ ~StaysOpen /\ files' = Shifted /\ UNCHANGED <<size, lost>>
     \/ /\ StaysOpen
        /\ \E k \in Takes(len) :
             files' = Appends(Shifted, Handle, len, k) /\ size' = SizeAfter + k /\ Loses(len, k)
  /\ told' = IF Reports THEN told + 1 ELSE told
  /\ failing' = Fails
  /\ streaks' = IF Fails /\ ~failing THEN streaks + 1 ELSE streaks
WriteRefused == ~(open /\ reaches) /\ UNCHANGED <<files, at, open, size, warned, told, streaks, failing, lost>>

Log ==
  /\ n < conf.lines /\ n' = n + 1
  /\ \E len \in conf.lengths : Write(len) \/ WriteRotates(len) \/ WriteRefused
  /\ UNCHANGED <<conf, dir, term, left>>

Close ==
  /\ n = conf.lines /\ open /\ open' = FALSE
  /\ UNCHANGED <<conf, dir, term, files, at, size, warned, n, told, streaks, failing, lost, left>>

\* Moving the directory is for good: the names are gone, the open file is not.
Breaks ==
  /\ dir = "ok" /\ left > 0 /\ left' = left - 1 /\ dir' \in conf.dirs
  /\ dir' = "blocked" => files[keep - 1] = <<>> \/ keep = 1
  /\ UNCHANGED <<conf, term, files, at, open, size, warned, n, told, streaks, failing, lost>>
Heals ==
  /\ dir \notin {"ok", "moved"} /\ dir' = "ok"
  /\ UNCHANGED <<conf, term, files, at, open, size, warned, n, told, streaks, failing, lost, left>>
TerminalGoes ==
  /\ term /\ term' = FALSE
  /\ UNCHANGED <<conf, dir, files, at, open, size, warned, n, told, streaks, failing, lost, left>>

Next == Log \/ Close \/ Breaks \/ Heals \/ TerminalGoes
Spec == Init /\ [][Next]_vars

----------------------------------------------------------------------------
(* Properties.                                                             *)

Lines(i) == {files[i][k].n : k \in {j \in DOMAIN files[i] : files[i][j].whole}}
Readable == UNION {Lines(i) : i \in Names}

\* "A rotation failure must not cost the line" (logfile.go:241-243), nor does a terminal
\* whose reader has gone: the line logged last can be read, if the disk took it.
LastLineIsReadable == (n > 0 /\ open) => n \in Readable \cup lost

\* What can be read is the newest part of what was logged, without a gap but for what the
\* disk did not take: a rotation that fails part-way does not shred the newest files
\* (logfile.go:223).
NoGap == \A a, b \in Readable : \A k \in a .. b : k \in Readable \cup lost

\* "A full or read-only directory loses the bound, never the line" (logfile.go:146-147).
LosesNoLine == lost = {}

\* In a directory that never broke, or only filled, no file passes the bound, but for a
\* single line longer than it (logfile.go:13-17).
BoundHolds == left = conf.faults \/ conf.dirs \subseteq {"full"} => \A i \in Names : SizeOf(files[i]) <= conf.max \/ Len(files[i]) = 1

\* Once the directory is whole the log is back under its name (logfile.go:188-190).
BackUnderItsName == dir = "ok" /\ n' > n /\ open' /\ Readable' /= Readable => n' \in Lines(0)'
ComesBack == [][BackUnderItsName]_vars

\* Each streak of failed rotations is reported (logfile.go:295-301)
StreaksAreTold == told >= streaks

\* and reported once, not on every line.
ToldOnce == told <= streaks

=============================================================================
