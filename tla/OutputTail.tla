----------------------------- MODULE OutputTail -----------------------------
(***************************************************************************)
(* The two bounds an adapter puts on a child's output: a tail that keeps   *)
(* the last bytes of a stream for the classifiers, and a sink that turns   *)
(* the bytes into lines for the live parser. Both are fed the same writes, *)
(* whose boundaries mean nothing.                                          *)
(***************************************************************************)
EXTENDS Integers, Sequences, FiniteSets

CONSTANTS Configs   \* the bytes, the window, the line cap, how much is written and how

NL == "newline"

ConfigOK(c) == /\ c.bytes \subseteq STRING /\ NL \in c.bytes
               /\ c.window \in Nat \ {0} /\ c.line \in Nat \ {0}
               /\ c.floor \in Nat \ {0} /\ c.keep \in Nat
               /\ c.length \in Nat /\ c.write \in Nat \ {0}
ConfigsAssumption == \A c \in Configs : ConfigOK(c)

VARIABLES
  conf,      \* the member of Configs this behaviour is about
  written,   \* every byte so far, which the program does not have
  t,         \* the tail: held bytes, capacity, whether it starts inside a line, bytes dropped
  s,         \* the sink: the line being assembled, its capacity, skipping, overran
  lines,     \* the lines handed to the parser
  flushed

vars == <<conf, written, t, s, lines, flushed>>

Init ==
  /\ conf \in Configs
  /\ written = <<>> /\ lines = <<>> /\ flushed = FALSE
  /\ t = [buf |-> <<>>, cap |-> 0, partial |-> FALSE, dropped |-> 0]
  /\ s = [cur |-> <<>>, cap |-> 0, skipping |-> FALSE, overran |-> FALSE]

Less(a, b) == IF a < b THEN a ELSE b
After(q, n) == SubSeq(q, n + 1, Len(q))

----------------------------------------------------------------------------
(* The tail.                                                               *)

\* The capacity doubles from the floor until the bytes fit, and stops at the window.
Doubled(from, want) ==
  LET f[i \in 0 .. 8] == IF i = 0 THEN (IF from < conf.floor THEN conf.floor ELSE from)
                         ELSE IF f[i - 1] < want THEN 2 * f[i - 1] ELSE f[i - 1]
  IN f[8]

Clamp(n) == Less(n, conf.window)
reserve(cap, want) == IF cap >= Clamp(want) THEN cap ELSE Clamp(Doubled(cap, Clamp(want)))

\* A write that fills the window alone: nothing held survives it.
Fills(p) == Len(p) >= conf.window

FillWindow(p) ==
  LET cut == Len(p) - conf.window IN
  [buf |-> After(p, cut),
   cap |-> reserve(t.cap, conf.window),
   partial |-> IF cut > 0 THEN p[cut] /= NL ELSE IF t.buf /= <<>> THEN t.buf[Len(t.buf)] /= NL ELSE t.partial,
   dropped |-> t.dropped + Len(t.buf) + cut]
\* The oldest bytes make room for the write; the last of them says where the rest begins.
Shift(p) ==
  LET over == Len(t.buf) + Len(p) - conf.window
      kept == IF over > 0 THEN After(t.buf, over) ELSE t.buf
  IN [buf |-> kept \o p,
      cap |-> reserve(t.cap, Len(kept) + Len(p)),
      partial |-> IF over > 0 THEN t.buf[over] /= NL ELSE t.partial,
      dropped |-> t.dropped + IF over > 0 THEN over ELSE 0]
TailWrite(p) == IF Fills(p) THEN FillWindow(p) ELSE Shift(p)

\* What a classifier is given: no half line at the front.
Text == LET nl == {i \in 1 .. Len(t.buf) : t.buf[i] = NL} IN
        CASE ~t.partial -> t.buf
          [] t.partial /\ nl = {} -> <<>>
          [] OTHER -> After(t.buf, CHOOSE i \in nl : \A j \in nl : i <= j)

----------------------------------------------------------------------------
(* The sink.                                                               *)

\* An overrun line is given up whole, to its newline.
Take(k, p) ==
  CASE k.skipping -> k
    [] ~k.skipping /\ Len(k.cur) + Len(p) > conf.line -> [k EXCEPT !.cur = <<>>, !.cap = 0, !.skipping = TRUE, !.overran = TRUE]
    [] OTHER -> [k EXCEPT !.cur = @ \o p, !.cap = IF @ < Len(k.cur) + Len(p) THEN Len(k.cur) + Len(p) ELSE @]

\* The buffer of a short line is used again, that of a long one let go.
Recycled(cap) == IF cap > conf.keep THEN 0 ELSE cap
\* The end of a line: deliver it, unless it was given up or is empty.
Emitted(k) == IF k.skipping \/ k.cur = <<>> THEN <<>> ELSE <<k.cur>>
Emit(k) == [k EXCEPT !.cur = <<>>, !.skipping = FALSE, !.cap = IF k.skipping THEN 0 ELSE Recycled(@)]
\* The pieces of a write, cut at its newlines.
Cuts(p) == {i \in 1 .. Len(p) : p[i] = NL}
SinkWrite(p) ==
  LET run[i \in 0 .. Len(p)] ==
        IF i = 0 THEN [k |-> s, from |-> 0, out |-> lines]
        ELSE IF i \notin Cuts(p) THEN run[i - 1]
        ELSE LET k == Take(run[i - 1].k, SubSeq(p, run[i - 1].from + 1, i - 1)) IN
             [k |-> Emit(k), from |-> i, out |-> run[i - 1].out \o Emitted(k)]
      last == run[Len(p)]
  IN [last EXCEPT !.k = IF last.from = Len(p) THEN @ ELSE Take(@, After(p, last.from))]

----------------------------------------------------------------------------
\* One write of the child, of any bytes.
Write(p) ==
  /\ ~flushed /\ Len(written) + Len(p) <= conf.length
  /\ written' = written \o p
  /\ t' = TailWrite(p)
  /\ s' = SinkWrite(p).k /\ lines' = SinkWrite(p).out
  /\ UNCHANGED <<conf, flushed>>

\* The child is gone; a last line without a newline is a line.
Flush ==
  /\ ~flushed
  /\ flushed' = TRUE
  /\ lines' = lines \o Emitted(s) /\ s' = Emit(s)
  /\ UNCHANGED <<conf, written, t>>

Next == (\E n \in 1 .. conf.write : \E p \in [1 .. n -> conf.bytes] : Write(p)) \/ Flush
Spec == Init /\ [][Next]_vars

TypeOK ==
  /\ Len(t.buf) \in 0 .. conf.window /\ t.partial \in BOOLEAN /\ t.dropped \in Nat
  /\ Len(s.cur) \in 0 .. conf.line /\ s.skipping \in BOOLEAN /\ s.overran \in BOOLEAN /\ flushed \in BOOLEAN

----------------------------------------------------------------------------
(* Properties. The whole stream is read again for each of them.            *)

\* Where a line begins, and the lines of the stream.
Starts == {i \in 1 .. Len(written) : i = 1 \/ written[i - 1] = NL}
End(i) == LET e == {j \in i .. Len(written) : written[j] = NL} IN
          IF e = {} THEN Len(written) ELSE (CHOOSE j \in e : \A k \in e : j <= k) - 1
AllLines == LET f[i \in 0 .. Len(written)] == IF i = 0 THEN <<>> ELSE IF i \in Starts THEN Append(f[i - 1], SubSeq(written, i, End(i))) ELSE f[i - 1]
            IN f[Len(written)]

\* A classifier is never given the back half of a line, and loses no whole line it could
\* have had: it reads the longest run of whole lines at the end of the stream that the
\* window holds (output.go:67-72).
ReadsWholeLines ==
  LET fits == {i \in Starts : Len(written) - i + 1 <= conf.window} IN
  Text = IF fits = {} THEN <<>> ELSE After(written, (CHOOSE i \in fits : \A j \in fits : i <= j) - 1)

\* What was dropped is told to the byte: none means the text is the whole stream
\* (output.go:180-181).
DroppedIsExact == t.dropped + Len(t.buf) = Len(written)

\* The tail holds no more than its window, its spare capacity included (output.go:128-133).
WindowIsABound == t.cap <= conf.window /\ Len(t.buf) <= t.cap

\* The parser is given every line of the stream, and only those, however the bytes were
\* cut into writes; a line above the cap is lost whole and said to be
\* (output.go:184-197).
LinesAreTheStream == flushed =>
  /\ lines = SelectSeq(AllLines, LAMBDA l : Len(l) \in 1 .. conf.line)
  /\ s.overran <=> \E i \in 1 .. Len(AllLines) : Len(AllLines[i]) > conf.line

\* A long line does not stay in memory once it is delivered (output.go:263-270).
NothingBigIsKept == s.cur = <<>> => s.cap <= conf.keep
=============================================================================
