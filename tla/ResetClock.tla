----------------------------- MODULE ResetClock -----------------------------
(***************************************************************************)
(* The instant a limit says it lifts, out of the clock face claude writes  *)
(* and out of the date or the duration opencode writes. Time is in half    *)
(* hours from a Sunday's midnight.                                         *)
(***************************************************************************)
EXTENDS Integers

CONSTANTS
  Nows,     \* the moments a text may be read at
  Faces,    \* what claude may say
  Notes     \* what opencode may say

Day == 48
Week == 7 * Day
None == -1   \* the zero time
NoDay == 7

FaceOK(f) == f.day \in 0 .. 7 /\ f.hour \in 0 .. 99 /\ f.minute \in 0 .. 99 /\ f.half \in {"", "am", "pm"}
NoteOK(n) == n.at \in {None} \cup Nat /\ n.unit \in {"", "h", "m"} /\ n.n \in Nat
InputsAssumption == Nows \subseteq 0 .. Week - 1 /\ (\A f \in Faces : FaceOK(f)) /\ \A n \in Notes : NoteOK(n)

VARIABLES
  now,
  face, note,      \* what is read
  claudeReset, opencodeReset   \* what is made of it

vars == <<now, face, note, claudeReset, opencodeReset>>

----------------------------------------------------------------------------
(* claude.                                                                 *)

\* Twelve is the only hour the half of the day does not shift, or clears.
Hour(f) == IF f.half = "pm" /\ f.hour /= 12 THEN f.hour + 12 ELSE IF f.half = "am" /\ f.hour = 12 THEN 0 ELSE f.hour

Refused(f) == Hour(f) > 23 \/ f.minute > 59
WeekdayOf(t) == (t \div Day) % 7
Today(f) == (now \div Day) * Day + Hour(f) * 2 + f.minute \div 30
\* Up to a week ahead, since the hour may already be behind on the day itself.
Span == 0 .. 7

Days(f) == {i \in Span : WeekdayOf(Today(f) + i * Day) = f.day /\ Today(f) + i * Day > now}
Earliest(ds) == CHOOSE i \in ds : \A j \in ds : i <= j

parseClaudeReset(f) ==
  IF Refused(f) THEN None
  ELSE IF f.day = NoDay THEN (IF Today(f) > now THEN Today(f) ELSE Today(f) + Day)
  ELSE IF Days(f) = {} THEN None ELSE Today(f) + Earliest(Days(f)) * Day
----------------------------------------------------------------------------
(* opencode.                                                               *)

\* The stated instant wins over a duration beside it; a duration of nothing is none.
parseOpencodeReset(n) ==
  IF n.at /= None THEN n.at
  ELSE IF n.unit = "" \/ n.n = 0 THEN None
  ELSE IF n.unit = "h" THEN now + 2 * n.n ELSE now + n.n \div 30
Init == now \in Nows /\ face \in Faces /\ note \in Notes /\ claudeReset = None /\ opencodeReset = None
Parses == /\ claudeReset' = parseClaudeReset(face) /\ opencodeReset' = parseOpencodeReset(note)
          /\ UNCHANGED <<now, face, note>>
Next == Parses
Spec == Init /\ [][Next]_vars

----------------------------------------------------------------------------
(* Properties.                                                             *)

\* What a clock on the wall shows at a moment, on a dial of twelve or of twenty-four hours.
Shows(t, f) ==
  LET h == (t % Day) \div 2 IN
  /\ (t % 2) * 30 = f.minute /\ f.day \in {NoDay, WeekdayOf(t)}
  /\ CASE f.half = "" -> h = f.hour
       [] f.half = "am" -> h < 12 /\ (h = f.hour % 12) /\ f.hour <= 12
       [] OTHER -> h >= 12 /\ f.hour <= 12 /\ (h - 12 = f.hour % 12)

\* The least future moment that shows what was written: the wait's upper bound, no more
\* and no less (claude.go:1279-1285).
ResetIsNext == LET t == parseClaudeReset(face) IN
  t /= None /\ (\E u \in now + 1 .. now + Week : Shows(u, face)) =>
    t > now /\ Shows(t, face) /\ \A u \in now + 1 .. t - 1 : ~Shows(u, face)

\* On any doubt there is no reset: one is made up for no face a clock never shows, and none
\* is lost that it does, but for an hour the half of the day cannot have, 13am or 0pm,
\* which is read as if the half were not there (claude.go:1284-1286).
Halved(f) == (f.half = "am" => f.hour <= 12) /\ (f.half = "pm" => f.hour > 0)
DoubtIsNone == Halved(face) => (parseClaudeReset(face) = None <=> ~\E u \in now + 1 .. now + Week : Shows(u, face))

\* A relative window lifts later than now (opencode.go:1799-1802, 1815).
WindowIsAhead == note.at = None /\ parseOpencodeReset(note) /= None => parseOpencodeReset(note) > now
=============================================================================
