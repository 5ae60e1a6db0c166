----------------------------- MODULE ReviewRound -----------------------------
(***************************************************************************)
(* What a review panel promises whoever reads its findings: the seats      *)
(* review independently, so nobody reviews once the findings can be read;  *)
(* the round is released once, when every seat has its outcome and a       *)
(* required one has recorded; the fix works on a released round; and the   *)
(* run the seats share is given up only when none of them is at work.      *)
(***************************************************************************)
EXTENDS Naturals

VARIABLES
  seat,    \* per seat: "waiting", "reviewing", "recorded" or "failed"
  trial,   \* the optional seats
  round,   \* "sealed" or "released"
  next     \* what holds the run: "panel", "fix", or "over" when it is given up

vars == <<seat, trial, round, next>>

AtWork == \E s \in DOMAIN seat : seat[s] = "reviewing"

Init ==
  /\ \A s \in DOMAIN seat : seat[s] = "waiting"
  /\ trial \subseteq DOMAIN seat
  /\ round = "sealed" /\ next = "panel"

Begins(s) ==
  /\ seat[s] = "waiting" /\ round = "sealed" /\ next = "panel"
  /\ seat' = [seat EXCEPT ![s] = "reviewing"]
  /\ UNCHANGED <<trial, round, next>>

Ends(s) ==
  /\ \/ seat[s] = "reviewing" /\ \E o \in {"recorded", "failed"} : seat' = [seat EXCEPT ![s] = o]
     \/ seat[s] = "waiting" /\ seat' = [seat EXCEPT ![s] = "failed"]
  /\ UNCHANGED <<trial, round, next>>

\* A takeover of the run voids what is still sealed.
Voids ==
  /\ round = "sealed"
  /\ seat' = [s \in DOMAIN seat |-> IF seat[s] = "recorded" THEN "failed" ELSE seat[s]]
  /\ UNCHANGED <<trial, round, next>>

Releases ==
  /\ round = "sealed" /\ next = "panel"
  /\ \A s \in DOMAIN seat : seat[s] \in {"recorded", "failed"}
  /\ \E s \in DOMAIN seat \ trial : seat[s] = "recorded"
  /\ round' = "released" /\ next' \in {"panel", "fix"}
  /\ UNCHANGED <<seat, trial>>

Fixes ==
  /\ round = "released" /\ next = "panel"
  /\ next' = "fix"
  /\ UNCHANGED <<seat, trial, round>>

HandsBack ==
  /\ ~AtWork /\ next # "over"
  /\ next' = "over"
  /\ UNCHANGED <<seat, trial, round>>

Next ==
  \/ \E s \in DOMAIN seat : Begins(s) \/ Ends(s)
  \/ Voids \/ Releases \/ Fixes \/ HandsBack

Spec == Init /\ [][Next]_vars
=============================================================================
