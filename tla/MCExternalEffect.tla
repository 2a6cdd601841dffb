-------------------------- MODULE MCExternalEffect --------------------------
(* Small runs for TLC: requests e1 and e2 to two tools. *)
EXTENDS ExternalEffect, TLC
CONSTANTS e1, e2, k1, k2, c1, c2

Tool == e1 :> k1 @@ e2 :> k2
With(calls, turns, slots, first, faults) ==
  [calls |-> calls, turns |-> turns, slots |-> slots, rule |-> first, judge |-> FALSE, edits |-> FALSE,
   faults |-> faults]

(* Two calls of one request that needs an approval, in turns that die or lose their lease. *)
Parallel == With({e1}, 3, {c1, c2}, "require", {"death", "lapse"})
(* Two requests, one call at a time. *)
Replays == With({e1, e2}, 3, {c1}, "require", {"death", "lapse", "throw"})
(* Two calls of one request that Auto Review decides. *)
Reviewed == [With({e1}, 2, {c1, c2}, "none", {}) EXCEPT !.judge = TRUE]
(* Two calls of one request while the user edits the rule. *)
Edited == [With({e1}, 2, {c1, c2}, "none", {"throw", "schema"}) EXCEPT !.edits = TRUE]

Races == {Parallel, Replays, Reviewed, Edited}
=============================================================================
