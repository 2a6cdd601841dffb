------------------------------ MODULE MCControl ------------------------------
(* Two bots on one computer, one of which can be taught. *)
EXTENDS TeachingSession, TLC
CONSTANTS x, y, p, q

Around(asks, workers, procs, leases, faults, crashes) ==
  [asks |-> asks, workers |-> workers, procs |-> procs, leases |-> leases,
   faults |-> faults, crashes |-> crashes]

(* Two users take control over from each other while a run pauses, with a    *)
(* failing call; and one user teaches and takes over.                      *)
Races ==
  {Around({"takeover", "release"}, {x}, {p, q}, 2, 1, 0),
   Around({"takeover", "teach"}, {}, {p, q}, 2, 1, 0)}

(* One request or job at a time, which may fail or die. *)
Alone ==
  {Around({"takeover", "release", "screen", "status"}, {x, y}, {p}, 1, 1, 1),
   Around({"teach"}, {}, {p}, 2, 1, 1)}
Symmetry == Permutations({p, q})
=============================================================================
