--------------------------- MODULE MCRunLifecycle ---------------------------
(* Small instances of RunLifecycle for TLC. *)
EXTENDS RunLifecycle, TLC

CONSTANTS r1, r2, w1, w2, api

(* Each worker in a process of its own, as in executor-lifecycle.test.ts. *)
OwnProcess == [w \in Workers |-> w]

(* All workers with one workerId: jobs of one process, or containers whose *)
(* worker process has the same pid.                                        *)
SharedProcess == [w \in Workers |-> api]

RunSymmetry == Permutations(Runs)
=============================================================================
