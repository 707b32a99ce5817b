---------------------------- MODULE MC_Evaluator ----------------------------
(* Two pool threads of the four: one crossing needs two threads, and the    *)
(* worst case of a day needs two midnights.                                 *)
EXTENDS Evaluator, TLC

WorkerSymmetry == Permutations(Worker)

=============================================================================
