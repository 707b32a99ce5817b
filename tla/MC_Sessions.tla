----------------------------- MODULE MC_Sessions -----------------------------
(* Caps small enough to be reached: a client's third session evicts its     *)
(* first, and three entries fill the user map while one more is needed.     *)
EXTENDS Sessions

=============================================================================
