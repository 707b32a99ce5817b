--------------------------- MODULE MC_ModelRouting ---------------------------
(* Two clients and two models: c1 prefers both, c2 the dear one only.       *)
EXTENDS ModelRouting

CONSTANTS c1, c2, cheap, dear

MCPreferred == [c \in {c1, c2} |-> IF c = c1 THEN {cheap, dear} ELSE {dear}]
MCFallback  == [c \in {c1, c2} |-> IF c = c1 THEN cheap ELSE dear]
MCCheapest  == [c \in {c1, c2} |-> IF c = c1 THEN cheap ELSE dear]

=============================================================================
