--------------------------- MODULE MC_PromptAudit ----------------------------
(* Three events, two of which share their batch's trace id; their texts     *)
(* hold what both back ends find, what only one of them finds, and nothing. *)
EXTENDS PromptAudit

CONSTANTS r1, r2, r3

MCRecord == {r1, r2, r3}
MCTrace == [r \in MCRecord |-> IF r = r3 THEN "" ELSE "t1"]
MCPrompt == [r \in MCRecord |->
               IF r = r1 THEN <<"email", "nhs", "apiKey", "name">> ELSE <<"word">>]
MCResponse == [r \in MCRecord |-> IF r = r1 THEN <<"email", "email">> ELSE <<>>]

=============================================================================
