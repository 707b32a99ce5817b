--------------------------- MODULE MC_Calculations ---------------------------
(* Two modules of calculations that share no state, each run on its own:    *)
(* events with small numbers, and the script's dashboards as well as those  *)
(* of up to two sections built from a few panels.                           *)
EXTENDS EventAssembly, DashboardLayout

MCPanels ==
  {<<>>,
   <<At(0, 2, 12, 2)>>,
   <<At(0, 1, 12, 3), At(12, 0, 12, 2)>>,
   <<At(6, 4, 12, 1), At(0, 0, 24, 2), At(0, 2, 6, 3)>>}

MCSections == {Section(collapsed, panels) : collapsed \in BOOLEAN, panels \in MCPanels}

MCBoards ==
  {build_d2, build_d8} \cup
  {[uid |-> "any", keys |-> {"department"},
    headline |-> headline, sections |-> sections] :
     headline \in MCPanels \ {<<>>},
     sections \in {<<>>} \cup {<<s>> : s \in MCSections}
                         \cup {<<s, t>> : s \in MCSections, t \in MCSections}}

(* One of the two runs, the other has nothing to do.                        *)
Init ==
  \/ EventInit /\ todo = <<>> /\ saved = <<>>
  \/ BoardInit /\ mockMode = FALSE /\ at = "none" /\ ev = Blank /\ ttft = 0
               /\ spent = 0 /\ told = 0 /\ events = 0

Next ==
  \/ EventStep /\ UNCHANGED boardVars
  \/ BoardStep /\ UNCHANGED eventVars

Spec == Init /\ [][Next]_<<eventVars, boardVars>>

=============================================================================
