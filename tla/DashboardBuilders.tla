-------------------------- MODULE DashboardBuilders --------------------------
(***************************************************************************)
(* The dashboards of generate_dashboards.py as their builders describe     *)
(* them: where each panel lies in its section, and which template          *)
(* variables the dashboard declares.  Titles, queries, units and colours   *)
(* are left out.                                                           *)
(***************************************************************************)
EXTENDS Integers, Sequences

(* A panel with its gridPos; a row panel may hold others.                  *)
At(x, y, w, h) ==
  [x |-> x, y |-> y, w |-> w, h |-> h, kind |-> "panel", nested |-> <<>>, id |-> 0]

Section(collapsed, panels) == [collapsed |-> collapsed, panels |-> panels]

-----------------------------------------------------------------------------
(* Template variables (FilterSet).                                         *)

FILTERS_D2 ==
  {"department", "region", "provider", "model", "operation", "status", "environment"}
FILTERS_D3 == {"department", "region", "provider", "model", "operation", "environment"}
FILTERS_D5 == {"department", "provider", "model", "operation", "environment"}
FILTERS_D6 == {"department", "data_class", "provider", "model", "environment"}
FILTERS_D7 == {"environment", "department", "model"}
FILTERS_D8 == {"department", "region", "provider", "model", "operation", "environment"}
FILTERS_D9 == {"department", "region", "provider", "model", "environment"}

-----------------------------------------------------------------------------
(* The builders; the script itself leaves d2 and d8 out.                   *)

build_d1 ==
  [uid |-> "ai-telemetry-executive", keys |-> FILTERS_D2,
   headline |-> <<At(0, 0, 24, 5)>>,
   sections |-> <<
     Section(FALSE, <<At(0, 0, 24, 7), At(0, 7, 12, 8), At(12, 7, 6, 8),
                At(18, 7, 6, 8)>>),
     Section(FALSE, <<At(0, 0, 24, 6), At(0, 6, 24, 8)>>),
     Section(TRUE, <<At(0, 0, 12, 8), At(12, 0, 12, 8)>>),
     Section(TRUE, <<At(0, 0, 12, 8), At(12, 0, 12, 8), At(0, 8, 12, 8),
                At(12, 8, 6, 8), At(18, 8, 6, 8)>>),
     Section(TRUE, <<At(0, 0, 12, 8), At(12, 0, 8, 8), At(20, 0, 4, 8)>>),
     Section(TRUE, <<At(0, 0, 12, 8), At(12, 0, 12, 8)>>),
     Section(TRUE, <<At(0, 0, 24, 10)>>)>>]

build_d2 ==
  [uid |-> "ai-telemetry-traffic", keys |-> FILTERS_D2,
   headline |-> <<>>,
   sections |-> <<
     Section(FALSE, <<At(0, 0, 12, 8), At(12, 0, 12, 8), At(0, 8, 12, 8),
                At(12, 8, 6, 8), At(18, 8, 6, 8)>>),
     Section(TRUE, <<At(0, 0, 12, 8), At(12, 0, 8, 8), At(20, 0, 4, 8)>>),
     Section(TRUE, <<At(0, 0, 12, 8), At(12, 0, 12, 8)>>),
     Section(TRUE, <<At(0, 0, 24, 10)>>)>>]

build_d3 ==
  [uid |-> "ai-telemetry-latency", keys |-> FILTERS_D3,
   headline |-> <<>>,
   sections |-> <<
     Section(FALSE, <<At(0, 0, 24, 8), At(0, 8, 24, 8)>>),
     Section(TRUE, <<At(0, 0, 24, 8)>>)>>]

build_d4 ==
  [uid |-> "ai-telemetry-cost", keys |-> FILTERS_D8,
   headline |-> <<At(0, 0, 6, 5), At(6, 0, 6, 5), At(12, 0, 6, 5),
                 At(18, 0, 6, 5)>>,
   sections |-> <<
     Section(FALSE, <<At(0, 0, 12, 8), At(12, 0, 12, 8), At(0, 8, 24, 8)>>),
     Section(TRUE, <<At(0, 0, 12, 8), At(12, 0, 12, 8)>>),
     Section(TRUE, <<At(0, 0, 24, 8)>>),
     Section(FALSE, <<At(0, 0, 16, 8), At(16, 0, 8, 8)>>),
     Section(TRUE, <<At(0, 0, 8, 8), At(8, 0, 8, 8), At(16, 0, 8, 8)>>),
     Section(TRUE, <<At(0, 0, 6, 8), At(6, 0, 10, 8), At(16, 0, 8, 8)>>),
     Section(TRUE, <<At(0, 0, 24, 8)>>)>>]

build_d5 ==
  [uid |-> "ai-telemetry-quality", keys |-> FILTERS_D5,
   headline |-> <<At(0, 0, 6, 4), At(6, 0, 6, 4), At(12, 0, 6, 4),
                 At(18, 0, 6, 4)>>,
   sections |-> <<
     Section(FALSE, <<At(0, 0, 12, 8), At(12, 0, 12, 8)>>),
     Section(FALSE, <<At(0, 0, 12, 8), At(12, 0, 12, 8), At(0, 8, 12, 8),
                At(12, 8, 12, 8)>>),
     Section(TRUE, <<At(0, 0, 6, 4), At(6, 0, 6, 4), At(12, 0, 12, 8)>>),
     Section(TRUE, <<At(0, 0, 12, 8), At(12, 0, 12, 8)>>),
     Section(TRUE, <<At(0, 0, 10, 7), At(10, 0, 5, 7)>>)>>]

build_d6 ==
  [uid |-> "ai-telemetry-safety", keys |-> FILTERS_D6,
   headline |-> <<At(0, 0, 5, 4), At(5, 0, 5, 4), At(10, 0, 5, 4),
                 At(15, 0, 5, 4), At(20, 0, 4, 4)>>,
   sections |-> <<
     Section(TRUE, <<At(0, 0, 12, 8), At(12, 0, 12, 8), At(0, 8, 8, 8),
                At(8, 8, 8, 8), At(16, 8, 8, 8)>>),
     Section(TRUE, <<At(0, 0, 4, 4), At(4, 0, 4, 4), At(8, 0, 4, 4),
                At(12, 0, 4, 4), At(16, 0, 8, 4), At(0, 4, 12, 8),
                At(12, 4, 12, 8)>>),
     Section(TRUE, <<At(0, 0, 24, 10)>>),
     Section(TRUE, <<At(0, 0, 24, 8), At(0, 8, 24, 8)>>)>>]

build_d7 ==
  [uid |-> "ai-telemetry-infra", keys |-> FILTERS_D7,
   headline |-> <<At(0, 0, 4, 4), At(4, 0, 4, 4), At(8, 0, 4, 4),
                 At(12, 0, 4, 4), At(16, 0, 4, 4), At(20, 0, 4, 4)>>,
   sections |-> <<
     Section(TRUE, <<At(0, 0, 12, 8), At(12, 0, 12, 8), At(0, 8, 8, 8),
                At(8, 8, 8, 8), At(16, 8, 8, 8), At(0, 16, 24, 8)>>),
     Section(TRUE, <<At(0, 0, 12, 8), At(12, 0, 12, 8)>>),
     Section(TRUE, <<At(0, 0, 12, 8), At(12, 0, 12, 8), At(0, 8, 12, 8),
                At(12, 8, 12, 8)>>),
     Section(TRUE, <<At(0, 0, 12, 8), At(12, 0, 12, 8), At(0, 8, 12, 8),
                At(12, 8, 12, 8)>>),
     Section(TRUE, <<At(0, 0, 12, 8), At(12, 0, 12, 8)>>)>>]

build_d8 ==
  [uid |-> "ai-telemetry-tokens", keys |-> FILTERS_D8,
   headline |-> <<>>,
   sections |-> <<
     Section(FALSE, <<At(0, 0, 16, 8), At(16, 0, 8, 8)>>),
     Section(TRUE, <<At(0, 0, 8, 8), At(8, 0, 8, 8), At(16, 0, 8, 8)>>),
     Section(TRUE, <<At(0, 0, 6, 8), At(6, 0, 10, 8), At(16, 0, 8, 8)>>)>>]

build_d9 ==
  [uid |-> "ai-telemetry-users", keys |-> FILTERS_D9,
   headline |-> <<At(0, 0, 4, 4), At(4, 0, 4, 4), At(8, 0, 4, 4),
                 At(12, 0, 4, 4), At(16, 0, 4, 4), At(20, 0, 4, 4)>>,
   sections |-> <<
     Section(FALSE, <<At(0, 0, 12, 8), At(12, 0, 12, 8), At(0, 8, 24, 8)>>),
     Section(TRUE, <<At(0, 0, 12, 8), At(12, 0, 12, 8)>>),
     Section(TRUE, <<At(0, 0, 12, 8), At(12, 0, 12, 8), At(0, 8, 24, 8)>>),
     Section(TRUE, <<At(0, 0, 14, 8), At(14, 0, 10, 8), At(0, 8, 24, 8)>>)>>]

builders ==
  <<build_d7, build_d3, build_d5, build_d1, build_d9, build_d4, build_d6>>

=============================================================================
