--------------------------- MODULE DashboardLayout ---------------------------
(***************************************************************************)
(* How generate_dashboards.py lays a dashboard out: headline panels first, *)
(* then the sections one below the other, the nested panels of collapsed   *)
(* ones with coordinates of their own, the navigation bar above it all,    *)
(* and new ids for every panel.                                            *)
(***************************************************************************)
EXTENDS DashboardBuilders, SequencesExt

CONSTANTS
  OtherBoards   (* boards besides the script's own, each [uid, keys,         *)
                (* headline, sections]                                       *)

Board == OtherBoards \cup Range(builders)

NAV_BAR_HEIGHT == 3
Columns == 24

-----------------------------------------------------------------------------
(* What a builder may ask for: groups of panels that do not overlap among  *)
(* themselves.                                                             *)

Leaf == [x : Nat, y : Nat, w : Nat, h : Nat, kind : {"panel"}, nested : {<<>>}, id : Nat]

Panel == [x : Nat, y : Nat, w : Nat, h : Nat, kind : {"panel", "row"},
          nested : Seq(Leaf), id : Nat]

Apart(p, q) == \/ p.x + p.w <= q.x \/ q.x + q.w <= p.x
               \/ p.y + p.h <= q.y \/ q.y + q.h <= p.y

Tiled(panels) ==
  \A i \in DOMAIN panels :
    /\ panels[i].x >= 0 /\ panels[i].y >= 0 /\ panels[i].x + panels[i].w <= Columns
    /\ \A k \in DOMAIN panels : i < k => Apart(panels[i], panels[k])

(* The panels and those nested in them.                                    *)
Shown(panels) == Range(panels) \cup UNION {Range(panels[i].nested) : i \in DOMAIN panels}

WellFormed(board) ==
  /\ board.headline \in Seq(Leaf) /\ Tiled(board.headline)
  /\ board.sections \in Seq([collapsed : BOOLEAN, panels : Seq(Leaf)])
  /\ \A k \in DOMAIN board.sections : Tiled(board.sections[k].panels)

ASSUME BoardsAssumption == \A board \in Board : WellFormed(board)

VARIABLES
  todo,         (* builders not yet called                                   *)
  saved         (* the dashboards written, each with the board it came from  *)

boardVars == <<todo, saved>>

BoardInit ==
  /\ todo \in {builders} \cup {<<b>> : b \in OtherBoards}
  /\ saved = <<>>

-----------------------------------------------------------------------------
(* Layout.                                                                 *)

Top(panels)    == Min({panels[i].y : i \in DOMAIN panels})
Bottom(panels) == Max({panels[i].y + panels[i].h : i \in DOMAIN panels})
Height(panels) == IF panels = <<>> THEN 0 ELSE Bottom(panels) - Top(panels)

Shift(panels, delta) == [i \in DOMAIN panels |-> [panels[i] EXCEPT !.y = @ + delta]]

Normalize(panels) == IF panels = <<>> THEN <<>> ELSE Shift(panels, -Top(panels))

Row(y, nested) ==
  [x |-> 0, y |-> y, w |-> Columns, h |-> 1, kind |-> "row", nested |-> nested, id |-> 0]

(* a bug: the row's own line is not counted in                             *)
PlaceOnRow(layout, section) ==
  IF section.collapsed
  THEN [panels |-> Append(layout.panels, Row(layout.y, Normalize(section.panels))),
        y |-> layout.y + 1]
  ELSE [panels |-> Append(layout.panels, Row(layout.y, <<>>))
                     \o Shift(Normalize(section.panels), layout.y),
        y |-> layout.y + Height(section.panels)]

(* A collapsed section nests its panels in its row, an expanded one puts   *)
(* them beside the row at absolute positions.                              *)
Place(layout, section) ==
  IF section.collapsed
  THEN [panels |-> Append(layout.panels, Row(layout.y, Normalize(section.panels))),
        y |-> layout.y + 1]
  ELSE [panels |-> Append(layout.panels, Row(layout.y, <<>>))
                     \o Shift(Normalize(section.panels), layout.y + 1),
        y |-> layout.y + 1 + Height(section.panels)]

(* The layout after each section.                                          *)
Stacked(headline, sections) ==
  LET after[k \in 0 .. Len(sections)] ==
        IF k = 0 THEN [panels |-> Normalize(headline), y |-> Height(headline)]
        ELSE Place(after[k - 1], sections[k])
  IN  after

BuildDashboardPanels(headline, sections) ==
  Stacked(headline, sections)[Len(sections)].panels

PrependNav(panels) ==
  <<At(0, 0, Columns, NAV_BAR_HEIGHT)>> \o Shift(panels, NAV_BAR_HEIGHT)

RunningTotal(start, numbers) ==
  LET total[i \in 0 .. Len(numbers)] ==
        IF i = 0 THEN start ELSE total[i - 1] + numbers[i]
  IN  total

(* How many panels the first i are, with those nested in them.             *)
Counted(panels) ==
  RunningTotal(0, [i \in DOMAIN panels |-> 1 + Len(panels[i].nested)])

(* Ids in the order rows and their children are met.                       *)
AssignPanelIds(panels) ==
  [i \in DOMAIN panels |->
     LET id == Counted(panels)[i - 1] + 1
     IN  [panels[i] EXCEPT !.id = id,
            !.nested = [k \in DOMAIN @ |-> [@[k] EXCEPT !.id = id + k]]]]

Dashboard(board) ==
  AssignPanelIds(PrependNav(BuildDashboardPanels(board.headline, board.sections)))

CountPanels(panels) == Counted(panels)[Len(panels)]

(* One turn of the script's loop.                                          *)
Generate ==
  /\ todo # <<>>
  /\ todo' = Tail(todo)
  /\ saved' = Append(saved, [board |-> Head(todo), panels |-> Dashboard(Head(todo))])

BoardStep == Generate

-----------------------------------------------------------------------------
(* Properties.                                                             *)

(* The panels a builder asks for, with a row for each section.             *)
Given(board) ==
  RunningTotal(Len(board.headline),
    [k \in DOMAIN board.sections |-> 1 + Len(board.sections[k].panels)])[Len(board.sections)]

(* In every dashboard no two panels that are shown together overlap, none  *)
(* leaves the grid, a section's row has the earlier panels above it, and   *)
(* every panel its builder asked for is there under an id of its own       *)
(* (generate_dashboards.py l.762, l.823).                                  *)
PanelsAreTiled ==
  \A n \in DOMAIN saved :
    LET panels == saved[n].panels
    IN  /\ Tiled(panels)
        /\ \A i \in DOMAIN panels : Tiled(panels[i].nested)
        /\ \A i, k \in DOMAIN panels :
             i < k /\ panels[k].kind = "row" => panels[i].y + panels[i].h <= panels[k].y
        /\ {p.id : p \in Shown(panels)} = 1 .. CountPanels(panels)
        /\ CountPanels(panels) = Given(saved[n].board) + 1

(* Claimed by scripts/test_dashboard_filters.py (l.16-26 and the comparison *)
(* at l.243): the template variables each dashboard has.                   *)
DASHBOARD_FILTER_KEYS ==
  {<<"ai-telemetry-executive", {"department", "region", "provider", "model", "environment"}>>,
   <<"ai-telemetry-traffic", FILTERS_D2>>,
   <<"ai-telemetry-latency", FILTERS_D3>>,
   <<"ai-telemetry-cost", {"department", "region", "provider", "model", "environment"}>>,
   <<"ai-telemetry-quality", FILTERS_D5>>,
   <<"ai-telemetry-safety", FILTERS_D6>>,
   <<"ai-telemetry-infra", FILTERS_D7>>,
   <<"ai-telemetry-tokens", FILTERS_D8>>,
   <<"ai-telemetry-users", FILTERS_D9>>}

(* A dashboard that is in that table declares exactly its variables.       *)
FiltersAsExpected ==
  \A n \in DOMAIN saved, expected \in DASHBOARD_FILTER_KEYS :
    saved[n].board.uid = expected[1] => saved[n].board.keys = expected[2]

=============================================================================
