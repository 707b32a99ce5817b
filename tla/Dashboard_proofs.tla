--------------------------- MODULE Dashboard_proofs ---------------------------
(***************************************************************************)
(* Theorems about DashboardLayout: whatever well-formed boards there are,  *)
(* every dashboard written is tiled and numbered as promised.              *)
(* The two recursive functions are reasoned about by induction over the    *)
(* sets of naturals for which a fact holds.                                *)
(***************************************************************************)
EXTENDS DashboardLayout, SequenceTheorems, WellFoundedInduction, TLAPS

-----------------------------------------------------------------------------
(* Induction over the naturals, for a set given by what is to be proved,   *)
(* and the extreme elements of sets of naturals.                           *)

Below == {p \in Nat \X Nat : p[1] < p[2]}

LEMMA LeastElement ==
  ASSUME NEW T, T \subseteq Nat, T # {}
  PROVE  \E x \in T : \A y \in T : x <= y
<1>1. IsWellFoundedOn(Below, Nat)
  <2>1. Below = OpToRel(<, Nat)
    BY DEF Below, OpToRel
  <2> QED
    BY <2>1, NatLessThanWellFounded
<1>2. PICK x \in T : \A y \in T : ~(<<y, x>> \in Below)
  BY <1>1, WFMin
<1>3. ASSUME NEW y \in T PROVE x <= y
  <2>1. <<y, x>> \notin Below /\ x \in Nat /\ y \in Nat
    BY <1>2
  <2>2. ~(y < x)
    BY <2>1 DEF Below
  <2> QED
    BY <2>1, <2>2
<1> QED
  BY <1>3

LEMMA Induction ==
  ASSUME NEW S, 0 \in S, \A n \in Nat : n \in S => n + 1 \in S
  PROVE  \A n \in Nat : n \in S
<1> DEFINE T == {n \in Nat : n \notin S}
<1> SUFFICES ASSUME T # {} PROVE FALSE
  OBVIOUS
<1>1. PICK x \in T : \A y \in T : x <= y
  BY LeastElement
<1>2. x \in Nat /\ x \notin S /\ x # 0
  OBVIOUS
<1>3. x - 1 \in Nat /\ x - 1 + 1 = x
  BY <1>2
<1>4. x - 1 \in S
  BY <1>1, <1>3
<1> QED
  BY <1>2, <1>3, <1>4

LEMMA MinIsLeast ==
  ASSUME NEW T, T \subseteq Nat, T # {}
  PROVE  Min(T) \in T /\ \A y \in T : Min(T) <= y
<1>1. \E x \in T : \A y \in T : x <= y
  BY LeastElement
<1> QED
  BY <1>1 DEF Min

LEMMA MaxIsGreatest ==
  ASSUME NEW T, T \subseteq Nat, T # {}, NEW b \in Nat, \A y \in T : y <= b
  PROVE  Max(T) \in T /\ \A y \in T : y <= Max(T)
<1> DEFINE U == {n \in Nat : \A y \in T : y <= n}
<1>1. PICK m \in U : \A n \in U : m <= n
  <2>1. b \in U /\ U \subseteq Nat
    OBVIOUS
  <2> HIDE DEF U
  <2> QED
    BY <2>1, LeastElement
<1>2. m \in T
  <2> SUFFICES ASSUME m \notin T PROVE FALSE
    OBVIOUS
  <2>1. \A y \in T : y \in Nat /\ y <= m /\ y # m
    BY <1>1
  <2>2. m \in Nat /\ m # 0
    <3>1. PICK y \in T : TRUE
      OBVIOUS
    <3>2. y \in Nat /\ y <= m /\ y # m /\ m \in Nat
      BY <1>1, <2>1
    <3> QED
      BY <3>2
  <2>3. \A y \in T : y <= m - 1
    BY <2>1, <2>2
  <2>4. m - 1 \in U
    BY <2>2, <2>3
  <2> QED
    BY <1>1, <2>2, <2>4
<1>3. \E x \in T : \A y \in T : x >= y
  BY <1>1, <1>2
<1>4. Max(T) \in T /\ \A y \in T : Max(T) >= y
  BY <1>3 DEF Max
<1> QED
  BY <1>4

(* The numbers of a sequence are bounded.                                  *)
LEMMA SequencesAreBounded ==
  ASSUME NEW s \in Seq(Nat)
  PROVE  \E b \in Nat : \A i \in DOMAIN s : s[i] <= b
<1> DEFINE S == {n \in Nat : n <= Len(s) => \E b \in Nat : \A i \in 1 .. n : s[i] <= b}
<1>1. Len(s) \in Nat /\ DOMAIN s = 1 .. Len(s) /\ \A i \in 1 .. Len(s) : s[i] \in Nat
  BY LenProperties, ElementOfSeq
<1>2. 0 \in S
  OBVIOUS
<1>3. ASSUME NEW n \in Nat, n \in S PROVE n + 1 \in S
  <2> SUFFICES ASSUME n + 1 <= Len(s)
               PROVE  \E b \in Nat : \A i \in 1 .. n + 1 : s[i] <= b
    OBVIOUS
  <2>1. PICK b \in Nat : \A i \in 1 .. n : s[i] <= b
    BY <1>1, <1>3
  <2>2. s[n + 1] \in Nat
    BY <1>1
  <2>3. PICK c \in Nat : c >= b /\ c >= s[n + 1]
    <3>1. CASE b >= s[n + 1]
      BY <2>2, <3>1
    <3>2. CASE s[n + 1] >= b
      BY <2>2, <3>2
    <3> QED
      BY <2>2, <3>1, <3>2
  <2>4. ASSUME NEW i \in 1 .. n + 1 PROVE s[i] <= c
    <3>1. CASE i = n + 1
      BY <2>3, <3>1
    <3>2. CASE i \in 1 .. n
      <4>1. s[i] \in Nat /\ s[i] <= b
        BY <1>1, <2>1, <3>2
      <4> QED
        BY <4>1, <2>3
    <3> QED
      BY <3>1, <3>2
  <2> QED
    BY <2>4
<1> HIDE DEF S
<1>4. Len(s) \in S
  BY <1>1, <1>2, <1>3, Induction
<1> QED
  BY <1>1, <1>4 DEF S

-----------------------------------------------------------------------------
(* Groups of panels: moving one up or down leaves it tiled.                *)

(* A sequence made element by element from another one.                    *)
LEMMA MadeFrom ==
  ASSUME NEW R, NEW S, NEW s \in Seq(R), NEW t,
         DOMAIN t = DOMAIN s, t = [i \in DOMAIN s |-> t[i]], \A i \in DOMAIN s : t[i] \in S
  PROVE  t \in Seq(S) /\ Len(t) = Len(s)
<1>1. Len(s) \in Nat /\ DOMAIN s = 1 .. Len(s)
  BY LenProperties
<1>2. t \in [1 .. Len(s) -> S]
  BY <1>1
<1>3. t \in Seq(S)
  BY <1>1, <1>2, SeqDef
<1> QED
  BY <1>1, <1>3, LenProperties

LEMMA ElementsOf ==
  ASSUME NEW S, NEW s \in Seq(S)
  PROVE  /\ Len(s) \in Nat /\ DOMAIN s = 1 .. Len(s)
         /\ \A i \in DOMAIN s : s[i] \in S
BY LenProperties, ElementOfSeq

LEMMA PanelFields ==
  ASSUME NEW p \in Panel
  PROVE  p.x \in Nat /\ p.y \in Nat /\ p.w \in Nat /\ p.h \in Nat
BY DEF Panel

(* q is p moved by delta and otherwise p.                                  *)
Moved(p, q, delta) ==
  /\ q.x = p.x /\ q.y = p.y + delta /\ q.w = p.w /\ q.h = p.h
  /\ q.kind = p.kind /\ q.nested = p.nested /\ q.id = p.id

LEMMA ShiftMoves ==
  ASSUME NEW ps \in Seq(Panel), NEW delta \in Int, \A i \in DOMAIN ps : ps[i].y + delta >= 0
  PROVE  /\ Shift(ps, delta) \in Seq(Panel)
         /\ Len(Shift(ps, delta)) = Len(ps) /\ DOMAIN Shift(ps, delta) = DOMAIN ps
         /\ \A i \in DOMAIN ps : Moved(ps[i], Shift(ps, delta)[i], delta)
<1> DEFINE t == Shift(ps, delta)
<1>1. DOMAIN t = DOMAIN ps /\ t = [i \in DOMAIN ps |-> t[i]]
      /\ \A i \in DOMAIN ps : t[i] = [ps[i] EXCEPT !.y = @ + delta]
  BY DEF Shift
<1> HIDE DEF t
<1>2. ASSUME NEW i \in DOMAIN ps PROVE t[i] \in Panel /\ Moved(ps[i], t[i], delta)
  <2>1. ps[i] \in Panel /\ ps[i].y + delta >= 0
    BY ElementsOf
  <2>2. t[i] = [ps[i] EXCEPT !.y = ps[i].y + delta]
    BY <1>1
  <2>3. ps[i].y + delta \in Nat
    BY <2>1 DEF Panel
  <2> QED
    BY <2>1, <2>2, <2>3 DEF Panel, Moved
<1>3. t \in Seq(Panel) /\ Len(t) = Len(ps)
  BY <1>1, <1>2, MadeFrom
<1> QED
  BY <1>1, <1>2, <1>3 DEF t

LEMMA MovedStaysTiled ==
  ASSUME NEW ps \in Seq(Panel), NEW qs, NEW delta \in Int, Tiled(ps),
         DOMAIN qs = DOMAIN ps,
         \A i \in DOMAIN ps : ps[i].y + delta >= 0 /\ Moved(ps[i], qs[i], delta)
  PROVE  Tiled(qs)
<1>1. ASSUME NEW i \in DOMAIN ps
      PROVE  qs[i].x >= 0 /\ qs[i].y >= 0 /\ qs[i].x + qs[i].w <= Columns
  BY <1>1 DEF Tiled, Moved
<1>2. ASSUME NEW i \in DOMAIN ps, NEW k \in DOMAIN ps, i < k PROVE Apart(qs[i], qs[k])
  <2>1. ps[i] \in Panel /\ ps[k] \in Panel
    BY ElementsOf
  <2>2. Apart(ps[i], ps[k])
    BY <1>2 DEF Tiled
  <2>3. /\ ps[i].y \in Nat /\ ps[i].h \in Nat /\ ps[k].y \in Nat /\ ps[k].h \in Nat
    BY <2>1, PanelFields
  <2>4. Moved(ps[i], qs[i], delta) /\ Moved(ps[k], qs[k], delta)
    OBVIOUS
  <2>5. /\ ps[i].y + ps[i].h <= ps[k].y => qs[i].y + qs[i].h <= qs[k].y
        /\ ps[k].y + ps[k].h <= ps[i].y => qs[k].y + qs[k].h <= qs[i].y
    BY <2>3, <2>4 DEF Moved
  <2> QED
    BY <2>2, <2>4, <2>5 DEF Apart, Moved
<1> QED
  BY <1>1, <1>2 DEF Tiled

(* Two tiled lists, the second all below the first.                        *)
LEMMA StackedIsTiled ==
  ASSUME NEW ps \in Seq(Panel), NEW qs \in Seq(Panel), Tiled(ps), Tiled(qs), NEW y \in Nat,
         \A i \in DOMAIN ps : ps[i].y + ps[i].h <= y, \A i \in DOMAIN qs : y <= qs[i].y
  PROVE  Tiled(ps \o qs)
<1> DEFINE rs == ps \o qs
<1>1. /\ Len(ps) \in Nat /\ DOMAIN ps = 1 .. Len(ps) /\ Len(qs) \in Nat /\ DOMAIN qs = 1 .. Len(qs)
      /\ DOMAIN rs = 1 .. Len(ps) + Len(qs)
      /\ \A i \in 1 .. Len(ps) : rs[i] = ps[i]
      /\ \A i \in DOMAIN rs : i > Len(ps) => i - Len(ps) \in DOMAIN qs /\ rs[i] = qs[i - Len(ps)]
  BY ElementsOf, ConcatProperties
<1>2. \A i \in DOMAIN ps : ps[i] \in Panel
  BY ElementsOf
<1>3. \A i \in DOMAIN qs : qs[i] \in Panel
  BY ElementsOf
<1> HIDE DEF rs
<1>4. ASSUME NEW i \in DOMAIN rs
      PROVE  rs[i].x >= 0 /\ rs[i].y >= 0 /\ rs[i].x + rs[i].w <= Columns
  <2>1. CASE i <= Len(ps)
    BY <1>1, <2>1 DEF Tiled
  <2>2. CASE i > Len(ps)
    BY <1>1, <2>2 DEF Tiled
  <2> QED
    BY <1>1, <2>1, <2>2
<1>5. ASSUME NEW i \in DOMAIN rs, NEW k \in DOMAIN rs, i < k PROVE Apart(rs[i], rs[k])
  <2>1. CASE k <= Len(ps)
    BY <1>1, <1>5, <2>1 DEF Tiled
  <2>2. CASE i > Len(ps)
    <3> DEFINE j == i - Len(ps)
               l == k - Len(ps)
    <3>1. j \in DOMAIN qs /\ l \in DOMAIN qs /\ j < l /\ rs[i] = qs[j] /\ rs[k] = qs[l]
      BY <1>1, <1>5, <2>2
    <3> HIDE DEF j, l
    <3> QED
      BY <3>1 DEF Tiled
  <2>3. CASE i <= Len(ps) /\ k > Len(ps)
    <3> DEFINE l == k - Len(ps)
    <3>1. l \in DOMAIN qs /\ rs[k] = qs[l] /\ i \in DOMAIN ps /\ rs[i] = ps[i]
      BY <1>1, <2>3
    <3> HIDE DEF l
    <3>2. ps[i].y + ps[i].h <= y /\ y <= qs[l].y /\ ps[i] \in Panel /\ qs[l] \in Panel
      BY <1>2, <1>3, <3>1
    <3>3. ps[i].y \in Nat /\ ps[i].h \in Nat /\ qs[l].y \in Nat
      BY <3>2, PanelFields
    <3>4. ps[i].y + ps[i].h <= qs[l].y
      BY <3>2, <3>3
    <3> QED
      BY <3>1, <3>4 DEF Apart
  <2> QED
    BY <1>1, <2>1, <2>2, <2>3
<1> QED
  BY <1>4, <1>5 DEF Tiled, rs

LEMMA LeavesArePanels ==
  /\ \A p \in Leaf : p \in Panel /\ p.nested = <<>> /\ p.kind = "panel"
  /\ \A p \in Panel : p.nested = <<>> /\ p.kind = "panel" => p \in Leaf
<1>1. <<>> \in Seq(Leaf)
  OBVIOUS
<1>2. ASSUME NEW p \in Leaf PROVE p \in Panel /\ p.nested = <<>> /\ p.kind = "panel"
  <2>1. p.nested = <<>>
    BY DEF Leaf
  <2>2. p.nested \in Seq(Leaf)
    BY <1>1, <2>1
  <2>3. p \in [x : Nat, y : Nat, w : Nat, h : Nat, kind : {"panel"}, nested : {<<>>}, id : Nat]
    BY DEF Leaf
  <2> HIDE DEF Leaf
  <2>4. p \in Panel
    BY <2>2, <2>3 DEF Panel
  <2> QED
    BY <2>1, <2>3, <2>4
<1>3. ASSUME NEW p \in Panel, p.nested = <<>>, p.kind = "panel" PROVE p \in Leaf
  <2> DEFINE L == Seq(Leaf)
  <2>1. p \in [x : Nat, y : Nat, w : Nat, h : Nat, kind : {"panel", "row"},
               nested : L, id : Nat]
    BY DEF Panel
  <2> HIDE DEF L
  <2>2. p \in [x : Nat, y : Nat, w : Nat, h : Nat, kind : {"panel"}, nested : {<<>>}, id : Nat]
    BY <1>3, <2>1
  <2> QED
    BY <2>2 DEF Leaf
<1> QED
  BY <1>2, <1>3

LEMMA LeafSequences ==
  ASSUME NEW ps \in Seq(Leaf)
  PROVE  ps \in Seq(Panel)
<1>1. /\ Len(ps) \in Nat /\ ps \in [1 .. Len(ps) -> Leaf]
  BY LenProperties
<1>2. ps \in [1 .. Len(ps) -> Panel]
  BY <1>1, LeavesArePanels
<1> QED
  BY <1>1, <1>2, SeqDef

(* Where a group begins and ends.                                          *)
LEMMA GroupExtent ==
  ASSUME NEW ps \in Seq(Panel), ps # <<>>
  PROVE  /\ Top(ps) \in Nat /\ Bottom(ps) \in Nat /\ Top(ps) <= Bottom(ps)
         /\ \A i \in DOMAIN ps : Top(ps) <= ps[i].y /\ ps[i].y + ps[i].h <= Bottom(ps)
<1> DEFINE ys == {ps[i].y : i \in DOMAIN ps}
           ends == [i \in DOMAIN ps |-> ps[i].y + ps[i].h]
           bs == {ps[i].y + ps[i].h : i \in DOMAIN ps}
<1>1. \A i \in DOMAIN ps : ps[i].y \in Nat /\ ps[i].h \in Nat
  BY ElementsOf, PanelFields
<1>2. 1 \in DOMAIN ps
  BY ElementsOf, EmptySeq
<1>3. ys \subseteq Nat /\ bs \subseteq Nat
  BY <1>1
<1>4. ys # {} /\ bs # {}
  BY <1>2
<1>5. \A i \in DOMAIN ps : ps[i].y \in ys /\ ps[i].y + ps[i].h \in bs
  OBVIOUS
<1>6. \E b \in Nat : \A y \in bs : y <= b
  <2>1. DOMAIN ends = DOMAIN ps /\ ends = [i \in DOMAIN ps |-> ends[i]]
        /\ \A i \in DOMAIN ps : ends[i] = ps[i].y + ps[i].h
    OBVIOUS
  <2> HIDE DEF ends
  <2>2. \A i \in DOMAIN ps : ends[i] \in Nat
    BY <1>1, <2>1
  <2>3. ends \in Seq(Nat)
    BY <2>1, <2>2, MadeFrom
  <2>4. PICK b \in Nat : \A i \in DOMAIN ends : ends[i] <= b
    BY <2>3, SequencesAreBounded
  <2> QED
    BY <2>1, <2>4
<1>7. Top(ps) = Min(ys) /\ Bottom(ps) = Max(bs)
  BY DEF Top, Bottom
<1> HIDE DEF ys, bs
<1>8. Min(ys) \in ys /\ \A y \in ys : Min(ys) <= y
  BY <1>3, <1>4, MinIsLeast
<1>9. Max(bs) \in bs /\ \A y \in bs : y <= Max(bs)
  <2>1. PICK b \in Nat : \A y \in bs : y <= b
    BY <1>6
  <2> QED
    BY <1>3, <1>4, <2>1, MaxIsGreatest
<1>10. Top(ps) \in Nat /\ Bottom(ps) \in Nat
  BY <1>3, <1>7, <1>8, <1>9
<1>11. \A i \in DOMAIN ps : Top(ps) <= ps[i].y /\ ps[i].y + ps[i].h <= Bottom(ps)
  BY <1>5, <1>7, <1>8, <1>9
<1>12. Top(ps) <= Bottom(ps)
  <2>1. Top(ps) <= ps[1].y /\ ps[1].y + ps[1].h <= Bottom(ps) /\ ps[1].y \in Nat /\ ps[1].h \in Nat
    BY <1>1, <1>2, <1>11
  <2> QED
    BY <1>10, <2>1
<1> QED
  BY <1>10, <1>11, <1>12

(* A group brought to the top: the same panels, still tiled, within the    *)
(* group's height.                                                         *)
Group(ps) == ps \in Seq(Leaf) /\ Tiled(ps)

SamePanels(ps, qs) ==
  /\ Len(qs) = Len(ps) /\ DOMAIN qs = DOMAIN ps
  /\ \A i \in DOMAIN ps : qs[i].kind = ps[i].kind /\ qs[i].nested = ps[i].nested

LEMMA NormalizedGroup ==
  ASSUME NEW ps, Group(ps)
  PROVE  /\ Group(Normalize(ps)) /\ SamePanels(ps, Normalize(ps))
         /\ Height(ps) \in Nat
         /\ \A i \in DOMAIN Normalize(ps) :
              Normalize(ps)[i].y + Normalize(ps)[i].h <= Height(ps)
<1> DEFINE qs == Normalize(ps)
<1>1. ps \in Seq(Leaf) /\ ps \in Seq(Panel) /\ Tiled(ps)
  BY LeafSequences DEF Group
<1>2. CASE ps = <<>>
  <2>1. qs = <<>> /\ Height(ps) = 0
    BY <1>2 DEF Normalize, Height
  <2>2. qs = ps
    BY <1>2, <2>1
  <2>3. DOMAIN qs = {}
    BY <2>1
  <2> HIDE DEF qs
  <2>4. Group(qs) /\ SamePanels(ps, qs)
    BY <1>1, <2>2 DEF Group, SamePanels
  <2>5. \A i \in DOMAIN qs : qs[i].y + qs[i].h <= Height(ps)
    BY <2>3
  <2> QED
    BY <2>1, <2>4, <2>5 DEF qs
<1>3. CASE ps # <<>>
  <2> DEFINE delta == -Top(ps)
  <2>1. qs = Shift(ps, delta) /\ Height(ps) = Bottom(ps) - Top(ps)
    BY <1>3 DEF Normalize, Height
  <2>2. /\ Top(ps) \in Nat /\ Bottom(ps) \in Nat /\ Top(ps) <= Bottom(ps)
        /\ \A i \in DOMAIN ps : Top(ps) <= ps[i].y /\ ps[i].y + ps[i].h <= Bottom(ps)
    BY <1>1, <1>3, GroupExtent
  <2>3. delta \in Int /\ delta + Top(ps) = 0
    BY <2>2
  <2> HIDE DEF delta, qs
  <2>4. \A i \in DOMAIN ps : ps[i].y \in Nat /\ ps[i].h \in Nat
    BY <1>1, ElementsOf, PanelFields
  <2>5. \A i \in DOMAIN ps : ps[i].y + delta >= 0
    BY <2>2, <2>3, <2>4
  <2>6. /\ qs \in Seq(Panel) /\ Len(qs) = Len(ps) /\ DOMAIN qs = DOMAIN ps
        /\ \A i \in DOMAIN ps : Moved(ps[i], qs[i], delta)
    BY <1>1, <2>1, <2>3, <2>5, ShiftMoves
  <2>7. Tiled(qs)
    BY <1>1, <2>3, <2>5, <2>6, MovedStaysTiled
  <2>8. qs \in Seq(Leaf)
    <3>1. \A i \in DOMAIN qs : qs[i] \in Panel
      BY <2>6, ElementsOf
    <3>2. \A i \in DOMAIN ps : ps[i].nested = <<>> /\ ps[i].kind = "panel"
      BY <1>1, ElementsOf, LeavesArePanels
    <3>3. \A i \in DOMAIN qs : qs[i].nested = <<>> /\ qs[i].kind = "panel"
      BY <2>6, <3>2 DEF Moved
    <3>4. \A i \in DOMAIN qs : qs[i] \in Leaf
      BY <3>1, <3>3, LeavesArePanels
    <3>5. Len(qs) \in Nat /\ qs \in [1 .. Len(qs) -> Panel] /\ DOMAIN qs = 1 .. Len(qs)
      BY <2>6, LenProperties
    <3>6. qs \in [1 .. Len(qs) -> Leaf]
      BY <3>4, <3>5
    <3> QED
      BY <3>5, <3>6, SeqDef
  <2>9. SamePanels(ps, qs)
    BY <2>6 DEF SamePanels, Moved
  <2>10. \A i \in DOMAIN qs : qs[i].y + qs[i].h <= Height(ps)
    <3> SUFFICES ASSUME NEW i \in DOMAIN ps PROVE qs[i].y + qs[i].h <= Height(ps)
      BY <2>6
    <3>1. qs[i].y = ps[i].y + delta /\ qs[i].h = ps[i].h
      BY <2>6 DEF Moved
    <3>2. ps[i].y + ps[i].h <= Bottom(ps) /\ ps[i].y \in Nat /\ ps[i].h \in Nat
      BY <2>2, <2>4
    <3> QED
      BY <2>1, <2>2, <2>3, <3>1, <3>2
  <2>11. Height(ps) \in Nat
    BY <2>1, <2>2
  <2> QED
    BY <2>7, <2>8, <2>9, <2>10, <2>11 DEF Group, qs
<1> QED
  BY <1>2, <1>3

-----------------------------------------------------------------------------
(* The two recursive functions.  Each exists, by induction on how far it   *)
(* is defined, and so unfolds.                                             *)

LEMMA TotalsUnfold ==
  ASSUME NEW start, NEW numbers, Len(numbers) \in Nat
  PROVE  /\ RunningTotal(start, numbers)[0] = start
         /\ \A i \in 1 .. Len(numbers) :
              RunningTotal(start, numbers)[i] = RunningTotal(start, numbers)[i - 1] + numbers[i]
<1> DEFINE P(f, n) == f = [i \in 0 .. n |-> IF i = 0 THEN start ELSE f[i - 1] + numbers[i]]
           S == {n \in Nat : \E f : P(f, n)}
<1>1. 0 \in S
  <2> DEFINE g == [i \in 0 .. 0 |-> start]
  <2>1. P(g, 0)
    OBVIOUS
  <2> HIDE DEF g, P
  <2> QED
    BY <2>1
<1>2. ASSUME NEW n \in Nat, n \in S PROVE n + 1 \in S
  <2>1. PICK f : P(f, n)
    BY <1>2
  <2> DEFINE g == [i \in 0 .. n + 1 |-> IF i = n + 1 THEN f[n] + numbers[n + 1] ELSE f[i]]
  <2>2. \A i \in 0 .. n : f[i] = IF i = 0 THEN start ELSE f[i - 1] + numbers[i]
    BY <2>1
  <2>3. g[n + 1] = f[n] + numbers[n + 1] /\ \A i \in 0 .. n : g[i] = f[i]
    OBVIOUS
  <2>4. g = [i \in 0 .. n + 1 |-> g[i]]
    OBVIOUS
  <2> HIDE DEF g, P
  <2>5. \A i \in 0 .. n + 1 : g[i] = IF i = 0 THEN start ELSE g[i - 1] + numbers[i]
    <3> TAKE i \in 0 .. n + 1
    <3>1. CASE i = n + 1
      BY <2>3, <3>1
    <3>2. CASE i \in 0 .. n
      <4>1. i # 0 => i - 1 \in 0 .. n
        BY <3>2
      <4> QED
        BY <2>2, <2>3, <3>2, <4>1
    <3> QED
      BY <3>1, <3>2
  <2>6. P(g, n + 1)
    BY <2>4, <2>5 DEF P
  <2> QED
    BY <2>6
<1>3. Len(numbers) \in S
  <2> HIDE DEF S
  <2> QED
    BY <1>1, <1>2, Induction
<1>4. RunningTotal(start, numbers) = CHOOSE f : P(f, Len(numbers))
  BY DEF RunningTotal
<1> HIDE DEF P
<1>5. P(RunningTotal(start, numbers), Len(numbers))
  BY <1>3, <1>4
<1> QED
  BY <1>5 DEF P

LEMMA StackedUnfolds ==
  ASSUME NEW headline, NEW sections, Len(sections) \in Nat
  PROVE  /\ Stacked(headline, sections)[0] =
              [panels |-> Normalize(headline), y |-> Height(headline)]
         /\ \A k \in 1 .. Len(sections) :
              Stacked(headline, sections)[k] =
                Place(Stacked(headline, sections)[k - 1], sections[k])
<1> DEFINE start == [panels |-> Normalize(headline), y |-> Height(headline)]
<1> HIDE DEF start
<1> DEFINE P(f, n) == f = [k \in 0 .. n |-> IF k = 0 THEN start ELSE Place(f[k - 1], sections[k])]
           S == {n \in Nat : \E f : P(f, n)}
<1>1. 0 \in S
  <2> DEFINE g == [k \in 0 .. 0 |-> start]
  <2>1. P(g, 0)
    OBVIOUS
  <2> HIDE DEF g, P
  <2> QED
    BY <2>1
<1>2. ASSUME NEW n \in Nat, n \in S PROVE n + 1 \in S
  <2>1. PICK f : P(f, n)
    BY <1>2
  <2> DEFINE g == [k \in 0 .. n + 1 |-> IF k = n + 1 THEN Place(f[n], sections[n + 1]) ELSE f[k]]
  <2>2. \A k \in 0 .. n : f[k] = IF k = 0 THEN start ELSE Place(f[k - 1], sections[k])
    BY <2>1
  <2>3. g[n + 1] = Place(f[n], sections[n + 1]) /\ \A k \in 0 .. n : g[k] = f[k]
    OBVIOUS
  <2>4. g = [k \in 0 .. n + 1 |-> g[k]]
    OBVIOUS
  <2> HIDE DEF g, P
  <2>5. \A k \in 0 .. n + 1 : g[k] = IF k = 0 THEN start ELSE Place(g[k - 1], sections[k])
    <3> TAKE k \in 0 .. n + 1
    <3>1. CASE k = n + 1
      BY <2>3, <3>1
    <3>2. CASE k \in 0 .. n
      <4>1. k # 0 => k - 1 \in 0 .. n
        BY <3>2
      <4> QED
        BY <2>2, <2>3, <3>2, <4>1
    <3> QED
      BY <3>1, <3>2
  <2>6. P(g, n + 1)
    BY <2>4, <2>5 DEF P
  <2> QED
    BY <2>6
<1>3. Len(sections) \in S
  <2> HIDE DEF S
  <2> QED
    BY <1>1, <1>2, Induction
<1>4. Stacked(headline, sections) = CHOOSE f : P(f, Len(sections))
  BY DEF Stacked, start
<1> HIDE DEF P
<1>5. P(Stacked(headline, sections), Len(sections))
  BY <1>3, <1>4
<1> QED
  BY <1>5 DEF P, start

-----------------------------------------------------------------------------
(* Counting panels.                                                        *)

LEMMA TotalsAreNatural ==
  ASSUME NEW start \in Nat, NEW numbers \in Seq(Nat)
  PROVE  \A i \in 0 .. Len(numbers) : RunningTotal(start, numbers)[i] \in Nat
<1> DEFINE f == RunningTotal(start, numbers)
           S == {n \in Nat : n <= Len(numbers) => f[n] \in Nat}
<1>1. Len(numbers) \in Nat /\ \A i \in 1 .. Len(numbers) : numbers[i] \in Nat
  BY ElementsOf
<1>2. f[0] = start /\ \A i \in 1 .. Len(numbers) : f[i] = f[i - 1] + numbers[i]
  BY <1>1, TotalsUnfold
<1> HIDE DEF f
<1>3. 0 \in S
  BY <1>2
<1>4. ASSUME NEW n \in Nat, n \in S PROVE n + 1 \in S
  <2> SUFFICES ASSUME n + 1 <= Len(numbers) PROVE f[n + 1] \in Nat
    OBVIOUS
  <2>1. f[n + 1] = f[n + 1 - 1] + numbers[n + 1] /\ numbers[n + 1] \in Nat
    BY <1>1, <1>2
  <2>2. n + 1 - 1 = n /\ f[n] \in Nat
    BY <1>1, <1>4
  <2> QED
    BY <2>1, <2>2
<1> HIDE DEF S
<1>5. \A n \in Nat : n \in S
  BY <1>3, <1>4, Induction
<1> QED
  BY <1>1, <1>5 DEF S, f

(* The totals of a list and of what follows it.                            *)
LEMMA TotalsGoOn ==
  ASSUME NEW start \in Nat, NEW s \in Seq(Nat), NEW t \in Seq(Nat)
  PROVE  /\ \A i \in 0 .. Len(s) :
              RunningTotal(start, s \o t)[i] = RunningTotal(start, s)[i]
         /\ \A i \in 0 .. Len(t) :
              RunningTotal(start, s \o t)[Len(s) + i] =
                RunningTotal(start, s)[Len(s)] + RunningTotal(0, t)[i]
<1> DEFINE u == s \o t
           f == RunningTotal(start, s)
           g == RunningTotal(0, t)
           h == RunningTotal(start, u)
<1>1. Len(s) \in Nat /\ Len(t) \in Nat
  BY ElementsOf
<1>2. /\ u \in Seq(Nat) /\ Len(u) = Len(s) + Len(t)
      /\ \A i \in 1 .. Len(s) : u[i] = s[i]
      /\ \A i \in 1 .. Len(t) : u[Len(s) + i] = t[i]
  <2>1. u \in Seq(Nat) /\ Len(u) = Len(s) + Len(t)
    BY ConcatProperties
  <2>2. \A i \in 1 .. Len(s) + Len(t) : u[i] = IF i <= Len(s) THEN s[i] ELSE t[i - Len(s)]
    BY ConcatProperties
  <2> HIDE DEF u
  <2>3. ASSUME NEW i \in 1 .. Len(t) PROVE u[Len(s) + i] = t[i]
    <3>1. Len(s) + i \in 1 .. Len(s) + Len(t) /\ ~(Len(s) + i <= Len(s)) /\ Len(s) + i - Len(s) = i
      BY <1>1
    <3> QED
      BY <2>2, <3>1
  <2> QED
    BY <1>1, <2>1, <2>2, <2>3
<1> HIDE DEF u
<1>3. f[0] = start /\ \A i \in 1 .. Len(s) : f[i] = f[i - 1] + s[i]
  BY <1>1, TotalsUnfold
<1>4. g[0] = 0 /\ \A i \in 1 .. Len(t) : g[i] = g[i - 1] + t[i]
  BY <1>1, TotalsUnfold
<1>5. h[0] = start /\ \A i \in 1 .. Len(s) + Len(t) : h[i] = h[i - 1] + u[i]
  <2>1. Len(u) \in Nat
    BY <1>1, <1>2
  <2>2. h[0] = start /\ \A i \in 1 .. Len(u) : h[i] = h[i - 1] + u[i]
    BY <2>1, TotalsUnfold
  <2> QED
    BY <2>2, <1>2
<1>6. (\A i \in 0 .. Len(s) : f[i] \in Nat) /\ (\A i \in 0 .. Len(t) : g[i] \in Nat)
  BY TotalsAreNatural
<1>7. \A i \in 1 .. Len(t) : t[i] \in Nat
  BY ElementsOf
<1> HIDE DEF f, g, h
<1>8. \A i \in 0 .. Len(s) : h[i] = f[i]
  <2> DEFINE S == {n \in Nat : n <= Len(s) => h[n] = f[n]}
  <2>1. 0 \in S
    BY <1>3, <1>5
  <2>2. ASSUME NEW n \in Nat, n \in S PROVE n + 1 \in S
    <3> SUFFICES ASSUME n + 1 <= Len(s) PROVE h[n + 1] = f[n + 1]
      OBVIOUS
    <3>1. h[n + 1] = h[n] + u[n + 1]
      <4>1. n + 1 \in 1 .. Len(s) + Len(t) /\ n + 1 - 1 = n
        BY <1>1
      <4> QED
        BY <4>1, <1>5
    <3>2. f[n + 1] = f[n] + s[n + 1] /\ u[n + 1] = s[n + 1]
      <4>1. n + 1 \in 1 .. Len(s) /\ n + 1 - 1 = n
        BY <1>1
      <4> QED
        BY <4>1, <1>2, <1>3
    <3>3. h[n] = f[n]
      BY <1>1, <2>2
    <3> QED
      BY <3>1, <3>2, <3>3
  <2> HIDE DEF S
  <2>3. \A n \in Nat : n \in S
    BY <2>1, <2>2, Induction
  <2> QED
    BY <1>1, <2>3 DEF S
<1>9. \A i \in 0 .. Len(t) : h[Len(s) + i] = f[Len(s)] + g[i]
  <2> DEFINE S == {n \in Nat : n <= Len(t) => h[Len(s) + n] = f[Len(s)] + g[n]}
  <2>0. f[Len(s)] \in Nat
    BY <1>1, <1>6
  <2>1. 0 \in S
    <3>1. Len(s) + 0 = Len(s) /\ h[Len(s)] = f[Len(s)]
      BY <1>1, <1>8
    <3> QED
      BY <2>0, <3>1, <1>4
  <2>2. ASSUME NEW n \in Nat, n \in S PROVE n + 1 \in S
    <3> SUFFICES ASSUME n + 1 <= Len(t)
                 PROVE  h[Len(s) + (n + 1)] = f[Len(s)] + g[n + 1]
      OBVIOUS
    <3>1. h[Len(s) + (n + 1)] = h[Len(s) + n] + u[Len(s) + (n + 1)]
      <4>1. Len(s) + (n + 1) \in 1 .. Len(s) + Len(t) /\ Len(s) + (n + 1) - 1 = Len(s) + n
        BY <1>1
      <4> QED
        BY <4>1, <1>5
    <3>2. u[Len(s) + (n + 1)] = t[n + 1] /\ g[n + 1] = g[n] + t[n + 1]
      <4>1. n + 1 \in 1 .. Len(t) /\ n + 1 - 1 = n
        BY <1>1
      <4> QED
        BY <4>1, <1>2, <1>4
    <3>3. h[Len(s) + n] = f[Len(s)] + g[n]
      BY <1>1, <2>2
    <3>4. g[n] \in Nat /\ t[n + 1] \in Nat
      BY <1>1, <1>6, <1>7
    <3> QED
      BY <2>0, <3>1, <3>2, <3>3, <3>4
  <2> HIDE DEF S
  <2>3. \A n \in Nat : n \in S
    BY <2>1, <2>2, Induction
  <2> QED
    BY <1>1, <2>3 DEF S
<1> QED
  BY <1>8, <1>9 DEF f, g, h, u

LEMMA TotalOfOnes ==
  ASSUME NEW s \in Seq(Nat), \A i \in DOMAIN s : s[i] = 1
  PROVE  \A i \in 0 .. Len(s) : RunningTotal(0, s)[i] = i
<1> DEFINE f == RunningTotal(0, s)
           S == {n \in Nat : n <= Len(s) => f[n] = n}
<1>1. Len(s) \in Nat /\ \A i \in 1 .. Len(s) : s[i] = 1
  BY ElementsOf
<1>2. f[0] = 0 /\ \A i \in 1 .. Len(s) : f[i] = f[i - 1] + s[i]
  BY <1>1, TotalsUnfold
<1> HIDE DEF f
<1>3. 0 \in S
  BY <1>2
<1>4. ASSUME NEW n \in Nat, n \in S PROVE n + 1 \in S
  <2> SUFFICES ASSUME n + 1 <= Len(s) PROVE f[n + 1] = n + 1
    OBVIOUS
  <2>1. n + 1 \in 1 .. Len(s) /\ n + 1 - 1 = n
    BY <1>1
  <2>2. f[n + 1] = f[n] + s[n + 1] /\ s[n + 1] = 1
    BY <1>1, <1>2, <2>1
  <2> QED
    BY <1>1, <1>4, <2>2
<1> HIDE DEF S
<1>5. \A n \in Nat : n \in S
  BY <1>3, <1>4, Induction
<1> QED
  BY <1>1, <1>5 DEF S, f

Sizes(panels) == [i \in DOMAIN panels |-> 1 + Len(panels[i].nested)]

LEMMA SizesOf ==
  ASSUME NEW ps \in Seq(Panel)
  PROVE  /\ Sizes(ps) \in Seq(Nat) /\ Len(Sizes(ps)) = Len(ps) /\ DOMAIN Sizes(ps) = DOMAIN ps
         /\ \A i \in DOMAIN ps : /\ ps[i].nested \in Seq(Leaf) /\ Len(ps[i].nested) \in Nat
                                 /\ Sizes(ps)[i] = 1 + Len(ps[i].nested)
<1> DEFINE t == Sizes(ps)
<1>1. DOMAIN t = DOMAIN ps /\ t = [i \in DOMAIN ps |-> t[i]]
      /\ \A i \in DOMAIN ps : t[i] = 1 + Len(ps[i].nested)
  BY DEF Sizes
<1> HIDE DEF t
<1>2. \A i \in DOMAIN ps : ps[i].nested \in Seq(Leaf) /\ Len(ps[i].nested) \in Nat
  <2> TAKE i \in DOMAIN ps
  <2>1. ps[i] \in Panel
    BY ElementsOf
  <2>2. ps[i].nested \in Seq(Leaf)
    BY <2>1 DEF Panel
  <2> QED
    BY <2>2, ElementsOf
<1>3. \A i \in DOMAIN ps : t[i] \in Nat
  BY <1>1, <1>2
<1>4. t \in Seq(Nat) /\ Len(t) = Len(ps)
  BY <1>1, <1>3, MadeFrom
<1> QED
  BY <1>1, <1>2, <1>4 DEF t

LEMMA CountIsTotal ==
  ASSUME NEW ps
  PROVE  /\ Counted(ps) = RunningTotal(0, Sizes(ps))
         /\ CountPanels(ps) = RunningTotal(0, Sizes(ps))[Len(ps)]
BY DEF Counted, CountPanels, Sizes

LEMMA CountOfBoth ==
  ASSUME NEW ps \in Seq(Panel), NEW qs \in Seq(Panel)
  PROVE  /\ CountPanels(ps \o qs) = CountPanels(ps) + CountPanels(qs)
         /\ CountPanels(ps) \in Nat /\ CountPanels(qs) \in Nat
<1> DEFINE rs == ps \o qs
<1>1. Sizes(rs) = Sizes(ps) \o Sizes(qs)
  <2>1. /\ rs \in Seq(Panel) /\ Len(rs) = Len(ps) + Len(qs)
        /\ \A i \in 1 .. Len(ps) + Len(qs) :
             rs[i] = IF i <= Len(ps) THEN ps[i] ELSE qs[i - Len(ps)]
    BY ConcatProperties
  <2> HIDE DEF rs
  <2>2. /\ Sizes(ps) \in Seq(Nat) /\ Len(Sizes(ps)) = Len(ps)
        /\ Sizes(qs) \in Seq(Nat) /\ Len(Sizes(qs)) = Len(qs)
        /\ Sizes(rs) \in Seq(Nat) /\ Len(Sizes(rs)) = Len(ps) + Len(qs)
    BY <2>1, SizesOf
  <2> DEFINE a == Sizes(ps)
             b == Sizes(qs)
  <2> HIDE DEF a, b
  <2> DEFINE u == a \o b
  <2>7. a \in Seq(Nat) /\ b \in Seq(Nat) /\ Len(a) = Len(ps) /\ Len(b) = Len(qs)
    BY <2>2 DEF a, b
  <2>3. /\ u \in Seq(Nat) /\ Len(u) = Len(ps) + Len(qs)
        /\ \A i \in 1 .. Len(ps) + Len(qs) :
             u[i] = IF i <= Len(ps) THEN a[i] ELSE b[i - Len(ps)]
    <3>1. /\ u \in Seq(Nat) /\ Len(u) = Len(a) + Len(b)
          /\ \A i \in 1 .. Len(a) + Len(b) : u[i] = IF i <= Len(a) THEN a[i] ELSE b[i - Len(a)]
      BY <2>7, ConcatProperties
    <3> HIDE DEF u
    <3> QED
      BY <2>7, <3>1
  <2> HIDE DEF u
  <2>4. Len(ps) \in Nat /\ Len(qs) \in Nat /\ DOMAIN ps = 1 .. Len(ps) /\ DOMAIN qs = 1 .. Len(qs)
        /\ DOMAIN rs = 1 .. Len(ps) + Len(qs)
    BY <2>1, ElementsOf
  <2>5. \A i \in 1 .. Len(ps) + Len(qs) : Sizes(rs)[i] = u[i]
    <3> TAKE i \in 1 .. Len(ps) + Len(qs)
    <3>1. Sizes(rs)[i] = 1 + Len(rs[i].nested)
      BY <2>1, <2>4, SizesOf
    <3>2. CASE i <= Len(ps)
      <4>1. i \in DOMAIN ps /\ rs[i] = ps[i] /\ u[i] = Sizes(ps)[i]
        BY <2>1, <2>3, <2>4, <3>2 DEF a
      <4>2. Sizes(ps)[i] = 1 + Len(ps[i].nested)
        BY <4>1, SizesOf
      <4> QED
        BY <3>1, <4>1, <4>2
    <3>3. CASE i > Len(ps)
      <4> DEFINE j == i - Len(ps)
      <4>1. j \in DOMAIN qs /\ rs[i] = qs[j] /\ u[i] = Sizes(qs)[j]
        BY <2>1, <2>3, <2>4, <3>3 DEF b
      <4> HIDE DEF j
      <4>2. Sizes(qs)[j] = 1 + Len(qs[j].nested)
        BY <4>1, SizesOf
      <4> QED
        BY <3>1, <4>1, <4>2
    <3> QED
      BY <2>4, <3>2, <3>3
  <2>6. Sizes(rs) = u
    BY <2>2, <2>3, <2>5, SeqEqual
  <2> QED
    BY <2>6 DEF u, a, b
<1>2. Len(rs) = Len(ps) + Len(qs)
  BY ConcatProperties
<1> HIDE DEF rs
<1>3. /\ Sizes(ps) \in Seq(Nat) /\ Len(Sizes(ps)) = Len(ps) /\ Len(ps) \in Nat
      /\ Sizes(qs) \in Seq(Nat) /\ Len(Sizes(qs)) = Len(qs) /\ Len(qs) \in Nat
  BY SizesOf, ElementsOf
<1>4. RunningTotal(0, Sizes(rs))[Len(ps) + Len(qs)] =
        RunningTotal(0, Sizes(ps))[Len(ps)] + RunningTotal(0, Sizes(qs))[Len(qs)]
  <2> DEFINE a == Sizes(ps)
             b == Sizes(qs)
  <2>1. /\ a \in Seq(Nat) /\ Len(a) = Len(ps) /\ b \in Seq(Nat) /\ Len(b) = Len(qs)
        /\ Sizes(rs) = a \o b
    BY <1>1, <1>3
  <2> HIDE DEF a, b
  <2>2. \A i \in 0 .. Len(b) : RunningTotal(0, a \o b)[Len(a) + i] =
                               RunningTotal(0, a)[Len(a)] + RunningTotal(0, b)[i]
    BY <2>1, TotalsGoOn
  <2>3. Len(b) \in 0 .. Len(b)
    BY <1>3, <2>1
  <2> QED
    BY <2>1, <2>2, <2>3 DEF a, b
<1>5. RunningTotal(0, Sizes(ps))[Len(ps)] \in Nat /\ RunningTotal(0, Sizes(qs))[Len(qs)] \in Nat
  BY <1>3, TotalsAreNatural
<1> QED
  BY <1>2, <1>4, <1>5, CountIsTotal DEF rs

LEMMA CountOfSame ==
  ASSUME NEW ps, NEW qs, SamePanels(ps, qs)
  PROVE  Counted(qs) = Counted(ps) /\ CountPanels(qs) = CountPanels(ps)
<1>1. Sizes(qs) = Sizes(ps)
  BY DEF Sizes, SamePanels
<1> QED
  BY <1>1, CountIsTotal DEF SamePanels

LEMMA CountOfLeaves ==
  ASSUME NEW ps \in Seq(Leaf)
  PROVE  CountPanels(ps) = Len(ps)
<1>1. ps \in Seq(Panel)
  BY LeafSequences
<1>2. \A i \in DOMAIN ps : Len(ps[i].nested) = 0
  <2>1. \A i \in DOMAIN ps : ps[i].nested = <<>>
    BY ElementsOf, LeavesArePanels
  <2> QED
    BY <2>1
<1>3. /\ Sizes(ps) \in Seq(Nat) /\ Len(Sizes(ps)) = Len(ps)
      /\ \A i \in DOMAIN Sizes(ps) : Sizes(ps)[i] = 1
  BY <1>1, <1>2, SizesOf
<1>4. Len(ps) \in Nat
  BY ElementsOf
<1>5. RunningTotal(0, Sizes(ps))[Len(ps)] = Len(ps)
  BY <1>3, <1>4, TotalOfOnes
<1> QED
  BY <1>5, CountIsTotal

LEMMA CountOfOne ==
  ASSUME NEW p \in Panel
  PROVE  CountPanels(<<p>>) = 1 + Len(p.nested) /\ Len(p.nested) \in Nat
<1> DEFINE ps == <<p>>
<1>1. ps \in Seq(Panel) /\ Len(ps) = 1 /\ ps[1] = p /\ 1 \in DOMAIN ps
  OBVIOUS
<1> HIDE DEF ps
<1>2. /\ Sizes(ps) \in Seq(Nat) /\ Len(Sizes(ps)) = 1
      /\ Sizes(ps)[1] = 1 + Len(p.nested) /\ Len(p.nested) \in Nat
  BY <1>1, SizesOf
<1> DEFINE f == RunningTotal(0, Sizes(ps))
<1>3. f[0] = 0 /\ \A i \in 1 .. 1 : f[i] = f[i - 1] + Sizes(ps)[i]
  <2> DEFINE s == Sizes(ps)
  <2>1. Len(s) = 1
    BY <1>2
  <2> HIDE DEF s
  <2>2. Len(s) \in Nat
    BY <2>1
  <2>3. /\ RunningTotal(0, s)[0] = 0
        /\ \A i \in 1 .. Len(s) : RunningTotal(0, s)[i] = RunningTotal(0, s)[i - 1] + s[i]
    BY <2>2, TotalsUnfold
  <2> QED
    BY <2>1, <2>3 DEF s
<1>4. CountPanels(ps) = f[1]
  BY <1>1, CountIsTotal
<1> HIDE DEF f
<1>5. f[1] = 1 + Len(p.nested)
  BY <1>2, <1>3
<1> QED
  BY <1>2, <1>4, <1>5 DEF ps

-----------------------------------------------------------------------------
(* A layout of height y, and what may be put below it.                     *)

EndBy(ps, y)  == \A i \in DOMAIN ps : ps[i].y + ps[i].h <= y
BeginAt(ps, y) == \A i \in DOMAIN ps : y <= ps[i].y
NestedTiled(ps) == \A i \in DOMAIN ps : Tiled(ps[i].nested)

RowsAreBelow(ps) ==
  \A i, k \in DOMAIN ps :
    i < k /\ ps[k].kind = "row" => ps[i].y + ps[i].h <= ps[k].y

Laid(ps, y) ==
  /\ ps \in Seq(Panel) /\ y \in Nat
  /\ Tiled(ps) /\ NestedTiled(ps) /\ EndBy(ps, y) /\ RowsAreBelow(ps)

(* Only the first panel of a list may be a row.                            *)
RowFirst(ps) == \A k \in DOMAIN ps : k > 1 => ps[k].kind # "row"

LEMMA ConcatParts ==
  ASSUME NEW S, NEW ps \in Seq(S), NEW qs \in Seq(S)
  PROVE  /\ Len(ps) \in Nat /\ DOMAIN ps = 1 .. Len(ps)
         /\ Len(qs) \in Nat /\ DOMAIN qs = 1 .. Len(qs)
         /\ ps \o qs \in Seq(S) /\ DOMAIN (ps \o qs) = 1 .. Len(ps) + Len(qs)
         /\ Len(ps \o qs) = Len(ps) + Len(qs)
         /\ \A i \in DOMAIN ps : (ps \o qs)[i] = ps[i]
         /\ \A i \in DOMAIN (ps \o qs) :
              i > Len(ps) => i - Len(ps) \in DOMAIN qs /\ (ps \o qs)[i] = qs[i - Len(ps)]
BY ElementsOf, ConcatProperties

LEMMA LaidBelow ==
  ASSUME NEW ps, NEW y, Laid(ps, y), NEW qs \in Seq(Panel), NEW z \in Nat, y <= z,
         Tiled(qs), NestedTiled(qs), BeginAt(qs, y), EndBy(qs, z), RowFirst(qs)
  PROVE  Laid(ps \o qs, z)
<1> DEFINE rs == ps \o qs
<1>1. /\ ps \in Seq(Panel) /\ y \in Nat
      /\ Tiled(ps) /\ NestedTiled(ps) /\ EndBy(ps, y) /\ RowsAreBelow(ps)
  BY DEF Laid
<1>2. Tiled(rs)
  BY <1>1, StackedIsTiled DEF EndBy, BeginAt
<1>3. /\ Len(ps) \in Nat /\ DOMAIN ps = 1 .. Len(ps)
      /\ Len(qs) \in Nat /\ DOMAIN qs = 1 .. Len(qs)
      /\ rs \in Seq(Panel) /\ DOMAIN rs = 1 .. Len(ps) + Len(qs)
      /\ \A i \in DOMAIN ps : rs[i] = ps[i]
      /\ \A i \in DOMAIN rs : i > Len(ps) => i - Len(ps) \in DOMAIN qs /\ rs[i] = qs[i - Len(ps)]
  BY <1>1, ConcatParts
<1>4. \A i \in DOMAIN ps : ps[i].y \in Nat /\ ps[i].h \in Nat
  BY <1>1, ElementsOf, PanelFields
<1>5. \A i \in DOMAIN qs : qs[i].y \in Nat /\ qs[i].h \in Nat
  BY ElementsOf, PanelFields
<1> HIDE DEF rs
<1>6. ASSUME NEW i \in DOMAIN rs
      PROVE  i \in DOMAIN ps \/ i > Len(ps)
  BY <1>3
<1>7. NestedTiled(rs)
  <2> SUFFICES ASSUME NEW i \in DOMAIN rs PROVE Tiled(rs[i].nested)
    BY DEF NestedTiled
  <2>1. CASE i \in DOMAIN ps
    BY <1>1, <1>3, <2>1 DEF NestedTiled
  <2>2. CASE i > Len(ps)
    BY <1>3, <2>2 DEF NestedTiled
  <2> QED
    BY <1>6, <2>1, <2>2
<1>8. EndBy(rs, z)
  <2> SUFFICES ASSUME NEW i \in DOMAIN rs PROVE rs[i].y + rs[i].h <= z
    BY DEF EndBy
  <2>1. CASE i \in DOMAIN ps
    <3>1. rs[i] = ps[i] /\ ps[i].y + ps[i].h <= y
      BY <1>1, <1>3, <2>1 DEF EndBy
    <3> QED
      BY <1>1, <1>4, <2>1, <3>1
  <2>2. CASE i > Len(ps)
    BY <1>3, <2>2 DEF EndBy
  <2> QED
    BY <1>6, <2>1, <2>2
<1>9. RowsAreBelow(rs)
  <2> SUFFICES ASSUME NEW i \in DOMAIN rs, NEW k \in DOMAIN rs, i < k, rs[k].kind = "row"
               PROVE  rs[i].y + rs[i].h <= rs[k].y
    BY DEF RowsAreBelow
  <2>1. CASE k \in DOMAIN ps
    <3>1. i \in DOMAIN ps
      BY <1>3, <2>1
    <3> QED
      BY <1>1, <1>3, <2>1, <3>1 DEF RowsAreBelow
  <2>2. CASE k > Len(ps)
    <3> DEFINE l == k - Len(ps)
    <3>1. l \in DOMAIN qs /\ rs[k] = qs[l]
      BY <1>3, <2>2
    <3>2. ~(l > 1)
      BY <3>1 DEF RowFirst
    <3>3. i <= Len(ps) /\ i \in DOMAIN ps
      BY <1>3, <2>2, <3>2
    <3> HIDE DEF l
    <3>4. ps[i].y + ps[i].h <= y /\ y <= qs[l].y
      BY <1>1, <3>1, <3>3 DEF EndBy, BeginAt
    <3>5. ps[i].y + ps[i].h <= qs[l].y
      BY <1>1, <1>4, <1>5, <3>1, <3>3, <3>4
    <3> QED
      BY <1>3, <3>1, <3>3, <3>5
  <2> QED
    BY <1>6, <2>1, <2>2
<1> QED
  BY <1>2, <1>3, <1>7, <1>8, <1>9 DEF Laid, rs

(* A leaf has nothing nested and is no row.                                *)
LEMMA LeavesAreFlat ==
  ASSUME NEW ps \in Seq(Leaf)
  PROVE  NestedTiled(ps) /\ \A k \in DOMAIN ps : ps[k].nested = <<>> /\ ps[k].kind # "row"
<1>1. \A k \in DOMAIN ps : ps[k].nested = <<>> /\ ps[k].kind = "panel"
  BY ElementsOf, LeavesArePanels
<1>2. \A k \in DOMAIN ps : ps[k].kind # "row"
  BY <1>1
<1>3. Tiled(<<>>)
  BY DEF Tiled
<1>4. NestedTiled(ps)
  BY <1>1, <1>3 DEF NestedTiled
<1> QED
  BY <1>1, <1>2, <1>4

LEMMA RowOf ==
  ASSUME NEW y \in Nat, NEW nested \in Seq(Leaf), Tiled(nested)
  PROVE  /\ Row(y, nested) \in Panel /\ <<Row(y, nested)>> \in Seq(Panel)
         /\ Tiled(<<Row(y, nested)>>) /\ NestedTiled(<<Row(y, nested)>>)
         /\ BeginAt(<<Row(y, nested)>>, y) /\ EndBy(<<Row(y, nested)>>, y + 1)
         /\ RowFirst(<<Row(y, nested)>>)
         /\ CountPanels(<<Row(y, nested)>>) = 1 + Len(nested)
<1> DEFINE r == Row(y, nested)
           rs == <<r>>
<1>1. /\ r.x = 0 /\ r.y = y /\ r.w = 24 /\ r.h = 1 /\ r.nested = nested
      /\ r.kind = "row" /\ r.id = 0
  BY DEF Row, Columns
<1>2. r \in Panel
  <2> DEFINE L == Seq(Leaf)
  <2>1. nested \in L
    OBVIOUS
  <2> HIDE DEF L
  <2>2. r \in [x : Nat, y : Nat, w : Nat, h : Nat, kind : {"panel", "row"},
               nested : L, id : Nat]
    BY <2>1 DEF Row, Columns
  <2> QED
    BY <2>2 DEF Panel, L
<1> HIDE DEF r
<1>3. rs \in Seq(Panel) /\ DOMAIN rs = {1} /\ rs[1] = r
  BY <1>2
<1>4. CountPanels(rs) = 1 + Len(nested)
  BY <1>1, <1>2, CountOfOne
<1> HIDE DEF rs
<1>5. Tiled(rs)
  BY <1>1, <1>3 DEF Tiled, Columns
<1>6. NestedTiled(rs)
  BY <1>1, <1>3 DEF NestedTiled
<1>7. BeginAt(rs, y) /\ EndBy(rs, y + 1) /\ RowFirst(rs)
  BY <1>1, <1>3 DEF BeginAt, EndBy, RowFirst
<1> QED
  BY <1>2, <1>3, <1>4, <1>5, <1>6, <1>7 DEF r, rs

(* One section: what Place puts below the layout it is given.              *)
Asked == [collapsed : BOOLEAN, panels : Seq(Leaf)]

LEMMA ThreeParts ==
  ASSUME NEW a \in Seq(Panel), NEW b \in Seq(Panel), NEW c \in Seq(Panel)
  PROVE  (a \o b) \o c = a \o (b \o c)
<1> DEFINE S == Panel
<1>1. a \in Seq(S) /\ b \in Seq(S) /\ c \in Seq(S)
  OBVIOUS
<1> HIDE DEF S
<1> QED
  BY <1>1, ConcatAssociative

LEMMA PlaceBelow ==
  ASSUME NEW l, Laid(l.panels, l.y), NEW section \in Asked, Tiled(section.panels)
  PROVE  \E qs \in Seq(Panel) :
           /\ Place(l, section).panels = l.panels \o qs
           /\ Laid(Place(l, section).panels, Place(l, section).y)
           /\ CountPanels(qs) = 1 + Len(section.panels)
<1> DEFINE ps == section.panels
           ns == Normalize(section.panels)
           m == Place(l, section)
<1>1. ps \in Seq(Leaf) /\ section.collapsed \in BOOLEAN /\ Group(ps)
  BY DEF Asked, Group
<1>2. /\ Group(ns) /\ SamePanels(ps, ns) /\ Height(ps) \in Nat
      /\ \A i \in DOMAIN ns : ns[i].y + ns[i].h <= Height(ps)
  BY <1>1, NormalizedGroup
<1>3. /\ ns \in Seq(Leaf) /\ ns \in Seq(Panel) /\ Tiled(ns) /\ Len(ns) = Len(ps)
      /\ l.y \in Nat /\ l.panels \in Seq(Panel)
  BY <1>2, LeafSequences DEF Group, SamePanels, Laid
<1>4. CASE section.collapsed
  <2> DEFINE qs == <<Row(l.y, ns)>>
  <2>1. m.panels = Append(l.panels, Row(l.y, ns)) /\ m.y = l.y + 1
    BY <1>4 DEF Place
  <2>2. /\ Row(l.y, ns) \in Panel
        /\ qs \in Seq(Panel) /\ Tiled(qs) /\ NestedTiled(qs)
        /\ BeginAt(qs, l.y) /\ EndBy(qs, l.y + 1) /\ RowFirst(qs)
        /\ CountPanels(qs) = 1 + Len(ns)
    BY <1>3, RowOf
  <2>3. m.panels = l.panels \o qs
    BY <1>3, <2>1, <2>2, AppendIsConcat
  <2> HIDE DEF qs, m, ps, ns
  <2>4. Laid(l.panels \o qs, l.y + 1)
    BY <1>3, <2>2, LaidBelow
  <2> QED
    BY <1>3, <2>1, <2>2, <2>3, <2>4 DEF m, ps
<1>5. CASE ~section.collapsed
  <2> DEFINE rs == <<Row(l.y, <<>>)>>
             ss == Shift(ns, l.y + 1)
  <2>1. m.panels = Append(l.panels, Row(l.y, <<>>)) \o ss /\ m.y = l.y + 1 + Height(ps)
    BY <1>5 DEF Place
  <2>2. /\ Row(l.y, <<>>) \in Panel
        /\ rs \in Seq(Panel) /\ Tiled(rs) /\ NestedTiled(rs)
        /\ BeginAt(rs, l.y) /\ EndBy(rs, l.y + 1) /\ RowFirst(rs)
        /\ CountPanels(rs) = 1
    <3>1. <<>> \in Seq(Leaf) /\ Tiled(<<>>) /\ Len(<<>>) = 0
      BY DEF Tiled
    <3> DEFINE e == <<>>
    <3>2. e \in Seq(Leaf) /\ Tiled(e) /\ Len(e) = 0
      BY <3>1
    <3> HIDE DEF e
    <3>3. /\ Row(l.y, e) \in Panel
          /\ <<Row(l.y, e)>> \in Seq(Panel) /\ Tiled(<<Row(l.y, e)>>)
          /\ NestedTiled(<<Row(l.y, e)>>)
          /\ BeginAt(<<Row(l.y, e)>>, l.y) /\ EndBy(<<Row(l.y, e)>>, l.y + 1)
          /\ RowFirst(<<Row(l.y, e)>>)
          /\ CountPanels(<<Row(l.y, e)>>) = 1 + Len(e)
      BY <1>3, <3>2, RowOf
    <3> QED
      BY <3>2, <3>3 DEF e
  <2>3. Append(l.panels, Row(l.y, <<>>)) = l.panels \o rs
    BY <1>3, <2>2, AppendIsConcat
  <2>4. \A i \in DOMAIN ns : ns[i].y \in Nat /\ ns[i].h \in Nat
    BY <1>3, ElementsOf, PanelFields
  <2>5. /\ ss \in Seq(Panel) /\ Len(ss) = Len(ns) /\ DOMAIN ss = DOMAIN ns
        /\ \A i \in DOMAIN ns : Moved(ns[i], ss[i], l.y + 1)
    BY <1>3, <2>4, ShiftMoves
  <2> HIDE DEF rs, ss, m, ps, ns
  <2>6. Tiled(ss)
    <3> DEFINE delta == l.y + 1
    <3>1. delta \in Int /\ \A i \in DOMAIN ns : ns[i].y + delta >= 0
      BY <1>3, <2>4
    <3>2. \A i \in DOMAIN ns : Moved(ns[i], ss[i], delta)
      BY <2>5
    <3> HIDE DEF delta
    <3> QED
      BY <1>3, <2>5, <3>1, <3>2, MovedStaysTiled
  <2>7. SamePanels(ns, ss)
    BY <2>5 DEF SamePanels, Moved
  <2>8. NestedTiled(ss) /\ RowFirst(ss)
    <3>1. NestedTiled(ns) /\ \A k \in DOMAIN ns : ns[k].kind # "row"
      BY <1>3, LeavesAreFlat
    <3> QED
      BY <2>7, <3>1 DEF NestedTiled, RowFirst, SamePanels
  <2>9. BeginAt(ss, l.y + 1) /\ EndBy(ss, l.y + 1 + Height(ps))
    <3> SUFFICES ASSUME NEW i \in DOMAIN ns
                 PROVE  l.y + 1 <= ss[i].y /\ ss[i].y + ss[i].h <= l.y + 1 + Height(ps)
      BY <2>5 DEF BeginAt, EndBy
    <3>1. ss[i].y = ns[i].y + (l.y + 1) /\ ss[i].h = ns[i].h
      BY <2>5 DEF Moved
    <3>2. ns[i].y \in Nat /\ ns[i].h \in Nat /\ ns[i].y + ns[i].h <= Height(ps)
      BY <1>2, <2>4
    <3> QED
      BY <1>2, <1>3, <3>1, <3>2
  <2>10. Laid(l.panels \o rs, l.y + 1)
    <3>1. l.y + 1 \in Nat /\ l.y <= l.y + 1
      BY <1>3
    <3> QED
      BY <2>2, <3>1, LaidBelow
  <2>11. Laid((l.panels \o rs) \o ss, l.y + 1 + Height(ps))
    <3> DEFINE y == l.y + 1
               z == l.y + 1 + Height(ps)
    <3>1. z \in Nat /\ y <= z
      BY <1>2, <1>3
    <3>2. BeginAt(ss, y) /\ EndBy(ss, z) /\ Laid(l.panels \o rs, y)
      BY <2>9, <2>10
    <3> HIDE DEF y, z
    <3>3. Laid((l.panels \o rs) \o ss, z)
      BY <2>5, <2>6, <2>8, <3>1, <3>2, LaidBelow
    <3> QED
      BY <3>3 DEF z
  <2> DEFINE qs == rs \o ss
  <2>12. qs \in Seq(Panel) /\ (l.panels \o rs) \o ss = l.panels \o qs
    <3>1. qs \in Seq(Panel)
      BY <2>2, <2>5, ConcatParts
    <3>2. (l.panels \o rs) \o ss = l.panels \o (rs \o ss)
      <4>1. l.panels \in Seq(Panel) /\ rs \in Seq(Panel) /\ ss \in Seq(Panel)
        BY <1>3, <2>2, <2>5
      <4> DEFINE as == l.panels
      <4> HIDE DEF as
      <4>2. (as \o rs) \o ss = as \o (rs \o ss)
        BY <4>1, ThreeParts DEF as
      <4> QED
        BY <4>2 DEF as
    <3> QED
      BY <3>1, <3>2
  <2>13. CountPanels(qs) = 1 + Len(ps)
    <3>1. CountPanels(qs) = CountPanels(rs) + CountPanels(ss)
      BY <2>2, <2>5, CountOfBoth
    <3>2. CountPanels(ss) = CountPanels(ns)
      BY <2>7, CountOfSame
    <3>3. CountPanels(ns) = Len(ps) /\ Len(ps) \in Nat
      BY <1>1, <1>3, CountOfLeaves, ElementsOf
    <3> QED
      BY <2>2, <3>1, <3>2, <3>3
  <2> HIDE DEF qs
  <2> QED
    BY <2>1, <2>3, <2>11, <2>12, <2>13 DEF m, ps
<1> QED
  BY <1>1, <1>4, <1>5

-----------------------------------------------------------------------------
(* A whole board.                                                          *)

LEMMA BoardParts ==
  ASSUME NEW board \in Board
  PROVE  /\ Group(board.headline) /\ Len(board.headline) \in Nat
         /\ Len(board.sections) \in Nat
         /\ \A k \in 1 .. Len(board.sections) :
              /\ board.sections[k] \in Asked /\ Tiled(board.sections[k].panels)
              /\ Len(board.sections[k].panels) \in Nat
<1>1. WellFormed(board)
  BY BoardsAssumption
<1>2. board.headline \in Seq(Leaf) /\ Group(board.headline)
  BY <1>1 DEF WellFormed, Group
<1>3. board.sections \in Seq(Asked)
  BY <1>1 DEF WellFormed, Asked
<1>4. ASSUME NEW k \in 1 .. Len(board.sections)
      PROVE  /\ board.sections[k] \in Asked /\ Tiled(board.sections[k].panels)
             /\ Len(board.sections[k].panels) \in Nat
  <2>1. k \in DOMAIN board.sections /\ board.sections[k] \in Asked
    BY <1>3, ElementsOf
  <2>2. board.sections[k].panels \in Seq(Leaf)
    BY <2>1 DEF Asked
  <2> QED
    BY <1>1, <2>1, <2>2, ElementsOf DEF WellFormed
<1> QED
  BY <1>2, <1>3, <1>4, ElementsOf

RowSizes(board) == [k \in DOMAIN board.sections |-> 1 + Len(board.sections[k].panels)]

LEMMA StackIsLaid ==
  ASSUME NEW board \in Board
  PROVE  /\ Laid(BuildDashboardPanels(board.headline, board.sections),
                 Stacked(board.headline, board.sections)[Len(board.sections)].y)
         /\ CountPanels(BuildDashboardPanels(board.headline, board.sections)) = Given(board)
<1> DEFINE hs == board.headline
           ss == board.sections
           f == Stacked(hs, ss)
           sizes == RowSizes(board)
           total == RunningTotal(Len(hs), sizes)
           Good(k) == /\ Laid(f[k].panels, f[k].y)
                      /\ CountPanels(f[k].panels) = total[k]
           S == {n \in Nat : n <= Len(ss) => Good(n)}
<1>1. /\ Group(hs) /\ Len(hs) \in Nat /\ Len(ss) \in Nat
      /\ \A k \in 1 .. Len(ss) : ss[k] \in Asked /\ Tiled(ss[k].panels) /\ Len(ss[k].panels) \in Nat
  BY BoardParts
<1>2. /\ f[0] = [panels |-> Normalize(hs), y |-> Height(hs)]
      /\ \A k \in 1 .. Len(ss) : f[k] = Place(f[k - 1], ss[k])
  <2>1. Len(ss) \in Nat
    BY <1>1
  <2> HIDE DEF hs, ss
  <2> QED
    BY <2>1, StackedUnfolds
<1>3. DOMAIN ss = 1 .. Len(ss)
  BY BoardsAssumption, ElementsOf DEF WellFormed
<1>4. sizes \in Seq(Nat) /\ Len(sizes) = Len(ss)
      /\ \A k \in 1 .. Len(ss) : sizes[k] = 1 + Len(ss[k].panels)
  <2> DEFINE t == RowSizes(board)
  <2>1. /\ DOMAIN t = DOMAIN ss /\ t = [k \in DOMAIN ss |-> t[k]]
    BY DEF RowSizes
  <2>2. \A k \in DOMAIN ss : t[k] = 1 + Len(ss[k].panels)
    BY DEF RowSizes
  <2> HIDE DEF t
  <2>3. \A k \in DOMAIN ss : t[k] \in Nat
    BY <1>1, <1>3, <2>2
  <2>4. ss \in Seq(Asked)
    BY BoardsAssumption DEF WellFormed, Asked
  <2>5. t \in Seq(Nat) /\ Len(t) = Len(ss)
    <3> HIDE DEF ss
    <3> QED
      BY <2>1, <2>3, <2>4, MadeFrom
  <2> QED
    BY <1>3, <2>2, <2>5 DEF t
<1> HIDE DEF sizes
<1>5. total[0] = Len(hs) /\ \A k \in 1 .. Len(ss) : total[k] = total[k - 1] + sizes[k]
  <2>1. Len(sizes) \in Nat
    BY <1>1, <1>4
  <2>2. total[0] = Len(hs) /\ \A k \in 1 .. Len(sizes) : total[k] = total[k - 1] + sizes[k]
    BY <2>1, TotalsUnfold
  <2> QED
    BY <1>4, <2>2
<1> HIDE DEF f, total
<1>6. Good(0)
  <2> DEFINE ns == Normalize(hs)
  <2>1. /\ Group(ns) /\ SamePanels(hs, ns) /\ Height(hs) \in Nat
        /\ \A i \in DOMAIN ns : ns[i].y + ns[i].h <= Height(hs)
    BY <1>1, NormalizedGroup
  <2>2. f[0].panels = ns /\ f[0].y = Height(hs)
    BY <1>2
  <2> HIDE DEF ns
  <2>3. ns \in Seq(Leaf) /\ ns \in Seq(Panel) /\ Tiled(ns)
    BY <2>1, LeafSequences DEF Group
  <2>4. NestedTiled(ns) /\ \A k \in DOMAIN ns : ns[k].kind # "row"
    BY <2>3, LeavesAreFlat
  <2>5. Laid(ns, Height(hs))
    BY <2>1, <2>3, <2>4 DEF Laid, EndBy, RowsAreBelow
  <2>6. CountPanels(ns) = Len(hs)
    BY <2>1, <2>3, CountOfLeaves DEF SamePanels
  <2> QED
    BY <1>5, <2>2, <2>5, <2>6
<1>7. ASSUME NEW n \in Nat, n + 1 <= Len(ss), Good(n) PROVE Good(n + 1)
  <2> DEFINE l == f[n]
             s == ss[n + 1]
             m == Place(l, s)
  <2>0. n + 1 \in 1 .. Len(ss) /\ n + 1 - 1 = n
    BY <1>1, <1>7
  <2>1. f[n + 1] = m /\ s \in Asked /\ Tiled(s.panels) /\ Len(s.panels) \in Nat
    BY <1>1, <1>2, <2>0
  <2>2. Laid(l.panels, l.y) /\ CountPanels(l.panels) = total[n]
    BY <1>7
  <2> HIDE DEF l, s
  <2>3. PICK qs \in Seq(Panel) :
          /\ m.panels = l.panels \o qs
          /\ Laid(m.panels, m.y)
          /\ CountPanels(qs) = 1 + Len(s.panels)
    BY <2>1, <2>2, PlaceBelow
  <2>4. l.panels \in Seq(Panel)
    BY <2>2 DEF Laid
  <2> HIDE DEF m
  <2>5. CountPanels(m.panels) = total[n + 1]
    <3>1. CountPanels(m.panels) = CountPanels(l.panels) + CountPanels(qs)
      BY <2>3, <2>4, CountOfBoth
    <3>2. total[n + 1] = total[n] + sizes[n + 1] /\ sizes[n + 1] = 1 + Len(s.panels)
      BY <1>4, <1>5, <2>0 DEF s
    <3> QED
      BY <2>2, <2>3, <3>1, <3>2
  <2> QED
    BY <2>1, <2>3, <2>5
<1>8. Good(Len(ss))
  <2> HIDE DEF Good
  <2>1. 0 \in S
    BY <1>6
  <2>2. ASSUME NEW n \in Nat, n \in S PROVE n + 1 \in S
    <3> SUFFICES ASSUME n + 1 <= Len(ss) PROVE Good(n + 1)
      OBVIOUS
    <3>1. Good(n)
      BY <1>1, <2>2
    <3> QED
      BY <1>7, <3>1
  <2> HIDE DEF S
  <2>3. Len(ss) \in S
    BY <1>1, <2>1, <2>2, Induction
  <2> QED
    BY <1>1, <2>3 DEF S
<1>9. total[Len(ss)] = Given(board)
  BY DEF Given, total, sizes, RowSizes
<1> QED
  BY <1>8, <1>9 DEF BuildDashboardPanels, f

-----------------------------------------------------------------------------
(* The navigation bar above it all.                                        *)

(* Panels with the coordinates of others are laid out alike.               *)
Alike(ps, qs) ==
  /\ DOMAIN qs = DOMAIN ps
  /\ \A i \in DOMAIN ps :
       /\ qs[i].x = ps[i].x /\ qs[i].y = ps[i].y /\ qs[i].w = ps[i].w /\ qs[i].h = ps[i].h
       /\ qs[i].kind = ps[i].kind

LEMMA AlikeIsTiled ==
  ASSUME NEW ps, NEW qs, Alike(ps, qs), Tiled(ps)
  PROVE  Tiled(qs)
BY DEF Alike, Tiled, Apart

LEMMA NavOnTop ==
  ASSUME NEW ps, NEW y, Laid(ps, y)
  PROVE  /\ Laid(PrependNav(ps), y + 3)
         /\ CountPanels(PrependNav(ps)) = CountPanels(ps) + 1
<1> DEFINE nav == At(0, 0, Columns, NAV_BAR_HEIGHT)
           ns == <<nav>>
           qs == Shift(ps, 3)
           rs == ns \o qs
<1>0. PrependNav(ps) = rs
  BY DEF PrependNav, NAV_BAR_HEIGHT
<1>1. /\ ps \in Seq(Panel) /\ y \in Nat
      /\ Tiled(ps) /\ NestedTiled(ps) /\ EndBy(ps, y) /\ RowsAreBelow(ps)
  BY DEF Laid
<1>2. /\ nav.x = 0 /\ nav.y = 0 /\ nav.w = 24 /\ nav.h = 3 /\ nav.kind = "panel"
      /\ nav.nested = <<>>
  BY DEF At, Columns, NAV_BAR_HEIGHT
<1>3. nav \in Leaf /\ nav \in Panel
  <2>1. nav \in Leaf
    BY DEF At, Columns, NAV_BAR_HEIGHT, Leaf
  <2> QED
    BY <2>1, LeavesArePanels
<1> HIDE DEF nav
<1>4. ns \in Seq(Panel) /\ DOMAIN ns = {1} /\ ns[1] = nav /\ Len(ns) = 1
  BY <1>3
<1>5. CountPanels(ns) = 1
  <2>1. Len(nav.nested) = 0
    BY <1>2
  <2> QED
    BY <1>3, <2>1, CountOfOne
<1> HIDE DEF ns
<1>6. \A i \in DOMAIN ps : ps[i].y \in Nat /\ ps[i].h \in Nat
  BY <1>1, ElementsOf, PanelFields
<1>7. /\ qs \in Seq(Panel) /\ Len(qs) = Len(ps) /\ DOMAIN qs = DOMAIN ps
      /\ \A i \in DOMAIN ps : Moved(ps[i], qs[i], 3)
  <2>1. \A i \in DOMAIN ps : ps[i].y + 3 >= 0
    BY <1>6
  <2> QED
    BY <1>1, <2>1, ShiftMoves
<1> HIDE DEF qs
<1>8. Tiled(qs)
  <2> DEFINE delta == 3
  <2>1. delta \in Int /\ \A i \in DOMAIN ps : ps[i].y + delta >= 0
    BY <1>6
  <2>2. \A i \in DOMAIN ps : Moved(ps[i], qs[i], delta)
    BY <1>7
  <2> HIDE DEF delta
  <2> QED
    BY <1>1, <1>7, <2>1, <2>2, MovedStaysTiled
<1>9. SamePanels(ps, qs)
  BY <1>7 DEF SamePanels, Moved
<1>10. \A i \in DOMAIN qs : qs[i].y = ps[i].y + 3 /\ qs[i].h = ps[i].h
  BY <1>7 DEF Moved
<1>11. Tiled(ns)
  BY <1>2, <1>4 DEF Tiled, Columns
<1>12. Tiled(rs)
  <2>1. \A i \in DOMAIN ns : ns[i].y + ns[i].h <= 3
    BY <1>2, <1>4
  <2>2. \A i \in DOMAIN qs : 3 <= qs[i].y
    BY <1>6, <1>7, <1>10
  <2> QED
    BY <1>4, <1>7, <1>8, <1>11, <2>1, <2>2, StackedIsTiled
<1>13. /\ rs \in Seq(Panel) /\ DOMAIN rs = 1 .. 1 + Len(ps) /\ Len(ps) \in Nat
       /\ DOMAIN ps = 1 .. Len(ps)
       /\ rs[1] = nav
       /\ \A i \in DOMAIN rs : i # 1 => i - 1 \in DOMAIN ps /\ rs[i] = qs[i - 1]
  <2>1. /\ DOMAIN ns = 1 .. Len(ns) /\ rs \in Seq(Panel) /\ DOMAIN rs = 1 .. Len(ns) + Len(qs)
        /\ \A i \in DOMAIN ns : rs[i] = ns[i]
        /\ \A i \in DOMAIN rs : i > Len(ns) => i - Len(ns) \in DOMAIN qs /\ rs[i] = qs[i - Len(ns)]
    BY <1>4, <1>7, ConcatParts
  <2> HIDE DEF rs
  <2>2. Len(ps) \in Nat /\ DOMAIN ps = 1 .. Len(ps)
    BY <1>1, ElementsOf
  <2> QED
    BY <1>4, <1>7, <2>1, <2>2
<1>14. CountPanels(rs) = CountPanels(ps) + 1
  <2>1. CountPanels(rs) = CountPanels(ns) + CountPanels(qs)
    BY <1>4, <1>7, CountOfBoth
  <2>2. CountPanels(qs) = CountPanels(ps) /\ CountPanels(ps) \in Nat
    BY <1>1, <1>9, CountOfSame, CountOfBoth
  <2> QED
    BY <1>5, <2>1, <2>2
<1> HIDE DEF rs
<1>15. NestedTiled(rs)
  <2> SUFFICES ASSUME NEW i \in DOMAIN rs PROVE Tiled(rs[i].nested)
    BY DEF NestedTiled
  <2>1. CASE i = 1
    <3>1. Tiled(<<>>)
      BY DEF Tiled
    <3> QED
      BY <1>2, <1>13, <2>1, <3>1
  <2>2. CASE i # 1
    BY <1>1, <1>9, <1>13, <2>2 DEF NestedTiled, SamePanels
  <2> QED
    BY <2>1, <2>2
<1>16. EndBy(rs, y + 3)
  <2> SUFFICES ASSUME NEW i \in DOMAIN rs PROVE rs[i].y + rs[i].h <= y + 3
    BY DEF EndBy
  <2>1. CASE i = 1
    BY <1>1, <1>2, <1>13, <2>1
  <2>2. CASE i # 1
    <3> DEFINE j == i - 1
    <3>1. j \in DOMAIN ps /\ rs[i] = qs[j]
      BY <1>13, <2>2
    <3> HIDE DEF j
    <3>2. ps[j].y + ps[j].h <= y /\ qs[j].y = ps[j].y + 3 /\ qs[j].h = ps[j].h
      BY <1>1, <1>7, <1>10, <3>1 DEF EndBy
    <3> QED
      BY <1>1, <1>6, <3>1, <3>2
  <2> QED
    BY <2>1, <2>2
<1>17. RowsAreBelow(rs)
  <2> SUFFICES ASSUME NEW i \in DOMAIN rs, NEW k \in DOMAIN rs, i < k, rs[k].kind = "row"
               PROVE  rs[i].y + rs[i].h <= rs[k].y
    BY DEF RowsAreBelow
  <2> DEFINE l == k - 1
  <2>1. l \in DOMAIN ps /\ rs[k] = qs[l] /\ k # 1
    BY <1>13
  <2>2. qs[l].y = ps[l].y + 3 /\ ps[l].y \in Nat /\ ps[l].kind = "row"
    BY <1>6, <1>7, <1>9, <1>10, <2>1 DEF SamePanels
  <2>3. CASE i = 1
    BY <1>2, <1>13, <2>1, <2>2, <2>3
  <2>4. CASE i # 1
    <3> DEFINE j == i - 1
    <3>1. j \in DOMAIN ps /\ rs[i] = qs[j] /\ j < l
      BY <1>13, <2>1, <2>4
    <3> HIDE DEF j, l
    <3>2. ps[j].y + ps[j].h <= ps[l].y
      BY <1>1, <2>1, <2>2, <3>1 DEF RowsAreBelow
    <3>3. qs[j].y = ps[j].y + 3 /\ qs[j].h = ps[j].h /\ ps[j].y \in Nat /\ ps[j].h \in Nat
      BY <1>6, <1>7, <1>10, <3>1
    <3> QED
      BY <2>1, <2>2, <3>1, <3>2, <3>3
  <2> QED
    BY <2>3, <2>4
<1> QED
  BY <1>0, <1>1, <1>12, <1>13, <1>14, <1>15, <1>16, <1>17 DEF Laid

-----------------------------------------------------------------------------
(* Numbering the panels.                                                   *)

(* Running totals only grow, and every number up to the last total falls   *)
(* in the span of exactly one summand.                                     *)
LEMMA TotalsGrow ==
  ASSUME NEW s \in Seq(Nat)
  PROVE  \A i \in 0 .. Len(s) : RunningTotal(0, s)[i] <= RunningTotal(0, s)[Len(s)]
<1> DEFINE f == RunningTotal(0, s)
           S == {n \in Nat : \A i \in 0 .. n : n <= Len(s) => f[i] <= f[n]}
<1>1. Len(s) \in Nat /\ \A i \in 1 .. Len(s) : s[i] \in Nat
  BY ElementsOf
<1>2. /\ \A i \in 1 .. Len(s) : f[i] = f[i - 1] + s[i]
      /\ \A i \in 0 .. Len(s) : f[i] \in Nat
  BY <1>1, TotalsUnfold, TotalsAreNatural
<1> HIDE DEF f
<1>3. 0 \in S
  BY <1>1, <1>2
<1>4. ASSUME NEW n \in Nat, n \in S PROVE n + 1 \in S
  <2> SUFFICES ASSUME NEW i \in 0 .. n + 1, n + 1 <= Len(s) PROVE f[i] <= f[n + 1]
    OBVIOUS
  <2>1. n + 1 \in 1 .. Len(s) /\ n + 1 - 1 = n /\ n \in 0 .. Len(s) /\ n + 1 \in 0 .. Len(s)
    BY <1>1
  <2>2. f[n + 1] = f[n] + s[n + 1] /\ s[n + 1] \in Nat /\ f[n] \in Nat
    BY <1>1, <1>2, <2>1
  <2>3. CASE i = n + 1
    BY <2>2, <2>3
  <2>4. CASE i \in 0 .. n
    <3>1. f[i] <= f[n] /\ f[i] \in Nat
      BY <1>1, <1>2, <1>4, <2>1, <2>4
    <3> QED
      BY <2>2, <3>1
  <2> QED
    BY <2>3, <2>4
<1>5. \A n \in Nat : n \in S
  <2> HIDE DEF S
  <2> QED
    BY <1>3, <1>4, Induction
<1> QED
  BY <1>1, <1>5 DEF f

LEMMA TotalsCover ==
  ASSUME NEW s \in Seq(Nat), NEW m \in 1 .. RunningTotal(0, s)[Len(s)]
  PROVE  \E i \in 1 .. Len(s) : RunningTotal(0, s)[i - 1] < m /\ m <= RunningTotal(0, s)[i]
<1> DEFINE f == RunningTotal(0, s)
           T == {i \in 0 .. Len(s) : m <= f[i]}
<1>1. Len(s) \in Nat
  BY ElementsOf
<1>2. f[0] = 0 /\ \A i \in 0 .. Len(s) : f[i] \in Nat
  BY <1>1, TotalsUnfold, TotalsAreNatural
<1>3. m \in 1 .. f[Len(s)]
  OBVIOUS
<1> HIDE DEF f
<1>4. T \subseteq Nat /\ Len(s) \in T
  BY <1>1, <1>2, <1>3
<1>5. PICK i \in T : \A j \in T : i <= j
  <2> HIDE DEF T
  <2> QED
    BY <1>4, LeastElement
<1>6. i # 0 /\ i \in 1 .. Len(s) /\ m <= f[i]
  BY <1>1, <1>2, <1>3, <1>5
<1>7. i - 1 \in 0 .. Len(s) /\ ~(i <= i - 1) /\ f[i - 1] \in Nat
  BY <1>1, <1>2, <1>6
<1>8. ~(m <= f[i - 1])
  BY <1>5, <1>7
<1> QED
  BY <1>2, <1>3, <1>6, <1>7, <1>8 DEF f

(* What the new panels are: the old ones, numbered.                        *)
LEMMA Numbered ==
  ASSUME NEW ps \in Seq(Panel), NEW i \in DOMAIN ps
  PROVE  LET q == AssignPanelIds(ps)[i]
             c == Counted(ps)[i - 1]
         IN  /\ q.x = ps[i].x /\ q.y = ps[i].y /\ q.w = ps[i].w /\ q.h = ps[i].h
             /\ q.kind = ps[i].kind /\ q.id = c + 1
             /\ Len(q.nested) = Len(ps[i].nested)
             /\ Alike(ps[i].nested, q.nested)
             /\ \A k \in DOMAIN q.nested : q.nested[k].id = c + 1 + k
<1> DEFINE q == AssignPanelIds(ps)[i]
           c == Counted(ps)[i - 1] + 1
           ns == ps[i].nested
           ms == [k \in DOMAIN ns |-> [ns[k] EXCEPT !.id = c + k]]
<1> HIDE DEF c
<1>1. q = [ps[i] EXCEPT !.id = c, !.nested = ms]
  BY DEF AssignPanelIds, c
<1>2. /\ ps[i] \in Panel /\ ns \in Seq(Leaf)
  BY ElementsOf, SizesOf
<1>3. /\ q.x = ps[i].x /\ q.y = ps[i].y /\ q.w = ps[i].w /\ q.h = ps[i].h
      /\ q.kind = ps[i].kind /\ q.id = c /\ q.nested = ms
  BY <1>1, <1>2 DEF Panel
<1> HIDE DEF q, ns
<1>4. DOMAIN ms = DOMAIN ns /\ DOMAIN ns = 1 .. Len(ns) /\ Len(ns) \in Nat
  BY <1>2, ElementsOf
<1>5. ASSUME NEW k \in DOMAIN ns
      PROVE  /\ ms[k].x = ns[k].x /\ ms[k].y = ns[k].y /\ ms[k].w = ns[k].w /\ ms[k].h = ns[k].h
             /\ ms[k].kind = ns[k].kind /\ ms[k].id = c + k
  <2>1. ns[k] \in Leaf
    BY <1>2, ElementsOf
  <2>2. ms[k] = [ns[k] EXCEPT !.id = c + k]
    OBVIOUS
  <2> QED
    BY <2>1, <2>2 DEF Leaf
<1>6. Len(ms) = Len(ns)
  BY <1>4
<1> HIDE DEF ms
<1>7. Alike(ns, ms)
  BY <1>4, <1>5 DEF Alike
<1> QED
  BY <1>3, <1>4, <1>5, <1>6, <1>7 DEF q, c, ns

LEMMA NumberedKeepsLayout ==
  ASSUME NEW ps, NEW y, Laid(ps, y)
  PROVE  LET qs == AssignPanelIds(ps)
         IN  /\ Tiled(qs) /\ NestedTiled(qs) /\ RowsAreBelow(qs)
             /\ CountPanels(qs) = CountPanels(ps)
<1> DEFINE qs == AssignPanelIds(ps)
<1>1. ps \in Seq(Panel) /\ Tiled(ps) /\ NestedTiled(ps) /\ RowsAreBelow(ps)
  BY DEF Laid
<1>2. DOMAIN qs = DOMAIN ps /\ qs = [i \in DOMAIN ps |-> qs[i]]
  BY DEF AssignPanelIds
<1>3. \A i \in DOMAIN ps :
        /\ qs[i].x = ps[i].x /\ qs[i].y = ps[i].y /\ qs[i].w = ps[i].w /\ qs[i].h = ps[i].h
        /\ qs[i].kind = ps[i].kind
        /\ Len(qs[i].nested) = Len(ps[i].nested)
        /\ Alike(ps[i].nested, qs[i].nested)
  BY <1>1, Numbered
<1>4. Len(qs) = Len(ps)
  <2>1. DOMAIN ps = 1 .. Len(ps) /\ Len(ps) \in Nat
    BY <1>1, ElementsOf
  <2> QED
    BY <1>2, <2>1 DEF AssignPanelIds
<1> HIDE DEF qs
<1>5. Tiled(qs)
  <2>1. Alike(ps, qs)
    BY <1>2, <1>3 DEF Alike
  <2> QED
    BY <1>1, <2>1, AlikeIsTiled
<1>6. NestedTiled(qs)
  <2> SUFFICES ASSUME NEW i \in DOMAIN ps PROVE Tiled(qs[i].nested)
    BY <1>2 DEF NestedTiled
  <2>1. Tiled(ps[i].nested) /\ Alike(ps[i].nested, qs[i].nested)
    BY <1>1, <1>3 DEF NestedTiled
  <2> QED
    BY <2>1, AlikeIsTiled
<1>7. RowsAreBelow(qs)
  BY <1>1, <1>2, <1>3 DEF RowsAreBelow
<1>8. CountPanels(qs) = CountPanels(ps)
  <2>1. Sizes(qs) = Sizes(ps)
    BY <1>2, <1>3 DEF Sizes
  <2> QED
    BY <1>4, <2>1, CountIsTotal
<1> QED
  BY <1>5, <1>6, <1>7, <1>8 DEF qs

LEMMA NumberedOnce ==
  ASSUME NEW ps \in Seq(Panel)
  PROVE  {p.id : p \in Shown(AssignPanelIds(ps))} = 1 .. CountPanels(ps)
<1> DEFINE qs == AssignPanelIds(ps)
           c == Counted(ps)
           n == Len(ps)
<1>1. n \in Nat /\ DOMAIN ps = 1 .. n
  BY ElementsOf
<1>2. DOMAIN qs = 1 .. n
  BY <1>1 DEF AssignPanelIds
<1>3. /\ Sizes(ps) \in Seq(Nat) /\ Len(Sizes(ps)) = n
      /\ \A i \in 1 .. n : Len(ps[i].nested) \in Nat /\ Sizes(ps)[i] = 1 + Len(ps[i].nested)
      /\ \A i \in 1 .. n : ps[i].nested \in Seq(Leaf)
  BY <1>1, SizesOf
<1>4. c = RunningTotal(0, Sizes(ps)) /\ CountPanels(ps) = c[n]
  BY CountIsTotal
<1>5. /\ \A i \in 1 .. n : c[i] = c[i - 1] + 1 + Len(ps[i].nested)
      /\ \A i \in 0 .. n : c[i] \in Nat /\ c[i] <= c[n]
      /\ \A m \in 1 .. c[n] : \E i \in 1 .. n : c[i - 1] < m /\ m <= c[i]
  <2> DEFINE s == Sizes(ps)
             f == RunningTotal(0, s)
  <2>1. s \in Seq(Nat) /\ Len(s) = n /\ c = f
    BY <1>3, <1>4
  <2> HIDE DEF s
  <2>2. \A i \in 0 .. Len(s) : f[i] \in Nat /\ f[i] <= f[Len(s)]
    BY <2>1, TotalsAreNatural, TotalsGrow
  <2>3. \A i \in 1 .. Len(s) : f[i] = f[i - 1] + s[i]
    BY <1>1, <2>1, TotalsUnfold
  <2>4. \A m \in 1 .. f[Len(s)] : \E i \in 1 .. Len(s) : f[i - 1] < m /\ m <= f[i]
    BY <2>1, TotalsCover
  <2> HIDE DEF f, c, n
  <2>5. \A i \in 1 .. n : f[i] = f[i - 1] + 1 + Len(ps[i].nested)
    <3> TAKE i \in 1 .. n
    <3>1. f[i] = f[i - 1] + s[i] /\ s[i] = 1 + Len(ps[i].nested) /\ Len(ps[i].nested) \in Nat
      BY <1>3, <2>1, <2>3 DEF s
    <3>2. f[i - 1] \in Nat
      BY <1>1, <2>1, <2>2
    <3> QED
      BY <3>1, <3>2
  <2> QED
    BY <2>1, <2>2, <2>4, <2>5
<1>6. \A i \in 1 .. n :
        /\ qs[i].id = c[i - 1] + 1
        /\ DOMAIN qs[i].nested = 1 .. Len(ps[i].nested)
        /\ \A k \in DOMAIN qs[i].nested : qs[i].nested[k].id = c[i - 1] + 1 + k
  <2> TAKE i \in 1 .. n
  <2>1. /\ qs[i].id = c[i - 1] + 1 /\ Alike(ps[i].nested, qs[i].nested)
        /\ \A k \in DOMAIN qs[i].nested : qs[i].nested[k].id = c[i - 1] + 1 + k
    BY <1>1, Numbered
  <2>2. DOMAIN ps[i].nested = 1 .. Len(ps[i].nested)
    BY <1>3, ElementsOf
  <2> QED
    BY <2>1, <2>2 DEF Alike
<1> HIDE DEF qs, c, n
<1>7. ASSUME NEW p \in Shown(qs) PROVE p.id \in 1 .. c[n]
  <2>1. PICK i \in 1 .. n, j \in Nat : p.id = c[i - 1] + 1 + j /\ j <= Len(ps[i].nested)
    <3>1. CASE p \in Range(qs)
      <4>1. PICK i \in 1 .. n : p = qs[i]
        BY <1>2, <3>1 DEF Range
      <4>2. p.id = c[i - 1] + 1 + 0 /\ 0 <= Len(ps[i].nested)
        <5>1. c[i - 1] \in Nat
          BY <1>1, <1>5
        <5> QED
          BY <1>3, <1>6, <4>1, <5>1
      <4> QED
        BY <4>2
    <3>2. CASE p \notin Range(qs)
      <4>1. PICK i \in 1 .. n : p \in Range(qs[i].nested)
        BY <1>2, <3>2 DEF Shown
      <4>2. PICK k \in DOMAIN qs[i].nested : p = qs[i].nested[k]
        BY <4>1 DEF Range
      <4>3. p.id = c[i - 1] + 1 + k /\ k \in 1 .. Len(ps[i].nested)
        BY <1>6, <4>2
      <4>4. k \in Nat /\ k <= Len(ps[i].nested)
        BY <1>3, <4>3
      <4> QED
        BY <4>3, <4>4
    <3> QED
      BY <3>1, <3>2
  <2>2. /\ c[i] = c[i - 1] + 1 + Len(ps[i].nested) /\ Len(ps[i].nested) \in Nat
        /\ c[i - 1] \in Nat /\ c[i] \in Nat /\ c[i] <= c[n] /\ c[n] \in Nat
    BY <1>1, <1>3, <1>5
  <2> QED
    BY <2>1, <2>2
<1>8. ASSUME NEW m \in 1 .. c[n] PROVE \E p \in Shown(qs) : p.id = m
  <2>1. PICK i \in 1 .. n : c[i - 1] < m /\ m <= c[i]
    BY <1>5
  <2>2. /\ c[i] = c[i - 1] + 1 + Len(ps[i].nested) /\ Len(ps[i].nested) \in Nat
        /\ c[i - 1] \in Nat /\ c[i] \in Nat /\ c[n] \in Nat
    BY <1>1, <1>3, <1>5
  <2> DEFINE k == m - (c[i - 1] + 1)
  <2>3. k \in 0 .. Len(ps[i].nested) /\ m = c[i - 1] + 1 + k
    <3> DEFINE a == c[i - 1]
               b == Len(ps[i].nested)
    <3>1. m \in Nat /\ a < m /\ m <= a + 1 + b /\ a \in Nat /\ b \in Nat
      BY <2>1, <2>2
    <3> HIDE DEF a, b
    <3>2. m - (a + 1) \in 0 .. b /\ m = a + 1 + (m - (a + 1))
      BY <3>1
    <3> QED
      BY <3>2 DEF a, b
  <2> HIDE DEF k
  <2>4. CASE k = 0
    <3>1. qs[i] \in Shown(qs)
      BY <1>2 DEF Shown, Range
    <3>2. qs[i].id = m
      BY <1>6, <2>2, <2>3, <2>4
    <3> QED
      BY <3>1, <3>2
  <2>5. CASE k # 0
    <3>1. k \in DOMAIN qs[i].nested
      BY <1>6, <2>2, <2>3, <2>5
    <3>2. qs[i].nested[k].id = m
      BY <1>6, <2>3, <3>1
    <3>3. qs[i].nested[k] \in Shown(qs)
      BY <1>2, <3>1 DEF Shown, Range
    <3> QED
      BY <3>2, <3>3
  <2> QED
    BY <2>4, <2>5
<1> QED
  BY <1>4, <1>7, <1>8 DEF qs

-----------------------------------------------------------------------------
(* Every dashboard of a well-formed board.                                 *)

WellMade(board, panels) ==
  /\ Tiled(panels) /\ NestedTiled(panels) /\ RowsAreBelow(panels)
  /\ {p.id : p \in Shown(panels)} = 1 .. CountPanels(panels)
  /\ CountPanels(panels) = Given(board) + 1

LEMMA DashboardsAreWellMade ==
  ASSUME NEW board \in Board
  PROVE  WellMade(board, Dashboard(board))
<1> DEFINE ps == BuildDashboardPanels(board.headline, board.sections)
           y  == Stacked(board.headline, board.sections)[Len(board.sections)].y
           ns == PrependNav(ps)
           qs == AssignPanelIds(ns)
<1>1. Laid(ps, y) /\ CountPanels(ps) = Given(board)
  BY StackIsLaid
<1> HIDE DEF ps, y
<1>2. /\ Laid(ns, y + 3) /\ CountPanels(ns) = CountPanels(ps) + 1
  BY <1>1, NavOnTop
<1> HIDE DEF ns
<1>3. /\ Tiled(qs) /\ NestedTiled(qs) /\ RowsAreBelow(qs)
      /\ CountPanels(qs) = CountPanels(ns)
  <2> DEFINE z == y + 3
  <2>1. Laid(ns, z)
    BY <1>2
  <2> HIDE DEF z
  <2> QED
    BY <1>2, <2>1, NumberedKeepsLayout
<1>4. {p.id : p \in Shown(qs)} = 1 .. CountPanels(ns)
  BY <1>2, NumberedOnce DEF Laid
<1>5. Dashboard(board) = qs
  BY DEF Dashboard, ps, ns
<1> QED
  BY <1>1, <1>2, <1>3, <1>4, <1>5 DEF WellMade

BoardSpec == BoardInit /\ [][BoardStep]_boardVars

(* What is written is what the layout makes of a board, and the boards     *)
(* still to do are boards.                                                 *)
BoardIInv ==
  /\ todo \in Seq(Board)
  /\ saved \in Seq([board : Board, panels : {Dashboard(b) : b \in Board}])
  /\ \A n \in DOMAIN saved : saved[n].panels = Dashboard(saved[n].board)

LEMMA BuildersAreBoards == builders \in Seq(Board)
<1> DEFINE B == Board
<1>1. {build_d1, build_d3, build_d4, build_d5, build_d6, build_d7, build_d9} \subseteq B
  BY DEF Board, builders, Range
<1> QED
  BY <1>1 DEF builders

LEMMA BoardTypesInit == BoardInit => BoardIInv
<1> SUFFICES ASSUME BoardInit PROVE BoardIInv
  OBVIOUS
<1>1. todo \in Seq(Board)
  <2>1. CASE todo = builders
    BY <2>1, BuildersAreBoards
  <2>2. CASE \E b \in OtherBoards : todo = <<b>>
    BY <2>2 DEF Board
  <2> QED
    BY <2>1, <2>2 DEF BoardInit
<1> QED
  BY <1>1 DEF BoardInit, BoardIInv

LEMMA BoardTypesStep == BoardIInv /\ [BoardStep]_boardVars => BoardIInv'
<1> SUFFICES ASSUME BoardIInv, [BoardStep]_boardVars PROVE BoardIInv'
  OBVIOUS
<1>1. CASE Generate
  <2> DEFINE Written == [board : Board, panels : {Dashboard(b) : b \in Board}]
             h == Head(todo)
             e == [board |-> h, panels |-> Dashboard(h)]
  <2>1. todo \in Seq(Board) /\ todo # <<>> /\ todo' = Tail(todo) /\ saved' = Append(saved, e)
    BY <1>1 DEF Generate, BoardIInv
  <2>2. h \in Board /\ todo' \in Seq(Board)
    BY <2>1, HeadTailProperties
  <2> HIDE DEF h
  <2>3. e \in Written /\ e.board = h /\ e.panels = Dashboard(h)
    BY <2>2
  <2> HIDE DEF e
  <2>4. saved \in Seq(Written)
    BY DEF BoardIInv
  <2> HIDE DEF Written
  <2>5. /\ saved' \in Seq(Written) /\ Len(saved') = Len(saved) + 1
        /\ \A n \in 1 .. Len(saved) : saved'[n] = saved[n]
        /\ saved'[Len(saved) + 1] = e
    BY <2>1, <2>3, <2>4, AppendProperties
  <2>6. DOMAIN saved = 1 .. Len(saved) /\ DOMAIN saved' = 1 .. Len(saved') /\ Len(saved) \in Nat
    BY <2>4, <2>5, ElementsOf
  <2>7. \A n \in DOMAIN saved' : saved'[n].panels = Dashboard(saved'[n].board)
    <3> SUFFICES ASSUME NEW n \in DOMAIN saved' PROVE saved'[n].panels = Dashboard(saved'[n].board)
      OBVIOUS
    <3>1. CASE n \in DOMAIN saved
      <4>1. saved'[n] = saved[n] /\ saved[n].panels = Dashboard(saved[n].board)
        BY <2>5, <2>6, <3>1 DEF BoardIInv
      <4> QED
        BY <4>1
    <3>2. CASE n \notin DOMAIN saved
      <4>1. n = Len(saved) + 1
        BY <2>5, <2>6, <3>2
      <4>2. saved'[n] = e
        BY <2>5, <4>1
      <4> QED
        BY <2>3, <4>2
    <3> QED
      BY <3>1, <3>2
  <2> QED
    BY <2>2, <2>5, <2>7 DEF BoardIInv, Written
<1>2. CASE UNCHANGED boardVars
  BY <1>2 DEF BoardIInv, boardVars
<1> QED
  BY <1>1, <1>2 DEF BoardStep

(* Every dashboard written is the layout of one of the boards              *)
(* (generate_dashboards.py l.2577).                                        *)
THEOREM DashboardsAreLaidOut == BoardSpec => []BoardIInv
<1>1. BoardInit => BoardIInv
  BY BoardTypesInit
<1>2. BoardIInv /\ [BoardStep]_boardVars => BoardIInv'
  BY BoardTypesStep
<1> QED
  BY <1>1, <1>2, PTL DEF BoardSpec

LEMMA WrittenAreWellMade ==
  ASSUME BoardIInv, NEW n \in DOMAIN saved
  PROVE  saved[n].board \in Board /\ WellMade(saved[n].board, saved[n].panels)
<1> DEFINE Written == [board : Board, panels : {Dashboard(b) : b \in Board}]
<1>1. saved \in Seq(Written)
  BY DEF BoardIInv
<1>2. saved[n] \in Written
  <2> HIDE DEF Written
  <2> QED
    BY <1>1, ElementsOf
<1>3. saved[n].board \in Board /\ saved[n].panels = Dashboard(saved[n].board)
  BY <1>2 DEF BoardIInv
<1> QED
  BY <1>3, DashboardsAreWellMade

(* Whatever well-formed groups the builders ask for, no two panels shown   *)
(* together overlap, none leaves the grid, rows lie below what is above    *)
(* them, and the ids number the panels without gap or repetition.          *)
THEOREM DashboardsAreTiled == BoardSpec => []PanelsAreTiled
<1>1. BoardIInv => PanelsAreTiled
  <2> SUFFICES ASSUME BoardIInv, NEW n \in DOMAIN saved
               PROVE  WellMade(saved[n].board, saved[n].panels) => 
                        LET panels == saved[n].panels
                        IN  /\ Tiled(panels)
                            /\ \A i \in DOMAIN panels : Tiled(panels[i].nested)
                            /\ \A i, k \in DOMAIN panels :
                                 i < k /\ panels[k].kind = "row"
                                   => panels[i].y + panels[i].h <= panels[k].y
                            /\ {p.id : p \in Shown(panels)} = 1 .. CountPanels(panels)
                            /\ CountPanels(panels) = Given(saved[n].board) + 1
    BY WrittenAreWellMade DEF PanelsAreTiled
  <2> QED
    BY DEF WellMade, NestedTiled, RowsAreBelow
<1> QED
  BY <1>1, DashboardsAreLaidOut, PTL

=============================================================================
