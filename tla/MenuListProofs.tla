--------------------------- MODULE MenuListProofs ---------------------------
(***************************************************************************)
(* MenuList for any tree of lists, and screens and stacks of any size: the  *)
(* types, and where the user is in the tree.                               *)
(***************************************************************************)
EXTENDS MenuList, SequenceTheorems, TLAPS

LEMMA Sizes ==
    /\ Onscreen \in Int /\ 1 <= Onscreen
    /\ Wrap \in Int /\ Onscreen < Wrap
    /\ \A l \in List : Size(l) \in Int /\ 1 <= Size(l) /\ Size(l) + Onscreen <= Wrap
    /\ MaxDepth \in Int /\ 1 <= MaxDepth /\ Root \in List
  <1>1. \A l \in List : Len(Items[l]) \in Nat
    <2> SUFFICES ASSUME NEW l \in List PROVE Len(Items[l]) \in Nat
      OBVIOUS
    <2>1. Items[l] \in Seq(List \cup {Callback, TreeBack})
      BY ConstantsAssumption DEF ConstantsAssumption
    <2> QED
      BY <2>1, LenProperties
  <1> QED
    BY <1>1, ConstantsAssumption DEF ConstantsAssumption, Size

LEMMA Indices ==
    /\ 0 \in Index /\ 0 \in Row
    /\ \A x \in Int : x % Wrap \in Index
    /\ \A l \in List : Size(l) \in Index
  BY Sizes DEF Index, Row

LEMMA ObjectTypes ==
    /\ Off \in Texts /\ Off \in Highlights /\ Off \in Bars
    /\ Blank \in [Row -> Texts]
  BY DEF Texts, Highlights, Bars, Blank

(* The types hold, whatever the cores read of each other.                  *)
LEMMA NextTypeOK == TypeOK /\ [Next]_vars => TypeOK'
<1> SUFFICES ASSUME TypeOK, [Next]_vars PROVE TypeOK'
  OBVIOUS
<1>0. row \in Int /\ 0 <= row /\ row < Onscreen /\ selected \in Int /\ 0 <= selected /\ selected < Wrap
      /\ scroll \in Int
  BY Sizes DEF TypeOK, Row, Index
<1> USE DEF TypeOK, Handles, Draws, HandlerStep, LoopStep, tree, objects, locals, drawing, keeps
<1>1. CASE NavUp
  <2>1. selected' \in Index
    BY <1>0, <1>1, Sizes DEF NavUp, Index
  <2> QED
    BY <1>1, <2>1 DEF NavUp
<1>2. CASE NavDown
  <2>1. selected' \in Index
    BY <1>0, <1>2, Sizes DEF NavDown, Index
  <2> QED
    BY <1>2, <2>1 DEF NavDown
<1>3. ASSUME NEW held \in BOOLEAN, PreSelect(held) PROVE TypeOK'
  BY <1>3 DEF PreSelect
<1>4. CASE Select
  BY <1>4 DEF Select
<1>5. CASE Open
  BY <1>5, Sizes DEF Open, Set
<1>6. CASE Leave \/ Sleep
  <2>1. screen' \in [texts : [Row -> Texts], highlight : Highlights, bar : Bars]
    BY <1>6, ObjectTypes DEF Leave, Sleep, Unbind
  <2> QED
    BY <1>6, <2>1, ObjectTypes DEF Leave, Sleep, Unbind
<1>7. CASE Descend
  BY <1>7 DEF Descend
<1>8. CASE Stay
  BY <1>8 DEF Stay
<1>9. CASE Ascend
  <2>1. Len(back) \in 1 .. Len(back) /\ back[Len(back)] \in List
    BY <1>9 DEF Ascend
  <2>2. SubSeq(back, 1, Len(back) - 1) \in Seq(List)
    BY <2>1
  <2> QED
    BY <1>9, <2>1, <2>2 DEF Ascend
<1>10. CASE Point \/ First \/ Ask
  BY <1>10, Indices DEF Point, First, Ask
<1>11. CASE Reset
  BY <1>11, Indices, ObjectTypes DEF Reset
<1>12. CASE Redraw \/ Call \/ Below \/ Above
  BY <1>12 DEF Redraw, Call, Below, Above
<1>21. CASE HasItem
  <2>1. item' \in Index
    BY <1>0, <1>21, Indices DEF HasItem, NextItem
  <2> QED
    BY <1>21, <2>1 DEF HasItem
<1>13. CASE Raise \/ Lower
  <2>1. selected - Onscreen + 1 \in Int
    BY <1>0, Sizes
  <2>2. scroll' \in Index
    BY <1>13, <2>1, Indices DEF Raise, Lower
  <2> QED
    BY <1>13, <2>2 DEF Raise, Lower
<1>14. CASE HasBar
  BY <1>14, ObjectTypes DEF HasBar
<1>15. CASE Thumb
  <2>1. bar' \in Bars
    BY <1>15, Indices DEF Thumb, Bars
  <2> QED
    BY <1>15, <2>1 DEF Thumb
<1>16. ASSUME NEW step, NextRow(step) PROVE row' \in Row /\ loop' \in {"row", "render"}
  BY <1>0, <1>16, Sizes DEF NextRow, Row
<1>17. CASE HasNone
  <2>1. texts' \in [Row -> Texts]
    BY <1>17, ObjectTypes DEF HasNone
  <2> QED
    BY <1>16, <1>17, <2>1 DEF HasNone
<1>18. CASE PrintRow
  <2>1. item' \in Index
    BY <1>18, Indices DEF PrintRow
  <2>2. texts' \in [Row -> Texts]
    BY <1>18, <2>1 DEF PrintRow, Texts
  <2>3. highlight' \in Highlights
    BY <1>18 DEF PrintRow, Highlights
  <2> QED
    BY <1>16, <1>18, <2>1, <2>2, <2>3 DEF PrintRow
<1>19. CASE Render
  BY <1>19 DEF Render, Picture
<1>20. CASE UNCHANGED vars
  BY <1>20 DEF vars
<1> QED
  BY <1>1, <1>2, <1>3, <1>4, <1>5, <1>6, <1>7, <1>8, <1>9, <1>10, <1>11, <1>12, <1>13, <1>14,
     <1>15, <1>17, <1>18, <1>19, <1>20, <1>21 DEF Next, Press, Handlers, Loop

THEOREM TypeCorrect == Spec => []TypeOK
<1>1. Init => TypeOK
  <2> SUFFICES ASSUME Init PROVE TypeOK
    OBVIOUS
  <2>1. screen \in [texts : [Row -> Texts], highlight : Highlights, bar : Bars]
    BY ObjectTypes DEF Init, Picture
  <2>2. back \in Seq(List)
    BY DEF Init
  <2> QED
    BY <2>1, <2>2, Sizes, Indices, ObjectTypes DEF Init, TypeOK, HandlerStep, LoopStep
<1> QED
  BY <1>1, NextTypeOK, PTL DEF Spec

-----------------------------------------------------------------------------
(* A handler runs in the menu, and init begins at the first item.          *)
Placed ==
    /\ handler \in {"select", "first", "reset", "force"} => bound
    /\ handler = "reset" => selected = 0

(* The path from the root, without the list it is about.                   *)
Path(k) == IF k <= Len(back) THEN back[k] ELSE list
OnPath ==
    /\ Path(1) = Root
    /\ Len(back) < MaxDepth
    /\ \A k \in 1 .. Len(back) : Leads(Path(k), Path(k + 1))
OnItem == bound /\ handler \in {"idle", "select", "force"} => selected < Size(list)

LEMMA ItemLeads ==
  ASSUME TypeOK, selected < Size(list) PROVE Leads(list, Chosen)
  <1>1. selected + 1 \in 1 .. Size(list)
    BY Sizes DEF TypeOK, Index
  <1> QED
    BY <1>1 DEF Leads, Chosen

(* What core 1 does is of no concern to the handlers, nor to the tree.      *)
LEMMA LoopKeeps == Loop => UNCHANGED <<bound, list, back, selected, pre, handler>>
  BY DEF Loop, keeps, tree, Redraw, Call, Below, Raise, Above, Lower, HasBar, Thumb,
     HasItem, HasNone, PrintRow, Render

LEMMA NextPlaced == TypeOK /\ Placed /\ [Next]_vars => Placed'
<1> SUFFICES ASSUME Placed, [Next]_vars PROVE Placed'
  OBVIOUS
<1> USE DEF Placed, Handles
<1>1. CASE NavUp \/ NavDown \/ Select \/ Open \/ (\E held \in BOOLEAN : PreSelect(held))
  BY <1>1 DEF NavUp, NavDown, Select, Open, PreSelect
<1>2. CASE Leave \/ Sleep \/ Stay \/ Descend \/ Ascend
  BY <1>2 DEF Leave, Sleep, Stay, Descend, Ascend
<1>3. CASE Point \/ First \/ Reset \/ Ask
  BY <1>3 DEF Point, First, Reset, Ask
<1>4. CASE Loop
  BY <1>4, LoopKeeps
<1>5. CASE UNCHANGED vars
  BY <1>5 DEF vars
<1> QED
  BY <1>1, <1>2, <1>3, <1>4, <1>5 DEF Next, Press, Handlers

(* Nothing else moves in the tree.                                         *)
LEMMA TreeKept == ASSUME [Next]_vars, ~Descend, ~Ascend, ~Open PROVE UNCHANGED <<list, back>>
<1>1. CASE NavUp \/ NavDown \/ Select \/ (\E held \in BOOLEAN : PreSelect(held))
  BY <1>1 DEF NavUp, NavDown, Select, PreSelect, tree
<1>2. CASE Leave \/ Sleep \/ Stay
  BY <1>2 DEF Leave, Sleep, Stay, tree
<1>3. CASE Point \/ First \/ Reset \/ Ask
  BY <1>3 DEF Point, First, Reset, Ask, tree
<1>4. CASE Loop
  BY <1>4, LoopKeeps
<1>5. CASE UNCHANGED vars
  BY <1>5 DEF vars, tree
<1> QED
  BY <1>1, <1>2, <1>3, <1>4, <1>5 DEF Next, Press, Handlers

LEMMA NextOnPath == TypeOK /\ Placed /\ OnItem /\ OnPath /\ [Next]_vars => OnPath'
<1> SUFFICES ASSUME TypeOK, Placed, OnItem, OnPath, [Next]_vars PROVE OnPath'
  OBVIOUS
<1>0. back \in Seq(List) /\ Len(back) \in Nat
  BY DEF TypeOK
<1>1. CASE Open
  <2>1. list' = Root /\ back' = <<>>
    BY <1>1 DEF Open, Set
  <2>2. Len(back') = 0
    BY <2>1
  <2> QED
    BY <2>1, <2>2, Sizes DEF OnPath, Path
<1>2. CASE Descend
  <2>1. back' = Append(back, list) /\ list' = Chosen /\ Len(back) < MaxDepth - 1
    BY <1>2 DEF Descend
  <2>2. Leads(list, Chosen)
    BY <1>2, ItemLeads DEF Descend, Handles, Placed, OnItem
  <2>3. Len(back') = Len(back) + 1 /\ Len(back') < MaxDepth
    BY <1>0, <2>1, Sizes DEF TypeOK
  <2>4. \A k \in 1 .. Len(back) + 1 : Path(k)' = Path(k)
    BY <1>0, <2>1, <2>3 DEF TypeOK, Path
  <2>5. /\ \A k : k = Len(back) + 2 => Path(k)' = Chosen
        /\ Path(Len(back) + 1) = list
    BY <1>0, <2>1, <2>3 DEF Path
  <2>6. ASSUME NEW k \in 1 .. Len(back') PROVE Leads(Path(k)', Path(k + 1)')
    <3>1. CASE k = Len(back) + 1
      <4>1. k \in 1 .. Len(back) + 1 /\ k + 1 = Len(back) + 2
        BY <1>0, <3>1
      <4>2. Path(k)' = list /\ Path(k + 1)' = Chosen
        BY <2>4, <2>5, <3>1, <4>1
      <4> QED
        BY <2>2, <4>2
    <3>2. CASE k # Len(back) + 1
      <4>1. k \in 1 .. Len(back) /\ k + 1 \in 1 .. Len(back) + 1 /\ k \in 1 .. Len(back) + 1
        BY <1>0, <2>3, <3>2
      <4> QED
        BY <2>4, <4>1 DEF OnPath
    <3> QED
      BY <3>1, <3>2
  <2>7. Path(1)' = Root
    BY <1>0, <2>4 DEF OnPath
  <2> QED
    BY <2>3, <2>6, <2>7 DEF OnPath, Leads
<1>3. CASE Ascend
  <2>1. /\ back # <<>> /\ Len(back) >= 1
        /\ list' = back[Len(back)] /\ back' = SubSeq(back, 1, Len(back) - 1)
    BY <1>0, <1>3 DEF Ascend
  <2>2. Len(back') = Len(back) - 1
    <3>1. \A i \in 1 .. Len(back) - 1 : back[i] \in List
      BY <1>0
    <3> DEFINE n == Len(back) - 1
    <3>2. n \in Int /\ 1 \in Int
      BY <1>0
    <3>3. Len(SubSeq(back, 1, n)) = IF 1 <= n THEN n - 1 + 1 ELSE 0
      <4> HIDE DEF n
      <4>1. \A i \in 1 .. n : back[i] \in List
        BY <3>1 DEF n
      <4> QED
        BY <3>2, <4>1, SubSeqProperties
    <3>4. back' = SubSeq(back, 1, n)
      BY <2>1
    <3>5. n \in Int /\ 0 <= n
      BY <1>0, <2>1
    <3>6. Len(back') = n
      <4> HIDE DEF n
      <4> QED
        BY <3>3, <3>4, <3>5
    <3> QED
      BY <3>6
  <2>3. ASSUME NEW k \in 1 .. Len(back) PROVE Path(k)' = Path(k)
    <3>1. CASE k = Len(back)
      BY <1>0, <2>1, <2>2, <3>1 DEF Path
    <3>2. CASE k # Len(back)
      <4>1. k \in 1 .. Len(back) - 1
        BY <1>0, <3>2
      <4>2. back'[k] = back[k]
        BY <1>0, <2>1, <4>1
      <4> QED
        BY <1>0, <2>2, <4>1, <4>2 DEF Path
    <3> QED
      BY <3>1, <3>2
  <2>4. \A k \in 1 .. Len(back') : Leads(Path(k)', Path(k + 1)')
    <3> SUFFICES ASSUME NEW k \in 1 .. Len(back') PROVE Leads(Path(k)', Path(k + 1)')
      OBVIOUS
    <3>1. k \in 1 .. Len(back) /\ k + 1 \in 1 .. Len(back)
      BY <1>0, <2>2
    <3> QED
      BY <2>3, <3>1 DEF OnPath
  <2>5. Path(1)' = Root /\ Len(back') < MaxDepth
    BY <1>0, <2>1, <2>2, <2>3, Sizes DEF OnPath
  <2> QED
    BY <2>4, <2>5 DEF OnPath, Leads
<1>4. CASE ~Descend /\ ~Ascend /\ ~Open
  <2>1. UNCHANGED <<list, back>>
    BY <1>4, TreeKept
  <2> QED
    BY <2>1 DEF OnPath, Path, Leads
<1> QED
  BY <1>1, <1>2, <1>3, <1>4

LEMMA NextOnItem == TypeOK /\ Placed /\ OnItem /\ [Next]_vars => OnItem'
<1> SUFFICES ASSUME TypeOK, Placed, OnItem, [Next]_vars PROVE OnItem'
  OBVIOUS
<1>0. selected \in Int /\ Size(list) \in Int /\ 1 <= Size(list)
  BY Sizes DEF TypeOK, Index
<1>1. CASE NavUp
  BY <1>0, <1>1 DEF NavUp, Handles, OnItem, tree, Size
<1>2. CASE NavDown
  BY <1>0, <1>2 DEF NavDown, Handles, OnItem, tree, Size
<1>3. CASE Reset
  BY <1>0, <1>3 DEF Reset, Handles, Placed, OnItem, tree, Size
<1>4. CASE Select \/ Stay \/ (\E held \in BOOLEAN : PreSelect(held))
  BY <1>4 DEF Select, Stay, PreSelect, Handles, Placed, OnItem, tree, Size
<1>5. CASE Open \/ Descend \/ Ascend \/ Point \/ First \/ Leave \/ Sleep
  BY <1>5 DEF Open, Descend, Ascend, Point, First, Leave, Sleep, Unbind, Handles, OnItem
<1>6. CASE Ask
  BY <1>6 DEF Ask, Handles, OnItem, tree, Size
<1>7. CASE Loop
  BY <1>7, LoopKeeps DEF OnItem, Size
<1>8. CASE UNCHANGED vars
  BY <1>8 DEF vars, tree, OnItem, Size
<1> QED
  BY <1>1, <1>2, <1>3, <1>4, <1>5, <1>6, <1>7, <1>8 DEF Next, Press, Handlers

LEMMA AlwaysInTree == Spec => [](Placed /\ OnItem /\ OnPath)
<1>1. Init => Placed /\ OnItem /\ OnPath
  <2> SUFFICES ASSUME Init PROVE Placed /\ OnItem /\ OnPath
    OBVIOUS
  <2>1. back = <<>> /\ Len(back) = 0 /\ list = Root /\ selected = 0 /\ handler = "idle"
    BY DEF Init
  <2> QED
    BY <2>1, Sizes DEF Placed, OnItem, OnPath, Path
<1> QED
  BY <1>1, TypeCorrect, NextPlaced, NextOnItem, NextOnPath, PTL DEF Spec

(* The back stack is the path to the list that is shown, which fits the     *)
(* stack, and the selected item is in it (menu_list.c:91, 98-116).          *)
THEOREM SomewhereInTreeHolds == Spec => []SomewhereInTree
<1>1. TypeOK /\ OnItem /\ OnPath => SomewhereInTree
  <2> SUFFICES ASSUME TypeOK, OnItem, OnPath PROVE SomewhereInTree
    OBVIOUS
  <2>1. back \in Seq(List) /\ Len(back) \in Nat
    BY DEF TypeOK
  <2>2. \A k \in 1 .. Len(back) + 1 : Append(back, list)[k] = Path(k)
    BY <2>1 DEF TypeOK, Path
  <2>3. \A k \in 1 .. Len(back) : k \in 1 .. Len(back) + 1 /\ k + 1 \in 1 .. Len(back) + 1
    BY <2>1
  <2>4. 1 \in 1 .. Len(back) + 1
    BY <2>1
  <2> QED
    BY <2>2, <2>3, <2>4 DEF SomewhereInTree, OnItem, OnPath
<1> QED
  BY <1>1, TypeCorrect, AlwaysInTree, PTL
-----------------------------------------------------------------------------
(* Core 0 has asked for nothing since core 1 began to draw, and will ask    *)
(* for nothing on account of what it does now.                             *)
Calm == bound /\ handler \in {"idle", "select"} /\ ~force

(* The index of the item on row r. *)
At(r) == (scroll + r) % Wrap
InView == (\E r \in Row : At(r) = selected) /\ (selected = 0 => scroll = 0)
TextOf(r) == IF At(r) < Size(list) THEN <<list, At(r)>> ELSE Off
BarIsSet == bar = IF Size(list) > Onscreen THEN <<scroll, Size(list)>> ELSE Off

(* What has been done for the rows before n. *)
RowsDone(n) ==
    /\ \A r \in Row : r < n => texts[r] = TextOf(r)
    /\ \A r \in Row : r < n /\ At(r) = selected => highlight # Off
    /\ highlight # Off => At(highlight[1]) = selected

(* How far core 1 has come. *)
Begun ==
    /\ loop = "raise" => selected > At(Onscreen - 1)
    /\ loop = "above" => selected <= At(Onscreen - 1)
    /\ loop \in {"bar", "thumb", "row", "print", "render", "idle"} => InView
    /\ loop = "thumb" => Size(list) > Onscreen /\ highlight = Off
    /\ loop \in {"row", "print", "render", "idle"} => BarIsSet
    /\ loop \in {"row", "print"} => RowsDone(row)
    /\ loop = "print" => At(row) < Size(list) /\ item = At(row)
    /\ loop \in {"render", "idle"} => RowsDone(Onscreen)
    /\ loop = "idle" => screen = Picture

Drawn == (loop \notin {"row", "print"} => row = 0) /\ (Calm => Begun)

LEMMA Mod ==
    /\ \A x \in Int : 0 <= x /\ x < Wrap => x % Wrap = x
    /\ \A x \in Int : Wrap <= x /\ x < Wrap + Wrap => x % Wrap = x - Wrap
    /\ \A x \in Int : x < 0 /\ 0 <= x + Wrap => x % Wrap = x + Wrap
  BY Sizes

LEMMA Numbers ==
  ASSUME TypeOK
  PROVE  /\ selected \in Int /\ 0 <= selected /\ selected < Wrap
         /\ scroll \in Int /\ 0 <= scroll /\ scroll < Wrap
         /\ row \in Int /\ 0 <= row /\ row < Onscreen
         /\ Size(list) \in Int
  BY Sizes DEF TypeOK, Index, Row

LEMMA Rows == \A r : r \in Row <=> r \in Int /\ 0 <= r /\ r < Onscreen
  BY Sizes DEF Row

(* The three ways menu_list_scroll_selection_onscreen ends.                *)
LEMMA Raised ==
  ASSUME TypeOK, Raise, selected > At(Onscreen - 1)
  PROVE  InView'
  <1>1. selected' = selected /\ scroll' = (selected - Onscreen + 1) % Wrap
    BY DEF Raise, keeps
  <1>2. Onscreen - 1 \in Row /\ Onscreen - 1 \in Int
    BY Sizes, Rows
  <1>3. selected # 0
    <2>1. At(Onscreen - 1) \in 0 .. Wrap - 1
      BY Numbers, Sizes, Indices DEF At, Index
    <2> QED
      BY <2>1, Sizes
  <1>4. (scroll' + (Onscreen - 1)) % Wrap = selected
    <2>1. CASE selected - Onscreen + 1 >= 0
      <3>1. scroll' = selected - Onscreen + 1
        BY <1>1, <2>1, Numbers, Sizes, Mod
      <3>2. scroll' + (Onscreen - 1) = selected
        BY <3>1, Numbers, Sizes
      <3> QED
        BY <3>2, Numbers, Mod
    <2>2. CASE ~(selected - Onscreen + 1 >= 0)
      <3>1. scroll' = selected - Onscreen + 1 + Wrap
        BY <1>1, <2>2, Numbers, Sizes, Mod
      <3>2. scroll' + (Onscreen - 1) = selected + Wrap
        BY <3>1, Numbers, Sizes
      <3>3. (selected + Wrap) % Wrap = selected
        BY Numbers, Sizes, Mod
      <3> QED
        BY <3>2, <3>3
    <2> QED
      BY <2>1, <2>2
  <1> QED
    BY <1>1, <1>2, <1>3, <1>4 DEF InView, At

LEMMA Fitting ==
  ASSUME TypeOK, selected <= At(Onscreen - 1), ~(selected < scroll)
  PROVE  InView
  <1>1. scroll + (Onscreen - 1) < Wrap
    <2> SUFFICES ASSUME ~(scroll + (Onscreen - 1) < Wrap) PROVE FALSE
      OBVIOUS
    <2>1. At(Onscreen - 1) = scroll + (Onscreen - 1) - Wrap
      BY Numbers, Sizes, Mod DEF At
    <2> QED
      BY <2>1, Numbers, Sizes
  <1>2. At(Onscreen - 1) = scroll + (Onscreen - 1)
    BY <1>1, Numbers, Sizes, Mod DEF At
  <1>3. selected - scroll \in Row
    BY <1>2, Numbers, Sizes, Rows
  <1>4. scroll + (selected - scroll) = selected
    BY Numbers
  <1>5. At(selected - scroll) = selected
    BY <1>4, Numbers, Mod DEF At
  <1>6. selected = 0 => scroll = 0
    BY Numbers
  <1> QED
    BY <1>3, <1>5, <1>6 DEF InView

LEMMA Lowered == ASSUME TypeOK, Lower PROVE InView'
  <1>1. scroll' = selected /\ selected' = selected
    BY DEF Lower, keeps
  <1>2. (scroll' + 0) % Wrap = selected
    BY <1>1, Numbers, Mod
  <1> QED
    BY <1>1, <1>2, Indices DEF InView, At

(* What a row adds. *)
LEMMA RowAdded ==
  ASSUME TypeOK, RowsDone(row), Calm, HasNone \/ (PrintRow /\ At(row) < Size(list) /\ item = At(row)),
         selected < Size(list), NEW n, n = row + 1
  PROVE  RowsDone(n)'
  <1>1. UNCHANGED <<list, selected, scroll>>
    BY DEF HasNone, PrintRow, keeps, tree
  <1>2. \A r : At(r)' = At(r) /\ TextOf(r)' = TextOf(r)
    BY <1>1 DEF At, TextOf, Size
  <1>3. NextItem = At(row) /\ row \in Row
    BY DEF NextItem, At, TypeOK
  <1>4. texts'[row] = TextOf(row) /\ \A r \in Row : r # row => texts'[r] = texts[r]
    <2>1. CASE HasNone
      <3>1. ~(At(row) < Size(list))
        <4>1. At(row) \in Int
          BY Numbers, Indices, Sizes DEF At, Index
        <4> QED
          BY <2>1, <1>3, <4>1, Numbers DEF HasNone
      <3> QED
        BY <1>3, <2>1, <3>1 DEF HasNone, TypeOK, TextOf
    <2>2. CASE PrintRow /\ At(row) < Size(list) /\ item = At(row)
      BY <1>3, <2>2 DEF PrintRow, TypeOK, TextOf
    <2> QED
      BY <2>1, <2>2
  <1>5. (At(row) = selected => highlight' # Off) /\ (highlight # Off => highlight' # Off)
    <2>1. CASE HasNone
      <3>1. At(row) # selected
        BY <1>3, <2>1, Numbers DEF HasNone
      <3> QED
        BY <2>1, <3>1 DEF HasNone
    <2>2. CASE PrintRow /\ item = At(row)
      BY <2>2 DEF PrintRow, Off
    <2> QED
      BY <2>1, <2>2
  <1>6. highlight' # Off => At(highlight'[1]) = selected
    <2>1. CASE highlight' = highlight
      BY <2>1 DEF RowsDone
    <2>2. CASE highlight' = <<row, pre>> /\ At(row) = selected
      BY <2>2
    <2> QED
      BY <2>1, <2>2 DEF HasNone, PrintRow
  <1>7. \A r \in Row : r < n => r < row \/ r = row
    BY Numbers, Rows
  <1>8. \A r \in Row : r < n => texts'[r] = TextOf(r)
    BY <1>4, <1>7 DEF RowsDone
  <1>9. \A r \in Row : r < n /\ At(r) = selected => highlight' # Off
    BY <1>5, <1>7 DEF RowsDone
  <1> QED
    BY <1>1, <1>2, <1>6, <1>8, <1>9 DEF RowsDone

LEMMA NextDrawn == TypeOK /\ OnItem /\ Drawn /\ [Next]_vars => Drawn'
<1> SUFFICES ASSUME TypeOK, OnItem, Drawn, [Next]_vars PROVE Drawn'
  OBVIOUS
<1> USE DEF Draws, keeps, tree, objects, locals, drawing
<1>2. CASE Reset \/ Leave \/ Sleep
  <2>1. ~Calm' /\ UNCHANGED <<loop, row>>
    BY <1>2 DEF Reset, Leave, Sleep, Unbind, Handles, Calm
  <2> QED
    BY <2>1 DEF Drawn
<1>3. CASE NavUp \/ NavDown \/ (\E held \in BOOLEAN : PreSelect(held)) \/ Open \/ Descend \/ Ascend
           \/ Point \/ First \/ Ask
  <2>1. ~Calm' /\ UNCHANGED <<loop, row>>
    BY <1>3 DEF NavUp, NavDown, PreSelect, Open, Descend, Ascend, Point, First, Ask, Handles, Calm
  <2> QED
    BY <2>1 DEF Drawn
<1>4. CASE Select \/ Stay \/ UNCHANGED vars
  <2>1. /\ Calm' => Calm
        /\ UNCHANGED <<list, selected, scroll, loop, row, item, texts, highlight, bar, screen>>
    BY <1>4 DEF Select, Stay, vars, Handles, Calm
  <2>2. Begun => Begun'
    BY <2>1 DEF Begun, InView, BarIsSet, RowsDone, TextOf, At, Picture, Size
  <2> QED
    BY <2>1, <2>2 DEF Drawn
<1>5. CASE Redraw
  BY <1>5 DEF Redraw, Drawn, Begun
<1>6. CASE Loop /\ ~Redraw
  <2>1. UNCHANGED <<bound, handler, force>>
    <3>1. UNCHANGED force
      BY <1>6 DEF Loop, Call, Below, Raise, Above, Lower, HasBar, Thumb, HasItem, HasNone, PrintRow, Render
    <3> QED
      BY <1>6, <3>1, LoopKeeps
  <2>2. Calm' => Calm /\ Begun /\ selected < Size(list)
    BY <2>1 DEF Calm, Drawn, OnItem
  <2>3. loop' \notin {"row", "print"} => row' = 0
    BY <1>6 DEF Loop, Drawn, Call, Below, Raise, Above, Lower, HasBar, Thumb, HasItem, HasNone, PrintRow, Render,
       NextRow
  <2> SUFFICES ASSUME Calm, Begun, selected < Size(list) PROVE Begun'
    BY <2>2, <2>3 DEF Drawn
  <2>4. UNCHANGED <<list, selected>>
    BY <1>6, LoopKeeps
  <2>5. CASE Call
    BY <2>5 DEF Call, Begun, Calm
  <2>6. CASE Below
    <3>1. scroll + Onscreen - 1 = scroll + (Onscreen - 1)
      BY Numbers, Sizes
    <3>2. At(Onscreen - 1)' = At(Onscreen - 1) /\ At(Onscreen - 1) \in Int
      <4>1. At(Onscreen - 1)' = At(Onscreen - 1)
        BY <2>6 DEF Below, At
      <4>2. scroll + (Onscreen - 1) \in Int
        BY Numbers, Sizes
      <4>3. At(Onscreen - 1) \in 0 .. Wrap - 1
        BY <4>2, Indices DEF At, Index
      <4> QED
        BY <4>1, <4>3, Sizes
    <3>3. selected > At(Onscreen - 1) \/ selected <= At(Onscreen - 1)
      BY <3>2, Numbers
    <3> QED
      BY <2>4, <2>6, <3>1, <3>2, <3>3 DEF Below, Begun, At
  <2>7. CASE Raise
    <3>1. InView'
      BY <2>7, Raised DEF Raise, Begun
    <3> QED
      BY <2>7, <3>1 DEF Raise, Begun
  <2>8. CASE Above
    <3>1. CASE selected < scroll
      BY <2>8, <3>1 DEF Above, Begun
    <3>2. CASE ~(selected < scroll)
      <4>1. InView /\ UNCHANGED scroll /\ loop' = "bar"
        BY <2>8, <3>2, Fitting DEF Above, Begun
      <4>2. InView'
        BY <2>4, <4>1 DEF InView, At
      <4> QED
        BY <4>1, <4>2 DEF Begun
    <3> QED
      BY <3>1, <3>2
  <2>9. CASE Lower
    <3>1. InView'
      BY <2>9, Lowered
    <3> QED
      BY <2>9, <3>1 DEF Lower, Begun
  <2>10. CASE HasBar
    <3>1. InView' /\ row' = 0
      BY <2>4, <2>10 DEF HasBar, Begun, InView, At, Drawn
    <3>2. highlight' = Off /\ bar' = Off
      BY <2>10 DEF HasBar
    <3>3. RowsDone(0)'
      BY <3>2, Rows DEF RowsDone
    <3>4. loop' = "row" => BarIsSet'
      BY <2>4, <2>10, <3>2 DEF HasBar, BarIsSet, Size
    <3>5. loop' = "thumb" => Size(list)' > Onscreen
      BY <2>4, <2>10 DEF HasBar, Size
    <3> QED
      BY <2>10, <3>1, <3>2, <3>3, <3>4, <3>5 DEF HasBar, Begun
  <2>11. CASE Thumb
    <3>1. InView' /\ row' = 0 /\ loop' = "row"
      BY <2>4, <2>11 DEF Thumb, Begun, InView, At, Drawn
    <3>2. highlight' = Off /\ BarIsSet'
      BY <2>4, <2>11 DEF Thumb, Begun, BarIsSet, Size
    <3>3. RowsDone(0)'
      BY <3>2, Rows DEF RowsDone
    <3> QED
      BY <3>1, <3>2, <3>3 DEF Begun
  <2>12. CASE HasItem
    <3>1. UNCHANGED <<scroll, row, texts, highlight, bar>> /\ loop' = "print" /\ loop = "row"
      BY <2>12 DEF HasItem
    <3>2. InView' /\ BarIsSet' /\ RowsDone(row)'
      BY <2>4, <3>1 DEF Begun, InView, At, BarIsSet, RowsDone, TextOf, Size
    <3>3. At(row)' < Size(list)' /\ item' = At(row)'
      BY <2>4, <2>12, <3>1 DEF HasItem, At, Size, NextItem
    <3> QED
      BY <3>1, <3>2, <3>3 DEF Begun
  <2>13. CASE HasNone \/ PrintRow
    <3>1. /\ UNCHANGED <<scroll, bar>>
          /\ RowsDone(row) /\ InView /\ BarIsSet
          /\ HasNone \/ (PrintRow /\ At(row) < Size(list) /\ item = At(row))
          /\ NextRow("row") \/ NextRow("print")
      BY <2>13 DEF HasNone, PrintRow, NextRow, Begun
    <3>2. InView' /\ BarIsSet'
      BY <2>4, <3>1 DEF InView, At, BarIsSet, Size
    <3>3. \A n : n = row + 1 => RowsDone(n)'
      BY <3>1, RowAdded
    <3>4. CASE row < Onscreen - 1
      <4>1. row' = row + 1 /\ loop' = "row"
        BY <3>1, <3>4 DEF NextRow
      <4>2. RowsDone(row)'
        BY <3>3, <4>1
      <4> QED
        BY <3>2, <4>1, <4>2 DEF Begun
    <3>5. CASE ~(row < Onscreen - 1)
      <4>1. loop' = "render"
        BY <3>1, <3>5 DEF NextRow
      <4>2. Onscreen = row + 1
        BY <3>5, Numbers, Sizes
      <4>3. RowsDone(Onscreen)'
        BY <3>3, <4>2
      <4> QED
        BY <3>2, <4>1, <4>3 DEF Begun
    <3> QED
      BY <3>4, <3>5
  <2>14. CASE Render
    <3>1. /\ UNCHANGED <<scroll, texts, highlight, bar>> /\ loop' = "idle" /\ screen' = Picture
          /\ RowsDone(Onscreen) /\ InView /\ BarIsSet
      BY <2>14 DEF Render, Begun
    <3>2. InView' /\ BarIsSet' /\ RowsDone(Onscreen)' /\ screen' = Picture'
      BY <2>4, <3>1 DEF InView, At, BarIsSet, RowsDone, TextOf, Size, Picture
    <3> QED
      BY <3>1, <3>2 DEF Begun
  <2> QED
    BY <1>6, <2>5, <2>6, <2>7, <2>8, <2>9, <2>10, <2>11, <2>12, <2>13, <2>14 DEF Loop
<1> QED
  BY <1>2, <1>3, <1>4, <1>5, <1>6 DEF Next, Press, Handlers

(* What the last handler has changed is on the screen once the loop has     *)
(* nothing to draw (menu_list.c:126-184).                                  *)
THEOREM SelectionIsShownHolds == Spec => []SelectionIsShown
<1>1. Init => Drawn
  BY DEF Init, Drawn, Calm
<1>2. TypeOK /\ OnItem /\ Drawn => SelectionIsShown
  <2> SUFFICES ASSUME TypeOK, OnItem, Drawn, bound, handler = "idle", loop = "idle", ~force
               PROVE  Shows(scroll) /\ (selected = 0 => scroll = 0)
    BY DEF SelectionIsShown
  <2>1. InView /\ BarIsSet /\ RowsDone(Onscreen) /\ screen = Picture
    BY DEF Drawn, Calm, Begun
  <2>2. screen.texts = texts /\ screen.highlight = highlight /\ screen.bar = bar
    BY <2>1 DEF Picture
  <2>3. \A r \in Row : texts[r] = TextOf(r)
    BY <2>1, Rows DEF RowsDone
  <2>4. texts = [r \in Row |-> TextOf(r)]
    BY <2>3 DEF TypeOK
  <2>5. highlight # Off /\ At(highlight[1]) = selected
    BY <2>1, Rows DEF InView, RowsDone
  <2> QED
    BY <2>1, <2>2, <2>4, <2>5 DEF Shows, InView, BarIsSet, At, TextOf
<1> QED
  BY <1>1, <1>2, TypeCorrect, AlwaysInTree, NextDrawn, PTL DEF Spec
=============================================================================
