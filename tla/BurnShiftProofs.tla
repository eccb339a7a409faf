-------------------------- MODULE BurnShiftProofs --------------------------
(***************************************************************************)
(* BurnShift for panels and margins of any size: the types, the offset     *)
(* within its limit, and what the panel shows.                             *)
(***************************************************************************)
EXTENDS BurnShift, TLAPS

(* What is known of sizes, and of numbers that fit a uint8_t.              *)
LEMMA Sizes ==
    /\ Size \in Int /\ 1 <= Size
    /\ Wrap \in Int /\ Size + Size <= Wrap
  BY ConstantsAssumption DEF ConstantsAssumption

LEMMA Cells == Cell \subseteq 0 .. Wrap - 1 /\ 0 \in Cell
  BY Sizes DEF Cell

LEMMA MarginsAreCells == Margins \subseteq Cell
  BY ConstantsAssumption DEF ConstantsAssumption, Margins, Cell

LEMMA Steps ==
    /\ {"idle", "cells", "due", "move"} \subseteq Step
    /\ SetStep \subseteq Step /\ UpdateStep \subseteq Step
    /\ {"test", "clamp"} \subseteq SetStep
    /\ {"zero", "edge", "load", "store"} \subseteq UpdateStep
  BY DEF Step, SetStep, UpdateStep

LEMMA NegTyped == \A s \in -1 .. 1 : -s \in -1 .. 1
  OBVIOUS

LEMMA Wrapped ==
    /\ \A x \in Int : x % Wrap \in 0 .. Wrap - 1
    /\ \A x \in 0 .. Wrap - 1 : x % Wrap = x
  BY Sizes

(* The types hold, whatever the cores do to each other (display.c:58-61).  *)
LEMMA NextTypeOK == TypeOK /\ [Next]_vars => TypeOK'
<1> SUFFICES ASSUME TypeOK, [Next]_vars PROVE TypeOK'
  OBVIOUS
<1>0. pc' \in [Core -> Step] /\ pc'["buttons"] \in {"idle"} \cup SetStep
  BY Steps DEF TypeOK, Core, Goes, At, Next, Bind, SetLimits, Update, SetLimit, Test, Clamp,
     Refresh, RefreshCell, NotDue, Pick, AtZero, AtLimit, Load, Store, Move, vars
<1> USE <1>0 DEF TypeOK, held, locals
<1>1. ASSUME NEW c \in Core, NEW m \in Margins, SetLimit(c, m) PROVE TypeOK'
  BY <1>1, MarginsAreCells DEF SetLimit
<1>2. ASSUME NEW c \in Core, Test(c) PROVE TypeOK'
  BY <1>2 DEF Test
<1>3. ASSUME NEW c \in Core, Clamp(c) PROVE TypeOK'
  BY <1>3, Cells DEF Clamp
<1>4. CASE Refresh
  BY <1>4, Cells DEF Refresh
<1>5. CASE RefreshCell
  <2>1. panel' \in [Cell -> Cell \cup {Black}]
    BY <1>5 DEF RefreshCell
  <2>2. cell' \in Cell
    BY <1>5, Sizes DEF RefreshCell, Cell
  <2> QED
    BY <1>5, <2>1, <2>2 DEF RefreshCell
<1>6. CASE NotDue
  BY <1>6 DEF NotDue
<1>7. ASSUME NEW s \in -1 .. 1, Pick(s) PROVE TypeOK'
  <2>1. 0 \in -1 .. 1
    OBVIOUS
  <2>2. shift' \in -1 .. 1
    BY <1>7, <2>1 DEF Pick
  <2> QED
    BY <1>7, <2>2 DEF Pick
<1>8. CASE AtZero
  <2>1. shift' \in -1 .. 1
    BY <1>8, NegTyped DEF AtZero
  <2> QED
    BY <1>8, <2>1 DEF AtZero
<1>9. CASE AtLimit
  <2>1. shift' \in -1 .. 1
    BY <1>9, NegTyped DEF AtLimit
  <2> QED
    BY <1>9, <2>1 DEF AtLimit
<1>10. CASE Load
  BY <1>10 DEF Load
<1>11. CASE Store
  BY <1>11, Sizes, Wrapped DEF Store
<1>12. CASE Move
  BY <1>12 DEF Move
<1>13. CASE UNCHANGED vars
  BY <1>13 DEF vars
<1> QED
  BY <1>1, <1>2, <1>3, <1>4, <1>5, <1>6, <1>7, <1>8, <1>9, <1>10, <1>11, <1>12, <1>13
     DEF Next, Bind, SetLimits, Update

THEOREM TypeCorrect == Spec => []TypeOK
<1>1. Init => TypeOK
  <2> SUFFICES ASSUME Init PROVE TypeOK
    OBVIOUS
  <2>1. pc \in [Core -> Step] /\ pc["buttons"] \in {"idle"} \cup SetStep
    BY Steps DEF Init, Core
  <2>2. 0 \in 0 .. Wrap - 1 /\ 0 \in -1 .. 1
    BY Sizes
  <2> QED
    BY <2>1, <2>2, Cells DEF Init, TypeOK
<1> QED
  BY <1>1, NextTypeOK, PTL DEF Spec

-----------------------------------------------------------------------------
(* What the cores know of the offset while they have not met.              *)
Bounded ==
    race # "now" =>
        /\ ~Meet
        /\ \A c \in Core : Setting(c) => margin[c] = limit
        /\ \A c \in Core : At(c, "clamp") => margin[c] < offset
        /\ (\A c \in Core : ~Setting(c)) => offset <= limit
        /\ At("loop", "zero") \/ At("loop", "edge") => (limit = 0 => shift = 0)
        /\ At("loop", "edge") => (offset = 0 => shift >= 0)
        /\ At("loop", "load") \/ At("loop", "store") => offset + shift \in 0 .. limit
        /\ At("loop", "store") => loaded = offset

LEMMA Numbers ==
  ASSUME TypeOK
  PROVE  /\ offset \in Int /\ 0 <= offset
         /\ limit \in Int /\ 0 <= limit /\ limit < Size
         /\ \A c \in Core : margin[c] \in Int /\ 0 <= margin[c] /\ margin[c] < Size
         /\ shift \in Int /\ -1 <= shift /\ shift <= 1
  <1>1. \A m \in Cell : m \in Int /\ 0 <= m /\ m < Size
    BY Sizes DEF Cell
  <1> QED
    BY <1>1, Sizes DEF TypeOK

(* The four steps that move the offset or decide where to. *)
LEMMA Clamped ==
  ASSUME TypeOK, NEW c \in Core, Clamp(c), margin[c] = limit
  PROVE  offset' = limit' /\ offset' <= limit'
  BY Numbers DEF Clamp

LEMMA TurnedAtZero == ASSUME TypeOK, AtZero, offset = 0 PROVE shift' >= 0
  <1>1. CASE shift < 0
    <2>1. shift = -1 /\ shift' = -shift
      BY <1>1, Numbers DEF AtZero
    <2> QED
      BY <2>1
  <1>2. CASE ~(shift < 0)
    BY <1>2, Numbers DEF AtZero
  <1> QED
    BY <1>1, <1>2

LEMMA TurnedAtLimit ==
  ASSUME TypeOK, AtLimit, offset <= limit, limit = 0 => shift = 0, offset = 0 => shift >= 0
  PROVE  offset' + shift' \in 0 .. limit'
  <1>1. CASE Reached(offset) /\ shift > 0
    <2>1. shift = 1 /\ shift' = -shift /\ 1 <= offset
      BY <1>1, Numbers DEF AtLimit, Reached
    <2>2. shift' = -1
      BY <2>1
    <2> QED
      BY <2>1, <2>2, Numbers DEF AtLimit
  <1>2. CASE ~(Reached(offset) /\ shift > 0)
    BY <1>2, Numbers DEF AtLimit, Reached
  <1> QED
    BY <1>1, <1>2

LEMMA Stored ==
  ASSUME TypeOK, Store, loaded + shift \in 0 .. limit
  PROVE  offset' = loaded + shift /\ offset' <= limit'
  <1>1. loaded + shift \in 0 .. Wrap - 1
    BY Numbers, Sizes
  <1> QED
    BY <1>1, Wrapped, Numbers DEF Store

LEMMA NextBounded == TypeOK /\ Bounded /\ [Next]_vars => Bounded'
<1> SUFFICES ASSUME TypeOK, Bounded, [Next]_vars, race' # "now" PROVE Bounded'
  BY DEF Bounded
<1>0. \A c \in Core : offset > margin[c] \/ offset <= margin[c]
  BY Numbers
<1> USE DEF Bounded, TypeOK, Core, Goes, At, held, locals, Setting, Deciding, Meet, SetStep, UpdateStep
<1>1. ASSUME NEW c \in Core, NEW m \in Margins, SetLimit(c, m) PROVE Bounded'
  BY <1>1 DEF SetLimit
<1>2. ASSUME NEW c \in Core, Test(c) PROVE Bounded'
  <2>1. Setting(c) /\ margin[c] = limit
    BY <1>2 DEF Test
  <2> QED
    BY <1>2, <1>0, <2>1 DEF Test
<1>3. ASSUME NEW c \in Core, Clamp(c) PROVE Bounded'
  <2>1. margin[c] = limit
    BY <1>3 DEF Clamp
  <2>2. offset' <= limit'
    BY <2>1, <1>3, Clamped
  <2>3. ~Meet' /\ \A d \in Core : ~Setting(d)' /\ ~Deciding'
    BY <1>3 DEF Clamp
  <2> QED
    BY <1>3, <2>2, <2>3 DEF Clamp
<1>4. CASE Refresh
  BY <1>4 DEF Refresh
<1>5. CASE RefreshCell
  BY <1>5 DEF RefreshCell
<1>6. CASE NotDue
  BY <1>6 DEF NotDue
<1>7. ASSUME NEW s \in -1 .. 1, Pick(s) PROVE Bounded'
  BY <1>7 DEF Pick
<1>8. CASE AtZero
  <2>1. offset' = 0 => shift' >= 0
    BY <1>8, TurnedAtZero DEF AtZero
  <2>2. limit' = 0 => shift' = 0
    <3>1. limit = 0 => shift = 0 /\ ~(shift < 0)
      BY <1>8 DEF AtZero
    <3> QED
      BY <1>8, <3>1 DEF AtZero
  <2> QED
    BY <1>8, <2>1, <2>2 DEF AtZero
<1>9. CASE AtLimit
  <2>1. offset <= limit /\ (limit = 0 => shift = 0) /\ (offset = 0 => shift >= 0)
    BY <1>9 DEF AtLimit
  <2>2. offset' + shift' \in 0 .. limit'
    BY <1>9, <2>1, TurnedAtLimit
  <2> QED
    BY <1>9, <2>2 DEF AtLimit
<1>10. CASE Load
  BY <1>10 DEF Load
<1>11. CASE Store
  <2>1. loaded + shift \in 0 .. limit /\ race # "now"
    BY <1>11 DEF Store
  <2>2. offset' <= limit'
    BY <1>11, <2>1, Stored
  <2> QED
    BY <1>11, <2>2 DEF Store
<1>12. CASE Move
  BY <1>12 DEF Move
<1>13. CASE UNCHANGED vars
  BY <1>13 DEF vars
<1> QED
  BY <1>1, <1>2, <1>3, <1>4, <1>5, <1>6, <1>7, <1>8, <1>9, <1>10, <1>11, <1>12, <1>13
     DEF Next, Bind, SetLimits, Update

(* Unless the cores have met, the offset is within its limit               *)
(* (display.c:286-313).                                                    *)
LEMMA AlwaysBounded == Spec => [](TypeOK /\ Bounded)
<1>1. Init => Bounded
  BY DEF Init, Bounded, Meet, Setting, Deciding, SetStep, UpdateStep, At, Core
<1> QED
  BY <1>1, TypeCorrect, NextBounded, PTL DEF Spec

THEOREM WithinLimitHolds == Spec => []WithinLimit
<1>1. Bounded => WithinLimit
  BY DEF Bounded, WithinLimit
<1> QED
  BY <1>1, AlwaysBounded, PTL

-----------------------------------------------------------------------------
(* Where the picture on the panel begins: the store is before the move.    *)
Begins == IF At("loop", "move") THEN offset - shift ELSE offset
Picture(p) == IF p - Begins \in 0 .. Area - 1 THEN p - Begins ELSE Black

(* Nothing is left before the picture. *)
Leads ==
    race = "no" =>
        /\ offset < Size
        /\ \A p \in Cell : p < Begins => panel[p] = Black

LEMMA CellsAreInt == \A p : p \in Cell <=> p \in Int /\ 0 <= p /\ p < Size
  BY Sizes DEF Cell

(* What comes from off the panel is black, and the strip has its place.    *)
LEMMA Outside ==
  ASSUME TypeOK, NEW p \in Cell, p - shift \notin Cell
  PROVE  p \in Strip
  <1>1. shift = 1 \/ shift = -1 \/ shift = 0
    BY Numbers
  <1>2. CASE shift = 1
    <2>1. p = 0
      <3>1. p \in Int /\ 0 <= p /\ p < Size /\ p - 1 \notin Cell
        BY <1>2, CellsAreInt
      <3>2. ~(0 <= p - 1 /\ p - 1 < Size)
        BY <3>1, CellsAreInt
      <3> QED
        BY <3>1, <3>2, Sizes
    <2> QED
      BY <1>2, <2>1 DEF Strip
  <1>3. CASE shift = -1
    <2>1. p = Size - 1
      BY <1>3, CellsAreInt, Sizes
    <2>2. shift # 1
      BY <1>3
    <2>3. axis = "x" \/ axis = "y"
      BY DEF TypeOK
    <2> QED
      BY <1>3, <2>1, <2>2, <2>3 DEF Strip
  <1>4. CASE shift = 0
    BY <1>4, CellsAreInt
  <1> QED
    BY <1>1, <1>2, <1>3, <1>4

LEMMA NextLeads == TypeOK /\ Bounded /\ Leads /\ [Next]_vars => Leads'
<1> SUFFICES ASSUME TypeOK, Bounded, Leads, [Next]_vars, race' = "no" PROVE Leads'
  BY DEF Leads
<1> USE Sizes, Numbers DEF Leads, Begins, Core, Goes, At, held, locals
<1>1. ASSUME NEW c \in Core, NEW m \in Margins, SetLimit(c, m) PROVE Leads'
  BY <1>1 DEF SetLimit
<1>2. ASSUME NEW c \in Core, Test(c) PROVE Leads'
  BY <1>2 DEF Test
<1>3. ASSUME NEW c \in Core, Clamp(c) PROVE Leads'
  <2>1. race = "no" /\ margin[c] < offset
    BY <1>3 DEF Clamp, Bounded
  <2>2. offset' < offset /\ offset' < Size /\ panel' = panel /\ offset' \in Int
    BY <1>3, <2>1 DEF Clamp
  <2>3. Begins' < Begins /\ Begins' \in Int /\ Begins \in Int
    BY <1>3, <2>2 DEF Clamp, TypeOK
  <2> QED
    BY <2>1, <2>2, <2>3, CellsAreInt DEF Leads
<1>4. CASE Refresh
  BY <1>4 DEF Refresh
<1>5. CASE RefreshCell
  <2>1. Begins = offset /\ Begins' = offset' /\ offset' = offset
    BY <1>5 DEF RefreshCell, TypeOK
  <2>2. CASE race = "past"
    <3>1. offset = 0
      BY <1>5, <2>2 DEF RefreshCell
    <3> QED
      BY <2>1, <3>1, CellsAreInt
  <2>3. CASE race = "no"
    <3>1. offset < Size /\ cell \in Int /\ 0 <= cell /\ cell < Size
      BY <2>3, CellsAreInt DEF TypeOK
    <3>2. (offset + cell) % Wrap = offset + cell
      BY <3>1, Wrapped
    <3>3. \A p \in Cell : p < offset => panel'[p] = panel[p]
      BY <1>5, <3>1, <3>2, CellsAreInt DEF RefreshCell
    <3> QED
      BY <2>1, <2>3, <3>1, <3>3
  <2> QED
    BY <1>5, <2>2, <2>3 DEF RefreshCell, TypeOK
<1>6. CASE NotDue
  BY <1>6 DEF NotDue
<1>7. ASSUME NEW s \in -1 .. 1, Pick(s) PROVE Leads'
  BY <1>7 DEF Pick
<1>8. CASE AtZero
  BY <1>8 DEF AtZero
<1>9. CASE AtLimit
  BY <1>9 DEF AtLimit
<1>10. CASE Load
  BY <1>10 DEF Load
<1>11. CASE Store
  <2>1. race = "no" /\ loaded = offset /\ offset + shift \in 0 .. limit
    BY <1>11 DEF Store, Bounded
  <2>2. offset' = offset + shift /\ offset' < Size
    BY <1>11, <2>1, Stored
  <2>3. At("loop", "move")' /\ ~At("loop", "move") /\ UNCHANGED <<shift, panel>>
    BY <1>11 DEF Store, TypeOK
  <2>4. Begins' = Begins
    BY <2>2, <2>3
  <2> QED
    BY <2>1, <2>2, <2>3, <2>4
<1>12. CASE Move
  <2>1. race = "no" /\ offset' = offset /\ Begins' = offset /\ Begins = offset - shift
    BY <1>12 DEF Move, TypeOK
  <2>2. ASSUME NEW p \in Cell, p < offset PROVE panel'[p] = Black
    <3>1. panel'[p] = IF p \in Strip THEN Black
                      ELSE IF p - shift \in Cell THEN panel[p - shift] ELSE panel[p]
      BY <1>12 DEF Move
    <3>2. CASE p - shift \in Cell
      <4>1. p - shift < Begins
        BY <2>1, <2>2, CellsAreInt
      <4> QED
        BY <2>1, <3>1, <3>2, <4>1
    <3>3. CASE p - shift \notin Cell
      <4>1. p \in Strip
        BY <2>1, <2>2, <3>3, Outside
      <4> QED
        BY <3>1, <4>1
    <3> QED
      BY <3>2, <3>3
  <2> QED
    BY <1>12, <2>1, <2>2 DEF Move
<1>13. CASE UNCHANGED vars
  BY <1>13 DEF vars
<1> QED
  BY <1>1, <1>2, <1>3, <1>4, <1>5, <1>6, <1>7, <1>8, <1>9, <1>10, <1>11, <1>12, <1>13
     DEF Next, Bind, SetLimits, Update

(* As much of the picture as has been drawn.  Drawing at offset 0 wipes    *)
(* out what an earlier meeting has left.                                   *)
Drawn ==
    fresh /\ race # "now" /\ (race = "past" => offset = 0) /\ At("loop", "cells") =>
        \A p \in Cell : offset <= p /\ p < offset + cell => panel[p] = Shown(p)

(* All of it, until it has moved. *)
Complete ==
    /\ Setting("loop") => ~fresh
    /\ fresh /\ race = "no" /\ ~At("loop", "cells") =>
          \A p \in Cell : panel[p] = Picture(p) \/ (At("loop", "idle") /\ RowLost(p))

(* It moves from within the limit to within the limit. *)
Within ==
    fresh /\ race = "no" /\ At("loop", "move") => offset <= limit /\ Begins \in 0 .. limit

LEMMA DrawnCell ==
  ASSUME TypeOK, Leads, Drawn, RefreshCell, fresh, race # "now", race = "past" => offset = 0,
         NEW p \in Cell, offset <= p, p <= offset + cell
  PROVE  panel'[p] = Shown(p)
  <1>1. /\ p \in Int /\ 0 <= p /\ p < Size
        /\ cell \in Int /\ 0 <= cell /\ cell < Size
        /\ offset \in Int /\ 0 <= offset
    BY CellsAreInt, Numbers DEF TypeOK
  <1>2. offset < Size
    BY Sizes DEF Leads, TypeOK
  <1>3. (offset + cell) % Wrap = offset + cell
    BY <1>1, <1>2, Wrapped, Sizes
  <1>4. panel'[p] = IF p # offset + cell THEN panel[p]
                    ELSE IF cell < Area THEN cell ELSE Black
    BY <1>3 DEF RefreshCell
  <1>5. CASE p = offset + cell
    <2>1. p - offset = cell
      BY <1>1, <1>5
    <2>2. cell \in 0 .. Area - 1 <=> cell < Area
      BY <1>1, Numbers, Sizes DEF Area
    <2> QED
      BY <1>4, <1>5, <2>1, <2>2 DEF Shown
  <1>6. CASE p # offset + cell
    <2>1. p < offset + cell
      BY <1>1, <1>6
    <2> QED
      BY <1>4, <1>6, <2>1 DEF Drawn, RefreshCell
  <1> QED
    BY <1>5, <1>6

LEMMA NextDrawn == TypeOK /\ Leads /\ Drawn /\ [Next]_vars => Drawn'
<1> SUFFICES ASSUME TypeOK, Leads, Drawn, [Next]_vars,
                    fresh', race' # "now", race' = "past" => offset' = 0, At("loop", "cells")',
                    NEW p \in Cell, offset' <= p, p < offset' + cell'
             PROVE  panel'[p] = Shown(p)'
  BY DEF Drawn
<1> USE DEF Core, Goes, At, held, locals
<1>1. ASSUME NEW c \in Core, NEW m \in Margins, SetLimit(c, m) PROVE FALSE
  BY <1>1 DEF SetLimit
<1>2. ASSUME NEW c \in Core, Test(c) PROVE panel'[p] = Shown(p)'
  <2>1. At("loop", "cells")
    BY <1>2 DEF Test, TypeOK
  <2> QED
    BY <1>2, <2>1 DEF Test, Drawn, Shown, Area
<1>3. ASSUME NEW c \in Core, Clamp(c) PROVE FALSE
  BY <1>3 DEF Clamp
<1>4. CASE Refresh
  <2>1. p \in Int /\ offset \in Int
    BY CellsAreInt, Numbers
  <2>2. cell' = 0 /\ offset' = offset
    BY <1>4 DEF Refresh
  <2> QED
    BY <2>1, <2>2
<1>5. CASE RefreshCell
  <2>1. cell' = cell + 1 /\ race' = race
    BY <1>5 DEF RefreshCell, TypeOK
  <2>2. fresh /\ offset' = offset /\ limit' = limit
    BY <1>5 DEF RefreshCell
  <2>3. p \in Int /\ offset \in Int /\ cell \in Int
    BY CellsAreInt, Numbers DEF TypeOK
  <2>4. offset <= p /\ p <= offset + cell
    BY <2>1, <2>2, <2>3
  <2>5. panel'[p] = Shown(p)
    BY <1>5, <2>1, <2>2, <2>4, DrawnCell
  <2> QED
    BY <2>2, <2>5 DEF Shown, Area
<1>6. CASE Update
  BY <1>6 DEF Update, NotDue, Pick, AtZero, AtLimit, Load, Store, Move, TypeOK
<1>7. CASE UNCHANGED vars
  BY <1>7 DEF vars, Drawn, Shown, Area
<1> QED
  BY <1>1, <1>2, <1>3, <1>4, <1>5, <1>6, <1>7 DEF Next, Bind, SetLimits

LEMMA NextWithin == TypeOK /\ Bounded /\ Within /\ [Next]_vars => Within'
<1> SUFFICES ASSUME TypeOK, Bounded, Within, [Next]_vars, fresh', race' = "no", At("loop", "move")'
             PROVE  offset' <= limit' /\ Begins' \in 0 .. limit'
  BY DEF Within
<1> USE DEF Core, Goes, At, held, locals
<1>1. ASSUME NEW c \in Core, NEW m \in Margins, SetLimit(c, m) PROVE FALSE
  BY <1>1 DEF SetLimit
<1>2. ASSUME NEW c \in Core, Test(c) PROVE Within'
  BY <1>2 DEF Test, TypeOK, Within, Begins
<1>3. ASSUME NEW c \in Core, Clamp(c) PROVE FALSE
  BY <1>3 DEF Clamp
<1>4. CASE Store
  <2>1. race = "no" /\ loaded = offset /\ offset + shift \in 0 .. limit /\ ~Meet
    BY <1>4 DEF Store, Bounded
  <2>2. offset <= limit
    BY <1>4, <2>1 DEF Store, Bounded, Meet, Deciding, Setting, SetStep, UpdateStep
  <2>3. offset' = offset + shift /\ offset' <= limit'
    BY <1>4, <2>1, Stored
  <2>4. shift' = shift /\ limit' = limit
    BY <1>4 DEF Store
  <2>5. Begins' = offset
    BY <2>3, <2>4, Numbers DEF Begins
  <2> QED
    BY <2>2, <2>3, <2>4, <2>5, Numbers
<1>5. CASE Refresh \/ RefreshCell \/ NotDue \/ (\E s \in -1 .. 1 : Pick(s)) \/ AtZero \/ AtLimit \/ Load \/ Move
  BY <1>5 DEF Refresh, RefreshCell, NotDue, Pick, AtZero, AtLimit, Load, Move, TypeOK
<1>6. CASE UNCHANGED vars
  BY <1>6 DEF vars, Within, Begins
<1> QED
  BY <1>1, <1>2, <1>3, <1>4, <1>5, <1>6 DEF Next, Bind, SetLimits, Update, Within

(* The last cell of a drawing completes it. *)
LEMMA Completed ==
  ASSUME TypeOK, Leads, Leads', Drawn, RefreshCell, fresh, race' = "no", ~At("loop", "cells")',
         NEW p \in Cell
  PROVE  panel'[p] = Picture(p)'
  <1>1. /\ cell = Size - 1 /\ ~At("loop", "move")'
        /\ UNCHANGED <<offset, limit>>
        /\ race # "now" /\ (race = "past" => offset = 0)
    <2>1. cell = Size - 1
      <3>1. cell \in Int /\ cell < Size
        BY CellsAreInt DEF TypeOK
      <3>2. ~(cell < Size - 1)
        BY DEF RefreshCell, At
      <3> QED
        BY <3>1, <3>2, Sizes
    <2>2. ~(cell < Size - 1)
      BY <2>1, Sizes
    <2> QED
      BY <2>1, <2>2 DEF RefreshCell, At, Goes, TypeOK, Core
  <1>2. Begins' = offset
    BY <1>1 DEF Begins
  <1>3. p \in Int /\ 0 <= p /\ p < Size /\ offset \in Int /\ 0 <= offset /\ limit \in Int
    BY CellsAreInt, Numbers
  <1>4. CASE p < offset
    <2>1. panel'[p] = Black
      BY <1>1, <1>2, <1>4 DEF Leads
    <2>2. p - offset \notin 0 .. Area' - 1
      BY <1>3, <1>4
    <2> QED
      BY <1>2, <2>1, <2>2 DEF Picture
  <1>5. CASE offset <= p
    <2>1. p <= offset + cell
      BY <1>1, <1>3, Sizes
    <2>2. panel'[p] = Shown(p)
      BY <1>1, <1>5, <2>1, DrawnCell
    <2> QED
      BY <1>1, <1>2, <2>2 DEF Picture, Shown, Area
  <1> QED
    BY <1>3, <1>4, <1>5

(* The picture moves as a whole, but for the row that is lost on the way   *)
(* back from the limit (display.c:191).                                    *)
LEMMA Moved ==
  ASSUME TypeOK, Move, Begins \in 0 .. limit, offset <= limit, NEW p \in Cell,
         \A q \in Cell : panel[q] = Picture(q)
  PROVE  panel'[p] = Picture(p)' \/ RowLost(p)'
  <1>1. /\ p \in Int /\ 0 <= p /\ p < Size
        /\ offset \in Int /\ limit \in Int /\ shift \in Int /\ Size \in Int
    BY CellsAreInt, Numbers, Sizes
  <1>2. UNCHANGED <<offset, limit, axis>> /\ Begins = offset - shift /\ Begins' = offset
    BY DEF Move, Begins, At, Goes, TypeOK, Core
  <1>3. panel'[p] = IF p \in Strip THEN Black
                    ELSE IF p - shift \in Cell THEN panel[p - shift] ELSE panel[p]
    BY DEF Move
  <1>4. Picture(p)' = IF p - offset \in 0 .. Area - 1 THEN p - offset ELSE Black
    BY <1>2 DEF Picture, Area
  <1>5. CASE p \notin Strip
    <2>1. p - shift \in Cell
      BY <1>5, Outside
    <2>2. panel'[p] = Picture(p - shift)
      BY <1>3, <1>5, <2>1
    <2>3. (p - shift) - Begins = p - offset
      BY <1>1, <1>2
    <2> QED
      BY <1>4, <2>2, <2>3 DEF Picture
  <1>6. CASE p \in Strip
    <2>1. panel'[p] = Black
      BY <1>3, <1>6
    <2>2. CASE shift = 1
      <3>1. p = 0
        BY <1>6, <2>2 DEF Strip
      <3>2. offset - 1 \in 0 .. limit
        BY <1>2, <2>2
      <3>3. p - offset \notin 0 .. Area - 1
        BY <1>1, <3>1, <3>2
      <3> QED
        BY <1>4, <2>1, <3>3
    <2>3. CASE shift = -1
      <3>1. Begins = offset + 1
        BY <1>1, <1>2, <2>3
      <3>2. offset + 1 <= limit
        BY <1>1, <3>1
      <3>3. shift # 1
        BY <2>3
      <3>4. p = Size - 1 \/ (p = Size - 2 /\ axis = "y")
        BY <1>6, <2>3, <3>3 DEF Strip
      <3>5. CASE p = Size - 1
        <4>1. p - offset \notin 0 .. Area - 1
          BY <1>1, <3>2, <3>5 DEF Area
        <4> QED
          BY <1>4, <2>1, <4>1
      <3>6. CASE p = Size - 2 /\ axis = "y" /\ offset = limit - 1
        BY <1>2, <2>1, <3>6 DEF RowLost
      <3>7. CASE p = Size - 2 /\ offset # limit - 1
        <4>1. p - offset \notin 0 .. Area - 1
          BY <1>1, <3>2, <3>7 DEF Area
        <4> QED
          BY <1>4, <2>1, <4>1
      <3> QED
        BY <3>4, <3>5, <3>6, <3>7
    <2> QED
      BY <1>6, <2>2, <2>3 DEF Strip
  <1> QED
    BY <1>5, <1>6

LEMMA NextComplete ==
  TypeOK /\ Bounded /\ Leads /\ Leads' /\ Drawn /\ Within /\ Complete /\ [Next]_vars => Complete'
<1> SUFFICES ASSUME TypeOK, Bounded, Leads, Leads', Drawn, Within, Complete, [Next]_vars
             PROVE  Complete'
  OBVIOUS
<1>0. Setting("loop")' => ~fresh'
  BY DEF Core, Goes, At, held, locals, TypeOK, Complete, Setting, SetStep, Next, Bind, SetLimits, Update,
     SetLimit, Test, Clamp, Refresh, RefreshCell, NotDue, Pick, AtZero, AtLimit, Load, Store, Move, vars
<1> SUFFICES ASSUME fresh', race' = "no", ~At("loop", "cells")', NEW p \in Cell
             PROVE  panel'[p] = Picture(p)' \/ (At("loop", "idle")' /\ RowLost(p)')
  BY <1>0 DEF Complete
<1> DEFINE Fine == panel'[p] = Picture(p)' \/ (At("loop", "idle")' /\ RowLost(p)')
<1>1. ASSUME NEW c \in Core, NEW m \in Margins, SetLimit(c, m) PROVE FALSE
  BY <1>1 DEF SetLimit
<1>2. ASSUME NEW c \in Core, Test(c) PROVE Fine
  <2>1. /\ fresh /\ race = "no" /\ ~Setting("loop")
        /\ UNCHANGED <<offset, limit, shift, panel, axis>>
    BY <1>2 DEF Test, Complete, held, locals
  <2>2. c # "loop"
    BY <1>2, <2>1 DEF Test, At, Setting, SetStep
  <2>3. pc'["loop"] = pc["loop"]
    BY <1>2, <2>2 DEF Test, Goes, TypeOK, Core
  <2>4. Begins' = Begins /\ Picture(p)' = Picture(p) /\ (RowLost(p)' <=> RowLost(p))
    BY <2>1, <2>3 DEF At, Begins, Picture, Area, RowLost
  <2> QED
    BY <2>1, <2>3, <2>4 DEF Complete, At
<1>3. ASSUME NEW c \in Core, Clamp(c) PROVE FALSE
  BY <1>3 DEF Clamp
<1>4. CASE Refresh
  BY <1>4 DEF Refresh, At, Goes, TypeOK, Core
<1>5. CASE RefreshCell
  BY <1>5, Completed DEF RefreshCell
<1>6. CASE NotDue \/ (\E s \in -1 .. 1 : Pick(s)) \/ AtZero \/ AtLimit \/ Load
  <2>1. /\ fresh /\ race = "no" /\ ~At("loop", "cells") /\ ~At("loop", "idle")
        /\ ~At("loop", "move") /\ ~At("loop", "move")'
        /\ UNCHANGED <<offset, limit, panel, axis>>
    BY <1>6 DEF NotDue, Pick, AtZero, AtLimit, Load, At, Goes, TypeOK, Core, held, locals
  <2>2. Picture(p)' = Picture(p)
    BY <2>1 DEF Begins, Picture, Area
  <2> QED
    BY <2>1, <2>2 DEF Complete
<1>7. CASE Store
  <2>1. race = "no" /\ loaded = offset /\ offset + shift \in 0 .. limit
    BY <1>7 DEF Store, Bounded
  <2>2. offset' = offset + shift
    BY <1>7, <2>1, Stored
  <2>3. /\ fresh /\ ~At("loop", "cells") /\ ~At("loop", "idle") /\ ~At("loop", "move")
        /\ At("loop", "move")' /\ UNCHANGED <<limit, shift, panel>>
    BY <1>7 DEF Store, At, Goes, TypeOK, Core
  <2>4. Begins' = Begins
    BY <2>2, <2>3, Numbers DEF Begins
  <2> QED
    BY <2>1, <2>3, <2>4 DEF Complete, Picture, Area
<1>8. CASE Move
  <2>1. /\ fresh /\ race = "no" /\ At("loop", "move") /\ At("loop", "idle")'
        /\ ~At("loop", "cells") /\ ~At("loop", "idle")
    BY <1>8 DEF Move, At, Goes, TypeOK, Core
  <2> QED
    BY <1>8, <2>1, Moved DEF Complete, Within
<1>9. CASE UNCHANGED vars
  BY <1>9 DEF vars, locals, Complete, Picture, Begins, Area, At, RowLost
<1> QED
  BY <1>1, <1>2, <1>3, <1>4, <1>5, <1>6, <1>7, <1>8, <1>9 DEF Next, Bind, SetLimits, Update

(* A drawing no limit has come between is on the panel, and moves on it as *)
(* a whole, but for the row lost at the limit (display.c:175-193,          *)
(* 442-460).                                                               *)
LEMMA AlwaysComplete == Spec => [](Leads /\ Drawn /\ Within /\ Complete)
<1>1. Init => Leads /\ Drawn /\ Within /\ Complete
  <2> SUFFICES ASSUME Init PROVE Leads /\ Drawn /\ Within /\ Complete
    OBVIOUS
  <2>1. /\ ~At("loop", "move") /\ ~At("loop", "cells") /\ ~Setting("loop")
        /\ limit = 0 /\ offset = 0 /\ Begins = 0
    BY DEF Init, At, Core, Setting, SetStep, Begins
  <2>2. ASSUME NEW p \in Cell PROVE p - 0 \in 0 .. Area - 1 /\ p - 0 = p /\ ~(p < 0)
    BY <2>1, Sizes DEF Cell, Area
  <2>3. ASSUME NEW p \in Cell PROVE panel[p] = Picture(p) /\ ~(p < Begins)
    BY <2>1, <2>2 DEF Init, Picture
  <2> QED
    BY <2>1, <2>3, Sizes DEF Leads, Drawn, Within, Complete
<1>2. (TypeOK /\ Bounded) /\ (Leads /\ Drawn /\ Within /\ Complete) /\ [Next]_vars
        => (Leads /\ Drawn /\ Within /\ Complete)'
  BY NextLeads, NextDrawn, NextWithin, NextComplete
<1> QED
  BY <1>1, <1>2, AlwaysBounded, PTL DEF Spec

THEOREM PanelShowsFrameHolds == Spec => []PanelShowsFrame
<1>1. Complete => PanelShowsFrame
  <2> SUFFICES ASSUME Complete, fresh, race = "no", At("loop", "idle"), NEW p \in Cell
               PROVE  panel[p] = Shown(p) \/ RowLost(p)
    BY DEF PanelShowsFrame
  <2>1. ~At("loop", "cells") /\ ~At("loop", "move")
    BY DEF At
  <2>2. Begins = offset /\ Picture(p) = Shown(p)
    BY <2>1 DEF Begins, Picture, Shown
  <2> QED
    BY <2>1, <2>2 DEF Complete
<1> QED
  BY <1>1, AlwaysComplete, PTL
=============================================================================
