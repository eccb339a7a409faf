----------------------------- MODULE BurnShift -----------------------------
(***************************************************************************)
(* The burn-in protection of src/display.c along one axis of the panel,    *)
(* `axis': what is drawn moves to and fro within a margin.  Core 1 draws    *)
(* and moves it; both cores set the margin when they bind another page,    *)
(* and nothing keeps them apart.  The axes have nothing in common but the  *)
(* code.                                                                   *)
(***************************************************************************)
EXTENDS Integers

CONSTANTS Size,                \* DISPLAY_RESOLUTION_WIDTH or _HEIGHT
          XMargins, YMargins,  \* burn_margin_x and burn_margin_y of the bindings
          Wrap                 \* how many values a uint8_t has

ASSUME ConstantsAssumption ==
    /\ Size \in Nat \ {0} /\ Wrap \in Nat /\ 2 * Size <= Wrap
    /\ XMargins \subseteq 0 .. Size - 1 /\ YMargins \subseteq 0 .. Size - 1

Core == {"buttons", "loop"}
SetStep == {"test", "clamp"}
UpdateStep == {"zero", "edge", "load", "store"}
Step == {"idle", "cells", "due", "move"} \cup SetStep \cup UpdateStep
Cell == 0 .. Size - 1
Black == Size     \* no column or row of the frame buffer

VARIABLES
    axis,              \* "x" or "y"
    limit, offset,     \* burn_limit and burn_offset of the axis
    panel,             \* what each cell of the panel shows of the frame buffer
    pc,                \* where each core is
    margin,            \* the argument of display_set_burn_limits
    cell,              \* the loop variable of display_refresh
    shift, loaded,     \* the locals of display_burn_update
    fresh,             \* no limit was set since the drawing began
    race               \* two cores have met, and what is left of it

held == <<axis, panel, cell, shift, loaded>>
locals == <<margin, cell, shift, loaded>>
vars == <<axis, limit, offset, panel, pc, locals, fresh, race>>

TypeOK ==
    /\ axis \in {"x", "y"}
    /\ limit \in Cell /\ offset \in 0 .. Wrap - 1
    /\ panel \in [Cell -> Cell \cup {Black}]
    /\ pc \in [Core -> Step] /\ pc["buttons"] \in {"idle"} \cup SetStep
    /\ margin \in [Core -> Cell]
    /\ cell \in Cell
    /\ shift \in -1 .. 1 /\ loaded \in 0 .. Wrap - 1
    /\ fresh \in BOOLEAN /\ race \in {"no", "now", "past"}

Init ==
    /\ axis \in {"x", "y"}
    /\ limit = 0 /\ offset = 0
    /\ panel = [p \in Cell |-> p]
    /\ pc = [c \in Core |-> "idle"]
    /\ margin = [c \in Core |-> 0]
    /\ cell = 0 /\ shift = 0 /\ loaded = 0
    /\ fresh = TRUE /\ race = "no"

-----------------------------------------------------------------------------
(* The cores meet when one sets limits while the other does, or decides    *)
(* where to move.                                                          *)
Setting(c) == pc[c] \in SetStep
Deciding == pc["loop"] \in UpdateStep
Meet == Setting("buttons") /\ (Setting("loop") \/ Deciding)

Goes(c, to) == pc' = [pc EXCEPT ![c] = to]
At(c, name) == pc[c] = name

-----------------------------------------------------------------------------
(* display_set_burn_limits, on either core: the limits, the test, the      *)
(* store.  Setting them alone makes up for an earlier meeting, but for     *)
(* what that may have left on the panel.                                   *)
Margins == IF axis = "x" THEN XMargins ELSE YMargins

SetLimit(c, m) ==
    /\ At(c, "idle")
    /\ limit' = m
    /\ margin' = [margin EXCEPT ![c] = m]
    /\ fresh' = FALSE
    /\ Goes(c, "test")
    /\ race' = IF Meet' THEN "now" ELSE IF race = "now" THEN "past" ELSE race
    /\ UNCHANGED <<held, offset>>

Test(c) ==
    /\ At(c, "test")
    /\ Goes(c, IF offset > margin[c] THEN "clamp" ELSE "idle")
    /\ UNCHANGED <<held, limit, offset, margin, fresh, race>>

Clamp(c) ==
    /\ At(c, "clamp")
    /\ offset' = margin[c]
    /\ fresh' = FALSE
    /\ Goes(c, "idle")
    /\ UNCHANGED <<held, limit, margin, race>>

-----------------------------------------------------------------------------
(* display_refresh, with the framebuffer's cell or black at the cell of    *)
(* the panel; what is not on the panel is lost.                            *)
Area == Size - limit

Refresh ==
    /\ At("loop", "idle")
    /\ cell' = 0
    /\ fresh' = TRUE
    /\ Goes("loop", "cells")
    /\ UNCHANGED <<axis, limit, offset, panel, margin, shift, loaded, race>>

RefreshCell ==
    /\ At("loop", "cells")
    /\ LET p == (offset + cell) % Wrap
       IN  panel' = [q \in Cell |-> IF q # p THEN panel[q]
                                    ELSE IF cell < Area THEN cell ELSE Black]
    /\ IF cell < Size - 1
       THEN cell' = cell + 1 /\ UNCHANGED <<pc, race>>
       ELSE /\ cell' = 0
            /\ Goes("loop", "due")
            /\ race' = IF race = "past" /\ fresh /\ offset = 0 THEN "no" ELSE race
    /\ UNCHANGED <<axis, limit, offset, margin, shift, loaded, fresh>>

-----------------------------------------------------------------------------
(* display_burn_update(true), each condition read for itself. *)
NotDue ==
    /\ At("loop", "due")
    /\ Goes("loop", "idle")
    /\ UNCHANGED <<axis, limit, offset, panel, locals, fresh, race>>

(* get_rand_32, and the first condition *)
Pick(s) ==
    /\ At("loop", "due")
    /\ shift' = IF limit = 0 THEN 0 ELSE s
    /\ Goes("loop", "zero")
    /\ race' = IF Meet' THEN "now" ELSE race
    /\ UNCHANGED <<axis, limit, offset, panel, margin, cell, loaded, fresh>>

AtZero ==
    /\ At("loop", "zero")
    /\ shift' = IF offset = 0 /\ shift < 0 THEN -shift ELSE shift
    /\ Goes("loop", "edge")
    /\ UNCHANGED <<axis, limit, offset, panel, margin, cell, loaded, fresh, race>>

Reached_Past(at) == at > limit
Reached_Exactly(at) == at = limit
Reached(at) == at >= limit

AtLimit ==
    /\ At("loop", "edge")
    /\ shift' = IF Reached(offset) /\ shift > 0 THEN -shift ELSE shift
    /\ Goes("loop", "load")
    /\ UNCHANGED <<axis, limit, offset, panel, margin, cell, loaded, fresh, race>>

Load ==
    /\ At("loop", "load")
    /\ loaded' = offset
    /\ Goes("loop", "store")
    /\ UNCHANGED <<axis, limit, offset, panel, margin, cell, shift, fresh, race>>

Store ==
    /\ At("loop", "store")
    /\ offset' = (loaded + shift) % Wrap
    /\ loaded' = 0
    /\ Goes("loop", "move")
    /\ UNCHANGED <<axis, limit, panel, margin, cell, shift, fresh, race>>

Strip_Lower == IF shift = -1 THEN {Size - 1} ELSE {}

(* display_shift_accellerated: the copy, and the strip it has left.  The   *)
(* strip at the lower end begins one row early (display.c:191).            *)
Strip ==
    CASE shift = 1 -> {0}
      [] shift = -1 /\ axis = "x" -> {Size - 1}
      [] shift = -1 /\ axis = "y" -> {Size - 2, Size - 1}
      [] OTHER -> {}

Move ==
    /\ At("loop", "move")
    /\ panel' = [p \in Cell |-> IF p \in Strip THEN Black
                                ELSE IF p - shift \in Cell THEN panel[p - shift]
                                ELSE panel[p]]
    /\ shift' = 0
    /\ Goes("loop", "idle")
    /\ UNCHANGED <<axis, limit, offset, margin, cell, loaded, fresh, race>>

-----------------------------------------------------------------------------
SetLimits(c) == Test(c) \/ Clamp(c)
Update == NotDue \/ (\E s \in -1 .. 1 : Pick(s)) \/ AtZero \/ AtLimit \/ Load \/ Store \/ Move
Bind == \E c \in Core : \E m \in Margins : SetLimit(c, m)

Next == Bind \/ (\E c \in Core : SetLimits(c)) \/ Refresh \/ RefreshCell \/ Update

Spec == Init /\ [][Next]_vars

(* Either core goes on, and neither time nor the random numbers keep the   *)
(* picture where it is for ever.                                           *)
Fairness ==
    /\ \A c \in Core : WF_vars(SetLimits(c))
    /\ WF_vars(Refresh \/ RefreshCell \/ Update)
    /\ SF_vars(\E s \in {-1, 1} : Pick(s))
FairSpec == Spec /\ Fairness

-----------------------------------------------------------------------------
(* Unless the cores have met since limits were last set by one alone, the  *)
(* offset is within its limit (display.c:286-313).                         *)
WithinLimit ==
    race # "now" /\ (\A c \in Core : ~Setting(c)) => offset <= limit

(* A drawing that no limit has come between is on the panel, all of it and *)
(* nothing else, wherever it has moved to (display.c:175-193, 442-460);    *)
(* but its last row is gone after the first step back from the limit       *)
(* (display.c:191).                                                        *)
Shown(p) == IF p - offset \in 0 .. Area - 1 THEN p - offset ELSE Black
RowLost(p) == axis = "y" /\ p = Size - 2 /\ offset = limit - 1 /\ panel[p] = Black

PanelShowsFrame ==
    fresh /\ race = "no" /\ At("loop", "idle") /\ ~Setting("buttons") =>
        \A p \in Cell : panel[p] = Shown(p) \/ RowLost(p)

(* Once pages are no longer bound an offset beyond its limit comes back,   *)
(* whatever the cores have done to each other; but with no margin at all   *)
(* nothing moves any more (display.c:292).                                 *)
DriftsBack == <>[][~Bind]_vars => <>[](limit > 0 => offset <= limit)
=============================================================================
