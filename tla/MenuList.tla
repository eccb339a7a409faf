------------------------------ MODULE MenuList ------------------------------
(***************************************************************************)
(* src/defused/menu_list.c for any tree of lists a developer may define.    *)
(* The handlers run on core 0, the update of the display on core 1, and     *)
(* nothing keeps them apart.  What the bindings have in common is Gui's.    *)
(***************************************************************************)
EXTENDS Integers, Sequences

CONSTANTS List, Root,   \* the lists, and the one main_menu.c opens
          Items,        \* items and items_size of each list
          Onscreen,     \* MENU_LIST_ONSCREEN_ITEMS
          MaxDepth,     \* MENU_LIST_TREE_MAX_DEPTH
          Wrap          \* how many values a size_t has

(* What an item does: its callback, one of these, or a list to go to. *)
CONSTANTS Callback, TreeBack

ASSUME ConstantsAssumption ==
    /\ Root \in List
    /\ Callback \notin List /\ TreeBack \notin List /\ Callback # TreeBack
    /\ Items \in [List -> Seq(List \cup {Callback, TreeBack})]
    /\ Onscreen \in Nat \ {0} /\ MaxDepth \in Nat \ {0} /\ Wrap \in Nat
    /\ \A l \in List : Len(Items[l]) >= 1 /\ Len(Items[l]) + Onscreen <= Wrap

Size(l) == Len(Items[l])
Row == 0 .. Onscreen - 1
Off == <<>>        \* a row, the highlight or the scroll bar when not enabled

HandlerStep == {"idle", "select", "point", "first", "reset", "force"}
LoopStep == {"idle", "call", "below", "raise", "above", "lower", "bar", "thumb",
             "row", "print", "render"}

VARIABLES
    bound,                   \* defused_current_binding is the menu list
    list, back,              \* menu_list_definition and the back stack
    selected, scroll, pre,   \* ..._selected_item_index, ..._item_scroll_index, ..._pre_select
    force,                   \* defused_force_display_update
    handler,                 \* where core 0 is in a handler
    loop, row, item,         \* where core 1 is, the loop variable and item_index
    texts, highlight, bar,   \* the objects
    screen                   \* what was rendered last

tree == <<list, back>>
objects == <<texts, highlight, bar>>
locals == <<row, item>>
drawing == <<loop, locals, objects, screen>>
vars == <<bound, tree, selected, scroll, pre, force, handler, drawing>>

Index == 0 .. Wrap - 1
Texts == {Off} \cup (List \X Index)
Highlights == {Off} \cup (Row \X BOOLEAN)
Bars == {Off} \cup (Index \X Index)

TypeOK ==
    /\ bound \in BOOLEAN
    /\ list \in List /\ back \in Seq(List)
    /\ selected \in Index /\ scroll \in Index /\ pre \in BOOLEAN
    /\ force \in BOOLEAN
    /\ handler \in HandlerStep
    /\ loop \in LoopStep /\ row \in Row /\ item \in Index
    /\ texts \in [Row -> Texts] /\ highlight \in Highlights /\ bar \in Bars
    /\ screen \in [texts : [Row -> Texts], highlight : Highlights, bar : Bars]

Blank == [r \in Row |-> Off]
Picture == [texts |-> texts, highlight |-> highlight, bar |-> bar]

(* Just after the main menu was opened for the first time. *)
Init ==
    /\ bound = TRUE
    /\ list = Root /\ back = <<>>
    /\ selected = 0 /\ scroll = 0 /\ pre = FALSE
    /\ force = TRUE
    /\ handler = "idle"
    /\ loop = "idle" /\ row = 0 /\ item = 0
    /\ texts = Blank /\ highlight = Off /\ bar = Off
    /\ screen = Picture

-----------------------------------------------------------------------------
(* The handlers, on core 0.  Each does one thing the other core can see at *)
(* a time; the update is asked for at the end.                              *)
Handles(step, next) == handler = step /\ handler' = next

NavUp ==
    /\ bound /\ Handles("idle", "force")
    /\ selected > 0
    /\ selected' = selected - 1
    /\ UNCHANGED <<bound, tree, scroll, pre, force, drawing>>

NavDown ==
    /\ bound /\ Handles("idle", "force")
    /\ selected < Size(list) - 1
    /\ selected' = selected + 1
    /\ UNCHANGED <<bound, tree, scroll, pre, force, drawing>>

PreSelect(held) ==
    /\ bound /\ Handles("idle", "force")
    /\ pre' = held
    /\ UNCHANGED <<bound, tree, selected, scroll, force, drawing>>

(* on_select, and what the item does. *)
Select ==
    /\ bound /\ Handles("idle", "select")
    /\ pre' = FALSE
    /\ UNCHANGED <<bound, tree, selected, scroll, force, drawing>>

Chosen == Items[list][selected + 1]

(* Another binding takes the objects and the screen. *)
Unbind ==
    /\ bound' = FALSE
    /\ force' = TRUE
    /\ texts' = Blank /\ highlight' = Off /\ bar' = Off
    /\ screen' = [texts |-> Blank, highlight |-> Off, bar |-> Off]

(* A callback that binds something, or nothing to go back to. *)
Leave ==
    /\ Handles("select", "idle")
    /\ Chosen = Callback \/ (Chosen = TreeBack /\ back = <<>>)
    /\ Unbind
    /\ UNCHANGED <<tree, selected, scroll, pre, loop, locals>>

Descend ==
    /\ Handles("select", "first")
    /\ Chosen \in List
    /\ Len(back) < MaxDepth - 1
    /\ back' = Append(back, list)
    /\ list' = Chosen
    /\ UNCHANGED <<bound, selected, scroll, pre, force, drawing>>

(* A callback that does something else, or no room on the stack. *)
Stay ==
    /\ Handles("select", "idle")
    /\ Chosen = Callback \/ (Chosen \in List /\ Len(back) >= MaxDepth - 1)
    /\ UNCHANGED <<bound, tree, selected, scroll, pre, force, drawing>>

Ascend ==
    /\ Handles("select", "first")
    /\ Chosen = TreeBack /\ back # <<>>
    /\ list' = back[Len(back)]
    /\ back' = SubSeq(back, 1, Len(back) - 1)
    /\ UNCHANGED <<bound, selected, scroll, pre, force, drawing>>

(* Inactive mode, when nobody has pressed anything for long. *)
Sleep ==
    /\ handler = "idle" /\ loop = "idle" /\ bound
    /\ Unbind
    /\ UNCHANGED <<tree, selected, scroll, pre, handler, loop, locals>>

(* bind_main_menu from the stat browser: menu_list_set, and bind. *)
Set_KeepsStack(l) == list' = l /\ back' = back
Set(l) == list' = l /\ back' = <<>>

Open ==
    /\ ~bound /\ Handles("idle", "point")
    /\ Set(Root)
    /\ UNCHANGED <<bound, selected, scroll, pre, force, drawing>>

Point ==
    /\ Handles("point", "first")
    /\ bound' = TRUE
    /\ UNCHANGED <<tree, selected, scroll, pre, force, drawing>>

(* defused_menu_list_init.  New objects show nothing. *)
First ==
    /\ Handles("first", "reset")
    /\ selected' = 0
    /\ UNCHANGED <<bound, tree, scroll, pre, force, drawing>>

Reset ==
    /\ Handles("reset", "force")
    /\ scroll' = 0 /\ pre' = FALSE
    /\ texts' = Blank /\ highlight' = Off /\ bar' = Off
    /\ UNCHANGED <<bound, tree, selected, force, loop, locals, screen>>

(* defused_update_display_now *)
Ask ==
    /\ Handles("force", "idle")
    /\ force' = TRUE
    /\ UNCHANGED <<bound, tree, selected, scroll, pre, drawing>>

Handlers ==
    \/ Leave \/ Descend \/ Stay \/ Ascend
    \/ Point \/ First \/ Reset \/ Ask
Press == NavUp \/ NavDown \/ (\E held \in BOOLEAN : PreSelect(held)) \/ Select \/ Open

-----------------------------------------------------------------------------
(* The loop, on core 1.  It may draw at any time, since time passes. *)
keeps == <<bound, tree, selected, pre, handler>>
Draws(step, next) == loop = step /\ loop' = next

Redraw_Asked ==
    /\ force
    /\ Draws("idle", "call")
    /\ force' = FALSE
    /\ UNCHANGED <<keeps, scroll, locals, objects, screen>>

Redraw ==
    /\ Draws("idle", "call")
    /\ force' = FALSE
    /\ UNCHANGED <<keeps, scroll, locals, objects, screen>>

Call ==
    /\ Draws("call", IF bound THEN "below" ELSE "idle")
    /\ UNCHANGED <<keeps, scroll, force, locals, objects, screen>>

(* menu_list_scroll_selection_onscreen, which reads the selection again     *)
(* for what it does about it.                                              *)
Below ==
    /\ Draws("below", IF selected > (scroll + Onscreen - 1) % Wrap THEN "raise" ELSE "above")
    /\ UNCHANGED <<keeps, scroll, force, locals, objects, screen>>

Raise_OneMore ==
    /\ Draws("raise", "bar")
    /\ scroll' = (selected - Onscreen) % Wrap
    /\ UNCHANGED <<keeps, force, locals, objects, screen>>

Raise ==
    /\ Draws("raise", "bar")
    /\ scroll' = (selected - Onscreen + 1) % Wrap
    /\ UNCHANGED <<keeps, force, locals, objects, screen>>

Above ==
    /\ Draws("above", IF selected < scroll THEN "lower" ELSE "bar")
    /\ UNCHANGED <<keeps, scroll, force, locals, objects, screen>>

Lower ==
    /\ Draws("lower", "bar")
    /\ scroll' = selected
    /\ UNCHANGED <<keeps, force, locals, objects, screen>>

(* The scroll bar: whether there is any, and where. *)
HasBar ==
    /\ Draws("bar", IF Size(list) > Onscreen THEN "thumb" ELSE "row")
    /\ bar' = Off /\ highlight' = Off
    /\ UNCHANGED <<keeps, scroll, force, locals, texts, screen>>

Thumb ==
    /\ Draws("thumb", "row")
    /\ bar' = <<scroll, Size(list)>>
    /\ UNCHANGED <<keeps, scroll, force, locals, texts, highlight, screen>>

(* The rows: whether there is an item, and which. *)
NextItem == (scroll + row) % Wrap
NextRow(step) ==
    /\ loop = step
    /\ IF row < Onscreen - 1 THEN row' = row + 1 /\ loop' = "row"
                             ELSE row' = 0 /\ loop' = "render"

HasItem ==
    /\ NextItem < Size(list)
    /\ Draws("row", "print")
    /\ item' = NextItem
    /\ UNCHANGED <<keeps, scroll, force, row, objects, screen>>

HasNone ==
    /\ NextItem >= Size(list)
    /\ NextRow("row")
    /\ texts' = [texts EXCEPT ![row] = Off]
    /\ UNCHANGED <<keeps, scroll, force, item, highlight, bar, screen>>

(* What is past the end of the list by now is something all the same. *)
PrintRow ==
    /\ NextRow("print")
    /\ texts' = [texts EXCEPT ![row] = <<list, item>>]
    /\ highlight' = IF item = selected THEN <<row, pre>> ELSE highlight
    /\ item' = 0
    /\ UNCHANGED <<keeps, scroll, force, bar, screen>>

(* graphics_render, here or for a marquee *)
Render ==
    /\ loop = "render" \/ (loop = "idle" /\ bound)
    /\ loop' = "idle"
    /\ screen' = Picture
    /\ UNCHANGED <<keeps, scroll, force, locals, objects>>

Loop ==
    \/ Redraw \/ Call \/ Below \/ Raise \/ Above \/ Lower \/ HasBar \/ Thumb
    \/ HasItem \/ HasNone \/ PrintRow \/ Render

Next == Press \/ Handlers \/ Sleep \/ Loop

Spec == Init /\ [][Next]_vars

(* Either core goes on, and the loop draws again and again. *)
Fairness ==
    /\ WF_vars(Handlers)
    /\ WF_vars(Loop)
    /\ WF_vars(Redraw)
FairSpec == Spec /\ Fairness

-----------------------------------------------------------------------------
(* The user is somewhere in the tree: the back stack is a path from the     *)
(* root to the list that is shown, no longer than the stack, and what a     *)
(* release would select is an item of that list (menu_list.c:91, 98-116).   *)
Leads(l, m) == \E i \in 1 .. Size(l) : Items[l][i] = m

SomewhereInTree ==
    LET path == Append(back, list)
    IN  /\ path[1] = Root
        /\ Len(back) < MaxDepth
        /\ \A k \in 1 .. Len(back) : Leads(path[k], path[k + 1])
        /\ bound /\ handler \in {"idle", "select", "force"} => selected < Size(list)

(* What the screen should be: consecutive items from some item on, the      *)
(* selected one among them and highlighted, and a scroll bar for what does  *)
(* not fit.                                                                *)
Shows(top) ==
    /\ screen.texts = [r \in Row |-> LET i == (top + r) % Wrap
                                     IN  IF i < Size(list) THEN <<list, i>> ELSE Off]
    /\ screen.highlight # Off /\ (top + screen.highlight[1]) % Wrap = selected
    /\ screen.bar = IF Size(list) > Onscreen THEN <<top, Size(list)>> ELSE Off

(* What the last handler has changed is on the screen once the loop has     *)
(* nothing to draw, whatever it has read in between, be it an item past     *)
(* the end of a shorter list (menu_list.c:165-168) or a selection that      *)
(* made the scroll index wrap (menu_list.c:127-128); and the first item is  *)
(* then on the first row again as soon as it is selected.                   *)
SelectionIsShown ==
    bound /\ handler = "idle" /\ loop = "idle" /\ ~force =>
        Shows(scroll) /\ (selected = 0 => scroll = 0)

(* Once nothing is pressed any more this comes true for good, though the    *)
(* loop draws again and again, and the item is shown as about to be         *)
(* selected or not: a selection that binds nothing does not ask for that    *)
(* (menu_list.c:90-100), it waits for the next update.                      *)
StaysShown ==
    <>[][~Press]_vars => <>[](bound => Shows(scroll) /\ screen.highlight[2] = pre)
=============================================================================
