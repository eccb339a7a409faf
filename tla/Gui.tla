-------------------------------- MODULE Gui --------------------------------
(***************************************************************************)
(* The display's user interface: src/defused/gui.c with its three bindings *)
(* (stat browser, main menu, always-on display) and the pools and object   *)
(* list of src/graphics.c.  The button callback runs on core 0, the loop   *)
(* on core 1, and nothing keeps them apart.                                *)
(*                                                                         *)
(* What a core has begun is a sequence of steps, each of which reads or    *)
(* writes what the cores share once or for one purpose; a step may put     *)
(* more of them in its place.                                              *)
(***************************************************************************)
EXTENDS Integers, Sequences, FiniteSets, SequencesExt

CONSTANTS MaxBoxes,     \* GRAPHICS_MAX_TEXT_BOXES
          MaxRects,     \* GRAPHICS_MAX_RECTS
          MaxLines,     \* GRAPHICS_MAX_LINES
          MaxObjects,   \* GRAPHICS_MAX_OBJECTS
          LastPage      \* how many pages there are to the stat browser

ASSUME ConstantsAssumption ==
    /\ MaxBoxes \in Nat /\ MaxRects \in Nat /\ MaxLines \in Nat
    /\ MaxObjects \in Nat /\ LastPage \in 1 .. 3

Core == {"buttons", "loop"}
Button == {"nav_up", "select", "nav_down"}
Binding == {"stats", "menu", "aod"}

(* What one init function takes from the pools: text boxes, rectangles and *)
(* lines.  A page of the stat browser stands on the browser's own bar.     *)
Page == <<"general", "health", "manufacture">>
GeneralInit     == [boxes |-> 7,  rects |-> 0, lines |-> 1]
HealthInit      == [boxes |-> 9,  rects |-> 0, lines |-> 0]
ManufactureInit == [boxes |-> 10, rects |-> 0, lines |-> 0]
BarInit         == [boxes |-> 2,  rects |-> 1, lines |-> 0]
ListInit        == [boxes |-> 6,  rects |-> 3, lines |-> 0]
ReadingsInit    == [boxes |-> 4,  rects |-> 0, lines |-> 0]
Needs ==
    [general |-> GeneralInit, health |-> HealthInit, manufacture |-> ManufactureInit,
     bar |-> BarInit, list |-> ListInit, readings |-> ReadingsInit]

(* The items of the main menu, by what they do. *)
Item == <<"battery_stats", "sleep">>

VARIABLES
    todo,                        \* what each core has begun and not done
    binding,                     \* defused_current_binding
    objects,                     \* what has been taken from the pools and listed
    page,                        \* stat_browser_page_index
    selected, menuPre,           \* the menu's item and menu_list_pre_select
    inactive,                    \* defused_inactive_mode
    force,                       \* defused_force_display_update
    idle,                        \* no interaction for DISPLAY_INACTIVITY_TIMEOUT
    preSelecting, longSelect,    \* the select button's state
    pressed,                     \* the select button was told to be down
    shown,                       \* what was drawn last
    raced                        \* a callback has met the loop; no code reads it

boundVars == <<binding, page, selected, menuPre>>
modeVars == <<inactive, idle>>
loopVars == <<force, shown>>
pressVars == <<preSelecting, longSelect, pressed>>
vars == <<todo, boundVars, objects, modeVars, loopVars, pressVars, raced>>

Total(layers, kind) ==
    FoldLeft(LAMBDA n, layer : n + Needs[layer][kind], 0, layers)

Step ==
    {<<name>> : name \in {"init", "force", "sleep", "asleep", "nav_up", "nav_down", "pre_select",
                          "cancel", "select", "held", "redraw", "update"}}
    \cup ({"point", "fill", "draw"} \X Binding)
    \cup ({"wake"} \X Button)
    \cup ({"offer"} \X Button \X {"DOWN", "REPEAT", "UP"})
    \cup ({"answer"} \X {"captured", "ignored"})

TypeOK ==
    /\ todo \in [Core -> Seq(Step)]
    /\ binding \in Binding \cup {"none"}
    /\ objects \in Seq(DOMAIN Needs)
    /\ page \in 1 .. LastPage
    /\ selected \in DOMAIN Item /\ menuPre \in BOOLEAN
    /\ inactive \in BOOLEAN /\ idle \in BOOLEAN
    /\ force \in BOOLEAN
    /\ preSelecting \in BOOLEAN /\ longSelect \in {"no", "captured", "ignored"}
    /\ pressed \in BOOLEAN
    /\ raced \in BOOLEAN

-----------------------------------------------------------------------------
(* Steps. *)
At(c, name) == todo[c] # <<>> /\ Head(todo[c])[1] = name
Arg(c) == Head(todo[c])[2]

(* A callback has met the loop while that binds or is about to.  It counts *)
(* until inactive mode is entered or left by one core alone.               *)
Binds == {"sleep", "asleep", "point", "init", "fill", "force"}
IsBinding(steps) == steps # <<>> /\ Head(steps)[1] \in Binds
Overlap(steps) == IsBinding(steps["loop"]) /\ steps["buttons"] # <<>>

Does(c, steps) ==
    /\ todo' = [todo EXCEPT ![c] = steps]
    /\ raced' = (Overlap(todo') \/ (raced /\ inactive' = inactive))
Then(c, steps) == Does(c, steps \o Tail(todo[c]))

(* defused_bind *)
Bind(b) == << <<"point", b>>, <<"init">> >>

(* init_gui's last call before the loop: the first page. *)
Init ==
    /\ todo = [c \in Core |-> IF c = "loop" THEN Bind("stats") ELSE <<>>]
    /\ binding = "none"
    /\ page = 1 /\ selected = 1 /\ menuPre = FALSE
    /\ objects = <<>>
    /\ inactive = FALSE /\ idle = FALSE
    /\ force = FALSE /\ shown = <<"splash">>
    /\ preSelecting = FALSE /\ longSelect = "no"
    /\ pressed = FALSE
    /\ raced = FALSE

-----------------------------------------------------------------------------
(* Binding, on either core. *)
Point(c) ==
    /\ At(c, "point")
    /\ binding' = Arg(c)
    /\ UNCHANGED <<page, selected, menuPre, objects, modeVars, loopVars, pressVars>>
    /\ Then(c, <<>>)

Open_NoReset(c) ==
    /\ At(c, "init")
    /\ objects' = IF binding = "stats" THEN objects ELSE <<>>
    /\ selected' = IF binding = "menu" THEN 1 ELSE selected
    /\ menuPre' = (menuPre /\ binding # "menu")
    /\ UNCHANGED <<binding, page, modeVars, loopVars, pressVars>>
    /\ Then(c, << <<"fill", binding>> >>)

(* defused_current_binding->init, of what is bound by now, up to and with   *)
(* graphics_reset.                                                         *)
Open(c) ==
    /\ At(c, "init")
    /\ objects' = <<>>
    /\ selected' = IF binding = "menu" THEN 1 ELSE selected
    /\ menuPre' = (menuPre /\ binding # "menu")
    /\ UNCHANGED <<binding, page, modeVars, loopVars, pressVars>>
    /\ Then(c, << <<"fill", binding>> >>)

HasInstances(layers) ==
    /\ Total(layers, "boxes") <= MaxBoxes
    /\ Total(layers, "rects") <= MaxRects
    /\ Total(layers, "lines") <= MaxLines
HasObjects(layers) ==
    Total(layers, "boxes") + Total(layers, "rects") + Total(layers, "lines") <= MaxObjects

Layers(b) ==
    CASE b = "stats" -> <<Page[page], "bar">>
      [] b = "menu"  -> <<"list">>
      [] b = "aod"   -> <<"readings">>

(* The rest of init (get instances, lay them out, add them) and of          *)
(* defused_bind.  When there are no more, the last instance is handed out  *)
(* again, and what does not fit on the list is dropped.                    *)
Fill(c) ==
    /\ At(c, "fill")
    /\ LET more == objects \o Layers(Arg(c))
       IN  objects' = IF HasInstances(more) /\ HasObjects(more) THEN more ELSE objects
    /\ force' = TRUE
    /\ UNCHANGED <<shown, boundVars, modeVars, pressVars>>
    /\ Then(c, <<>>)

(* defused_update_display_now *)
UpdateNow(c) ==
    /\ At(c, "force")
    /\ force' = TRUE
    /\ UNCHANGED <<shown, boundVars, objects, modeVars, pressVars>>
    /\ Then(c, <<>>)

-----------------------------------------------------------------------------
(* Inactive mode: defused_enter_inactive_mode, on either core. *)
Sleep(c) ==
    /\ At(c, "sleep")
    /\ UNCHANGED <<boundVars, objects, modeVars, loopVars, pressVars>>
    /\ Then(c, IF inactive THEN <<>>
               ELSE << <<"asleep">> >> \o Bind("aod"))

Asleep(c) ==
    /\ At(c, "asleep")
    /\ inactive' = TRUE
    /\ UNCHANGED <<idle, boundVars, objects, loopVars, pressVars>>
    /\ Then(c, <<>>)

(* The timeout is far longer than a callback. *)
Elapse ==
    /\ todo["buttons"] = <<>> /\ ~idle /\ ~inactive
    /\ idle' = TRUE
    /\ UNCHANGED <<todo, raced, inactive, boundVars, objects, loopVars, pressVars>>

-----------------------------------------------------------------------------
(* button_callback, on core 0.  One callback comes after the other, and    *)
(* those of the select button as ButtonEvents says; the two others may     *)
(* tell anything.  What is offered of them is their presses and repeats,   *)
(* which are one thing to every binding; their releases do nothing.        *)
(* At most one of them comes while the loop binds, which takes less than   *)
(* BUTTON_DEBOUNCE_THRESHOLD.                                              *)
Event(b) ==
    IF b # "select" THEN {"DOWN", "REPEAT", "UP"}
    ELSE IF pressed THEN {"UP", "REPEAT"} ELSE {"DOWN"}

Offer(b, e) ==
    IF b = "select" THEN << <<"offer", b, e>> >>
    ELSE IF e = "UP" THEN <<>> ELSE << <<"offer", b, "DOWN">> >>

Press(b, e) ==
    /\ todo["buttons"] = <<>>
    /\ e \in Event(b)
    /\ IsBinding(todo["loop"]) => ~raced
    /\ pressed' = IF b = "select" THEN e # "UP" ELSE pressed
    /\ idle' = FALSE
    /\ UNCHANGED <<inactive, preSelecting, longSelect, boundVars, objects, loopVars>>
    /\ Does("buttons", IF e = "DOWN" THEN << <<"wake", b>> >> ELSE Offer(b, e))

Wake_NoBind(c) ==
    /\ At(c, "wake")
    /\ inactive' = FALSE
    /\ UNCHANGED <<idle, boundVars, objects, loopVars, pressVars>>
    /\ Then(c, IF inactive THEN <<>>
               ELSE Offer(Arg(c), "DOWN"))

(* defused_exit_inactive_mode *)
Wake(c) ==
    /\ At(c, "wake")
    /\ inactive' = FALSE
    /\ UNCHANGED <<idle, boundVars, objects, loopVars, pressVars>>
    /\ Then(c, IF inactive THEN Bind("stats")
               ELSE Offer(Arg(c), "DOWN"))

Offered(b, e) ==
    /\ At("buttons", "offer")
    /\ Head(todo["buttons"])[2] = b /\ Head(todo["buttons"])[3] = e

(* Nothing is bound, or the always-on display captures the event. *)
Capture ==
    /\ At("buttons", "offer")
    /\ binding \in {"none", "aod"}
    /\ UNCHANGED <<boundVars, objects, modeVars, loopVars, pressVars>>
    /\ Then("buttons", <<>>)

Navigate_KeepsFlag(b) ==
    /\ b # "select" /\ Offered(b, "DOWN")
    /\ binding \in {"stats", "menu"}
    /\ UNCHANGED <<pressVars, boundVars, objects, modeVars, loopVars>>
    /\ Then("buttons", IF preSelecting THEN << <<"cancel">>, <<b>> >> ELSE << <<b>> >>)

Navigate(b) ==
    /\ b # "select" /\ Offered(b, "DOWN")
    /\ binding \in {"stats", "menu"}
    /\ preSelecting' = FALSE
    /\ UNCHANGED <<longSelect, pressed, boundVars, objects, modeVars, loopVars>>
    /\ Then("buttons", IF preSelecting THEN << <<"cancel">>, <<b>> >> ELSE << <<b>> >>)

SelectUp ==
    /\ Offered("select", "UP")
    /\ binding \in {"stats", "menu"}
    /\ longSelect' = IF longSelect = "captured" THEN "no" ELSE longSelect
    /\ UNCHANGED <<preSelecting, pressed, boundVars, objects, modeVars, loopVars>>
    /\ Then("buttons", IF preSelecting /\ longSelect # "captured" THEN << <<"select">> >>
                       ELSE <<>>)

SelectDown ==
    /\ Offered("select", "DOWN")
    /\ binding \in {"stats", "menu"}
    /\ preSelecting' = TRUE
    /\ longSelect' = "no"
    /\ UNCHANGED <<pressed, boundVars, objects, modeVars, loopVars>>
    /\ Then("buttons", << <<"pre_select">> >>)

SelectRepeat ==
    /\ Offered("select", "REPEAT")
    /\ binding \in {"stats", "menu"}
    /\ UNCHANGED <<boundVars, objects, modeVars, loopVars, pressVars>>
    /\ Then("buttons", IF preSelecting /\ longSelect = "no" THEN << <<"held">> >> ELSE <<>>)

-----------------------------------------------------------------------------
(* The handlers of the bindings; those that do nothing are left out. *)
NoHandler(name) ==
    \/ binding = "aod"
    \/ binding = "stats" /\ name \in {"pre_select", "cancel", "select"}

Ignore(c) ==
    /\ \E name \in {"nav_up", "nav_down", "pre_select", "cancel", "select"} :
        At(c, name) /\ NoHandler(name)
    /\ UNCHANGED <<boundVars, objects, modeVars, loopVars, pressVars>>
    /\ Then(c, <<>>)

InPages(p) == p \in 1 .. LastPage

(* on_nav_up and on_nav_down *)
Move(c) ==
    \E move \in {<<"nav_up", -1>>, <<"nav_down", 1>>} :
        /\ At(c, move[1])
        /\ \/ /\ binding = "stats"
              /\ LET to == page + move[2]
                 IN  /\ page' = IF InPages(to) THEN to ELSE page
                     /\ UNCHANGED <<selected, binding, menuPre, objects, modeVars, loopVars, pressVars>>
                     /\ Then(c, IF InPages(to) THEN Bind("stats") ELSE <<>>)
           \/ /\ binding = "menu"
              /\ LET to == selected + move[2]
                 IN  /\ selected' = IF to \in DOMAIN Item THEN to ELSE selected
                     /\ UNCHANGED <<page, binding, menuPre, objects, modeVars, loopVars, pressVars>>
                     /\ Then(c, IF to \in DOMAIN Item THEN << <<"force">> >> ELSE <<>>)

(* The menu's on_pre_select and on_cancel_select. *)
PreSelect(c) ==
    /\ At(c, "pre_select") /\ binding = "menu"
    /\ menuPre' = TRUE
    /\ UNCHANGED <<binding, page, selected, objects, modeVars, loopVars, preSelecting, longSelect, pressed>>
    /\ Then(c, << <<"force">> >>)

CancelSelect(c) ==
    /\ At(c, "cancel") /\ binding = "menu"
    /\ menuPre' = FALSE
    /\ UNCHANGED <<binding, page, selected, objects, modeVars, loopVars, pressVars>>
    /\ Then(c, << <<"force">> >>)

(* The menu's on_select: the item's callback. *)
Select(c) ==
    /\ At(c, "select") /\ binding = "menu"
    /\ menuPre' = FALSE
    /\ UNCHANGED <<binding, page, selected, objects, modeVars, loopVars, pressVars>>
    /\ Then(c, IF Item[selected] = "sleep" THEN << <<"sleep">> >> ELSE Bind("stats"))

(* on_select_held, and what becomes of its answer. *)
Held(c) ==
    /\ At(c, "held")
    /\ UNCHANGED <<boundVars, objects, modeVars, loopVars, pressVars>>
    /\ Then(c, IF binding = "stats" THEN Bind("menu") \o << <<"answer", "captured">> >>
               ELSE << <<"answer", "ignored">> >>)

Answer(c) ==
    /\ At(c, "answer")
    /\ longSelect' = Arg(c)
    /\ preSelecting' = (preSelecting /\ Arg(c) = "ignored")
    /\ UNCHANGED <<pressed, boundVars, objects, modeVars, loopVars>>
    /\ Then(c, <<>>)

-----------------------------------------------------------------------------
TimedOut_InBrowser == ~inactive /\ idle /\ binding = "stats"
TimedOut == ~inactive /\ idle

(* defused_loop, on core 1.  The inactivity comes first. *)
Loop ==
    /\ todo["loop"] = <<>>
    /\ TimedOut
    /\ UNCHANGED <<boundVars, objects, modeVars, loopVars, pressVars>>
    /\ Does("loop", << <<"sleep">>, <<"redraw">> >>)

(* Nobody asks, and it is too early. *)
KeepDisplay(c) ==
    /\ At(c, "redraw")
    /\ ~force
    /\ UNCHANGED <<boundVars, objects, modeVars, loopVars, pressVars>>
    /\ Then(c, <<>>)

(* The flag falls before update_display is called.  If there was nothing   *)
(* to do about the inactivity, this is the loop's first step, since it      *)
(* remembers nothing of that test.                                         *)
Redraw ==
    /\ (todo["loop"] = <<>> /\ ~TimedOut) \/ At("loop", "redraw")
    /\ force' = FALSE
    /\ UNCHANGED <<shown, boundVars, objects, modeVars, pressVars>>
    /\ Does("loop", << <<"update">> >>)

Update(c) ==
    /\ At(c, "update")
    /\ UNCHANGED <<boundVars, objects, modeVars, loopVars, pressVars>>
    /\ Then(c, << <<"draw", binding>> >>)

Screen(b) ==
    CASE b = "stats" -> <<"stats", page>>
      [] b = "menu"  -> <<"menu", selected, menuPre>>
      [] OTHER       -> <<b>>

Draw_Forgets(c) ==
    /\ At(c, "draw")
    /\ shown' = Screen(Arg(c))
    /\ force' = FALSE
    /\ UNCHANGED <<boundVars, objects, modeVars, pressVars>>
    /\ Then(c, <<>>)

Draw(c) ==
    /\ At(c, "draw")
    /\ shown' = Screen(Arg(c))
    /\ UNCHANGED <<force, boundVars, objects, modeVars, pressVars>>
    /\ Then(c, <<>>)

-----------------------------------------------------------------------------
Common(c) ==
    \/ Point(c) \/ Open(c) \/ Fill(c) \/ UpdateNow(c)
    \/ Sleep(c) \/ Asleep(c)

Buttons ==
    LET c == "buttons"
    IN  \/ Common(c)
        \/ Wake(c) \/ Capture
        \/ \E b \in Button : Navigate(b)
        \/ SelectUp \/ SelectDown \/ SelectRepeat
        \/ Ignore(c) \/ Move(c) \/ PreSelect(c) \/ CancelSelect(c)
        \/ Select(c) \/ Held(c) \/ Answer(c)

GuiLoop ==
    LET c == "loop"
    IN  \/ Common(c)
        \/ Loop
        \/ KeepDisplay(c) \/ Redraw \/ Update(c) \/ Draw(c)

Pressing == \E b \in Button : \E e \in Event(b) : Press(b, e)

Next == Buttons \/ GuiLoop \/ Pressing \/ Elapse

Spec == Init /\ [][Next]_vars

(* Callbacks end, the loop goes round and time goes by. *)
Fairness == WF_vars(Buttons) /\ WF_vars(GuiLoop) /\ WF_vars(Elapse)
FairSpec == Spec /\ Fairness

-----------------------------------------------------------------------------
(* The pools and the object list suffice for what is bound again and again *)
(* (graphics.c:232, 306, 318, 330), unless a callback has met the loop     *)
(* binding: then both cores may fill them at once.                         *)
PoolsSuffice ==
    \A c \in Core : At(c, "fill") /\ ~raced =>
        LET more == objects \o Layers(Arg(c))
        IN  HasInstances(more) /\ HasObjects(more)

(* What has been changed by the last callback is on the display before the *)
(* loop forgets to draw it: the flag falls first (gui.c:182-184).          *)
ChangesAreShown ==
    todo["buttons"] = <<>> /\ todo["loop"] = <<>> /\ ~force => shown = Screen(binding)

(* If no callback has met the loop binding, then whenever no core is       *)
(* binding the mode, the binding and the objects on the list fit together  *)
(* (gui.c:125-156), whichever core has bound it and whatever the loop was  *)
(* drawing meanwhile.                                                      *)
BindingIsWhole ==
    todo["buttons"] = <<>> /\ ~IsBinding(todo["loop"]) /\ ~raced =>
        /\ inactive <=> binding = "aod"
        /\ objects = Layers(binding)

(* A release in the menu selects if and only if the item is shown as about *)
(* to be selected: the press that opened the menu by being held selects    *)
(* nothing, nor the one that woke the display.  gui.c and menu_list.c keep *)
(* a flag each for this (gui.c:84-99, menu_list.c:73-82).                  *)
SelectsWhatIsShown ==
    [][SelectUp /\ binding = "menu" =>
        (menuPre <=> todo'["buttons"] = << <<"select">> >>)]_vars

(* If the buttons are left alone, the display ends up in inactive mode,    *)
(* whatever the two cores have done to each other (gui.c:168).             *)
FallsAsleep ==
    <>[][~Pressing]_vars => <>[]inactive
=============================================================================
