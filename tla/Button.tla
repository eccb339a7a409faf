------------------------------- MODULE Button -------------------------------
(***************************************************************************)
(* src/button.c for one button: the interrupt of the edges of its pin, on  *)
(* core 1, and two kinds of alarms on core 0, which debounce and repeat.   *)
(*                                                                         *)
(* Time goes by in ticks.  A timestamp is kept as its age, no further than *)
(* the code compares it, and an alarm as the time left until it is due.    *)
(***************************************************************************)
EXTENDS Integers, Sequences

CONSTANTS Debounce,   \* BUTTON_DEBOUNCE_THRESHOLD
          Interval,   \* BUTTON_REPEAT_INTERVAL
          Delay,      \* BUTTON_REPEAT_DELAY
          Late,       \* an alarm runs at most this late
          Pool,       \* how many alarms the default alarm pool holds
          Bounces,    \* edges of the pin within the time of a debounce
          Prompt      \* the interrupt is served before the next edge

ASSUME ConstantsAssumption ==
    /\ Debounce \in Nat /\ Interval \in Nat /\ Delay \in Nat /\ Late \in Nat
    /\ 0 < Debounce /\ Debounce < Interval /\ Interval + Late <= Delay
    /\ Pool \in Nat /\ Bounces \in Nat
    /\ Prompt \in BOOLEAN

VARIABLES
    pin,       \* "high" (released) or "low" (pressed)
    latched,   \* edges the interrupt has not seen yet
    leading,   \* the later of the two timestamps, if they are not equal
    upAge,     \* now - up_timestamp
    downAge,   \* now - down_timestamp
    state,     \* bouncer->state
    alarms,    \* pending calls of button_state_handler, the earliest first
    chains,    \* pending calls of button_repeat_handler
    event,     \* what button_state_handler is about to report, or "none"
    told,      \* the last event of the callback
    sinceDown, sinceRepeat   \* when there was one; no code reads them

vars == <<pin, latched, leading, upAge, downAge, state, alarms, chains, event,
          told, sinceDown, sinceRepeat>>
timestamps == <<leading, upAge, downAge>>
history == <<told, sinceDown, sinceRepeat>>

TypeOK ==
    /\ pin \in {"high", "low"}
    /\ latched \subseteq {"RISE", "FALL"}
    /\ leading \in {"none", "up", "down"}
    /\ upAge \in 0 .. Delay /\ downAge \in 0 .. Delay
    /\ state \in {"UP", "DOWN"}
    /\ alarms \in Seq(-Late .. Debounce)
    /\ chains \in Seq(-Late .. Delay)
    /\ Len(alarms) + Len(chains) <= Pool
    /\ event \in {"none", "UP", "DOWN"}
    /\ told \in {"UP", "DOWN", "REPEAT"}
    /\ sinceDown \in 0 .. Delay /\ sinceRepeat \in 0 .. Delay

Init ==
    /\ pin = "high"
    /\ latched = {}
    /\ leading = "none" /\ upAge = Delay /\ downAge = Delay
    /\ state = "UP"
    /\ alarms = <<>> /\ chains = <<>>
    /\ event = "none"
    /\ told = "UP" /\ sinceDown = Delay /\ sinceRepeat = Delay

-----------------------------------------------------------------------------
Edge(level) ==
    /\ Prompt => latched = {}
    /\ Len(alarms) < Bounces
    /\ pin # level
    /\ pin' = level
    /\ latched' = latched \cup {IF level = "high" THEN "RISE" ELSE "FALL"}
    /\ UNCHANGED <<timestamps, state, alarms, chains, event, history>>

(* add_alarm_at fails when the pool is full, and nobody looks. *)
HasRoom == Len(alarms) + Len(chains) < Pool

Arms_PressOnly(edge) == edge = "down"
Arms(edge) == HasRoom

(* button_irq_handler: both edges at once count as a release. *)
IrqHandler ==
    /\ latched # {}
    /\ latched' = {}
    /\ leading' = IF "RISE" \in latched THEN "up" ELSE "down"
    /\ upAge' = IF leading' = "up" THEN 0 ELSE upAge
    /\ downAge' = IF leading' = "down" THEN 0 ELSE downAge
    /\ alarms' = IF Arms(leading') THEN Append(alarms, Debounce) ELSE alarms
    /\ UNCHANGED <<pin, state, chains, event, history>>

Settled_Later(age) == age > Debounce
Settled(age) == age >= Debounce

(* button_state_handler up to its last return: the interrupt of the other  *)
(* core may set the timestamps again before it goes on.                    *)
Decide ==
    /\ event = "none"
    /\ alarms # <<>> /\ Head(alarms) <= 0
    /\ alarms' = Tail(alarms)
    /\ event' = CASE leading = "up"   /\ state # "UP"   /\ Settled(upAge)   -> "UP"
                  [] leading = "down" /\ state # "DOWN" /\ Settled(downAge) -> "DOWN"
                  [] OTHER -> "none"
    /\ UNCHANGED <<pin, latched, timestamps, state, chains, history>>

Report ==
    /\ event # "none"
    /\ state' = event
    /\ chains' = IF event = "DOWN" /\ HasRoom THEN Append(chains, Delay) ELSE chains
    /\ event' = "none"
    /\ told' = event
    /\ sinceDown' = IF event = "DOWN" THEN 0 ELSE sinceDown
    /\ UNCHANGED <<pin, latched, timestamps, alarms, sinceRepeat>>

RemoveAt(s, i) == SubSeq(s, 1, i - 1) \o SubSeq(s, i + 1, Len(s))

Held_NoState == downAge >= Delay
Held_NoTime == state = "DOWN"
Held == state = "DOWN" /\ downAge >= Delay

Again(due) == due + Interval

(* button_repeat_handler; the alarm it returns the time of is counted from *)
(* when it was due.                                                        *)
Repeat(i) ==
    /\ event = "none"
    /\ chains[i] <= 0
    /\ IF Held
       THEN /\ chains' = [chains EXCEPT ![i] = Again(@)]
            /\ told' = "REPEAT"
            /\ sinceRepeat' = 0
            /\ UNCHANGED sinceDown
       ELSE /\ chains' = RemoveAt(chains, i)
            /\ UNCHANGED history
    /\ UNCHANGED <<pin, latched, timestamps, state, alarms, event>>

Older(age) == IF age < Delay THEN age + 1 ELSE age

Tick ==
    /\ event = "none"
    /\ Prompt => latched = {}
    /\ \A i \in DOMAIN alarms : alarms[i] > -Late
    /\ \A i \in DOMAIN chains : chains[i] > -Late
    /\ alarms' = [i \in DOMAIN alarms |-> alarms[i] - 1]
    /\ chains' = [i \in DOMAIN chains |-> chains[i] - 1]
    /\ upAge' = Older(upAge) /\ downAge' = Older(downAge)
    /\ sinceDown' = Older(sinceDown) /\ sinceRepeat' = Older(sinceRepeat)
    /\ UNCHANGED <<pin, latched, leading, state, event, told>>

-----------------------------------------------------------------------------
Next ==
    \/ \E level \in {"high", "low"} : Edge(level)
    \/ IrqHandler
    \/ Decide
    \/ Report
    \/ \E i \in DOMAIN chains : Repeat(i)
    \/ Tick

Spec == Init /\ [][Next]_vars

(* Interrupts and alarms are served and time goes on. *)
Fairness ==
    /\ WF_vars(IrqHandler) /\ WF_vars(Decide) /\ WF_vars(Report)
    /\ WF_vars(\E i \in DOMAIN chains : Repeat(i))
    /\ WF_vars(Tick)
FairSpec == Spec /\ Fairness

-----------------------------------------------------------------------------
(* When nothing is pending the button's state is its pin's: of all the     *)
(* alarms the bounces have left, the last one decides, and no late one     *)
(* decides otherwise (button.c:74-86).                                     *)
SettledIsPin ==
    latched = {} /\ alarms = <<>> /\ event = "none" =>
        state = IF pin = "high" THEN "UP" ELSE "DOWN"

(* Repeats begin BUTTON_REPEAT_DELAY after a press was reported and come   *)
(* BUTTON_REPEAT_INTERVAL apart, give or take a late alarm: pressing again *)
(* soon does not add a second chain of repeats to the first                *)
(* (button.c:60-64).                                                       *)
RepeatsArePaced ==
    [][Held /\ (\E i \in DOMAIN chains : Repeat(i)) =>
        sinceDown >= Delay /\ sinceRepeat >= Interval - Late]_vars

(* Presses and releases alternate, and a repeat is never told after the    *)
(* release.                                                                *)
Events == INSTANCE ButtonEvents
ReportsPresses == Events!Spec

(* However it has bounced, a pin that stays where it is gets reported.     *)
SteadyIsReported ==
    \A level \in {"high", "low"} :
        <>[](pin = level) => <>[](told = "UP" <=> level = "high")
=============================================================================
