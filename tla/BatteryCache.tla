---------------------------- MODULE BatteryCache ----------------------------
(***************************************************************************)
(* src/battery.c: what the battery last said, shared by the two cores.     *)
(* Core 0 reads the battery into the cache between two transactions of     *)
(* the laptop (battery_update_cache); core 1 asks for updates and prints   *)
(* the cache on a page of the display.  The spin lock covers a whole pass  *)
(* of either; asking (battery_stat_request_update) takes no lock, and is   *)
(* also done by the button callbacks, from an interrupt.                   *)
(***************************************************************************)
EXTENDS Integers

CONSTANTS Count,        \* battery_stat_cache_size
          Reply,        \* what the battery can say, whatever the statistic
          NoReply,      \* the length of a result nobody has read yet
          Pages,        \* the statistics of each page
          Retry,        \* BATTERY_STAT_MIN_RETRY_PERIOD
          LongLived,    \* those of BATTERY_STAT_VALID_PERIOD_CONSTANT
          Period,       \* BATTERY_STAT_VALID_PERIOD_DEFAULT
          LongPeriod,   \* BATTERY_STAT_VALID_PERIOD_CONSTANT
          Failing       \* those whose reads may fail

Stat == 1 .. Count

ASSUME ConstantsAssumption ==
    /\ Count \in Nat \ {0}
    /\ Reply # {} /\ NoReply \notin Reply /\ {"garbage", "torn"} \cap Reply = {}
    /\ Pages # {} /\ \A p \in Pages : p \subseteq Stat
    /\ Retry \in Nat /\ Period \in Nat /\ LongPeriod \in Nat
    /\ Retry <= Period /\ Period <= LongPeriod
    /\ LongLived \subseteq Stat
    /\ Failing \subseteq Stat

VARIABLES
    lock,        \* battery_stat_cache_lock
    need,        \* battery_stat_need_cache_update
    requested,   \* update_requested
    cell,        \* cached_result, result_valid and result_length
    age,         \* the time since last_updated
    never,       \* the statistics whose last_updated is still 0
    pc0, at,     \* core 0, and the statistic it is at
    pc1,         \* core 1
    aod,         \* its page is the one that asks last (aod.c)
    page, todo,  \* the statistics of its page, and those still to do
    text,        \* what it has just printed of each, or kept in a local
    derived,     \* it has just printed a value computed from several
    call,        \* the statistic a callback is asking for, or 0
    spared       \* looked at since asked for, and left for the next time

cacheVars == <<lock, need, requested, cell, age, never, spared>>
core0Vars == <<pc0, at>>
core1Vars == <<pc1, aod, page, todo, text, derived>>
vars == <<cacheVars, core0Vars, core1Vars, call>>

Cell == [data : Reply \cup {"garbage", "torn"}, valid : BOOLEAN, length : Reply \cup {NoReply}]
Text == [as : {"unset", "loading", "error"}] \cup
        [as : {"value"}, data : Reply \cup {"garbage", "torn"}, length : Reply \cup {NoReply}]
Horizon == LongPeriod + 1

CacheTypeOK ==
    /\ lock \in {"free", "core0", "core1"}
    /\ need \in BOOLEAN
    /\ requested \in [Stat -> BOOLEAN]
    /\ cell \in [Stat -> Cell]
    /\ age \in [Stat -> 0 .. Horizon]
    /\ never \subseteq Stat
    /\ spared \subseteq Stat
    /\ call \in Stat \cup {0}

CoreTypeOK ==
    /\ pc0 \in {"idle", "lock", "clear", "look", "read"}
    /\ at \in 1 .. Count + 1
    /\ pc0 = "read" => at \in Stat
    /\ pc1 \in {"rest", "ask", "need", "lock", "show", "unlock"}
    /\ aod \in BOOLEAN
    /\ page \subseteq Stat /\ todo \subseteq page
    /\ text \in [Stat -> Text]
    /\ derived \in BOOLEAN

TypeOK == CacheTypeOK /\ CoreTypeOK

Unset == [as |-> "unset"]

(* init_battery: the results are malloc'ed. *)
Init ==
    /\ lock = "free"
    /\ need = FALSE
    /\ requested = [s \in Stat |-> FALSE]
    /\ cell = [s \in Stat |-> [data |-> "garbage", valid |-> FALSE, length |-> NoReply]]
    /\ age = [s \in Stat |-> 0]
    /\ never = Stat
    /\ pc0 = "idle" /\ at = 1
    /\ pc1 = "rest" /\ aod = FALSE
    /\ page = {} /\ todo = {}
    /\ text = [s \in Stat |-> Unset]
    /\ derived = FALSE
    /\ call = 0
    /\ spared = {}

ValidFor(s) == IF s \in LongLived THEN LongPeriod ELSE Period

IsExpired(s) == s \in never \/ age[s] > ValidFor(s)
IsError(s) == ~cell[s].valid
IsValid(s) == ~IsError(s) /\ ~IsExpired(s)

-----------------------------------------------------------------------------
(* Core 0: battery_update_cache.  The flag is read without the lock, and   *)
(* reset with it, before the statistics are looked at.                     *)

CheckNeed ==
    /\ pc0 = "idle"
    /\ need
    /\ pc0' = "lock"
    /\ UNCHANGED <<cacheVars, at, core1Vars, call>>

Lock0 ==
    /\ pc0 = "lock"
    /\ lock = "free"
    /\ lock' = "core0"
    /\ pc0' = "clear"
    /\ UNCHANGED <<need, requested, cell, age, never, spared, at, core1Vars, call>>

Clear_Forgets ==
    /\ pc0 = "clear"
    /\ at' = 1
    /\ pc0' = "look"
    /\ UNCHANGED <<cacheVars, core1Vars, call>>

Clear ==
    /\ pc0 = "clear"
    /\ need' = FALSE
    /\ at' = 1
    /\ pc0' = "look"
    /\ UNCHANGED <<lock, requested, cell, age, never, spared, core1Vars, call>>

TooSoon_Reversed(s) == age[s] >= Retry
TooSoon(s) == age[s] < Retry

Skip ==
    /\ pc0 = "look" /\ at \in Stat
    /\ ~requested[at] \/ TooSoon(at)
    /\ at' = at + 1
    /\ spared' = IF requested[at] THEN spared \cup {at} ELSE spared
    /\ UNCHANGED <<lock, need, requested, cell, age, never, pc0, core1Vars, call>>

(* battery_update_stat reads into the result itself, a byte at a time,     *)
(* unless nothing comes or an override is in the way.                      *)
BeginRead ==
    /\ pc0 = "look" /\ at \in Stat
    /\ requested[at] /\ ~TooSoon(at)
    /\ pc0' = "read"
    /\ \E d \in {cell[at].data, "torn"} : cell' = [cell EXCEPT ![at].data = d]
    /\ UNCHANGED <<lock, need, requested, age, never, spared, at, core1Vars, call>>

Updated ==
    /\ age' = [age EXCEPT ![at] = 0]
    /\ never' = never \ {at}
    /\ pc0' = "look"
    /\ at' = at + 1
    /\ UNCHANGED <<lock, need, core1Vars, call>>

ReadSucceeds(r) ==
    /\ pc0 = "read"
    /\ cell' = [cell EXCEPT ![at] = [data |-> r, valid |-> TRUE, length |-> r]]
    /\ requested' = [requested EXCEPT ![at] = FALSE]
    /\ UNCHANGED spared
    /\ Updated

(* The request stands, for whoever sets the flag next. *)
ReadFails_Keeps ==
    /\ pc0 = "read" /\ at \in Failing
    /\ spared' = spared \cup {at}
    /\ UNCHANGED <<requested, cell>>
    /\ Updated

ReadFails ==
    /\ pc0 = "read"
    /\ at \in Failing
    /\ cell' = [cell EXCEPT ![at].valid = FALSE]
    /\ spared' = spared \cup {at}
    /\ UNCHANGED requested
    /\ Updated

Unlock0_Clears ==
    /\ pc0 = "look" /\ at = Count + 1
    /\ lock' = "free"
    /\ need' = FALSE
    /\ pc0' = "idle"
    /\ UNCHANGED <<requested, cell, age, never, spared, at, core1Vars, call>>

Unlock0 ==
    /\ pc0 = "look" /\ at = Count + 1
    /\ lock' = "free"
    /\ pc0' = "idle"
    /\ UNCHANGED <<need, requested, cell, age, never, spared, at, core1Vars, call>>

-----------------------------------------------------------------------------
(* Core 1: the update_display of a page, and the requests. *)

(* The pages of the browser ask before they take the lock, the             *)
(* always-on display (isAod) after they have let go of it.                 *)
BeginPage(p, isAod) ==
    /\ pc1 = "rest"
    /\ page' = p /\ todo' = p
    /\ aod' = isAod
    /\ pc1' = IF isAod THEN "lock" ELSE "ask"
    /\ UNCHANGED <<cacheVars, core0Vars, text, derived, call>>

(* First store of battery_stat_request_update. *)
Wanted(s) ==
    /\ requested' = [requested EXCEPT ![s] = TRUE]
    /\ spared' = spared \ {s}
    /\ UNCHANGED <<lock, need, cell, age, never>>

(* Second store of it. *)
Needed ==
    /\ need' = TRUE
    /\ UNCHANGED <<lock, requested, cell, age, never, spared>>

Ask(s) ==
    /\ pc1 = "ask" /\ s \in todo
    /\ Wanted(s)
    /\ todo' = todo \ {s}
    /\ pc1' = "need"
    /\ UNCHANGED <<core0Vars, aod, page, text, derived, call>>

AskNeed ==
    /\ pc1 = "need"
    /\ Needed
    /\ pc1' = "ask"
    /\ UNCHANGED <<core0Vars, aod, page, todo, text, derived, call>>

Asked ==
    /\ pc1 = "ask" /\ todo = {}
    /\ IF aod THEN pc1' = "rest" /\ UNCHANGED todo
              ELSE pc1' = "lock" /\ todo' = page
    /\ UNCHANGED <<cacheVars, core0Vars, aod, page, text, derived, call>>

Lock1_Ignores ==
    /\ pc1 = "lock"
    /\ lock' = "core1"
    /\ pc1' = "show"
    /\ UNCHANGED <<need, requested, cell, age, never, spared, core0Vars, aod, page, todo, text,
                   derived, call>>

Lock1 ==
    /\ pc1 = "lock"
    /\ lock = "free"
    /\ lock' = "core1"
    /\ pc1' = "show"
    /\ UNCHANGED <<need, requested, cell, age, never, spared, core0Vars, aod, page, todo, text,
                   derived, call>>

(* defused_print_batt_stat_error, and the value if that prints nothing. *)
Printed(s) ==
    IF IsExpired(s) THEN [as |-> "loading"]
    ELSE IF IsError(s) THEN [as |-> "error"]
    ELSE [as |-> "value", data |-> cell[s].data, length |-> cell[s].length]

Show(s) ==
    /\ pc1 = "show" /\ s \in todo
    /\ text' = [text EXCEPT ![s] = Printed(s)]
    /\ todo' = todo \ {s}
    /\ UNCHANGED <<cacheVars, core0Vars, pc1, aod, page, derived, call>>

(* The wattage, or the verdict: the validity is tested once more, and then *)
(* the values are taken from the locals.                                   *)
Derive ==
    /\ pc1 = "show" /\ todo = {}
    /\ derived' = \A s \in page : IsValid(s)
    /\ pc1' = "unlock"
    /\ UNCHANGED <<cacheVars, core0Vars, aod, page, todo, text, call>>

Unlock1 ==
    /\ pc1 = "unlock"
    /\ lock' = "free"
    /\ pc1' = IF aod THEN "ask" ELSE "rest"
    /\ todo' = IF aod THEN page ELSE {}
    /\ text' = [s \in Stat |-> Unset]
    /\ derived' = FALSE
    /\ UNCHANGED <<need, requested, cell, age, never, spared, core0Vars, aod, page, call>>

(* The init of a page, from a button callback. *)
CallbackAsks(s) ==
    /\ call = 0
    /\ Wanted(s)
    /\ call' = s
    /\ UNCHANGED <<core0Vars, core1Vars>>

CallbackNeeds ==
    /\ call # 0
    /\ Needed
    /\ call' = 0
    /\ UNCHANGED <<core0Vars, core1Vars>>

(* time_us_64.  Past the horizon one age is like another. *)
Tick ==
    /\ age' = [s \in Stat |-> IF age[s] < Horizon THEN age[s] + 1 ELSE Horizon]
    /\ UNCHANGED <<lock, need, requested, cell, never, spared, core0Vars, core1Vars, call>>

-----------------------------------------------------------------------------
Core0 ==
    \/ CheckNeed \/ Lock0 \/ Clear
    \/ Skip \/ BeginRead \/ ReadFails \/ Unlock0
    \/ \E r \in Reply : ReadSucceeds(r)

Core1 ==
    \/ \E p \in Pages, isAod \in BOOLEAN : BeginPage(p, isAod)
    \/ \E s \in Stat : Ask(s) \/ Show(s)
    \/ AskNeed \/ Asked \/ Lock1 \/ Derive \/ Unlock1

Callback == CallbackNeeds \/ \E s \in Stat : CallbackAsks(s)

Next == Core0 \/ Core1 \/ Callback \/ Tick

Spec == Init /\ [][Next]_vars

(* Both cores run, and so does the clock.  Core 0 spins on a lock that     *)
(* core 1 leaves alone for most of a second (display_update_interval), so  *)
(* it does not miss it for ever.                                           *)
Fairness ==
    /\ WF_vars(Core0) /\ SF_vars(Lock0)
    /\ WF_vars(Core1) /\ WF_vars(CallbackNeeds)
    /\ WF_vars(Tick)
FairSpec == Spec /\ Fairness

-----------------------------------------------------------------------------
(* What is printed is one reply of the battery that passed the checksum,   *)
(* whole and with the length that belongs to it, although core 0 reads     *)
(* into the very cell core 1 prints (battery.c:94-117).                    *)
ShownIsWhole ==
    \A s \in Stat : text[s].as = "value" =>
        text[s].data \in Reply /\ text[s].length = text[s].data

(* A value computed from several is computed from values that were read:   *)
(* the locals `voltage' and `current' of general_info.c:147-148 are        *)
(* assigned before they are multiplied, whatever the clock did meanwhile.  *)
DerivedFromRead == derived => \A s \in page : text[s].as = "value"

(* A request is never forgotten: until it has been looked at, the flag is  *)
(* set, or about to be, or a pass is on its way to it.                     *)
RequestNoticed ==
    \A s \in Stat : requested[s] /\ s \notin spared =>
        \/ need
        \/ pc1 = "need" \/ call = s
        \/ pc0 \in {"look", "read"} /\ at <= s

(* A request for what the battery does answer is served, whatever becomes  *)
(* of the others in the same pass.                                         *)
RequestServed == \A s \in Stat \ Failing : requested[s] ~> ~requested[s]

(* When nobody presses a button, core 1 gets the lock it waits for.        *)
LockIsServed == <>[](call = 0) => (pc1 = "lock" ~> pc1 = "show")
=============================================================================
