------------------------- MODULE BatteryCacheProofs -------------------------
(***************************************************************************)
(* Theorems about BatteryCache, for any number of statistics, any pages,   *)
(* periods and battery.                                                    *)
(***************************************************************************)
EXTENDS BatteryCache, TLAPS

(* Each core is inside exactly when the lock says so. *)
Locked ==
    /\ lock = "core0" <=> pc0 \in {"clear", "look", "read"}
    /\ lock = "core1" <=> pc1 \in {"show", "unlock"}

(* A result that counts as valid is one reply, unless it is being read. *)
CellsWhole ==
    \A s \in Stat : cell[s].valid /\ ~(pc0 = "read" /\ at = s) =>
        cell[s].data \in Reply /\ cell[s].length = cell[s].data

(* What is still valid under the lock was so when it was printed. *)
PrintedWhenValid ==
    /\ pc1 = "lock" => todo = page
    /\ pc1 = "show" => \A s \in page \ todo : IsValid(s) => text[s].as = "value"
    /\ derived => pc1 = "unlock"

IInv ==
    /\ TypeOK /\ Locked /\ CellsWhole /\ PrintedWhenValid
    /\ ShownIsWhole /\ DerivedFromRead /\ RequestNoticed

-----------------------------------------------------------------------------
LEMMA InitIInv == Init => IInv
<1> SUFFICES ASSUME Init PROVE IInv
  OBVIOUS
<1> USE ConstantsAssumption DEF Init, Stat
<1>1. CacheTypeOK
  <2>1. [data |-> "garbage", valid |-> FALSE, length |-> NoReply] \in Cell
    BY DEF Cell
  <2>2. cell \in [Stat -> Cell]
    BY <2>1
  <2>3. age \in [Stat -> 0 .. Horizon]
    BY DEF Horizon
  <2>4. QED
    BY <2>2, <2>3 DEF CacheTypeOK
<1>2. CoreTypeOK
  <2>1. Unset \in Text
    BY DEF Unset, Text
  <2>2. text \in [Stat -> Text]
    BY <2>1
  <2>3. at \in 1 .. Count + 1 /\ pc0 # "read"
    OBVIOUS
  <2>4. QED
    BY <2>2, <2>3 DEF CoreTypeOK
<1>3. Locked /\ CellsWhole /\ PrintedWhenValid
  BY DEF Locked, CellsWhole, PrintedWhenValid
<1>4. ShownIsWhole /\ DerivedFromRead /\ RequestNoticed
  BY DEF ShownIsWhole, DerivedFromRead, RequestNoticed, Unset
<1>5. QED
  BY <1>1, <1>2, <1>3, <1>4 DEF IInv, TypeOK

(* What a step of core 0, of core 1 and of the others leaves alone. *)
LEMMA Core0Frame == Core0 => UNCHANGED <<core1Vars, call>>
  BY DEF Core0, CheckNeed, Lock0, Clear, Skip, BeginRead, ReadSucceeds, ReadFails, Updated,
         Unlock0

LEMMA Core1Frame == Core1 => UNCHANGED <<core0Vars, cell, age, never, call>>
  BY DEF Core1, BeginPage, Ask, AskNeed, Asked, Lock1, Show, Derive, Unlock1, Wanted, Needed,
         cacheVars

LEMMA OthersFrame ==
    Callback \/ Tick => UNCHANGED <<core0Vars, core1Vars, lock, cell, never>>
  BY DEF Callback, CallbackAsks, CallbackNeeds, Tick, Wanted, Needed

-----------------------------------------------------------------------------
(* Types *)

LEMMA PrintedTyped == ASSUME TypeOK, NEW s \in Stat PROVE Printed(s) \in Text
<1>1. [as |-> "loading"] \in Text /\ [as |-> "error"] \in Text
  BY DEF Text
<1>2. cell[s].data \in Reply \cup {"garbage", "torn"} /\ cell[s].length \in Reply \cup {NoReply}
  BY DEF TypeOK, CacheTypeOK, Cell
<1>3. [as |-> "value", data |-> cell[s].data, length |-> cell[s].length] \in Text
  BY <1>2 DEF Text
<1>4. QED
  BY <1>1, <1>3 DEF Printed

LEMMA TypeCore0 == ASSUME TypeOK, Core0 PROVE TypeOK'
<1> USE ConstantsAssumption DEF TypeOK, Stat
<1>1. UNCHANGED <<core1Vars, call>>
  BY Core0Frame
<1>2. cell' \in [Stat -> Cell]
  <2>1. CASE UNCHANGED cell
    BY <2>1 DEF CacheTypeOK
  <2>2. CASE BeginRead
    <3>1. PICK d \in {cell[at].data, "torn"} : cell' = [cell EXCEPT ![at].data = d]
      BY <2>2 DEF BeginRead
    <3>2. at \in Stat /\ cell \in [Stat -> Cell] /\ cell[at] \in Cell
      BY <2>2 DEF BeginRead, CacheTypeOK
    <3>3. d \in Reply \cup {"garbage", "torn"}
      BY <3>1, <3>2 DEF Cell
    <3>4. [cell[at] EXCEPT !.data = d] \in Cell
      BY <3>2, <3>3 DEF Cell
    <3>5. QED
      BY <3>1, <3>2, <3>4
  <2>3. ASSUME NEW r \in Reply, ReadSucceeds(r) PROVE cell' \in [Stat -> Cell]
    <3>1. [data |-> r, valid |-> TRUE, length |-> r] \in Cell
      BY DEF Cell
    <3>2. QED
      BY <2>3, <3>1 DEF ReadSucceeds, CacheTypeOK
  <2>4. CASE ReadFails
    BY <2>4 DEF ReadFails, CacheTypeOK, Cell
  <2>5. QED
    BY <2>1, <2>2, <2>3, <2>4 DEF Core0, CheckNeed, Lock0, Clear, Skip, Unlock0, cacheVars
<1>3. lock' \in {"free", "core0", "core1"} /\ need' \in BOOLEAN
      /\ requested' \in [Stat -> BOOLEAN]
  BY DEF CacheTypeOK, Core0, CheckNeed, Lock0, Clear, Skip, BeginRead, ReadSucceeds, ReadFails,
         Updated, Unlock0, cacheVars
<1>4. age' \in [Stat -> 0 .. Horizon]
  <2>1. UNCHANGED age \/ age' = [age EXCEPT ![at] = 0]
    BY DEF Core0, CheckNeed, Lock0, Clear, Skip, BeginRead, ReadSucceeds, ReadFails, Updated,
           Unlock0, cacheVars
  <2>2. age \in [Stat -> 0 .. Horizon] /\ 0 \in 0 .. Horizon
    BY DEF CacheTypeOK, Horizon
  <2>3. QED
    BY <2>1, <2>2
<1>5. never' \subseteq Stat /\ spared' \subseteq Stat
  BY DEF CacheTypeOK, CoreTypeOK, Core0, CheckNeed, Lock0, Clear, Skip, BeginRead, ReadSucceeds,
         ReadFails, Updated, Unlock0, cacheVars
<1>6. pc0' \in {"idle", "lock", "clear", "look", "read"} /\ at' \in 1 .. Count + 1
      /\ (pc0' = "read" => at' \in Stat)
  BY DEF CoreTypeOK, Core0, CheckNeed, Lock0, Clear, Skip, BeginRead, ReadSucceeds, ReadFails,
         Updated, Unlock0
<1>7. QED
  BY <1>1, <1>2, <1>3, <1>4, <1>5, <1>6 DEF CacheTypeOK, CoreTypeOK, core1Vars

LEMMA TypeCore1 == ASSUME TypeOK, Core1 PROVE TypeOK'
<1> USE DEF TypeOK
<1>1. UNCHANGED <<core0Vars, cell, age, never, call>>
  BY Core1Frame
<1>2. lock' \in {"free", "core0", "core1"} /\ need' \in BOOLEAN
      /\ requested' \in [Stat -> BOOLEAN] /\ spared' \subseteq Stat
  BY DEF CacheTypeOK, Core1, BeginPage, Ask, AskNeed, Asked, Lock1, Show, Derive, Unlock1,
         Wanted, Needed, cacheVars
<1>3. pc1' \in {"rest", "ask", "need", "lock", "show", "unlock"} /\ aod' \in BOOLEAN
  BY DEF CoreTypeOK, Core1, BeginPage, Ask, AskNeed, Asked, Lock1, Show, Derive, Unlock1
<1>4. page' \subseteq Stat /\ todo' \subseteq page' /\ derived' \in BOOLEAN
  BY ConstantsAssumption
     DEF CoreTypeOK, Core1, BeginPage, Ask, AskNeed, Asked, Lock1, Show, Derive, Unlock1
<1>5. text' \in [Stat -> Text]
  <2>1. Unset \in Text
    BY DEF Unset, Text
  <2>2. QED
    BY <2>1, PrintedTyped
       DEF CoreTypeOK, Core1, BeginPage, Ask, AskNeed, Asked, Lock1, Show, Derive, Unlock1
<1>6. QED
  BY <1>1, <1>2, <1>3, <1>4, <1>5 DEF CacheTypeOK, CoreTypeOK, core0Vars

LEMMA TypeOthers == ASSUME TypeOK, Callback \/ Tick PROVE TypeOK'
<1>1. CoreTypeOK'
  BY OthersFrame DEF TypeOK, CoreTypeOK, core0Vars, core1Vars
<1>2. age' \in [Stat -> 0 .. Horizon]
  BY ConstantsAssumption DEF TypeOK, CacheTypeOK, Horizon, Callback, CallbackAsks, CallbackNeeds,
                             Tick, Wanted, Needed
<1>3. need' \in BOOLEAN /\ requested' \in [Stat -> BOOLEAN] /\ spared' \subseteq Stat
      /\ call' \in Stat \cup {0}
  BY DEF TypeOK, CacheTypeOK, Callback, CallbackAsks, CallbackNeeds, Tick, Wanted, Needed
<1>4. QED
  BY <1>1, <1>2, <1>3, OthersFrame DEF TypeOK, CacheTypeOK

-----------------------------------------------------------------------------
(* The lock, and what it protects *)

LEMMA LockedNext == ASSUME TypeOK, Locked, Next PROVE Locked'
<1>1. CASE Core0
  BY <1>1, Core0Frame
     DEF Locked, TypeOK, CoreTypeOK, core1Vars, Core0, CheckNeed, Lock0, Clear, Skip, BeginRead,
         ReadSucceeds, ReadFails, Updated, Unlock0, cacheVars
<1>2. CASE Core1
  BY <1>2, Core1Frame
     DEF Locked, TypeOK, CoreTypeOK, core0Vars, Core1, BeginPage, Ask, AskNeed, Asked, Lock1,
         Show, Derive, Unlock1, Wanted, Needed, cacheVars
<1>3. CASE Callback \/ Tick
  BY <1>3, OthersFrame DEF Locked, core0Vars, core1Vars
<1>4. QED
  BY <1>1, <1>2, <1>3 DEF Next

LEMMA CellsNext == ASSUME TypeOK, Locked, CellsWhole, Next PROVE CellsWhole'
<1>1. CASE Core0
  <2> USE DEF TypeOK, CacheTypeOK, CoreTypeOK, CellsWhole, Cell
  <2>1. CASE CheckNeed \/ Lock0 \/ Clear \/ Skip \/ Unlock0
    BY <2>1 DEF CheckNeed, Lock0, Clear, Skip, Unlock0, cacheVars
  <2>2. CASE BeginRead
    BY <2>2 DEF BeginRead
  <2>3. ASSUME NEW r \in Reply, ReadSucceeds(r) PROVE CellsWhole'
    BY <2>3 DEF ReadSucceeds, Updated
  <2>4. CASE ReadFails
    BY <2>4 DEF ReadFails, Updated
  <2>5. QED
    BY <1>1, <2>1, <2>2, <2>3, <2>4 DEF Core0
<1>2. CASE Core1 \/ Callback \/ Tick
  BY <1>2, Core1Frame, OthersFrame DEF CellsWhole, core0Vars
<1>3. QED
  BY <1>1, <1>2 DEF Next

LEMMA ShownNext ==
    ASSUME TypeOK, Locked, CellsWhole, ShownIsWhole, Next
    PROVE  ShownIsWhole'
<1>1. CASE UNCHANGED text
  BY <1>1 DEF ShownIsWhole
<1>2. ASSUME NEW s \in Stat, Show(s) PROVE ShownIsWhole'
  <2>1. pc0 # "read"
    BY <1>2 DEF Show, Locked
  <2>2. Printed(s).as = "value" =>
            Printed(s).data \in Reply /\ Printed(s).length = Printed(s).data
    BY <2>1 DEF Printed, IsError, CellsWhole
  <2>3. QED
    BY <1>2, <2>2 DEF Show, ShownIsWhole, TypeOK, CoreTypeOK
<1>3. CASE Unlock1
  BY <1>3 DEF Unlock1, Unset, ShownIsWhole
<1>4. QED
  BY <1>1, <1>2, <1>3, Core0Frame, OthersFrame
     DEF Next, core1Vars, Core1, BeginPage, Ask, AskNeed, Asked, Lock1, Derive

(* Only core 0 makes an expired result valid again. *)
LEMMA ValidEarlier ==
    ASSUME TypeOK, Tick \/ UNCHANGED <<cell, age, never>>, NEW s \in Stat, IsValid(s)'
    PROVE  IsValid(s)
  BY ConstantsAssumption
     DEF TypeOK, CacheTypeOK, Tick, IsValid, IsError, IsExpired, ValidFor, Horizon

LEMMA PrintedNext ==
    ASSUME TypeOK, Locked, PrintedWhenValid, DerivedFromRead, Next
    PROVE  PrintedWhenValid' /\ DerivedFromRead'
<1>1. CASE Core0
  <2>1. UNCHANGED <<pc1, aod, page, todo, text, derived>>
    BY <1>1, Core0Frame DEF core1Vars
  <2>2. CASE pc1 = "show"
    <3>1. pc0 \notin {"clear", "look", "read"}
      BY <2>2 DEF Locked
    <3>2. UNCHANGED <<cell, age, never>>
      BY <1>1, <3>1 DEF Core0, CheckNeed, Lock0, Clear, Skip, BeginRead, ReadSucceeds, ReadFails,
                        Unlock0, cacheVars
    <3>3. \A s \in page \ todo : IsValid(s)' => IsValid(s)
      BY <3>2, ValidEarlier DEF TypeOK, CoreTypeOK
    <3>4. QED
      BY <2>1, <2>2, <3>3 DEF PrintedWhenValid, DerivedFromRead
  <2>3. CASE pc1 # "show"
    BY <2>1, <2>3 DEF PrintedWhenValid, DerivedFromRead
  <2>4. QED
    BY <2>2, <2>3
<1>2. CASE Core1
  <2> USE DEF PrintedWhenValid, DerivedFromRead
  <2>1. \A s \in Stat : IsValid(s)' <=> IsValid(s)
    BY <1>2, Core1Frame DEF IsValid, IsError, IsExpired, ValidFor
  <2>2. ASSUME NEW p \in Pages, NEW isAod \in BOOLEAN, BeginPage(p, isAod)
        PROVE  PrintedWhenValid' /\ DerivedFromRead'
    BY <2>2 DEF BeginPage
  <2>3. ASSUME NEW s \in Stat, Ask(s) PROVE PrintedWhenValid' /\ DerivedFromRead'
    BY <2>3 DEF Ask
  <2>4. CASE AskNeed \/ Asked \/ Unlock1
    BY <2>4 DEF AskNeed, Asked, Unlock1
  <2>5. CASE Lock1
    BY <2>5 DEF Lock1
  <2>6. ASSUME NEW s \in Stat, Show(s) PROVE PrintedWhenValid' /\ DerivedFromRead'
    <3>1. IsValid(s) => Printed(s).as = "value"
      BY DEF IsValid, Printed
    <3>2. /\ pc1 = "show" /\ pc1' = "show" /\ page' = page /\ derived' = derived
          /\ text' = [text EXCEPT ![s] = Printed(s)] /\ todo' = todo \ {s}
      BY <2>6 DEF Show
    <3>3. ASSUME NEW t \in page' \ todo', IsValid(t)' PROVE text'[t].as = "value"
      <4>1. t \in Stat /\ IsValid(t) /\ text \in [Stat -> Text]
        BY <2>1, <3>2, <3>3 DEF TypeOK, CoreTypeOK
      <4>2. QED
        BY <3>1, <3>2, <3>3, <4>1
    <3>4. QED
      BY <3>2, <3>3
  <2>7. CASE Derive
    <3>1. page \subseteq Stat
      BY DEF TypeOK, CoreTypeOK
    <3>2. QED
      BY <2>7, <3>1 DEF Derive
  <2>8. QED
    BY <1>2, <2>2, <2>3, <2>4, <2>5, <2>6, <2>7 DEF Core1
<1>3. CASE Callback \/ Tick
  <2>1. UNCHANGED <<pc1, aod, page, todo, text, derived>>
    BY <1>3, OthersFrame DEF core1Vars
  <2>2. Tick \/ UNCHANGED <<cell, age, never>>
    BY <1>3 DEF Callback, CallbackAsks, CallbackNeeds, Wanted, Needed
  <2>3. \A s \in page \ todo : IsValid(s)' => IsValid(s)
    BY <2>2, ValidEarlier DEF TypeOK, CoreTypeOK
  <2>4. QED
    BY <2>1, <2>3 DEF PrintedWhenValid, DerivedFromRead
<1>4. QED
  BY <1>1, <1>2, <1>3 DEF Next

-----------------------------------------------------------------------------
(* Requests *)

LEMMA NoticedNext == ASSUME TypeOK, RequestNoticed, Next PROVE RequestNoticed'
<1> USE ConstantsAssumption DEF RequestNoticed, Stat
<1>1. CASE Core0
  <2>1. UNCHANGED <<pc1, call>>
    BY <1>1, Core0Frame DEF core1Vars
  <2>2. CASE CheckNeed \/ Lock0 \/ BeginRead
    BY <2>1, <2>2 DEF CheckNeed, Lock0, BeginRead, cacheVars
  <2>3. CASE Clear
    BY <2>1, <2>3 DEF Clear
  <2>4. CASE Skip
    BY <2>1, <2>4 DEF Skip, TypeOK, CacheTypeOK, CoreTypeOK
  <2>5. CASE ReadFails
    BY <2>1, <2>5 DEF ReadFails, Updated, TypeOK, CoreTypeOK
  <2>6. ASSUME NEW r \in Reply, ReadSucceeds(r) PROVE RequestNoticed'
    <3>1. at \in Stat /\ requested \in [Stat -> BOOLEAN] /\ pc0' = "look" /\ at' = at + 1
          /\ requested' = [requested EXCEPT ![at] = FALSE] /\ UNCHANGED <<need, spared>>
      BY <2>6 DEF ReadSucceeds, Updated, TypeOK, CacheTypeOK, CoreTypeOK
    <3>2. ASSUME NEW s \in Stat, requested'[s] PROVE requested[s] /\ s # at
      BY <3>1, <3>2
    <3>3. QED
      BY <2>1, <3>1, <3>2
  <2>7. CASE Unlock0
    BY <2>1, <2>7 DEF Unlock0, TypeOK, CoreTypeOK
  <2>8. QED
    BY <1>1, <2>2, <2>3, <2>4, <2>5, <2>6, <2>7 DEF Core0
<1>2. CASE Core1
  <2>1. UNCHANGED <<pc0, at, call>>
    BY <1>2, Core1Frame DEF core0Vars
  <2>2. ASSUME NEW s \in Stat, Ask(s) PROVE RequestNoticed'
    BY <2>1, <2>2 DEF Ask
  <2>3. CASE AskNeed
    BY <2>3 DEF AskNeed, Needed
  <2>4. CASE pc1 # "need" /\ UNCHANGED <<need, requested, spared>>
    BY <2>1, <2>4
  <2>5. QED
    BY <1>2, <2>2, <2>3, <2>4
       DEF Core1, BeginPage, Asked, Lock1, Show, Derive, Unlock1, cacheVars
<1>3. CASE Callback \/ Tick
  <2>1. UNCHANGED <<pc0, at, pc1>>
    BY <1>3, OthersFrame DEF core0Vars, core1Vars
  <2>2. CASE CallbackNeeds
    BY <2>2 DEF CallbackNeeds, Needed
  <2>3. ASSUME NEW s \in Stat, CallbackAsks(s) PROVE RequestNoticed'
    BY <2>1, <2>3 DEF CallbackAsks, Wanted, TypeOK, CacheTypeOK
  <2>4. CASE Tick
    BY <2>1, <2>4 DEF Tick
  <2>5. QED
    BY <1>3, <2>2, <2>3, <2>4 DEF Callback
<1>4. QED
  BY <1>1, <1>2, <1>3 DEF Next

LEMMA NextIInv == IInv /\ [Next]_vars => IInv'
<1>1. ASSUME IInv, Next PROVE IInv'
  <2>1. TypeOK'
    BY <1>1, TypeCore0, TypeCore1, TypeOthers DEF IInv, Next
  <2>2. QED
    BY <1>1, <2>1, LockedNext, CellsNext, ShownNext, PrintedNext, NoticedNext DEF IInv
<1>2. ASSUME IInv, UNCHANGED vars PROVE IInv'
  <2> USE <1>2 DEF IInv, vars, cacheVars, core0Vars, core1Vars
  <2>1. TypeOK'
    BY DEF TypeOK, CacheTypeOK, CoreTypeOK
  <2>2. Locked' /\ CellsWhole' /\ ShownIsWhole' /\ DerivedFromRead' /\ RequestNoticed'
    BY DEF Locked, CellsWhole, ShownIsWhole, DerivedFromRead, RequestNoticed
  <2>3. PrintedWhenValid'
    BY DEF PrintedWhenValid, IsValid, IsError, IsExpired, ValidFor
  <2>4. QED
    BY <2>1, <2>2, <2>3
<1>3. QED
  BY <1>1, <1>2

(* The invariant the theorems below follow from: the lock is held by the   *)
(* core that is inside, and only a result being read may be neither whole  *)
(* nor marked invalid.                                                     *)
THEOREM Inductive == Spec => []IInv
  BY InitIInv, NextIInv, PTL DEF Spec

(* All variables keep their types; core 0 never leaves the cache.          *)
THEOREM TypeCorrect == Spec => []TypeOK
<1>1. IInv => TypeOK
  BY DEF IInv
<1>2. QED
  BY <1>1, Inductive, PTL

(* Whatever the display prints as a value is one whole reply with its own  *)
(* length, although core 0 reads into the cell that core 1 prints.         *)
THEOREM ShownIsWholeHolds == Spec => []ShownIsWhole
<1>1. IInv => ShownIsWhole
  BY DEF IInv
<1>2. QED
  BY <1>1, Inductive, PTL

(* No derived value is computed from a local that was not assigned.        *)
THEOREM DerivedFromReadHolds == Spec => []DerivedFromRead
<1>1. IInv => DerivedFromRead
  BY DEF IInv
<1>2. QED
  BY <1>1, Inductive, PTL

(* No request is forgotten, although it is made without the lock.          *)
THEOREM RequestNoticedHolds == Spec => []RequestNoticed
<1>1. IInv => RequestNoticed
  BY DEF IInv
<1>2. QED
  BY <1>1, Inductive, PTL
=============================================================================
