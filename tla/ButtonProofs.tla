---------------------------- MODULE ButtonProofs ----------------------------
(***************************************************************************)
(* Proofs about Button, for any thresholds, any lateness of the alarms and *)
(* an alarm pool of any size.                                              *)
(***************************************************************************)
EXTENDS Button, SequenceTheorems, TLAPS

(* What the two handlers know of each other: an event that is about to be  *)
(* reported is a change, and the last event told agrees with the state.    *)
InStep ==
    /\ state \in {"UP", "DOWN"}
    /\ event \in {"none", "UP", "DOWN"}
    /\ event # state
    /\ told \in {"UP", "DOWN", "REPEAT"}
    /\ told = "UP" <=> state = "UP"

LEMMA InitInStep == Init => InStep
BY DEF Init, InStep

LEMMA NextInStep == InStep /\ [Next]_vars => InStep'
<1> SUFFICES ASSUME InStep, [Next]_vars PROVE InStep'
  OBVIOUS
<1>1. CASE \E level \in {"high", "low"} : Edge(level)
  BY <1>1 DEF InStep, Edge, history
<1>2. CASE IrqHandler
  BY <1>2 DEF InStep, IrqHandler, history
<1>3. CASE Decide
  <2>1. /\ event' \in {"none", "UP", "DOWN"} /\ event' # state
        /\ UNCHANGED <<state, told>>
    BY <1>3 DEF InStep, Decide, history
  <2> QED
    BY <2>1 DEF InStep
<1>4. CASE Report
  BY <1>4 DEF InStep, Report
<1>5. CASE \E i \in DOMAIN chains : Repeat(i)
  <2>1. PICK i \in DOMAIN chains : Repeat(i)
    BY <1>5
  <2>2. CASE Held
    BY <2>1, <2>2 DEF InStep, Repeat, Held
  <2>3. CASE ~Held
    BY <2>1, <2>3 DEF InStep, Repeat, history
  <2> QED
    BY <2>2, <2>3
<1>6. CASE Tick
  BY <1>6 DEF InStep, Tick
<1>7. CASE UNCHANGED vars
  BY <1>7 DEF InStep, vars, history
<1> QED
  BY <1>1, <1>2, <1>3, <1>4, <1>5, <1>6, <1>7 DEF Next

(* What the callback is told is a press, repeats, a release and so on,     *)
(* however the pin bounces and however late the alarms run                 *)
(* (button.c:56-94).                                                       *)
LEMMA StepReports == InStep /\ InStep' /\ [Next]_vars => [Events!Next]_told
<1> SUFFICES ASSUME InStep, InStep', [Next]_vars, told' # told PROVE Events!Next
  OBVIOUS
<1>1. CASE Report
  BY <1>1 DEF InStep, Report, Events!Next, Events!Event, Events!Follows
<1>2. CASE \E i \in DOMAIN chains : Repeat(i)
  <2>1. state = "DOWN" /\ told' = "REPEAT"
    BY <1>2 DEF Repeat, Held, history
  <2> QED
    BY <2>1 DEF InStep, Events!Next, Events!Event, Events!Follows
<1>3. CASE ~Report /\ ~(\E i \in DOMAIN chains : Repeat(i))
  BY <1>3 DEF Next, Edge, IrqHandler, Decide, Tick, vars, history
<1> QED
  BY <1>1, <1>2, <1>3

(* The two handlers of alarms stay in step, whatever the pin does.         *)
THEOREM HandlersInStep == Spec => []InStep
BY InitInStep, NextInStep, PTL DEF Spec

(* The presses, repeats and releases told are those of ButtonEvents.       *)
THEOREM Refinement == Spec => ReportsPresses
<1>1. Init => Events!Init
  BY DEF Init, Events!Init
<1> QED
  BY <1>1, HandlersInStep, StepReports, PTL DEF Spec, ReportsPresses, Events!Spec

-----------------------------------------------------------------------------
LEMMA RemoveAtShortens ==
    ASSUME NEW S, NEW s \in Seq(S), NEW i \in 1 .. Len(s)
    PROVE  /\ RemoveAt(s, i) \in Seq(S)
           /\ Len(RemoveAt(s, i)) = Len(s) - 1
<1> DEFINE before == SubSeq(s, 1, i - 1)
           after == SubSeq(s, i + 1, Len(s))
<1>1. before \in Seq(S) /\ Len(before) = i - 1
  OBVIOUS
<1>2. after \in Seq(S) /\ Len(after) = Len(s) - i
  OBVIOUS
<1>3. RemoveAt(s, i) = before \o after
  BY DEF RemoveAt
<1>4. Len(s) \in Nat
  OBVIOUS
<1> HIDE DEF before, after
<1>5. before \o after \in Seq(S) /\ Len(before \o after) = Len(before) + Len(after)
  BY <1>1, <1>2, ConcatProperties
<1>6. Len(before) + Len(after) = Len(s) - 1
  BY <1>1, <1>2, <1>4
<1> QED
  BY <1>3, <1>5, <1>6

LEMMA LessOne ==
    ASSUME NEW S, NEW s \in Seq(S), NEW T,
           \A i \in 1 .. Len(s) : s[i] - 1 \in T
    PROVE  /\ [i \in DOMAIN s |-> s[i] - 1] \in Seq(T)
           /\ Len([i \in DOMAIN s |-> s[i] - 1]) = Len(s)
<1> DEFINE n == Len(s)
           t == [i \in 1 .. n |-> s[i] - 1]
<1>1. n \in Nat /\ DOMAIN s = 1 .. n
  BY LenProperties
<1>2. t \in [1 .. n -> T]
  OBVIOUS
<1>3. t \in Seq(T)
  BY <1>1, <1>2, SeqDef
<1>4. DOMAIN t = 1 .. n /\ DOMAIN t = 1 .. Len(t) /\ Len(t) \in Nat
  BY <1>3, LenProperties
<1> HIDE DEF t, n
<1>5. Len(t) = n
  BY <1>1, <1>4
<1> QED
  BY <1>1, <1>3, <1>5 DEF t, n

LEMMA OlderInRange ==
    ASSUME ConstantsAssumption, NEW age \in 0 .. Delay
    PROVE  Older(age) \in 0 .. Delay
BY DEF Older, ConstantsAssumption

LEMMA InitTypeOK == ConstantsAssumption /\ Init => TypeOK
BY DEF Init, TypeOK, ConstantsAssumption

LEMMA NextTypeOK ==
    ConstantsAssumption /\ TypeOK /\ InStep /\ [Next]_vars => TypeOK'
<1> SUFFICES ASSUME ConstantsAssumption, TypeOK, InStep, [Next]_vars PROVE TypeOK'
  OBVIOUS
<1>0. /\ Debounce \in Nat /\ Interval \in Nat /\ Delay \in Nat /\ Late \in Nat /\ Pool \in Nat
      /\ Interval + Late <= Delay /\ 0 < Debounce /\ Debounce < Interval
  BY DEF ConstantsAssumption
<1>1. CASE \E level \in {"high", "low"} : Edge(level)
  BY <1>1 DEF TypeOK, Edge, timestamps, history
<1>2. CASE IrqHandler
  <2>1. /\ alarms' \in Seq(-Late .. Debounce)
        /\ Len(alarms') + Len(chains) <= Pool
    <3>1. CASE Arms(leading')
      BY <1>0, <1>2, <3>1 DEF TypeOK, IrqHandler, Arms, HasRoom
    <3>2. CASE ~Arms(leading')
      BY <1>2, <3>2 DEF TypeOK, IrqHandler
    <3> QED
      BY <3>1, <3>2
  <2>2. /\ leading' \in {"none", "up", "down"}
        /\ upAge' \in 0 .. Delay /\ downAge' \in 0 .. Delay
    BY <1>0, <1>2 DEF TypeOK, IrqHandler
  <2> QED
    BY <1>2, <2>1, <2>2 DEF TypeOK, IrqHandler, history
<1>3. CASE Decide
  <2>1. alarms' \in Seq(-Late .. Debounce) /\ Len(alarms') = Len(alarms) - 1
    BY <1>3 DEF TypeOK, Decide
  <2>2. event' \in {"none", "UP", "DOWN"}
    BY <1>3 DEF Decide
  <2> QED
    BY <1>3, <2>1, <2>2 DEF TypeOK, Decide, timestamps, history
<1>4. CASE Report
  <2>1. /\ chains' \in Seq(-Late .. Delay)
        /\ Len(alarms) + Len(chains') <= Pool
    <3>1. CASE event = "DOWN" /\ HasRoom
      <4>1. chains' = Append(chains, Delay) /\ Delay \in -Late .. Delay
        BY <1>0, <1>4, <3>1 DEF Report
      <4>2. chains \in Seq(-Late .. Delay) /\ Len(alarms) + Len(chains) < Pool
        BY <3>1 DEF TypeOK, HasRoom
      <4>3. Len(alarms) \in Nat /\ Len(chains) \in Nat
        BY DEF TypeOK
      <4>4. chains' \in Seq(-Late .. Delay) /\ Len(chains') = Len(chains) + 1
        BY <4>1, <4>2, AppendProperties
      <4> QED
        BY <1>0, <4>2, <4>3, <4>4
    <3>2. CASE ~(event = "DOWN" /\ HasRoom)
      BY <1>4, <3>2 DEF TypeOK, Report
    <3> QED
      BY <3>1, <3>2
  <2> QED
    BY <1>0, <1>4, <2>1 DEF TypeOK, Report, timestamps
<1>5. CASE \E i \in DOMAIN chains : Repeat(i)
  <2>1. PICK i \in DOMAIN chains : Repeat(i)
    BY <1>5
  <2>2. i \in 1 .. Len(chains) /\ chains[i] \in -Late .. Delay
    BY <2>1 DEF TypeOK
  <2>3. CASE Held
    <3>1. Again(chains[i]) \in -Late .. Delay
      BY <1>0, <2>1, <2>2 DEF Repeat, Again
    <3>2. chains' = [chains EXCEPT ![i] = Again(chains[i])]
      BY <2>1, <2>3 DEF Repeat
    <3>3. chains' \in Seq(-Late .. Delay) /\ Len(chains') = Len(chains)
      BY <2>2, <3>1, <3>2, ExceptSeq DEF TypeOK
    <3> QED
      BY <1>0, <2>1, <2>3, <3>3 DEF TypeOK, Repeat, timestamps
  <2>4. CASE ~Held
    <3>1. chains' \in Seq(-Late .. Delay) /\ Len(chains') = Len(chains) - 1
      <4>1. chains \in Seq(-Late .. Delay) /\ chains' = RemoveAt(chains, i)
        BY <2>1, <2>4 DEF TypeOK, Repeat
      <4> QED
        BY <2>2, <4>1, RemoveAtShortens
    <3>2. Len(alarms) + Len(chains') <= Pool
      <4>1. Len(alarms) \in Nat /\ Len(chains) \in Nat /\ Len(alarms) + Len(chains) <= Pool
        BY DEF TypeOK
      <4> QED
        BY <1>0, <3>1, <4>1
    <3> QED
      BY <2>1, <2>4, <3>1, <3>2 DEF TypeOK, Repeat, timestamps, history
  <2> QED
    BY <2>3, <2>4
<1>6. CASE Tick
  <2>1. alarms' \in Seq(-Late .. Debounce) /\ Len(alarms') = Len(alarms)
    <3>1. \A i \in 1 .. Len(alarms) : alarms[i] - 1 \in -Late .. Debounce
      BY <1>0, <1>6 DEF TypeOK, Tick
    <3>2. alarms \in Seq(-Late .. Debounce) /\ alarms' = [i \in DOMAIN alarms |-> alarms[i] - 1]
      BY <1>6 DEF TypeOK, Tick
    <3> QED
      BY <3>1, <3>2, LessOne
  <2>2. chains' \in Seq(-Late .. Delay) /\ Len(chains') = Len(chains)
    <3>1. \A i \in 1 .. Len(chains) : chains[i] - 1 \in -Late .. Delay
      BY <1>0, <1>6 DEF TypeOK, Tick
    <3>2. chains \in Seq(-Late .. Delay) /\ chains' = [i \in DOMAIN chains |-> chains[i] - 1]
      BY <1>6 DEF TypeOK, Tick
    <3> QED
      BY <3>1, <3>2, LessOne
  <2>3. /\ upAge' \in 0 .. Delay /\ downAge' \in 0 .. Delay
        /\ sinceDown' \in 0 .. Delay /\ sinceRepeat' \in 0 .. Delay
    BY <1>6, OlderInRange DEF TypeOK, Tick
  <2> QED
    BY <1>6, <2>1, <2>2, <2>3 DEF TypeOK, Tick
<1>7. CASE UNCHANGED vars
  BY <1>7 DEF TypeOK, vars, timestamps, history
<1> QED
  BY <1>1, <1>2, <1>3, <1>4, <1>5, <1>6, <1>7 DEF Next

(* The alarms are never later than the lateness they are allowed nor more  *)
(* than the pool holds, for any thresholds (button.c:65, 90, 110).         *)
THEOREM TypeCorrect == Spec => []TypeOK
<1>1. Init => TypeOK
  BY InitTypeOK, ConstantsAssumption
<1>2. TypeOK /\ InStep /\ [Next]_vars => TypeOK'
  BY NextTypeOK, ConstantsAssumption
<1> QED
  BY <1>1, <1>2, HandlersInStep, PTL DEF Spec
-----------------------------------------------------------------------------
(* Chains of repeats.  For the repeats to be paced an alarm has to run     *)
(* before the next debounce is over, and a chain that has just told a      *)
(* repeat again before the press after that is as old as Held asks for:    *)
(* the thresholds of button.h are 1, 50 and 1000 ms.                       *)
OnTime == Late < Debounce /\ Interval + Late < Delay

(* How much time a chain can have left when a release is reported.         *)
Left == IF Interval < Delay - Debounce THEN Delay - Debounce ELSE Interval

Index == 1 .. Len(chains)

(* A chain that has seen a release runs before the press that follows is   *)
(* old enough, and ends.                                                   *)
Dead(i) ==
    /\ chains[i] <= Left
    /\ state = "DOWN" \/ leading = "down" \/ event = "DOWN" => chains[i] + downAge <= Left

(* The chain of the last press.                                            *)
Live(i) ==
    /\ state = "DOWN"
    /\ sinceDown + chains[i] >= Delay \/ sinceDown = Delay
    /\ sinceRepeat + chains[i] >= Interval - Late \/ sinceRepeat = Delay
    /\ chains[i] <= Interval \/ chains[i] + sinceDown <= Delay

(* An event was decided on in this very tick.                              *)
Ages ==
    /\ state = "DOWN" /\ leading = "up" => upAge <= sinceDown
    /\ event = "DOWN" => state = "UP" /\ (leading = "up" => upAge = 0)
    /\ event = "UP" => state = "DOWN" /\ (leading = "down" => downAge = 0)

Chains ==
    /\ \A i \in Index : Dead(i) \/ (i = Len(chains) /\ Live(i))
    /\ event = "UP" => \A i \in Index : chains[i] <= Left
    /\ event = "DOWN" => \A i \in Index : chains[i] <= Left - Debounce

Typed == TypeOK /\ InStep
Paced == Typed /\ Ages /\ Chains

LEMMA Thresholds ==
    /\ Debounce \in Nat /\ Interval \in Nat /\ Delay \in Nat /\ Late \in Nat /\ Pool \in Nat
    /\ 0 < Debounce /\ Debounce < Interval /\ Interval + Late <= Delay
    /\ Left \in Nat /\ Interval <= Left /\ Delay - Debounce <= Left
BY ConstantsAssumption DEF ConstantsAssumption, Left

LEMMA ChainsTyped ==
    ASSUME Typed
    PROVE  /\ Len(chains) \in Nat /\ DOMAIN chains = Index
           /\ \A i \in Index : chains[i] \in Int /\ chains[i] >= -Late /\ chains[i] <= Delay
<1>1. chains \in Seq(-Late .. Delay)
  BY DEF Typed, TypeOK
<1> QED
  BY <1>1, LenProperties, Thresholds DEF Index

(* What a step does to the chains.                                         *)
LEMMA ChainEnds ==
    ASSUME NEW S, NEW s \in Seq(S), NEW i \in 1 .. Len(s)
    PROVE  /\ Len(RemoveAt(s, i)) = Len(s) - 1
           /\ \A k \in 1 .. Len(s) - 1 : RemoveAt(s, i)[k] = IF k < i THEN s[k] ELSE s[k + 1]
<1> DEFINE before == SubSeq(s, 1, i - 1)
           after == SubSeq(s, i + 1, Len(s))
<1>1. before \in Seq(S) /\ Len(before) = i - 1 /\ \A k \in 1 .. i - 1 : before[k] = s[k]
  OBVIOUS
<1>2. /\ after \in Seq(S) /\ Len(after) = Len(s) - i
      /\ \A k \in 1 .. Len(s) - i : after[k] = s[k + i]
  OBVIOUS
<1>3. RemoveAt(s, i) = before \o after
  BY DEF RemoveAt
<1>4. Len(s) \in Nat
  OBVIOUS
<1> HIDE DEF before, after
<1>5. ASSUME NEW k \in 1 .. Len(s) - 1
      PROVE  (before \o after)[k] = IF k < i THEN s[k] ELSE s[k + 1]
  <2>1. (before \o after)[k] = IF k <= Len(before) THEN before[k] ELSE after[k - Len(before)]
    BY <1>1, <1>2, <1>4, ConcatProperties
  <2>2. CASE k < i
    BY <1>1, <1>4, <2>1, <2>2
  <2>3. CASE ~(k < i)
    <3>1. k - (i - 1) \in 1 .. Len(s) - i /\ (k - (i - 1)) + i = k + 1
      BY <1>4, <2>3
    <3> QED
      BY <1>1, <1>2, <1>4, <2>1, <2>3, <3>1
  <2> QED
    BY <2>2, <2>3
<1> QED
  BY <1>3, <1>5, RemoveAtShortens

LEMMA AgesNext == ASSUME Typed, Ages, [Next]_vars PROVE Ages'
<1> USE Thresholds DEF Typed, TypeOK, InStep, Ages
<1>1. CASE \E level \in {"high", "low"} : Edge(level)
  BY <1>1 DEF Edge, timestamps, history
<1>2. CASE IrqHandler
  BY <1>2 DEF IrqHandler, history
<1>3. CASE Decide
  <2>1. /\ event' = "UP" => leading = "up" /\ state # "UP"
        /\ event' = "DOWN" => leading = "down" /\ state # "DOWN"
        /\ UNCHANGED <<timestamps, state, history>>
    BY <1>3 DEF Decide
  <2> QED
    BY <2>1 DEF timestamps, history
<1>4. CASE Report
  BY <1>4 DEF Report, timestamps
<1>5. CASE \E i \in Index : Repeat(i)
  BY <1>5 DEF Repeat, Held, timestamps, history
<1>6. CASE Tick
  BY <1>6 DEF Tick, Older
<1>7. CASE UNCHANGED vars
  BY <1>7 DEF vars, timestamps, history
<1> QED
  BY <1>1, <1>2, <1>3, <1>4, <1>5, <1>6, <1>7, ChainsTyped DEF Next

(* Only the chain of the last press tells a repeat.                        *)
LEMMA HeldIsLive ==
    ASSUME OnTime, Paced, Held, NEW i \in Index, chains[i] <= 0
    PROVE  i = Len(chains) /\ Live(i)
<1>1. chains[i] \in Int /\ chains[i] >= -Late
  BY ChainsTyped DEF Paced
<1>2. downAge \in Int
  BY Thresholds DEF Paced, Typed, TypeOK
<1>3. ~Dead(i)
  BY <1>1, <1>2, Thresholds DEF Dead, Held, OnTime, Left
<1> QED
  BY <1>3 DEF Paced, Chains

LEMMA SameChains ==
    ASSUME Typed, Chains, UNCHANGED <<chains, state, sinceDown, sinceRepeat>>,
           UNCHANGED downAge \/ downAge' = 0,
           leading' = "down" \/ event' = "DOWN" =>
               downAge' = 0 \/ leading = "down" \/ event = "DOWN",
           UNCHANGED event \/ event' = "none"
    PROVE  Chains'
<1>1. \A i \in Index : chains[i] \in Int
  BY ChainsTyped
<1>2. downAge \in Int /\ Left \in Int
  BY Thresholds DEF Typed, TypeOK
<1>3. ASSUME NEW i \in Index PROVE Dead(i)' \/ (i = Len(chains) /\ Live(i)')
  <2>1. CASE Dead(i)
    BY <1>1, <1>2, <2>1 DEF Dead
  <2>2. CASE i = Len(chains) /\ Live(i)
    BY <2>2 DEF Live
  <2> QED
    BY <2>1, <2>2 DEF Chains
<1> QED
  BY <1>3 DEF Chains, Index

LEMMA DecideChains == ASSUME Paced, Decide PROVE Chains'
<1> USE DEF Paced
<1>1. /\ event' = "UP" => leading = "up" /\ state # "UP" /\ upAge >= Debounce
      /\ event' = "DOWN" => leading = "down" /\ state # "DOWN" /\ downAge >= Debounce
      /\ event = "none"
      /\ UNCHANGED <<leading, upAge, downAge, state, chains, told, sinceDown, sinceRepeat>>
  BY DEF Decide, Settled, timestamps, history
<1>2. \A i \in Index : chains[i] \in Int
  BY ChainsTyped
<1>3. /\ downAge \in Int /\ upAge \in Int /\ sinceDown \in Int
      /\ state \in {"UP", "DOWN"}
  BY Thresholds DEF Typed, TypeOK
<1>4. ASSUME NEW i \in Index PROVE Dead(i)' \/ (i = Len(chains) /\ Live(i)')
  BY <1>1 DEF Chains, Dead, Live
<1>5. ASSUME event' = "UP", NEW i \in Index PROVE chains[i] <= Left
  <2>1. CASE Dead(i)
    BY <2>1 DEF Dead
  <2>2. CASE Live(i)
    BY <1>1, <1>2, <1>3, <1>5, <2>2, Thresholds DEF Live, Ages
  <2> QED
    BY <2>1, <2>2 DEF Chains
<1>6. ASSUME event' = "DOWN", NEW i \in Index PROVE chains[i] <= Left - Debounce
  <2>1. Dead(i)
    BY <1>1, <1>6 DEF Chains, Live
  <2> QED
    BY <1>1, <1>2, <1>3, <1>6, <2>1, Thresholds DEF Dead
<1> QED
  BY <1>1, <1>4, <1>5, <1>6 DEF Chains, Index

(* A press that is reported adds a chain, if there is room.                *)
LEMMA ReportAdds ==
    ASSUME Typed, Report
    PROVE  \/ UNCHANGED chains
           \/ /\ event = "DOWN" /\ Len(chains') = Len(chains) + 1
              /\ chains'[Len(chains) + 1] = Delay
              /\ \A i \in Index : chains'[i] = chains[i]
<1>1. chains \in Seq(-Late .. Delay) /\ Delay \in -Late .. Delay
  BY Thresholds DEF Typed, TypeOK
<1>2. chains' = chains \/ (event = "DOWN" /\ chains' = Append(chains, Delay))
  BY DEF Report
<1> QED
  BY <1>1, <1>2, AppendProperties DEF Index

LEMMA ReportChains == ASSUME Paced, Report PROVE Chains'
<1> USE DEF Paced
<1>1. /\ event # "none" /\ state' = event /\ event' = "none"
      /\ sinceDown' = IF event = "DOWN" THEN 0 ELSE sinceDown
      /\ UNCHANGED <<leading, upAge, downAge, sinceRepeat>>
  BY DEF Report, timestamps
<1>2. event \in {"UP", "DOWN"} /\ downAge \in Int /\ sinceRepeat \in Int /\ sinceRepeat >= 0
  BY <1>1, Thresholds DEF Typed, TypeOK, InStep
<1>3. Len(chains) \in Nat /\ \A i \in Index : chains[i] \in Int
  BY ChainsTyped
<1>4. ASSUME NEW i \in Index, chains'[i] = chains[i] PROVE Dead(i)'
  <2>1. CASE event = "UP"
    <3>1. chains[i] <= Left /\ (leading = "down" => downAge = 0)
      BY <2>1 DEF Chains, Ages
    <3> QED
      BY <1>1, <1>3, <1>4, <2>1, <3>1 DEF Dead
  <2>2. CASE event = "DOWN"
    <3>1. state # "DOWN"
      BY <2>2 DEF Ages
    <3>2. Dead(i)
      BY <3>1 DEF Chains, Live
    <3> QED
      BY <1>1, <1>4, <2>2, <3>2 DEF Dead
  <2> QED
    BY <1>2, <2>1, <2>2
<1>5. CASE UNCHANGED chains
  BY <1>1, <1>4, <1>5 DEF Chains, Index
<1>6. CASE /\ event = "DOWN" /\ Len(chains') = Len(chains) + 1
           /\ chains'[Len(chains) + 1] = Delay
           /\ \A i \in Index : chains'[i] = chains[i]
  <2>1. PICK n \in Nat : n = Len(chains) + 1
    BY <1>3
  <2>2. Live(n)'
    BY <1>1, <1>2, <1>3, <1>6, <2>1, Thresholds DEF Live
  <2>3. \A i \in 1 .. n : Dead(i)' \/ i = n
    BY <1>3, <1>4, <1>6, <2>1 DEF Index
  <2> QED
    BY <1>1, <1>6, <2>1, <2>2, <2>3 DEF Chains, Index
<1> QED
  BY <1>5, <1>6, ReportAdds

(* A repeat moves the last chain; another chain ends.                      *)
LEMMA RepeatMoves ==
    ASSUME OnTime, Paced, NEW i \in Index, Repeat(i)
    PROVE  \/ /\ Held /\ i = Len(chains) /\ Live(i) /\ Len(chains') = Len(chains)
              /\ chains'[i] = chains[i] + Interval
              /\ \A k \in 1 .. Len(chains) - 1 : chains'[k] = chains[k]
           \/ /\ ~Held /\ Len(chains') = Len(chains) - 1
              /\ \A k \in 1 .. Len(chains) - 1 : chains'[k] = IF k < i THEN chains[k] ELSE chains[k + 1]
<1>1. chains \in Seq(-Late .. Delay) /\ chains[i] <= 0
  BY DEF Paced, Typed, TypeOK, Repeat
<1>2. CASE Held
  <2>1. i = Len(chains) /\ Live(i)
    BY <1>1, <1>2, HeldIsLive
  <2>2. chains' = [chains EXCEPT ![i] = chains[i] + Interval]
    BY <1>2 DEF Repeat, Again
  <2> QED
    BY <1>1, <1>2, <2>1, <2>2 DEF Index
<1>3. CASE ~Held
  <2>1. chains' = RemoveAt(chains, i)
    BY <1>3 DEF Repeat
  <2> QED
    BY <1>1, <1>3, <2>1, ChainEnds DEF Index
<1> QED
  BY <1>2, <1>3

LEMMA RepeatChains == ASSUME OnTime, Paced, NEW i \in Index, Repeat(i) PROVE Chains'
<1> DEFINE n == Len(chains)
<1>1. /\ UNCHANGED <<leading, upAge, downAge, state, event>> /\ event = "none" /\ chains[i] <= 0
      /\ IF Held THEN sinceRepeat' = 0 /\ UNCHANGED sinceDown
                 ELSE UNCHANGED <<sinceDown, sinceRepeat>>
  BY DEF Repeat, timestamps, history
<1>2. n \in Nat /\ \A k \in Index : chains[k] \in Int /\ chains[k] >= -Late
  BY ChainsTyped DEF Paced
<1>3. \A k \in 1 .. n - 1 : Dead(k)
  BY <1>2 DEF Paced, Chains, Index
<1>4. CASE /\ Held /\ i = n /\ Live(i) /\ Len(chains') = n
           /\ chains'[i] = chains[i] + Interval
           /\ \A k \in 1 .. n - 1 : chains'[k] = chains[k]
  <2>1. sinceDown \in 0 .. Delay
    BY DEF Paced, Typed, TypeOK
  <2>2. Live(i)'
    BY <1>1, <1>2, <1>4, <2>1, Thresholds DEF Live
  <2>3. \A k \in 1 .. n - 1 : Dead(k)'
    BY <1>1, <1>3, <1>4 DEF Dead
  <2> QED
    BY <1>1, <1>2, <1>4, <2>2, <2>3 DEF Chains, Index
<1>5. CASE /\ ~Held /\ Len(chains') = n - 1
           /\ \A k \in 1 .. n - 1 : chains'[k] = IF k < i THEN chains[k] ELSE chains[k + 1]
  <2>1. ASSUME NEW k \in 1 .. n - 1 PROVE Dead(k)' \/ (k = n - 1 /\ Live(k)')
    <3>1. CASE k < i
      <4>1. chains'[k] = chains[k] /\ Dead(k)
        BY <1>3, <1>5, <3>1
      <4> QED
        BY <1>1, <4>1 DEF Dead
    <3>2. CASE ~(k < i)
      <4>1. chains'[k] = chains[k + 1] /\ k + 1 \in Index
        BY <1>2, <1>5, <3>2 DEF Index
      <4>2. Dead(k + 1) \/ (k + 1 = n /\ Live(k + 1))
        BY <4>1 DEF Paced, Chains
      <4>3. CASE Dead(k + 1)
        BY <1>1, <4>1, <4>3 DEF Dead
      <4>4. CASE k + 1 = n /\ Live(k + 1)
        BY <1>1, <1>2, <1>5, <4>1, <4>4 DEF Live
      <4> QED
        BY <4>2, <4>3, <4>4
    <3> QED
      BY <3>1, <3>2
  <2> QED
    BY <1>1, <1>5, <2>1 DEF Chains, Index
<1> QED
  BY <1>4, <1>5, RepeatMoves

LEMMA TickAges ==
    ASSUME Typed, Tick
    PROVE  /\ Len(chains') = Len(chains) /\ \A i \in Index : chains'[i] = chains[i] - 1
<1>1. chains \in Seq(-Late .. Delay) /\ chains' = [i \in DOMAIN chains |-> chains[i] - 1]
  BY DEF Typed, TypeOK, Tick
<1>2. \A i \in 1 .. Len(chains) : chains[i] - 1 \in Int
  BY <1>1, Thresholds
<1>3. Len(chains') = Len(chains)
  BY <1>1, <1>2, LessOne
<1> QED
  BY <1>1, <1>3 DEF Index

LEMMA TickChains == ASSUME Paced, Tick PROVE Chains'
<1> USE DEF Paced
<1>1. /\ UNCHANGED <<leading, state, event>> /\ event = "none"
      /\ downAge' = Older(downAge)
      /\ sinceDown' = Older(sinceDown) /\ sinceRepeat' = Older(sinceRepeat)
  BY DEF Tick
<1>2. /\ downAge \in 0 .. Delay /\ sinceDown \in 0 .. Delay /\ sinceRepeat \in 0 .. Delay
  BY DEF Typed, TypeOK
<1>3. Len(chains') = Len(chains) /\ \A i \in Index : chains'[i] = chains[i] - 1
  BY TickAges
<1>4. \A i \in Index : chains[i] \in Int
  BY ChainsTyped
<1>5. ASSUME NEW i \in Index PROVE Dead(i)' \/ (i = Len(chains) /\ Live(i)')
  <2>1. CASE Dead(i)
    BY <1>1, <1>2, <1>3, <1>4, <2>1, Thresholds DEF Dead, Older
  <2>2. CASE i = Len(chains) /\ Live(i)
    <3>1. PICK c \in Int : c = chains[i]
      BY <1>4
    <3>2. PICK d \in Int : d = chains'[i] /\ d = c - 1
      BY <1>3, <3>1
    <3>3. \A age \in 0 .. Delay :
             IF age = Delay THEN Older(age) = Delay ELSE Older(age) + d = age + c
      BY <3>2, Thresholds DEF Older
    <3>4. sinceDown' + d >= Delay \/ sinceDown' = Delay
      BY <1>1, <1>2, <2>2, <3>1, <3>3 DEF Live
    <3>5. sinceRepeat' + d >= Interval - Late \/ sinceRepeat' = Delay
      BY <1>1, <1>2, <2>2, <3>1, <3>3 DEF Live
    <3>6. d <= Interval \/ d + sinceDown' <= Delay
      <4>1. c <= Interval \/ c + sinceDown <= Delay
        BY <2>2, <3>1 DEF Live
      <4>2. CASE c <= Interval
        BY <3>2, <4>2, Thresholds
      <4>3. CASE c + sinceDown <= Delay
        BY <1>1, <1>2, <3>2, <4>3, Thresholds DEF Older
      <4> QED
        BY <4>1, <4>2, <4>3
    <3>7. Live(i)'
      BY <1>1, <2>2, <3>2, <3>4, <3>5, <3>6 DEF Live
    <3> QED
      BY <2>2, <3>7
  <2> QED
    BY <2>1, <2>2 DEF Chains
<1> QED
  BY <1>1, <1>3, <1>5 DEF Chains, Index

LEMMA ChainsNext == ASSUME OnTime, Paced, [Next]_vars PROVE Chains'
<1> USE DEF Paced
<1>1. CASE \E level \in {"high", "low"} : Edge(level)
  BY <1>1, SameChains DEF Edge, timestamps, history
<1>2. CASE IrqHandler
  <2>1. /\ UNCHANGED <<chains, state, sinceDown, sinceRepeat, event>>
        /\ UNCHANGED downAge \/ downAge' = 0
        /\ leading' = "down" => downAge' = 0
    BY <1>2 DEF IrqHandler, history
  <2> QED
    BY <2>1, SameChains
<1>3. CASE Decide
  BY <1>3, DecideChains
<1>4. CASE Report
  BY <1>4, ReportChains
<1>5. CASE \E i \in Index : Repeat(i)
  BY <1>5, RepeatChains
<1>6. CASE Tick
  BY <1>6, TickChains
<1>7. CASE UNCHANGED vars
  BY <1>7, SameChains DEF vars, timestamps, history
<1> QED
  BY <1>1, <1>2, <1>3, <1>4, <1>5, <1>6, <1>7, ChainsTyped DEF Next

LEMMA PacedInit == Init => Paced
<1> SUFFICES ASSUME Init PROVE Paced
  OBVIOUS
<1>1. Typed
  BY InitTypeOK, InitInStep, ConstantsAssumption DEF Typed
<1>2. chains = <<>> /\ state = "UP" /\ event = "none"
  BY DEF Init
<1>3. Index = {}
  BY <1>2 DEF Index
<1> QED
  BY <1>1, <1>2, <1>3 DEF Paced, Ages, Chains

LEMMA PacedNext == ASSUME OnTime, Paced, [Next]_vars PROVE Paced'
<1>1. Typed'
  BY NextTypeOK, NextInStep, ConstantsAssumption DEF Paced, Typed
<1> QED
  BY <1>1, AgesNext, ChainsNext DEF Paced

THEOREM ChainsArePaced == OnTime => (Spec => []Paced)
<1> SUFFICES ASSUME OnTime PROVE Spec => []Paced
  OBVIOUS
<1>1. Paced /\ [Next]_vars => Paced'
  BY PacedNext
<1> QED
  BY <1>1, PacedInit, PTL DEF Spec

(* A repeat comes a whole delay after the press was reported and about an  *)
(* interval after the repeat before, however often the button has been     *)
(* pressed meanwhile: if alarms run before the next debounce is over       *)
(* (button.c:46-66, 88-92).                                                *)
THEOREM RepeatsAreInTime == OnTime => (Spec => RepeatsArePaced)
<1> SUFFICES ASSUME OnTime PROVE Spec => RepeatsArePaced
  OBVIOUS
<1>1. ASSUME Paced, Held, NEW i \in Index, Repeat(i)
      PROVE  sinceDown >= Delay /\ sinceRepeat >= Interval - Late
  <2>1. chains[i] <= 0
    BY <1>1 DEF Repeat
  <2>2. Live(i)
    BY <1>1, <2>1, HeldIsLive
  <2>3. PICK c \in Int : c = chains[i] /\ c <= 0
    BY <1>1, <2>1, ChainsTyped DEF Paced
  <2>4. sinceDown \in 0 .. Delay /\ sinceRepeat \in 0 .. Delay
    BY <1>1 DEF Paced, Typed, TypeOK
  <2> QED
    BY <2>2, <2>3, <2>4, Thresholds DEF Live
<1>2. Paced /\ [Next]_vars =>
        [Held /\ (\E i \in DOMAIN chains : Repeat(i)) =>
            sinceDown >= Delay /\ sinceRepeat >= Interval - Late]_vars
  BY <1>1, ChainsTyped DEF Paced
<1> QED
  BY <1>2, ChainsArePaced, PTL DEF Spec, RepeatsArePaced

-----------------------------------------------------------------------------
(* No edge is lost to a full pool.                                         *)
NoAlarmRefused == [][IrqHandler => HasRoom]_vars

Wants == IF pin = "high" THEN "UP" ELSE "DOWN"
Age == IF leading = "up" THEN upAge ELSE downAge

(* The state the pin asks for is still in front of the handlers.           *)
Follows ==
    /\ leading = "none" => pin = "high" \/ latched # {}
    /\ latched = {} /\ leading # "none" => (leading = "up" <=> pin = "high")
    /\ latched # {} => latched = {IF pin = "high" THEN "RISE" ELSE "FALL"}
    /\ alarms # <<>> => leading # "none" /\ Age = Debounce - alarms[Len(alarms)]
    /\ latched = {} /\ alarms = <<>> => Wants = IF event = "none" THEN state ELSE event

LEMMA AlarmsTyped ==
    ASSUME Typed
    PROVE  /\ alarms \in Seq(Int) /\ Len(alarms) \in Nat
           /\ \A i \in 1 .. Len(alarms) : alarms[i] \in Int /\ alarms[i] >= -Late
           /\ alarms = <<>> <=> Len(alarms) = 0
<1>1. alarms \in Seq(-Late .. Debounce)
  BY DEF Typed, TypeOK
<1> QED
  BY <1>1, Thresholds

LEMMA IrqFollows ==
    ASSUME Typed, Follows, IrqHandler, HasRoom
    PROVE  Follows'
<1>2. /\ latched' = {} /\ UNCHANGED pin
      /\ leading' = IF pin = "high" THEN "up" ELSE "down"
      /\ IF pin = "high" THEN upAge' = 0 ELSE downAge' = 0
      /\ alarms' = Append(alarms, Debounce)
  BY DEF Follows, IrqHandler, Arms
<1>3. alarms \in Seq(Int) /\ Debounce \in Int
  BY AlarmsTyped, Thresholds
<1>4. alarms' # <<>> /\ alarms'[Len(alarms')] = Debounce
  BY <1>2, <1>3
<1>5. Age' = 0
  BY <1>2 DEF Age
<1> QED
  BY <1>2, <1>3, <1>4, <1>5 DEF Follows

(* The last of the alarms runs no earlier than a debounce after the last   *)
(* edge, and decides for the edge it saw.                                  *)
LEMMA DecideFollows ==
    ASSUME Prompt, Typed, Follows, Decide
    PROVE  Follows'
<1>1. /\ event = "none" /\ alarms # <<>> /\ Head(alarms) <= 0 /\ alarms' = Tail(alarms)
      /\ UNCHANGED <<pin, latched, leading, upAge, downAge, state>>
  BY DEF Decide, timestamps
<1>2. /\ alarms \in Seq(Int) /\ Len(alarms) \in Nat /\ Len(alarms) >= 1
      /\ alarms[1] <= 0
  BY <1>1, AlarmsTyped
<1>3. Len(alarms') = Len(alarms) - 1 /\ \A i \in 1 .. Len(alarms) - 1 : alarms'[i] = alarms[i + 1]
  BY <1>1, <1>2
<1>4. alarms' # <<>> => alarms'[Len(alarms')] = alarms[Len(alarms)]
  <2>1. ASSUME alarms' # <<>> PROVE Len(alarms) - 1 \in 1 .. Len(alarms) - 1
    BY <1>1, <1>2, <2>1
  <2> QED
    BY <1>2, <1>3, <2>1
<1>5. ASSUME latched = {}, alarms' = <<>>
      PROVE  Wants = IF event' = "none" THEN state ELSE event'
  <2>1. Len(alarms) = 1
    BY <1>2, <1>3, <1>5
  <2>2. leading # "none" /\ Age = Debounce - alarms[1]
    BY <1>1, <2>1 DEF Follows
  <2>3. PICK a \in Int : a = alarms[1] /\ a <= 0
    BY <1>2
  <2>4. Settled(Age)
    BY <2>2, <2>3, Thresholds DEF Settled
  <2>5. (leading = "up" <=> pin = "high") /\ leading \in {"up", "down"} /\ state \in {"UP", "DOWN"}
    BY <1>5, <2>2 DEF Follows, Typed, TypeOK
  <2>6. CASE leading = "up"
    <3>1. Settled(upAge) /\ Wants = "UP"
      BY <2>4, <2>5, <2>6 DEF Age, Wants
    <3>2. event' = IF state # "UP" THEN "UP" ELSE "none"
      BY <2>6, <3>1 DEF Decide
    <3> QED
      BY <3>1, <3>2
  <2>7. CASE leading = "down"
    <3>1. Settled(downAge) /\ Wants = "DOWN"
      BY <2>4, <2>5, <2>7 DEF Age, Wants
    <3>2. event' = IF state # "DOWN" THEN "DOWN" ELSE "none"
      BY <2>7, <3>1 DEF Decide
    <3> QED
      BY <2>5, <3>1, <3>2
  <2> QED
    BY <2>5, <2>6, <2>7
<1>7. Age' = Age /\ Wants' = Wants
  BY <1>1 DEF Age, Wants
<1> QED
  BY <1>1, <1>4, <1>5, <1>7 DEF Follows

LEMMA TickFollows ==
    ASSUME OnTime, Typed, Follows, Tick
    PROVE  Follows'
<1>1. /\ UNCHANGED <<pin, latched, leading, state, event>>
      /\ upAge' = Older(upAge) /\ downAge' = Older(downAge)
      /\ alarms' = [i \in DOMAIN alarms |-> alarms[i] - 1]
      /\ \A i \in DOMAIN alarms : alarms[i] > -Late
  BY DEF Tick
<1>2. /\ alarms \in Seq(Int) /\ Len(alarms) \in Nat
      /\ \A i \in 1 .. Len(alarms) : alarms[i] \in Int
  BY AlarmsTyped
<1>3. alarms' \in Seq(Int) /\ Len(alarms') = Len(alarms)
  BY <1>1, <1>2, LessOne
<1>4. alarms' = <<>> <=> alarms = <<>>
  BY <1>2, <1>3
<1>5. ASSUME alarms # <<>> PROVE Age' = Debounce - alarms'[Len(alarms')]
  <2>1. Len(alarms) \in 1 .. Len(alarms)
    BY <1>2, <1>5
  <2>2. alarms'[Len(alarms')] = alarms[Len(alarms)] - 1
    BY <1>1, <1>2, <1>3, <2>1
  <2>3. PICK a \in Int : a = alarms[Len(alarms)] /\ a > -Late
    BY <1>1, <1>2, <2>1
  <2>4. Age = Debounce - a
    BY <1>5, <2>3 DEF Follows
  <2>5. Age < Delay
    BY <2>3, <2>4, Thresholds DEF OnTime
  <2>6. Age' = Age + 1
    BY <1>1, <2>5 DEF Age, Older
  <2> QED
    BY <2>2, <2>3, <2>4, <2>6, Thresholds
<1>6. Wants' = Wants
  BY <1>1 DEF Wants
<1> QED
  BY <1>1, <1>3, <1>4, <1>5, <1>6 DEF Follows

LEMMA FollowsNext ==
    ASSUME Prompt, OnTime, Paced, Follows, [Next]_vars, [IrqHandler => HasRoom]_vars
    PROVE  Follows'
<1>0. Typed
  BY DEF Paced
<1>1. CASE \E level \in {"high", "low"} : Edge(level)
  <2>1. /\ latched = {} /\ latched' = {IF pin' = "high" THEN "RISE" ELSE "FALL"}
        /\ UNCHANGED <<leading, upAge, downAge, state, alarms, event>>
    BY <1>1 DEF Edge, timestamps
  <2> QED
    BY <2>1 DEF Follows, Age
<1>2. CASE IrqHandler
  <2>1. HasRoom \/ UNCHANGED vars
    BY <1>2
  <2>2. latched' # latched
    BY <1>2 DEF IrqHandler
  <2> QED
    BY <1>0, <1>2, <2>1, <2>2, IrqFollows DEF vars
<1>3. CASE Decide
  BY <1>0, <1>3, DecideFollows
<1>4. CASE Report
  <2>1. /\ event # "none" /\ state' = event /\ event' = "none"
        /\ UNCHANGED <<pin, latched, leading, upAge, downAge, alarms>>
    BY <1>4 DEF Report, timestamps
  <2> QED
    BY <2>1 DEF Follows, Age, Wants
<1>5. CASE \E i \in DOMAIN chains : Repeat(i)
  BY <1>5 DEF Follows, Age, Wants, Repeat, timestamps
<1>6. CASE Tick
  BY <1>0, <1>6, TickFollows
<1>7. CASE UNCHANGED vars
  BY <1>7 DEF Follows, Age, Wants, vars, timestamps
<1> QED
  BY <1>1, <1>2, <1>3, <1>4, <1>5, <1>6, <1>7 DEF Next

(* However the pin has bounced, the last alarm leaves the state the pin is *)
(* in: if every edge is seen, alarms run before the next debounce is over  *)
(* and none is refused (button.c:74-110).                                  *)
THEOREM SettledUnlessRefused ==
    Prompt /\ OnTime => (Spec /\ NoAlarmRefused => []SettledIsPin)
<1> SUFFICES ASSUME Prompt, OnTime PROVE Spec /\ NoAlarmRefused => []SettledIsPin
  OBVIOUS
<1>1. Init => Follows
  BY DEF Init, Follows, Wants
<1>2. Paced /\ Follows /\ [Next]_vars /\ [IrqHandler => HasRoom]_vars => Follows'
  BY FollowsNext
<1>3. Follows => SettledIsPin
  BY DEF Follows, SettledIsPin, Wants
<1> QED
  BY <1>1, <1>2, <1>3, ChainsArePaced, PTL DEF Spec, NoAlarmRefused
=============================================================================
