-------------------------- MODULE GpioInputsProofs ---------------------------
(***************************************************************************)
(* Proofs about GpioInputs, for any number of pins, valid or not, and both  *)
(* programs that register them.                                             *)
(***************************************************************************)
EXTENDS GpioInputs, TLAPS

\* The polling thread only knows registered pins: no other has a thread, and what such
\* a pin was shown at is its level, unless it has changed since.
Unlisted ==
    \A p \in Pins \ list :
        /\ handler[p] = "none"
        /\ ~hasty[p] => shown[p] \in {Unknown, level[p]}

\* The daemon gives up at its first pin.
GivesUpAtOnce == Program = "sprinklerd" /\ next # 0 => main = "gave up"

\* Only gpio_monitor goes on, and it has shown a pin before it registers it.
ListIsShown == Program = "gpio_monitor" => \A p \in list : shown[p] # Unknown

\* A change that came to a waiting thread is on its way to the function until it is
\* shown: not seen by the polling thread, about to be signalled, or in the thread; or
\* the program is at its end.
OnItsWay(p) ==
    \/ handler[p] = "wait" /\ (lastValue[p] # level[p] \/ (poll = "signal" /\ at = p))
    \/ handler[p] \in {"woken", "call"}
    \/ handler[p] \in {"test", "ended"} /\ ~ever
    \/ handler[p] = "none" /\ main = "gave up"

ChangeOnItsWay == \A p \in list : ~hasty[p] /\ shown[p] # level[p] => OnItsWay(p)

IInv == TypeOK /\ Unlisted /\ GivesUpAtOnce /\ ListIsShown /\ ChangeOnItsWay

-----------------------------------------------------------------------------
\* The start: nothing is registered.
LEMMA InitHolds == Init => IInv
BY InputsAssumption DEF Init, IInv, TypeOK, Unlisted, GivesUpAtOnce, ListIsShown,
    ChangeOnItsWay, Pins, Unknown

\* What the types say of one pin.
LEMMA Binary ==
    ASSUME TypeOK, NEW p \in Pins
    PROVE  /\ level[p] \in 0..1 /\ 1 - level[p] \in 0..1 /\ 1 - level[p] # level[p]
           /\ lastValue[p] \in 0..1 /\ 1 - lastValue[p] \in 0..1
           /\ lastValue[p] # level[p] => 1 - lastValue[p] = level[p]
           /\ level[p] # Unknown /\ level[p] \in Unknown..1
<1>1. level[p] \in 0..1 /\ lastValue[p] \in 0..1
  BY DEF TypeOK
<1> QED BY <1>1 DEF Unknown

LEMMA ListIsPins == TypeOK => list \subseteq Pins
<1> SUFFICES ASSUME TypeOK PROVE list \subseteq Pins
  OBVIOUS
<1>1. next \in 0..Inputs /\ list \subseteq ValidPin \cap 1..next
  BY DEF TypeOK
<1> QED BY <1>1, InputsAssumption DEF Pins

\* The polling thread goes on to a pin of the list, or pauses.
LEMMA AdvanceTypes ==
    ASSUME Advance
    PROVE  \/ poll' = "create" /\ at' \in list
           \/ poll' = "round" /\ at' = 0
BY DEF Advance

\* What a registration does, for one pin.
LEMMA Registered ==
    ASSUME IInv, RegisterGPIOinterrupt
    PROVE  /\ next + 1 \in Pins /\ next' = next + 1 /\ next' \in 0..Inputs
           /\ next + 1 \notin list
           /\ list' \subseteq list \cup {next + 1} /\ list \subseteq list'
           /\ list' \subseteq ValidPin \cap 1..next'
           /\ lastValue' \in [Pins -> 0..1]
           /\ \A p \in Pins : p # next + 1 => lastValue'[p] = lastValue[p]
           /\ poll' = poll \/ (poll = "none" /\ poll' = "round")
           /\ main' = IF Program = "sprinklerd" THEN "gave up" ELSE main
<1>1. next \in 0..Inputs /\ list \subseteq ValidPin \cap 1..next
      /\ lastValue \in [Pins -> 0..1] /\ level \in [Pins -> 0..1]
  BY DEF IInv, TypeOK
<1>2. next < Inputs /\ next' = next + 1
  BY DEF RegisterGPIOinterrupt
<1>3. next \in Nat /\ next + 1 \in Pins /\ next + 1 \notin list
  BY <1>1, <1>2, InputsAssumption DEF Pins
<1>4. main' = IF Program = "sprinklerd" THEN "gave up" ELSE main
  BY DEF RegisterGPIOinterrupt, Answer, Success
<1>5. CASE Answer(next + 1) = "GPIO_OK"
  <2>1. next + 1 \in ValidPin
    BY <1>5 DEF Answer
  <2>2. /\ list' = list \cup {next + 1}
        /\ lastValue' = [lastValue EXCEPT ![next + 1] = level[next + 1]]
        /\ poll' = IF poll = "none" THEN "round" ELSE poll
    BY <1>5 DEF RegisterGPIOinterrupt
  <2>3. level[next + 1] \in 0..1
    BY <1>1, <1>3
  <2>4. list' \subseteq ValidPin \cap 1..next'
    BY <1>1, <1>2, <1>3, <2>1, <2>2
  <2>5. poll' = poll \/ (poll = "none" /\ poll' = "round")
    BY <2>2
  <2>6. /\ lastValue' \in [Pins -> 0..1]
        /\ \A p \in Pins : p # next + 1 => lastValue'[p] = lastValue[p]
    BY <1>1, <1>3, <2>2, <2>3
  <2>7. next' \in 0..Inputs /\ list' \subseteq list \cup {next + 1} /\ list \subseteq list'
    BY <1>2, <1>3, <2>2, InputsAssumption DEF Pins
  <2> QED BY <1>2, <1>3, <1>4, <2>4, <2>5, <2>6, <2>7
<1>6. CASE Answer(next + 1) # "GPIO_OK"
  <2>1. UNCHANGED <<list, lastValue, poll>>
    BY <1>6 DEF RegisterGPIOinterrupt
  <2>2. list' \subseteq ValidPin \cap 1..next'
    BY <1>1, <1>2, <1>3, <2>1
  <2>3. next' \in 0..Inputs
    BY <1>2, <1>3, InputsAssumption DEF Pins
  <2>4. list' = list /\ lastValue' = lastValue /\ poll' = poll
    BY <2>1
  <2> QED BY <1>1, <1>2, <1>3, <1>4, <2>2, <2>3, <2>4
<1> QED BY <1>5, <1>6

\* Each step keeps the types.
LEMMA TypesKept == ASSUME IInv, [Next]_vars PROVE TypeOK'
<1>0. TypeOK
  BY DEF IInv
<1> USE InputsAssumption, <1>0 DEF TypeOK, Pins, mainVars, pollVars
<1>1. CASE PrintLevel
  BY <1>1 DEF PrintLevel, Unknown
<1>2. CASE RegisterGPIOinterrupt
  <2>1. list' \subseteq ValidPin \cap 1..next' /\ next' \in 0..Inputs /\ list \subseteq list'
        /\ lastValue' \in [Pins -> 0..1] /\ main' \in {"gave up", main}
        /\ (poll' = poll \/ (poll = "none" /\ poll' = "round"))
    BY <1>2, Registered
  <2>2. UNCHANGED <<ever, level, at, handler, shown, hasty>>
    BY <1>2 DEF RegisterGPIOinterrupt
  <2> QED BY <2>1, <2>2
<1>3. CASE SetupDone
  BY <1>3 DEF SetupDone
<1>4. CASE GpioShutdown
  BY <1>4 DEF GpioShutdown
<1>5. CASE Exit
  BY <1>5 DEF Exit
<1>6. CASE Round
  <2>1. CASE ever
    BY <1>6, <2>1, AdvanceTypes DEF Round
  <2>2. CASE ~ever
    BY <1>6, <2>2 DEF Round
  <2> QED BY <2>1, <2>2
<1>7. CASE Create
  BY <1>7 DEF Create
<1>8. CASE Compare
  <2>1. CASE lastValue[at] # level[at]
    <3>1. at \in Pins
      BY <1>8, ListIsPins DEF Compare
    <3>2. 1 - lastValue[at] \in 0..1
      BY <3>1, Binary
    <3> QED BY <1>8, <2>1, <3>1, <3>2 DEF Compare
  <2>2. CASE lastValue[at] = level[at]
    BY <1>8, <2>2, AdvanceTypes DEF Compare
  <2> QED BY <2>1, <2>2
<1>9. CASE Signal
  BY <1>9, AdvanceTypes DEF Signal
<1>10. ASSUME NEW p \in Pins, Handle(p) PROVE TypeOK'
  <2>1. level[p] \in Unknown..1
    BY Binary
  <2>2. UNCHANGED <<mainVars, pollVars, ever, level, hasty>>
    BY <1>10 DEF Handle
  <2>3. handler' \in [Pins -> {"none", "test", "enter", "wait", "woken", "call", "ended"}]
        /\ shown' \in [Pins -> Unknown..1]
    BY <1>10, <2>1 DEF Handle, Test, Enter, Woken, Call, Goto
  <2> QED BY <2>2, <2>3
<1>11. ASSUME NEW p \in Pins, Unasked(p) PROVE TypeOK'
  BY <1>11 DEF Unasked, Goto
<1>12. ASSUME NEW p \in Pins, Change(p) PROVE TypeOK'
  <2>1. 1 - level[p] \in 0..1 /\ Settled(p) \in BOOLEAN
    BY Binary DEF Settled
  <2>2. level' \in [Pins -> 0..1]
    BY <1>12, <2>1 DEF Change
  <2>3. hasty' \in [Pins -> BOOLEAN]
    BY <1>12, <2>1 DEF Change
  <2> QED BY <1>12, <2>2, <2>3 DEF Change
<1>13. CASE UNCHANGED vars
  BY <1>13 DEF vars
<1> QED BY <1>1, <1>2, <1>3, <1>4, <1>5, <1>6, <1>7, <1>8, <1>9, <1>10, <1>11, <1>12,
          <1>13 DEF Next, Poll

\* Each step keeps what is said of a pin q.
LEMMA PinKept ==
    ASSUME IInv, [Next]_vars, NEW q \in Pins
    PROVE  /\ q \notin list' => handler'[q] = "none"
           /\ q \notin list' /\ ~hasty'[q] => shown'[q] \in {Unknown, level'[q]}
           /\ Program = "gpio_monitor" /\ q \in list' => shown'[q] # Unknown
           /\ q \in list' /\ ~hasty'[q] /\ shown'[q] # level'[q] => OnItsWay(q)'
<1> DEFINE Kept == /\ q \notin list' => handler'[q] = "none"
                   /\ q \notin list' /\ ~hasty'[q] => shown'[q] \in {Unknown, level'[q]}
                   /\ Program = "gpio_monitor" /\ q \in list' => shown'[q] # Unknown
                   /\ q \in list' /\ ~hasty'[q] /\ shown'[q] # level'[q] => OnItsWay(q)'
<1>0. TypeOK /\ Unlisted /\ GivesUpAtOnce /\ ListIsShown /\ ChangeOnItsWay
  BY DEF IInv
<1> USE InputsAssumption, <1>0 DEF TypeOK, Pins, mainVars, pollVars, Unlisted, ListIsShown,
        ChangeOnItsWay, OnItsWay
<1>1. CASE PrintLevel
  <2>1. level[q] # Unknown
    BY Binary
  <2> QED BY <1>1, <2>1 DEF PrintLevel
<1>2. CASE RegisterGPIOinterrupt
  <2>1. UNCHANGED <<ever, level, at, handler, shown, hasty>>
    BY <1>2 DEF RegisterGPIOinterrupt
  <2>2. CASE Program = "sprinklerd"
    BY <1>2, <2>1, <2>2, Registered
  <2>3. CASE Program # "sprinklerd"
    <3>1. Program = "gpio_monitor" /\ shown[next + 1] # Unknown
      BY <1>2, <2>3 DEF RegisterGPIOinterrupt
    <3>2. /\ list' \subseteq list \cup {next + 1} /\ list \subseteq list' /\ main' = main
          /\ \A p \in Pins : p # next + 1 => lastValue'[p] = lastValue[p]
          /\ (poll' = poll \/ (poll = "none" /\ poll' = "round"))
          /\ next + 1 \notin list
      BY <1>2, <2>3, Registered
    <3>3. CASE q = next + 1
      <4>1. q \in Pins \ list
        BY <3>2, <3>3
      <4>2. handler[q] = "none" /\ (~hasty[q] => shown[q] = level[q])
        BY <3>1, <3>3, <4>1
      <4> QED BY <2>1, <3>1, <3>3, <4>2
    <3>4. CASE q # next + 1
      BY <2>1, <3>2, <3>4
    <3> QED BY <3>3, <3>4
  <2> QED BY <2>2, <2>3
<1>3. CASE SetupDone
  BY <1>3 DEF SetupDone
<1>4. CASE GpioShutdown
  BY <1>4 DEF GpioShutdown
<1>5. CASE Exit
  BY <1>5 DEF Exit, Running
<1>6. CASE Round
  BY <1>6 DEF Round
<1>7. CASE Create /\ Running
  <2>1. main # "gave up" /\ at \in list /\ at \in Pins
    BY <1>7, ListIsPins DEF Create, Running
  <2>2. poll = "create" /\ poll' = "compare"
        /\ handler' = [handler EXCEPT ![at] = IF @ = "none" THEN "test" ELSE @]
        /\ UNCHANGED <<mainVars, ever, level, lastValue, at, shown, hasty>>
    BY <1>7 DEF Create
  <2>3. CASE q = at
    <3>1. handler[q] # "none" => handler'[q] = handler[q]
      BY <2>1, <2>2, <2>3
    <3>2. ~hasty[q] /\ shown[q] # level[q] => handler[q] # "none"
      BY <2>1, <2>3
    <3> QED BY <2>1, <2>2, <2>3, <3>1, <3>2
  <2>4. CASE q # at
    <3>1. handler'[q] = handler[q]
      BY <2>1, <2>2, <2>4
    <3> QED BY <2>1, <2>2, <2>4, <3>1
  <2> QED BY <2>3, <2>4
<1>8. CASE Compare
  <2>1. CASE lastValue[at] # level[at]
    <3>0. at \in Pins
      BY <1>8, ListIsPins DEF Compare
    <3>1. 1 - lastValue[at] = level[at]
      BY <3>0, <2>1, Binary
    <3>2. lastValue' = [lastValue EXCEPT ![at] = 1 - @] /\ poll' = "signal" /\ at' = at
          /\ UNCHANGED <<mainVars, ever, level, handler, shown, hasty>>
      BY <1>8, <2>1 DEF Compare
    <3>3. poll = "compare"
      BY <1>8 DEF Compare
    <3>4. CASE q = at
      BY <3>0, <3>1, <3>2, <3>3, <3>4
    <3>5. CASE q # at
      BY <3>2, <3>3, <3>5
    <3> QED BY <3>4, <3>5
  <2>2. CASE lastValue[at] = level[at]
    BY <1>8, <2>2, AdvanceTypes DEF Compare
  <2> QED BY <2>1, <2>2
<1>9. CASE Signal
  BY <1>9, AdvanceTypes DEF Signal
<1>10. ASSUME NEW p \in Pins, Handle(p) PROVE Kept
  <2>1. UNCHANGED <<mainVars, pollVars, ever, level, hasty>>
    BY <1>10 DEF Handle
  <2>2. level[p] # Unknown
    BY Binary
  <2>3. CASE Test(p)
    BY <2>1, <2>3 DEF Test, Goto
  <2>4. CASE Enter(p)
    BY <2>1, <2>4 DEF Enter, Goto
  <2>5. CASE Woken(p)
    BY <2>1, <2>5 DEF Woken, Goto
  <2>6. CASE Call(p)
    BY <2>1, <2>2, <2>6 DEF Call, Goto
  <2> QED BY <1>10, <2>3, <2>4, <2>5, <2>6 DEF Handle
<1>11. ASSUME NEW p \in Pins, Unasked(p) PROVE Kept
  BY <1>11 DEF Unasked, Goto
<1>12. ASSUME NEW p \in Pins, Change(p) PROVE Kept
  <2>1. UNCHANGED <<mainVars, pollVars, ever, handler, shown>>
    BY <1>12 DEF Change
  <2>2. CASE q = p
    <3>1. hasty'[q] = ~Settled(q) /\ level'[q] = 1 - level[q]
      BY <1>12, <2>2 DEF Change
    <3>2. level'[q] # level[q]
      BY <3>1, Binary
    <3> QED BY <2>1, <3>1, <3>2 DEF Settled
  <2>3. CASE q # p
    <3>1. hasty'[q] = hasty[q] /\ level'[q] = level[q]
      BY <1>12, <2>3 DEF Change
    <3> QED BY <2>1, <3>1
  <2> QED BY <2>2, <2>3
<1>13. CASE UNCHANGED vars
  BY <1>13 DEF vars
<1> QED BY <1>1, <1>2, <1>3, <1>4, <1>5, <1>6, <1>7, <1>8, <1>9, <1>10, <1>11, <1>12,
          <1>13 DEF Next, Poll

\* The daemon registers no second pin.
LEMMA GivesUpKept == ASSUME IInv, [Next]_vars PROVE GivesUpAtOnce'
<1>1. CASE RegisterGPIOinterrupt
  BY <1>1, Registered DEF GivesUpAtOnce
<1>2. [Next]_vars => RegisterGPIOinterrupt \/ UNCHANGED <<main, next>>
                     \/ (UNCHANGED next /\ main \in {"setup", "running"})
  BY DEF Next, vars, mainVars, PrintLevel, SetupDone, GpioShutdown, Exit, Running, Poll, Round,
         Create, Compare, Signal, Handle, Unasked, Change
<1> QED BY <1>1, <1>2 DEF IInv, GivesUpAtOnce

LEMMA Inductive == IInv /\ [Next]_vars => IInv'
<1> SUFFICES ASSUME IInv, [Next]_vars PROVE IInv'
  OBVIOUS
<1>1. TypeOK' /\ GivesUpAtOnce'
  BY TypesKept, GivesUpKept
<1>2. Unlisted' /\ ListIsShown'
  <2>1. list' \subseteq Pins
    <3>1. next' \in 0..Inputs /\ list' \subseteq ValidPin \cap 1..next'
      BY <1>1 DEF TypeOK
    <3> QED BY <3>1, InputsAssumption DEF Pins
  <2>2. Unlisted'
    <3>1. Pins' = Pins
      BY DEF Pins
    <3>2. ASSUME NEW p \in Pins, p \notin list'
          PROVE  /\ handler'[p] = "none"
                 /\ ~hasty'[p] => shown'[p] \in {Unknown, level'[p]}
      BY <3>2, PinKept
    <3> QED BY <3>1, <3>2 DEF Unlisted, Unknown
  <2>3. ListIsShown'
    BY <2>1, PinKept DEF ListIsShown
  <2> QED BY <2>2, <2>3
<1>3. ChangeOnItsWay'
  <2>1. list' \subseteq Pins
    <3>1. next' \in 0..Inputs /\ list' \subseteq ValidPin \cap 1..next'
      BY <1>1 DEF TypeOK
    <3> QED BY <3>1, InputsAssumption DEF Pins
  <2> QED BY <2>1, PinKept DEF ChangeOnItsWay
<1> QED BY <1>1, <1>2, <1>3 DEF IInv

LEMMA Invariance == Spec => []IInv
<1>1. IInv /\ [Next]_vars => IInv'
  BY Inductive
<1> QED BY InitHolds, <1>1, PTL DEF Spec

-----------------------------------------------------------------------------
(***************************************************************************)
(* The theorems.                                                            *)
(***************************************************************************)
\* Every variable keeps its type: in particular the polling thread is always at a pin of
\* the list.
THEOREM TypesHold == Spec => []TypeOK
<1>1. IInv => TypeOK
  BY DEF IInv
<1> QED BY Invariance, <1>1, PTL

\* Lost signals leave nothing behind (interruptHandler, GPIOinterruptHandler): a change
\* that found the thread of its pin waiting has been shown when everything is quiet.
THEOREM ShownWhenSettledHolds == Spec => []ShownWhenSettled
<1>1. IInv => ShownWhenSettled
  BY DEF IInv, ShownWhenSettled, ChangeOnItsWay, OnItsWay, Settled
<1> QED BY Invariance, <1>1, PTL
=============================================================================
