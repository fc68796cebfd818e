----------------------------- MODULE GpioInputs -----------------------------
(***************************************************************************)
(* The input pins of src/GPIO_Pi.c, in its default mode: one thread polls   *)
(* the levels of all registered pins, and wakes the thread of a pin whose   *)
(* level has changed, which calls the function registered for it.  Two      *)
(* programs use it: the daemon for its INPUTs (main_loop of                 *)
(* src/sprinkler.c), and gpio_monitor, which prints the level.              *)
(*                                                                          *)
(* The polling thread signals the condition variable of a pin without       *)
(* holding its mutex, and a signal that finds nobody waiting is gone: the   *)
(* thread of the pin may be new, in the function, or between the test of    *)
(* its loop and pthread_cond_wait.  Nobody else takes that mutex, so it is  *)
(* left out; pthread_cond_wait may also return unasked.                     *)
(***************************************************************************)
EXTENDS Integers

CONSTANTS
    Inputs,    \* how many pins the program registers, one after the other
    ValidPin,  \* those of 1..Inputs that validGPIO accepts
    Program    \* "sprinklerd" or "gpio_monitor"

ASSUME InputsAssumption ==
    /\ Inputs \in Nat \ {0} /\ ValidPin \subseteq 1..Inputs
    /\ Program \in {"sprinklerd", "gpio_monitor"}

VARIABLES
    main,       \* the main thread: "setup", "running", "exited", "gave up"
    next,       \* how many pins it has dealt with
    list,       \* the pins in _GPIOinterupts, which stand there in ascending order
    ever,       \* _ever: the interrupt threads are to go on
    level,      \* the level of each pin
    lastValue,  \* lastValue of the pins in the list
    poll,       \* what the polling thread does next, or "none"
    at,         \* the pin it does it with, or 0
    handler,    \* where the thread of each pin is, or "none"
    shown,      \* the level of each pin that its function, or the start, has last read
    hasty       \* history: the last change of the pin came when it could not be noticed

mainVars == <<main, next, list>>
pollVars == <<lastValue, poll, at>>
vars == <<main, next, list, ever, level, lastValue, poll, at, handler, shown, hasty>>

Pins    == 1..Inputs
Unknown == -1

TypeOK ==
    /\ main \in {"setup", "running", "exited", "gave up"} /\ next \in 0..Inputs
    /\ list \subseteq ValidPin \cap 1..next
    /\ ever \in BOOLEAN
    /\ level \in [Pins -> 0..1] /\ lastValue \in [Pins -> 0..1]
    /\ poll \in {"none", "round", "create", "compare", "signal"}
    /\ IF poll \in {"none", "round"} THEN at = 0 ELSE at \in list
    /\ handler \in [Pins -> {"none", "test", "enter", "wait", "woken", "call", "ended"}]
    /\ shown \in [Pins -> Unknown..1] /\ hasty \in [Pins -> BOOLEAN]

Running == main \in {"setup", "running"}

\* A change of the pin that comes now is noticed: its thread waits, and the polling
\* thread has seen the change before, and passed it on.
Settled(p) ==
    /\ handler[p] = "wait" /\ lastValue[p] = level[p]
    /\ ~(poll = "signal" /\ at = p)

-----------------------------------------------------------------------------
(***************************************************************************)
(* The main thread, which registers one pin after the other; gpio_monitor   *)
(* prints the level of each first.                                          *)
(***************************************************************************)
PrintLevel ==
    /\ main = "setup" /\ next < Inputs
    /\ Program = "gpio_monitor" /\ shown[next + 1] = Unknown
    /\ shown' = [shown EXCEPT ![next + 1] = level[next + 1]]
    /\ UNCHANGED <<mainVars, pollVars, ever, level, handler, hasty>>

\* What registerGPIOinterrupt answers, and what its caller takes for success: true is
\* 1, and GPIO_OK is 0.
Answer(p) == IF p \notin ValidPin THEN "GPIO_ERR_BAD_PIN"
             ELSE IF ~ever THEN "GPIO_ERR_NOT_SETUP" ELSE "GPIO_OK"

Success == IF Program = "sprinklerd" THEN "true" ELSE "GPIO_OK"

\* The daemon gives up when it takes the answer for an error, gpio_monitor goes on.
RegisterGPIOinterrupt ==
    /\ main = "setup" /\ next < Inputs
    /\ Program = "gpio_monitor" => shown[next + 1] # Unknown
    /\ LET p == next + 1
       IN /\ \/ /\ Answer(p) = "GPIO_OK"
                /\ list' = list \cup {p}
                /\ lastValue' = [lastValue EXCEPT ![p] = level[p]]
                /\ poll' = IF poll = "none" THEN "round" ELSE poll
             \/ Answer(p) # "GPIO_OK" /\ UNCHANGED <<list, lastValue, poll>>
          /\ main' = IF Program = "sprinklerd" /\ Answer(p) # Success THEN "gave up" ELSE main
          /\ next' = p
    /\ UNCHANGED <<ever, level, at, handler, shown, hasty>>

SetupDone ==
    /\ main = "setup" /\ next = Inputs
    /\ main' = "running"
    /\ UNCHANGED <<next, list, pollVars, ever, level, handler, shown, hasty>>

\* A signal: gpioShutdown, after which the program comes to its end, the daemon from
\* within its handler and gpio_monitor when it has registered its pins.
GpioShutdown ==
    /\ Running /\ ever
    /\ ever' = FALSE
    /\ UNCHANGED <<mainVars, pollVars, level, handler, shown, hasty>>

Exit ==
    /\ Running /\ ~ever
    /\ Program = "gpio_monitor" => main = "running"
    /\ main' = "exited"
    /\ UNCHANGED <<next, list, pollVars, ever, level, handler, shown, hasty>>

-----------------------------------------------------------------------------
(***************************************************************************)
(* The polling thread, interruptHandler.                                    *)
(***************************************************************************)
\* On to the next pin of the list, or to the pause between two rounds.
\* Faulty variant: to the next pin, in the list or not.
Advance_PastEnd ==
    \/ at < Inputs /\ at' = at + 1 /\ poll' = "create"
    \/ at = Inputs /\ at' = 0 /\ poll' = "round"

Advance ==
    LET rest == {p \in list : p > at}
    IN \/ at' \in rest /\ (\A p \in rest : at' <= p) /\ poll' = "create"
       \/ rest = {} /\ at' = 0 /\ poll' = "round"

\* Once _ever is false it wakes all threads a last time.
Round ==
    /\ poll = "round"
    /\ \/ ever /\ Advance /\ handler' = handler
       \/ /\ ~ever
          /\ poll' = "none" /\ at' = 0
          /\ handler' = [p \in Pins |-> IF handler[p] = "wait" THEN "woken" ELSE handler[p]]
    /\ UNCHANGED <<mainVars, ever, level, lastValue, shown, hasty>>

Create ==
    /\ poll = "create" /\ poll' = "compare"
    /\ handler' = [handler EXCEPT ![at] = IF @ = "none" THEN "test" ELSE @]
    /\ UNCHANGED <<mainVars, ever, level, lastValue, at, shown, hasty>>

Compare ==
    /\ poll = "compare"
    /\ \/ /\ lastValue[at] # level[at]
          /\ lastValue' = [lastValue EXCEPT ![at] = 1 - @]
          /\ poll' = "signal" /\ at' = at
       \/ lastValue[at] = level[at] /\ Advance /\ lastValue' = lastValue
    /\ UNCHANGED <<mainVars, ever, level, handler, shown, hasty>>

Signal ==
    /\ poll = "signal"
    /\ handler' = [handler EXCEPT ![at] = IF @ = "wait" THEN "woken" ELSE @]
    /\ Advance
    /\ UNCHANGED <<mainVars, ever, level, lastValue, shown, hasty>>

Poll == Running /\ (Round \/ Create \/ Compare \/ Signal)

-----------------------------------------------------------------------------
(***************************************************************************)
(* The thread of a pin, GPIOinterruptHandler, here for both edges.          *)
(***************************************************************************)
Goto(p, place) == handler' = [handler EXCEPT ![p] = place]

Test(p)  == handler[p] = "test" /\ Goto(p, IF ever THEN "enter" ELSE "ended") /\ shown' = shown

Enter(p) == handler[p] = "enter" /\ Goto(p, "wait") /\ shown' = shown

\* Faulty variant: one edge only.
Woken_Rising(p) ==
    /\ handler[p] = "woken"
    /\ Goto(p, IF ever /\ lastValue[p] = 1 THEN "call" ELSE "test")
    /\ shown' = shown

Woken(p) == handler[p] = "woken" /\ Goto(p, IF ever THEN "call" ELSE "test") /\ shown' = shown

\* The function, printGPIOstatus of gpio_monitor, reads the pin itself, whatever was
\* seen of it before.
\* Faulty variant: it takes the level that the polling thread saw.
Call_LastValue(p) ==
    /\ handler[p] = "call" /\ Goto(p, "test")
    /\ shown' = [shown EXCEPT ![p] = 1 - lastValue[p]]

Call(p) ==
    /\ handler[p] = "call" /\ Goto(p, "test")
    /\ shown' = [shown EXCEPT ![p] = level[p]]

Handle(p) ==
    /\ Running
    /\ Test(p) \/ Enter(p) \/ Woken(p) \/ Call(p)
    /\ UNCHANGED <<mainVars, pollVars, ever, level, hasty>>

\* pthread_cond_wait returns without a signal.
Unasked(p) ==
    /\ Running
    /\ handler[p] = "wait" /\ Goto(p, "woken")
    /\ UNCHANGED <<mainVars, pollVars, ever, level, shown, hasty>>

-----------------------------------------------------------------------------
\* The world changes a pin, at any time.
Change(p) ==
    /\ level' = [level EXCEPT ![p] = 1 - @]
    /\ hasty' = [hasty EXCEPT ![p] = ~Settled(p)]
    /\ UNCHANGED <<mainVars, pollVars, ever, handler, shown>>

Init ==
    /\ main = "setup" /\ next = 0 /\ list = {}
    /\ ever = TRUE
    /\ level \in [Pins -> 0..1] /\ lastValue = [p \in Pins |-> 0]
    /\ poll = "none" /\ at = 0
    /\ handler = [p \in Pins |-> "none"]
    /\ shown = [p \in Pins |-> Unknown]
    /\ hasty = [p \in Pins |-> FALSE]

Next == \/ PrintLevel \/ RegisterGPIOinterrupt \/ SetupDone \/ GpioShutdown \/ Exit
        \/ Poll
        \/ \E p \in Pins : Handle(p) \/ Unasked(p) \/ Change(p)

Spec == Init /\ [][Next]_vars

\* The scheduler runs every thread.
FairSpec == Spec /\ WF_vars(Poll) /\ \A p \in Pins : WF_vars(Handle(p))
-----------------------------------------------------------------------------
(***************************************************************************)
(* What the threads promise.                                                *)
(***************************************************************************)
\* A pin whose last change found its thread waiting has been shown once everything is
\* quiet, whatever was lost before that change: signals go astray (GPIO_Pi.c:945) but
\* leave nothing behind that could make the next one go wrong.
ShownWhenSettled == \A p \in list : Settled(p) /\ ~hasty[p] => shown[p] = level[p]

\* Such a change is shown, unless the next one comes too soon or the program ends.
EveryChangeIsShown ==
    \A p \in Pins :
        (p \in list /\ ~hasty[p] /\ shown[p] # level[p])
        ~> (shown[p] = level[p] \/ hasty[p] \/ ~ever)

\* The daemon ends at its start when it is "Unable to set interrupt handler for specified
\* pin, exiting" (sprinkler.c:285): only when registerGPIOinterrupt reports an error.
GivesUpOnError == main = "gave up" => list # 1..next
=============================================================================
