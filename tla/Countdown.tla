------------------------------ MODULE Countdown ------------------------------
(***************************************************************************)
(* What the timers promise: a timer asked for with time d fires at the     *)
(* d-th tick from the call on (at the next one when the call was delayed   *)
(* beyond that, or d is 0), timers due at one tick fire in the order they  *)
(* were armed, and a disarmed timer does not fire.  There is no clock      *)
(* here, only distances, so nothing can wrap.                              *)
(***************************************************************************)
EXTENDS Integers

CONSTANTS
    Timer,
    NoTimer,     \* no timer
    Horizon      \* the longest time

Off == -1

VARIABLES
    due,         \* in how many ticks an armed timer is due, or Off
    before,      \* << x, y >>: both are due at one tick, x in front of y
    asked,       \* the time left of a call that has yet to arm its timer
    serving,     \* a tick is being served
    fired        \* the timer whose function is running

countdownVars == << due, before, asked, serving, fired >>

DueIn(d) == {x \in Timer : due[x] = d}

Forget(x) == before' = {p \in before : p[1] # x /\ p[2] # x}

Init ==
    /\ due = [x \in Timer |-> Off] /\ before = {}
    /\ asked = [x \in Timer |-> Off]
    /\ serving = FALSE /\ fired = NoTimer

Ask(x, d) ==
    /\ ~serving /\ asked[x] = Off
    /\ asked' = [asked EXCEPT ![x] = d]
    /\ UNCHANGED << due, before, serving, fired >>

(* The timers in Front stay in front of x; they are all that are due with  *)
(* it, but a timer whose call was delayed may pass some of those.          *)
Arm(x) ==
    /\ ~serving /\ asked[x] # Off /\ due[x] = Off
    /\ due' = [due EXCEPT ![x] = asked[x]]
    /\ \E Front \in SUBSET DueIn(asked[x]) :
         /\ asked[x] > 0 => Front = DueIn(asked[x])
         /\ \A p \in before : p[2] \in Front => p[1] \in Front
         /\ before' = before \cup (Front \X {x}) \cup ({x} \X (DueIn(asked[x]) \ Front))
    /\ asked' = [asked EXCEPT ![x] = Off]
    /\ UNCHANGED << serving, fired >>

Disarm(x) ==
    /\ ~serving
    /\ due' = [due EXCEPT ![x] = Off] /\ Forget(x)
    /\ UNCHANGED << asked, serving, fired >>

Tick ==
    /\ ~serving /\ serving' = TRUE
    /\ due' = [x \in Timer |-> IF due[x] > 0 THEN due[x] - 1 ELSE due[x]]
    /\ before' = before \cup (DueIn(0) \X DueIn(1))
    /\ asked' = [x \in Timer |-> IF asked[x] > 0 THEN asked[x] - 1 ELSE asked[x]]
    /\ UNCHANGED fired

Fire(x) ==
    /\ serving /\ fired = NoTimer
    /\ due[x] = 0 /\ \A y \in Timer : << y, x >> \notin before
    /\ fired' = x
    /\ due' = [due EXCEPT ![x] = Off] /\ Forget(x)
    /\ UNCHANGED << asked, serving >>

(* The function has returned; a periodic timer is armed again.             *)
Return ==
    /\ fired # NoTimer /\ fired' = NoTimer
    /\ \/ UNCHANGED << due, before >>
       \/ \E d \in 1..Horizon :
            /\ due' = [due EXCEPT ![fired] = d]
            /\ before' = before \cup (DueIn(d) \X {fired})
    /\ UNCHANGED << asked, serving >>

Served ==
    /\ serving /\ fired = NoTimer /\ DueIn(0) = {}
    /\ serving' = FALSE
    /\ UNCHANGED << due, before, asked, fired >>

Next ==
    \/ \E x \in Timer : Arm(x) \/ Disarm(x) \/ Fire(x) \/ \E d \in 0..Horizon : Ask(x, d)
    \/ Tick \/ Return \/ Served

Spec == Init /\ [][Next]_countdownVars
=============================================================================
