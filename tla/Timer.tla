-------------------------------- MODULE Timer --------------------------------
(***************************************************************************)
(* The timers of timer.c that are called from the tick interrupt, in the   *)
(* one list the build keeps (RT_TIMER_SKIP_LIST_LEVEL is 1), with rt_tick  *)
(* and the expiry times modulo TickMod.  One thread manages each timer;    *)
(* its calls are cut where the tick interrupt may come: the clock is read  *)
(* and flags are tested before the interrupt-disabled section, the flag is *)
(* changed after it.  rt_timer_control stores the flag byte it read.       *)
(***************************************************************************)
EXTENDS Integers, Sequences, SequencesExt

CONSTANTS
    Timers,      \* the timers
    TickMod,     \* rt_tick counts modulo TickMod, RT_TICK_MAX is TickMod - 1
    Times,       \* the times given to timers
    MaxLate      \* for how many ticks a start is interrupted at most

VARIABLES
    tick,        \* rt_tick
    list,        \* rt_timer_list
    timer,       \* timer->timeout_tick (0 here once it is out of the list,
                 \* where nothing reads it), init_tick and parent.flag
    call,        \* where the thread of each timer is, and the flag byte it
                 \* is about to store
    check        \* rt_timer_check: "out", "look", or the timer whose
                 \* function is running

timerVars == << tick, list, timer, call, check >>

Half == (TickMod - 1) \div 2
Horizon == Max(Times)
Flag == {"ACTIVATED", "PERIODIC"}
Labels == {"out", "start", "stop", "clear", "control", "gone"}

(* The code's own condition on times, init_tick < RT_TICK_MAX / 2, with    *)
(* the delay of a start and one tick counted in.                           *)
ASSUME TimerAssumption ==
    /\ TickMod \in Nat /\ MaxLate \in Nat
    /\ Times \subseteq 0..(TickMod - 1) /\ Times # {}
    /\ Timers \cap {"out", "look", "none"} = {}
    /\ Horizon + MaxLate + 1 < Half

Outside == [at |-> "out", flag |-> {}]

TimerInit ==
    /\ tick = 0 /\ list = << >> /\ check = "out"
    /\ \E d \in Times \ {0} :
         timer = [x \in Timers |-> [out |-> 0, init |-> d, flag |-> {}]]
    /\ call = [x \in Timers |-> Outside]

-----------------------------------------------------------------------------
(* How far tick a lies behind tick b, as the code computes it.             *)
Behind(a, b) == (b - a) % TickMod

(* Faulty Insert: equal expiry times count as later ones.                  *)
InsertEqual(s, x, out) ==
    LET I == {i \in 1..Len(s) : Behind(out, timer[s[i]].out) < Half}
    IN  IF I = {} THEN Append(s, x) ELSE InsertAt(s, Min(I), x)

(* Link timer x, which expires at out, before the first that expires later.*)
Insert(s, x, out) ==
    LET I == {i \in 1..Len(s) : Behind(out, timer[s[i]].out) \in 1..(Half - 1)}
    IN  IF I = {} THEN Append(s, x) ELSE InsertAt(s, Min(I), x)

Removed(s, x) ==
    IF Contains(s, x) THEN RemoveAt(s, CHOOSE i \in 1..Len(s) : s[i] = x) ELSE s

(* Faulty Expired: ticks compared as plain numbers.                        *)
ExpiredNoWrap(x) == tick > timer[x].out

Expired(x) == Behind(timer[x].out, tick) < Half

-----------------------------------------------------------------------------
(* The calls of the thread that manages x.                                 *)
Thread(x, at) == check = "out" /\ call[x].at = at

Goto(x, at) == call' = [call EXCEPT ![x] = [at |-> at, flag |-> {}]]

(* rt_timer_start: the test, the clock; then the section.                  *)
TimerStart(x) ==
    /\ Thread(x, "out") /\ "ACTIVATED" \notin timer[x].flag
    /\ timer' = [timer EXCEPT ![x].out = (tick + timer[x].init) % TickMod]
    /\ Goto(x, "start") /\ UNCHANGED << tick, list, check >>

TimerLink(x) ==
    /\ Thread(x, "start")
    /\ list' = Insert(list, x, timer[x].out)
    /\ timer' = [timer EXCEPT ![x].flag = @ \cup {"ACTIVATED"}]
    /\ Goto(x, "out") /\ UNCHANGED << tick, check >>

(* rt_timer_stop: the test, the section, the flag.                         *)
TimerStop(x) ==
    /\ Thread(x, "out") /\ "ACTIVATED" \in timer[x].flag
    /\ Goto(x, "stop") /\ UNCHANGED << tick, list, timer, check >>

TimerUnlink(x) ==
    /\ Thread(x, "stop")
    /\ list' = Removed(list, x) /\ timer' = [timer EXCEPT ![x].out = 0]
    /\ Goto(x, "clear") /\ UNCHANGED << tick, check >>

TimerClear(x) ==
    /\ Thread(x, "clear")
    /\ timer' = [timer EXCEPT ![x].flag = @ \ {"ACTIVATED"}]
    /\ Goto(x, "out") /\ UNCHANGED << tick, list, check >>

(* rt_timer_control.  No caller makes a periodic timer with time 0:        *)
(* rt_timer_check would restart it for ever.                               *)
Mode(d) == IF d = 0 THEN {{}} ELSE {{}, {"PERIODIC"}}

SetTime(x, d) ==
    /\ Thread(x, "out") /\ (d = 0 => "PERIODIC" \notin timer[x].flag)
    /\ timer' = [timer EXCEPT ![x].init = d]
    /\ UNCHANGED << tick, list, call, check >>

ReadFlag(x) ==
    /\ Thread(x, "out")
    /\ \E mode \in Mode(timer[x].init) :
         call' = [call EXCEPT ![x] =
                    [at |-> "control", flag |-> (timer[x].flag \ {"PERIODIC"}) \cup mode]]
    /\ UNCHANGED << tick, list, timer, check >>

StoreFlag(x) ==
    /\ Thread(x, "control")
    /\ timer' = [timer EXCEPT ![x].flag = call[x].flag]
    /\ Goto(x, "out") /\ UNCHANGED << tick, list, check >>

(* rt_timer_detach and rt_timer_delete leave the flag as it is.            *)
TimerDetach(x) ==
    /\ Thread(x, "out")
    /\ list' = Removed(list, x) /\ timer' = [timer EXCEPT ![x].out = 0]
    /\ Goto(x, "gone") /\ UNCHANGED << tick, check >>

TimerCreate(x, d) ==
    /\ Thread(x, "gone")
    /\ \E mode \in Mode(d) :
         timer' = [timer EXCEPT ![x] = [out |-> 0, init |-> d, flag |-> mode]]
    /\ Goto(x, "out") /\ UNCHANGED << tick, list, check >>

-----------------------------------------------------------------------------
(* The tick interrupt.                                                     *)

Late(x) == Behind((timer[x].out - timer[x].init) % TickMod, tick)

TickIncrease ==
    /\ check = "out"
    /\ \A x \in Timers : call[x].at = "start" => Late(x) < MaxLate
    /\ tick' = (tick + 1) % TickMod
    /\ check' = "look" /\ UNCHANGED << list, timer, call >>

(* The first timer of the list has expired: it is removed and its function *)
(* called.                                                                 *)
CheckExpire ==
    /\ check = "look" /\ list # << >> /\ Expired(Head(list))
    /\ check' = Head(list) /\ list' = Tail(list)
    /\ UNCHANGED << tick, timer, call >>

(* The function has returned, with or without having stopped its timer; a  *)
(* periodic timer that is still active is started again.                   *)
CheckReturn ==
    /\ check \in Timers
    /\ LET x == check
           out == (tick + timer[x].init) % TickMod
       IN  \E active \in {TRUE, FALSE} :
             \/ /\ active /\ Flag \subseteq timer[x].flag
                /\ timer' = [timer EXCEPT ![x].out = out]
                /\ list' = Insert(list, x, out)
             \/ /\ ~(active /\ Flag \subseteq timer[x].flag)
                /\ timer' = [timer EXCEPT ![x].flag = @ \ {"ACTIVATED"}, ![x].out = 0]
                /\ UNCHANGED list
    /\ check' = "look" /\ UNCHANGED << tick, call >>

CheckDone ==
    /\ check = "look" /\ ~(list # << >> /\ Expired(Head(list)))
    /\ check' = "out" /\ UNCHANGED << tick, list, timer, call >>

ClockStep == TickIncrease \/ CheckExpire \/ CheckReturn \/ CheckDone

TimerNext ==
    \/ ClockStep
    \/ \E x \in Timers :
         \/ TimerStart(x) \/ TimerLink(x)
         \/ TimerStop(x) \/ TimerUnlink(x) \/ TimerClear(x)
         \/ ReadFlag(x) \/ StoreFlag(x) \/ TimerDetach(x)
         \/ \E d \in Times : SetTime(x, d) \/ TimerCreate(x, d)

TimerSpec == TimerInit /\ [][TimerNext]_timerVars

(* The clock goes on, and a start once begun is finished.                  *)
TimerFairness == WF_timerVars(ClockStep) /\ \A x \in Timers : WF_timerVars(TimerLink(x))

-----------------------------------------------------------------------------
(* Properties.                                                             *)

TimerTypeOK ==
    /\ tick \in 0..(TickMod - 1)
    /\ list \in Seq(Timers) /\ check \in Timers \cup {"out", "look"}
    /\ timer \in [Timers -> [out: 0..(TickMod - 1), init: Times, flag: SUBSET Flag]]
    /\ call \in [Timers -> [at: Labels, flag: SUBSET Flag]]

Precedes(s, x, y) == \E i, j \in 1..Len(s) : i < j /\ s[i] = x /\ s[j] = y

Left(x) == LET d == Behind(tick, timer[x].out) IN IF d < Half THEN d ELSE 0

(* The ordered list and the modular comparison of ticks implement a        *)
(* countdown: each timer fires at its tick and in its turn although        *)
(* rt_tick wraps and a start may be interrupted after it has read the      *)
(* clock.                                                                  *)
TimerCountdown == INSTANCE Countdown WITH
    Timer <- Timers, NoTimer <- "none",
    due <- [x \in Timers |-> IF Contains(list, x) THEN Left(x) ELSE -1],
    before <- {p \in Timers \X Timers :
                 Left(p[1]) = Left(p[2]) /\ Precedes(list, p[1], p[2])},
    asked <- [x \in Timers |-> IF call[x].at = "start" THEN Left(x) ELSE -1],
    serving <- check # "out",
    fired <- IF check \in Timers THEN check ELSE "none"

TimersImplementCountdown == TimerCountdown!Spec

(* A timer in the list leaves it: its function is called, or it is stopped.*)
TimerFires == \A x \in Timers : Contains(list, x) ~> ~Contains(list, x)
=============================================================================
