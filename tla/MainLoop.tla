------------------------------- MODULE MainLoop -------------------------------
(***************************************************************************)
(* The clock of app_main's main loop.  xTaskGetTickCount() * 1000 is       *)
(* computed in a uint32_t and wraps before it is divided by the tick rate, *)
(* so the millisecond clock runs from 0 to 2^32 / HZ and falls back to 0;  *)
(* the difference of two readings is taken modulo 2^32.  Time passes tick  *)
(* by tick; the loop looks at the clock and sleeps 200 ms, so that Period  *)
(* bounds the ticks from one look to the next.                             *)
(***************************************************************************)
EXTENDS Integers

CONSTANTS
    HZ,          \* configTICK_RATE_HZ, 100 on the target
    MS,          \* 1000: milliseconds per second
    Word,        \* 2^32
    Interval,    \* 1000000 ms in the source
    Period,      \* ticks from one look at the clock to the next, 20 on the target
    StartTicks,  \* bound: tick counts at which the loop may be entered
    MaxTicks     \* bound: ticks the loop is followed for

ASSUME ClockAssumption ==
    /\ {HZ, MS, Word, Interval, Period, MaxTicks} \subseteq Nat \ {0}
    /\ HZ > 1
    /\ Word > (Interval + 2) * HZ + Period * MS
    /\ StartTicks \subseteq Nat

VARIABLES
    ticks,          \* ticks since power-up, not wrapped
    slept,          \* ticks since the loop last looked at the clock
    previous_time,
    last,           \* history: the tick previous_time was read at
    rediscoveries   \* history: times the loop has called start_discovery

clock == <<ticks, slept, previous_time, last, rediscoveries>>

current_time_ms(t) == ((t * MS) % Word) \div HZ

(* Mutant: a difference that falls below zero counts as no time. *)
ElapsedSaturates(t) ==
    IF current_time_ms(t) < previous_time THEN 0 ELSE current_time_ms(t) - previous_time

Elapsed(t) == (current_time_ms(t) - previous_time) % Word

Due(t) == Elapsed(t) > Interval

ClockInit ==
    ticks = 0 /\ slept = 0 /\ previous_time = 0 /\ last = 0 /\ rediscoveries = 0

ClockReset ==
    ticks' = 0 /\ slept' = 0 /\ previous_time' = 0 /\ last' = 0 /\ rediscoveries' = 0

LoopEntered ==
    /\ ticks' \in StartTicks
    /\ slept' = 0
    /\ previous_time' = current_time_ms(ticks')
    /\ last' = ticks'
    /\ UNCHANGED rediscoveries

(* The loop sleeps in vTaskDelay. *)
Tick ==
    /\ slept < Period
    /\ ticks' = ticks + 1
    /\ slept' = slept + 1
    /\ UNCHANGED <<previous_time, last, rediscoveries>>

(* Mutant: the time of a rediscovery is not kept. *)
IterationForgetsTime ==
    /\ slept > 0
    /\ slept' = 0
    /\ IF Due(ticks)
       THEN last' = ticks /\ rediscoveries' = rediscoveries + 1
       ELSE UNCHANGED <<last, rediscoveries>>
    /\ UNCHANGED <<ticks, previous_time>>

(* A look at the clock; a second one in the same tick would find the same. *)
Iteration ==
    /\ slept > 0
    /\ slept' = 0
    /\ IF Due(ticks)
       THEN /\ previous_time' = current_time_ms(ticks)
            /\ last' = ticks
            /\ rediscoveries' = rediscoveries + 1
       ELSE UNCHANGED <<previous_time, last, rediscoveries>>
    /\ UNCHANGED ticks

(* However the clock wraps, at no tick has the home node been left alone   *)
(* for longer than the interval, the millisecond the comparison rounds     *)
(* away and one sleep of the loop.                                         *)
RediscoveryOnTime == (ticks - last) * MS < (Interval + 1) * HZ + Period * MS

(* How often the clock has wrapped at a tick. *)
Wraps(t) == (t * MS) \div Word

(* A rediscovery before the interval is over belongs to a wrap of the      *)
(* clock since the last one, so there is at most one for each wrap.        *)
EarlyOnlyAfterWrap ==
    [][rediscoveries' > rediscoveries /\ Wraps(last) = Wraps(ticks) =>
          (ticks - last) * MS > Interval * HZ]_clock
===============================================================================
