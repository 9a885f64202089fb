---------------------------- MODULE NodeBootProofs ----------------------------
(***************************************************************************)
(* Proofs about NodeBoot: the image slots, the main loop's clock, the      *)
(* events of the event loop and the scan, each with an invariant of its    *)
(* own, for any number of channels, queue lengths and versions.            *)
(***************************************************************************)
EXTENDS NodeBoot, ClockArithmetic, QueueCounting

(***************************************************************************)
(* What the steps of the node do to the parts of the state that a proof    *)
(* looks at: which actions touch the images, which the clock.              *)
(***************************************************************************)
LEMMA NextCases ==
    ASSUME [Next]_vars
    PROVE  \/ UNCHANGED vars
           \/ node = "up" /\ Operation
           \/ Bootload /\ PowerUp /\ UNCHANGED home
BY DEF Next, Restart, PowerLoss

(* app_main stops at a check that failed or moves on; only its first steps *)
(* touch the radio and only discovery_awaited touches the clock.           *)
Checked == {"power", "flash", "station", "codec"}
Setup == {"power", "flash", "station", "transport", "codec", "lock_created", "lock_ready"}

LEMMA AppMainCases ==
    ASSUME app_main
    PROVE  /\ UNCHANGED <<jobs, netifs, ap, images, home>>
           /\ \/ main \in Checked /\ CheckFails(main)
              \/ /\ UNCHANGED <<node, scan, events, signalled, clock>>
                 /\ \/ main = "power" /\ main' = "flash" /\ UNCHANGED <<radio, transport, budget>>
                    \/ main = "flash" /\ main' = "station" /\ radio' = 1
                       /\ UNCHANGED <<transport, budget>>
                    \/ main = "station" /\ main' = "transport" /\ UNCHANGED radio
                       /\ transport' \in {"up", "down"} /\ (UNCHANGED budget \/ Spend("faults"))
                    \/ /\ <<main, main'>> \in {<<"transport", "codec">>, <<"codec", "lock_created">>,
                                                <<"lock_created", "lock_ready">>}
                       /\ UNCHANGED <<radio, transport, budget>>
              \/ /\ main = "lock_ready" /\ main' = "waiting"
                 /\ UNCHANGED <<node, radio, transport, events, signalled, clock>>
                 /\ \/ discovering' = TRUE /\ UNCHANGED <<silent, budget>>
                    \/ silent' = TRUE /\ Spend("faults") /\ UNCHANGED discovering
              \/ discovery_awaited
              \/ ota_service_init
              \/ http_server_init
<1>1. CASE esp_flash_init \/ wifi_station_init \/ esp_now_transport_init
  BY <1>1 DEF esp_flash_init, wifi_station_init, esp_now_transport_init, Pass, Proceed, CheckFails,
     Checked, steady, wifi, jobs
<1>2. CASE message_codec_init \/ linear_lock_create \/ lock_drive_init
  BY <1>2 DEF message_codec_init, linear_lock_create, lock_drive_init, Pass, Proceed, CheckFails,
     Checked, steady, wifi, jobs
<1>3. CASE start_first_discovery
  BY <1>3 DEF start_first_discovery, Proceed
<1>4. CASE discovery_awaited \/ ota_service_init \/ http_server_init
  BY <1>4 DEF discovery_awaited, ota_service_init, http_server_init, Pass, Proceed
<1> QED
  BY <1>1, <1>2, <1>3, <1>4 DEF app_main

(* The operations of the node but those that change the images.            *)
LEMMA ImagesKept ==
    ASSUME Operation
    PROVE  \/ UNCHANGED images
           \/ routine_http_server_events_handler
           \/ routine_ota_service_events_handler
<1>1. CASE app_main \/ TimePasses \/ main_loop \/ BrokenImageCrashes
  BY <1>1, AppMainCases DEF TimePasses, main_loop, BrokenImageCrashes, steady
<1>2. CASE DiscoveryCompletes \/ CommandArrives \/ UploadArrives
  BY <1>2 DEF DiscoveryCompletes, DiscoveryFinds, DiscoveryFindsNobody, CommandArrives,
     UploadArrives, steady
<1>3. CASE routine_event_handler
  BY <1>3 DEF routine_event_handler, routine_discovery_events_handler,
     routine_message_codec_events_handler, steady
<1>4. CASE DelegateTask
  BY <1>4 DEF DelegateTask, delegate_run_task,
     delegated_to_task_restart_discovery_on_new_channel,
     delegated_to_task_restart_wifi_apsta, steady
<1> QED
  BY <1>1, <1>2, <1>3, <1>4 DEF Operation

-----------------------------------------------------------------------------
(***************************************************************************)
(* The clock of the main loop.                                             *)
(***************************************************************************)
ClockInv ==
    /\ {ticks, previous_time, last, rediscoveries} \subseteq Nat
    /\ slept \in 0..Period
    /\ last + slept <= ticks
    /\ previous_time = current_time_ms(last)
    /\ (ticks - slept - last) * MS < (Interval + 1) * HZ

(* Dividing by the tick rate loses less than one millisecond.              *)
LEMMA Milliseconds ==
    ASSUME NEW x \in Nat
    PROVE  /\ x \div HZ \in Nat
           /\ HZ * (x \div HZ) \in Int
           /\ HZ * (x \div HZ) <= x /\ x < HZ * (x \div HZ) + HZ
<1>1. HZ \in Nat \ {0} /\ x \in Int
  BY ClockAssumption DEF ClockAssumption
<1>2. PICK q \in Int, r \in 0..(HZ - 1) : x = HZ * q + r /\ x \div HZ = q
  BY <1>1, DivisionWithRemainder, Zenon
<1>3. q >= 0
  <2> SUFFICES ASSUME q <= -1 PROVE FALSE
    BY <1>2
  <2>1. HZ * q <= -HZ
    BY <1>1
  <2> QED
    BY <1>1, <1>2, <2>1
<1> QED
  BY <1>1, <1>2, <1>3

LEMMA MillisecondsType == ASSUME NEW t \in Nat PROVE current_time_ms(t) \in Nat
<1>1. (t * MS) % Word \in Nat
  BY ClockAssumption DEF ClockAssumption
<1> QED
  BY <1>1, Milliseconds DEF current_time_ms

(* A difference of milliseconds below the interval is one of ticks below   *)
(* the interval, whether the tick count times MS wrapped or not.           *)
LEMMA NotDueMeansEarly ==
    ASSUME NEW A \in Nat, NEW B \in Nat, B <= A, A - B < (Interval + 1) * HZ + Period * MS,
           (((A % Word) \div HZ) - ((B % Word) \div HZ)) % Word <= Interval
    PROVE  A - B < (Interval + 1) * HZ
<1>0. /\ HZ \in Nat /\ HZ > 1 /\ Word \in Nat \ {0} /\ Interval \in Nat \ {0}
      /\ Period * MS \in Nat /\ (Interval + 1) * HZ \in Nat
      /\ (Interval + 2) * HZ = (Interval + 1) * HZ + HZ
      /\ (Interval + 2) * HZ >= 2 * Interval + 4
      /\ Word > (Interval + 2) * HZ + Period * MS
  <2>1. /\ HZ \in Nat /\ HZ > 1 /\ Word \in Nat \ {0} /\ Interval \in Nat \ {0}
        /\ Period \in Nat /\ MS \in Nat
        /\ Word > (Interval + 2) * HZ + Period * MS
    BY ClockAssumption DEF ClockAssumption
  <2>2. (Interval + 2) * HZ = (Interval + 1) * HZ + HZ
    BY <2>1
  <2>3. (Interval + 2) * HZ >= (Interval + 2) * 2
    BY <2>1
  <2>4. Period * MS \in Nat /\ (Interval + 1) * HZ \in Nat
    BY <2>1
  <2> QED
    BY <2>1, <2>2, <2>3, <2>4
<1>1. PICK p \in Int, a \in 0..(Word - 1) : A = Word * p + a /\ A % Word = a
  <2>1. A \in Int
    OBVIOUS
  <2> QED
    BY <1>0, <2>1, DivisionWithRemainder, Zenon
<1>2. PICK q \in Int, b \in 0..(Word - 1) : B = Word * q + b /\ B % Word = b
  <2>1. B \in Int
    OBVIOUS
  <2> QED
    BY <1>0, <2>1, DivisionWithRemainder, Zenon
<1>3. A - B = a - b \/ A - B = Word + a - b
  <2>1. A - B >= 0 /\ A - B < Word
    BY <1>0
  <2> QED
    BY <1>0, <1>1, <1>2, <2>1, QuotientsClose
<1> DEFINE x == a \div HZ
           y == b \div HZ
<1>4. /\ x \in Nat /\ HZ * x \in Int /\ HZ * x <= a /\ a < HZ * x + HZ
      /\ y \in Nat /\ HZ * y \in Int /\ HZ * y <= b /\ b < HZ * y + HZ
  <2>1. a \in Nat /\ b \in Nat
    BY <1>0
  <2> QED
    BY <2>1, Milliseconds
<1>5. (x - y) % Word <= Interval
  BY <1>1, <1>2
<1> HIDE DEF x, y
<1>6. 2 * x <= HZ * x /\ 2 * y <= HZ * y
  BY <1>0, <1>4
<1>7. CASE A - B = a - b
  <2>1. x >= y
    <3> SUFFICES ASSUME x + 1 <= y PROVE FALSE
      BY <1>4
    <3>1. HZ * (x + 1) <= HZ * y
      BY <1>0, <1>4
    <3>2. HZ * (x + 1) = HZ * x + HZ
      BY <1>0, <1>4
    <3> QED
      BY <1>4, <1>7, <1>0, <3>1, <3>2
  <2>2. x - y \in 0..(Word - 1)
    BY <1>0, <1>4, <1>6, <2>1
  <2>3. x - y <= Interval
    BY <1>0, <1>5, <2>2, SmallModulo
  <2>4. HZ * x <= HZ * (y + Interval)
    BY <1>0, <1>4, <2>3
  <2>5. HZ * (y + Interval) = HZ * y + HZ * Interval
    BY <1>0, <1>4
  <2>6. (Interval + 1) * HZ = HZ * Interval + HZ
    BY <1>0
  <2> QED
    BY <1>0, <1>4, <1>7, <2>4, <2>5, <2>6
<1>8. CASE A - B = Word + a - b
  <2>1. a - b < -HZ
    BY <1>0, <1>8
  <2>2. x < y
    <3> SUFFICES ASSUME y <= x PROVE FALSE
      BY <1>4
    <3>1. HZ * y <= HZ * x
      BY <1>0, <1>4
    <3> QED
      BY <1>0, <1>4, <2>1, <3>1
  <2>3. x - y \in (-Word)..(-1)
    BY <1>0, <1>4, <1>6, <2>2
  <2>4. (x - y) % Word = x - y + Word
    BY <1>0, <2>3, NegativeModulo
  <2> QED
    BY <1>0, <1>4, <1>5, <1>6, <2>4
<1> QED
  BY <1>3, <1>7, <1>8

LEMMA ClockCases ==
    ASSUME [Next]_vars
    PROVE  UNCHANGED clock \/ LoopEntered \/ ClockReset \/ Tick \/ Iteration
<1>1. CASE app_main \/ TimePasses \/ main_loop \/ BrokenImageCrashes
  BY <1>1, AppMainCases DEF discovery_awaited, ota_service_init, http_server_init, Pass, CheckFails,
     TimePasses, main_loop, BrokenImageCrashes, steady
<1>2. CASE DiscoveryCompletes \/ CommandArrives \/ UploadArrives
  BY <1>2 DEF DiscoveryCompletes, DiscoveryFinds, DiscoveryFindsNobody, CommandArrives,
     UploadArrives, steady
<1>3. CASE routine_event_handler
  BY <1>3 DEF routine_event_handler, routine_discovery_events_handler,
     routine_message_codec_events_handler, routine_ota_service_events_handler,
     routine_http_server_events_handler, PowerUp, steady
<1>4. CASE DelegateTask
  BY <1>4 DEF DelegateTask, delegate_run_task,
     delegated_to_task_restart_discovery_on_new_channel,
     delegated_to_task_restart_wifi_apsta, steady
<1> QED
  BY <1>1, <1>2, <1>3, <1>4, NextCases DEF Operation, PowerUp, vars, volatile

(* A look at the clock that finds nothing due.                             *)
LEMMA NotDue ==
    ASSUME ClockInv, ~Due(ticks)
    PROVE  (ticks - last) * MS < (Interval + 1) * HZ
<1>0. /\ HZ \in Nat /\ HZ > 1 /\ MS \in Nat \ {0} /\ Word \in Nat \ {0} /\ Interval \in Nat \ {0}
      /\ Period \in Nat \ {0}
  BY ClockAssumption DEF ClockAssumption
<1>1. (Interval + 1) * HZ \in Nat
  BY <1>0
<1>2. /\ ticks \in Nat /\ last \in Nat /\ slept \in Nat /\ slept <= Period /\ last <= ticks
      /\ last + slept <= ticks
  BY <1>0 DEF ClockInv
<1> DEFINE A == ticks * MS
           B == last * MS
<1>3. A \in Nat /\ B \in Nat /\ B <= A /\ A - B = (ticks - last) * MS
  BY <1>0, <1>2
<1>4. A - B < (Interval + 1) * HZ + Period * MS
  <2>1. (ticks - last) * MS = (ticks - slept - last) * MS + slept * MS
    BY <1>0, <1>2
  <2>2. slept * MS <= Period * MS /\ slept * MS \in Nat /\ Period * MS \in Nat
    BY <1>0, <1>2
  <2>3. (ticks - slept - last) * MS < (Interval + 1) * HZ /\ (ticks - slept - last) * MS \in Int
    BY <1>0, <1>2 DEF ClockInv
  <2> QED
    BY <1>1, <1>3, <2>1, <2>2, <2>3
<1>5. (((A % Word) \div HZ) - ((B % Word) \div HZ)) % Word <= Interval
  <2>1. previous_time = (B % Word) \div HZ
    BY DEF ClockInv, current_time_ms
  <2>2. Elapsed(ticks) = (((A % Word) \div HZ) - ((B % Word) \div HZ)) % Word
    BY <2>1 DEF Elapsed, current_time_ms
  <2>3. current_time_ms(ticks) \in Nat /\ previous_time \in Nat
    BY <1>2, MillisecondsType DEF ClockInv
  <2>4. Elapsed(ticks) \in Nat
    BY <1>0, <2>3 DEF Elapsed
  <2> QED
    BY <1>0, <2>2, <2>4 DEF Due
<1>6. A - B < (Interval + 1) * HZ
  <2> HIDE DEF A, B
  <2> QED
    BY <1>3, <1>4, <1>5, NotDueMeansEarly
<1> QED
  BY <1>3, <1>6

LEMMA ClockStep ==
    ASSUME ClockInv, [Next]_vars
    PROVE  ClockInv'
<1>0. /\ HZ \in Nat /\ HZ > 1 /\ MS \in Nat \ {0} /\ Word \in Nat \ {0} /\ Interval \in Nat \ {0}
      /\ Period \in Nat \ {0} /\ StartTicks \subseteq Nat
  BY ClockAssumption DEF ClockAssumption
<1>1. (Interval + 1) * HZ \in Nat /\ (Interval + 1) * HZ > 0 /\ 0 * MS = 0 /\ 0 \in 0..Period
  BY <1>0
<1>a. \A x \in Nat : x - 0 - x = 0 /\ x + 0 <= x
  OBVIOUS
<1>2. CASE UNCHANGED clock
  BY <1>2 DEF ClockInv, clock
<1>3. CASE LoopEntered
  <2>1. /\ ticks' \in Nat /\ last' \in Nat /\ last' = ticks' /\ slept' = 0
        /\ rediscoveries' = rediscoveries
        /\ previous_time' = current_time_ms(last')
    BY <1>0, <1>3 DEF LoopEntered
  <2>2. previous_time' \in Nat
    BY <2>1, MillisecondsType
  <2>3. ticks' - slept' - last' = 0 /\ last' + slept' <= ticks'
    BY <1>a, <2>1, Zenon
  <2> QED
    BY <1>1, <2>1, <2>2, <2>3 DEF ClockInv
<1>4. CASE ClockReset
  <2>1. ticks' = 0 /\ slept' = 0 /\ last' = 0 /\ previous_time' = 0 /\ rediscoveries' = 0
    BY <1>4 DEF ClockReset
  <2>2. current_time_ms(0) = 0
    <3>1. 0 % Word = 0 /\ 0 \div HZ = 0
      BY <1>0
    <3> QED
      BY <1>1, <3>1 DEF current_time_ms
  <2> QED
    BY <1>1, <2>1, <2>2 DEF ClockInv
<1>5. CASE Tick
  <2>1. /\ ticks' = ticks + 1 /\ slept' = slept + 1 /\ slept < Period /\ ticks \in Nat /\ last \in Nat
        /\ slept \in Nat /\ UNCHANGED <<previous_time, last, rediscoveries>> /\ last + slept <= ticks
    BY <1>0, <1>5 DEF Tick, ClockInv
  <2>2. /\ ticks' \in Nat /\ slept' \in 0..Period /\ last' + slept' <= ticks'
        /\ ticks' - slept' - last' = ticks - slept - last
    BY <1>0, <2>1
  <2> QED
    BY <2>1, <2>2 DEF ClockInv
<1>6. CASE Iteration
  <2>1. /\ ticks \in Nat /\ last \in Nat /\ slept \in Nat /\ rediscoveries \in Nat
        /\ previous_time \in Nat /\ last <= ticks /\ ticks' = ticks /\ slept' = 0
    BY <1>0, <1>6 DEF ClockInv, Iteration
  <2>2. CASE Due(ticks)
    <3>1. /\ previous_time' = current_time_ms(ticks) /\ last' = ticks
          /\ rediscoveries' = rediscoveries + 1
      BY <1>6, <2>2 DEF Iteration
    <3>2. previous_time' \in Nat
      BY <2>1, <3>1, MillisecondsType
    <3>3. ticks' - slept' - last' = 0 /\ last' + slept' <= ticks'
      BY <1>a, <2>1, <3>1, Zenon
    <3> QED
      BY <1>1, <2>1, <3>1, <3>2, <3>3 DEF ClockInv
  <2>3. CASE ~Due(ticks)
    <3>1. UNCHANGED <<previous_time, last, rediscoveries>>
      BY <1>6, <2>3 DEF Iteration
    <3>2. (ticks' - slept' - last') * MS < (Interval + 1) * HZ
      <4>1. ticks' - slept' - last' = ticks - last
        BY <2>1, <3>1
      <4> QED
        BY <2>3, <4>1, NotDue
    <3> QED
      BY <1>1, <2>1, <3>1, <3>2 DEF ClockInv
  <2> QED
    BY <2>2, <2>3
<1> QED
  BY <1>2, <1>3, <1>4, <1>5, <1>6, ClockCases

LEMMA ClockInvariant == Spec => []ClockInv
<1>1. Init => ClockInv
  <2> SUFFICES ASSUME Init PROVE ClockInv
    OBVIOUS
  <2>1. ticks = 0 /\ slept = 0 /\ previous_time = 0 /\ last = 0 /\ rediscoveries = 0
    BY DEF Init, ClockInit
  <2>2. HZ \in Nat \ {0} /\ MS \in Nat /\ Word \in Nat \ {0} /\ Interval \in Nat /\ Period \in Nat
    BY ClockAssumption DEF ClockAssumption
  <2>3. current_time_ms(0) = 0
    <3>1. 0 * MS = 0 /\ 0 % Word = 0 /\ 0 \div HZ = 0
      BY <2>2
    <3> QED
      BY <3>1 DEF current_time_ms
  <2>4. (Interval + 1) * HZ > 0 /\ (0 - 0 - 0) * MS = 0 /\ 0 \in 0..Period
    BY <2>2
  <2> QED
    BY <2>1, <2>3, <2>4 DEF ClockInv
<1> QED
  BY <1>1, ClockStep, PTL DEF Spec

(* However the tick count is multiplied, wrapped and divided, at no tick   *)
(* has the home node been left alone for longer than the interval, a       *)
(* millisecond and one sleep of the loop, for any tick rate, interval,     *)
(* sleep and word that is wide enough for them.                            *)
THEOREM RediscoveryOnTimeHolds == Spec => []RediscoveryOnTime
<1>1. ClockInv => RediscoveryOnTime
  <2> SUFFICES ASSUME ClockInv PROVE RediscoveryOnTime
    OBVIOUS
  <2>0. HZ \in Nat /\ MS \in Nat /\ Interval \in Nat /\ Period \in Nat
    BY ClockAssumption DEF ClockAssumption
  <2>1. ticks \in Nat /\ last \in Nat /\ slept \in Nat /\ slept <= Period
    BY <2>0 DEF ClockInv
  <2>2. (ticks - last) * MS = (ticks - slept - last) * MS + slept * MS
    BY <2>0, <2>1
  <2>3. slept * MS <= Period * MS /\ slept * MS \in Nat /\ Period * MS \in Nat
    BY <2>0, <2>1
  <2>4. /\ (ticks - slept - last) * MS < (Interval + 1) * HZ
        /\ (ticks - slept - last) * MS \in Int /\ (Interval + 1) * HZ \in Int
    BY <2>0, <2>1 DEF ClockInv
  <2> QED
    BY <2>2, <2>3, <2>4 DEF RediscoveryOnTime
<1> QED
  BY <1>1, ClockInvariant, PTL

(* Without a wrap a difference of milliseconds above the interval is one   *)
(* of ticks above the interval.                                            *)
LEMMA DueMeansLate ==
    ASSUME NEW A \in Nat, NEW B \in Nat, B <= A, A \div Word = B \div Word,
           (((A % Word) \div HZ) - ((B % Word) \div HZ)) % Word > Interval
    PROVE  A - B > Interval * HZ
<1>0. HZ \in Nat /\ HZ > 1 /\ Word \in Nat \ {0} /\ Interval \in Nat \ {0}
  BY ClockAssumption DEF ClockAssumption
<1>1. PICK p \in Int, a \in 0..(Word - 1) : A = Word * p + a /\ A % Word = a /\ A \div Word = p
  <2>1. A \in Int
    OBVIOUS
  <2> QED
    BY <1>0, <2>1, DivisionWithRemainder, Zenon
<1>2. PICK q \in Int, b \in 0..(Word - 1) : B = Word * q + b /\ B % Word = b /\ B \div Word = q
  <2>1. B \in Int
    OBVIOUS
  <2> QED
    BY <1>0, <2>1, DivisionWithRemainder, Zenon
<1>3. A - B = a - b /\ b <= a
  <2>1. Word * p = Word * q /\ Word * p \in Int
    BY <1>0, <1>1, <1>2
  <2> QED
    BY <1>1, <1>2, <2>1
<1> DEFINE x == a \div HZ
           y == b \div HZ
<1>4. /\ x \in Nat /\ HZ * x \in Int /\ HZ * x <= a /\ a < HZ * x + HZ
      /\ y \in Nat /\ HZ * y \in Int /\ HZ * y <= b /\ b < HZ * y + HZ
  <2>1. a \in Nat /\ b \in Nat
    BY <1>0
  <2> QED
    BY <2>1, Milliseconds
<1>5. (x - y) % Word > Interval
  BY <1>1, <1>2
<1> HIDE DEF x, y
<1>6. 2 * x <= HZ * x /\ 2 * y <= HZ * y
  BY <1>0, <1>4
<1>7. x >= y
  <2> SUFFICES ASSUME x + 1 <= y PROVE FALSE
    BY <1>4
  <2>1. HZ * (x + 1) <= HZ * y
    BY <1>0, <1>4
  <2>2. HZ * (x + 1) = HZ * x + HZ
    BY <1>0, <1>4
  <2> QED
    BY <1>0, <1>3, <1>4, <2>1, <2>2
<1>8. x - y > Interval
  <2>1. x - y \in 0..(Word - 1)
    BY <1>0, <1>4, <1>6, <1>7
  <2> QED
    BY <1>0, <1>5, <2>1, SmallModulo
<1>9. HZ * (y + Interval + 1) <= HZ * x
  BY <1>0, <1>4, <1>8
<1>10. HZ * (y + Interval + 1) = HZ * y + HZ * Interval + HZ
  BY <1>0, <1>4
<1>11. Interval * HZ = HZ * Interval /\ HZ * Interval \in Nat
  BY <1>0
<1> QED
  BY <1>0, <1>3, <1>4, <1>9, <1>10, <1>11

LEMMA TicksScaled ==
    ASSUME NEW t \in Nat, NEW l \in Nat, l <= t, NEW m \in Nat
    PROVE  t * m \in Nat /\ l * m \in Nat /\ l * m <= t * m /\ t * m - l * m = (t - l) * m
<1>1. PICK e \in Nat : t = l + e
  <2>1. t - l \in Nat /\ t = l + (t - l)
    OBVIOUS
  <2> QED
    BY <2>1
<1>2. (l + e) * m = l * m + e * m /\ e * m \in Nat /\ l * m \in Nat
  OBVIOUS
<1>3. t - l = e
  BY <1>1
<1> QED
  BY <1>1, <1>2, <1>3

(* The main loop starts a discovery early only when the clock has wrapped  *)
(* since the last one, so at most once for each wrap.                      *)
THEOREM EarlyOnlyAfterWrapHolds == Spec => EarlyOnlyAfterWrap
<1>1. ASSUME ClockInv, [Next]_vars, rediscoveries' > rediscoveries, Wraps(last) = Wraps(ticks)
      PROVE  (ticks - last) * MS > Interval * HZ
  <2>0. /\ HZ \in Nat /\ MS \in Nat /\ Word \in Nat \ {0} /\ Interval \in Nat /\ Period \in Nat
        /\ rediscoveries \in Nat /\ ticks \in Nat /\ last \in Nat /\ last <= ticks
    BY <1>1, ClockAssumption DEF ClockAssumption, ClockInv
  <2>1. Iteration
    BY <1>1, <2>0, ClockCases DEF clock, LoopEntered, ClockReset, Tick
  <2>2. Due(ticks)
    BY <1>1, <2>0, <2>1 DEF Iteration
  <2> DEFINE A == ticks * MS
             B == last * MS
  <2>3. A \in Nat /\ B \in Nat /\ B <= A /\ A - B = (ticks - last) * MS
    BY <2>0, TicksScaled
  <2>4. (((A % Word) \div HZ) - ((B % Word) \div HZ)) % Word > Interval
    <3>1. previous_time = (B % Word) \div HZ
      BY <1>1 DEF ClockInv, current_time_ms
    <3> QED
      BY <2>2, <3>1 DEF Due, Elapsed, current_time_ms
  <2>5. A \div Word = B \div Word
    BY <1>1 DEF Wraps
  <2>6. A - B > Interval * HZ
    <3> HIDE DEF A, B
    <3> QED
      BY <2>3, <2>4, <2>5, DueMeansLate
  <2> QED
    BY <2>3, <2>6
<1>2. ASSUME ClockInv, [Next]_vars
      PROVE  [rediscoveries' > rediscoveries /\ Wraps(last) = Wraps(ticks) =>
                 (ticks - last) * MS > Interval * HZ]_clock
  BY <1>1, <1>2
<1> QED
  BY <1>2, ClockInvariant, PTL DEF Spec, EarlyOnlyAfterWrap

-----------------------------------------------------------------------------
(***************************************************************************)
(* The image slots.                                                        *)
(***************************************************************************)
(* The running image is whole, and while it is on trial the other slot     *)
(* holds one to go back to.                                                *)
SlotInv ==
    /\ slots \in [{0, 1} -> Images] /\ running \in {0, 1}
    /\ Version # 0
    /\ slots[running].state # "ABORTED"
    /\ slots[Spare].state # "PENDING_VERIFY"
    /\ OnTrial => Bootable(Spare)

LEMMA SlotInit == Init => SlotInv
BY ImageAssumption DEF Init, Shipped, SlotInv, Images, ImageStates, Version, Spare, OnTrial,
   ImageAssumption

(* The slots of a node, written out for both cases of running.             *)
LEMMA SlotFacts ==
    ASSUME SlotInv
    PROVE  /\ Spare \in {0, 1} /\ Spare # running /\ {0, 1} = {running, Spare}
           /\ slots[running] \in Images /\ slots[Spare] \in Images
BY DEF SlotInv, Spare

LEMMA BootloadKeepsSlots ==
    ASSUME SlotInv, Bootload
    PROVE  /\ SlotInv'
           /\ OnTrial => running' = Spare /\ ~OnTrial' /\ Version' = slots[Spare].version
           /\ ~OnTrial => UNCHANGED images
<1>1. CASE OnTrial
  <2>1. /\ slots' = [slots EXCEPT ![running].state = "ABORTED"]
        /\ running' = Spare
    BY <1>1 DEF Bootload, SlotInv
  <2>2. /\ slots'[running] = [slots[running] EXCEPT !.state = "ABORTED"]
        /\ slots'[Spare] = slots[Spare]
        /\ slots' \in [{0, 1} -> Images]
    BY <2>1, SlotFacts DEF SlotInv, Images, ImageStates
  <2>3. Spare' = running
    BY <2>1 DEF SlotInv, Spare
  <2>4. /\ slots'[running'] = slots[Spare]
        /\ slots'[Spare'].state = "ABORTED"
    BY <2>1, <2>2, <2>3, SlotFacts DEF Images
  <2>5. slots[Spare].version # 0 /\ slots[Spare].state \notin {"ABORTED", "PENDING_VERIFY"}
    BY <1>1 DEF SlotInv, Bootable
  <2> QED
    BY <1>1, <2>1, <2>2, <2>4, <2>5, SlotFacts DEF SlotInv, Version, OnTrial
<1>2. CASE ~OnTrial
  <2>1. slots' = slots /\ running' = running
    BY <1>2 DEF Bootload, images
  <2> QED
    BY <1>2, <2>1 DEF SlotInv, Version, OnTrial, Spare, Bootable, images
<1> QED
  BY <1>1, <1>2

LEMMA ValidationKeepsSlots ==
    ASSUME SlotInv, ota_set_valid
    PROVE  SlotInv' /\ ~OnTrial' /\ Version' = Version /\ (~OnTrial => slots' = slots)
<1>1. /\ slots' = [slots EXCEPT ![running].state = IF OnTrial THEN "VALID" ELSE @]
      /\ running' = running /\ Spare' = Spare
  BY DEF ota_set_valid, Spare
<1>2. /\ slots'[Spare] = slots[Spare]
      /\ slots'[running].version = slots[running].version
      /\ slots'[running].state = IF OnTrial THEN "VALID" ELSE slots[running].state
      /\ slots' \in [{0, 1} -> Images]
  BY <1>1, SlotFacts DEF SlotInv, Images, ImageStates
<1>3. ~OnTrial => slots' = slots
  BY <1>1, SlotFacts DEF SlotInv, Images
<1> QED
  BY <1>1, <1>2, <1>3 DEF SlotInv, Version, OnTrial, Bootable

LEMMA SpoilingKeepsSlots ==
    ASSUME SlotInv, SpoilSpare
    PROVE  SlotInv' /\ ~OnTrial /\ ~OnTrial' /\ Version' = Version
<1>1. /\ slots' = [slots EXCEPT ![Spare].version = 0]
      /\ running' = running /\ Spare' = Spare /\ ~OnTrial
  BY DEF SpoilSpare, MayInstall, Spare
<1>2. /\ slots'[running] = slots[running]
      /\ slots'[Spare].state = slots[Spare].state
      /\ slots' \in [{0, 1} -> Images]
  BY <1>1, SlotFacts DEF SlotInv, Images, ImageStates
<1> QED
  BY <1>1, <1>2 DEF SlotInv, Version, OnTrial

LEMMA InstallingKeepsSlots ==
    ASSUME SlotInv, NEW v \in Versions, Install(v)
    PROVE  /\ SlotInv' /\ ~OnTrial /\ OnTrial' /\ v > Version
           /\ Version' = v /\ slots'[Spare'].version = Version
<1>1. /\ slots' = [slots EXCEPT ![Spare] = [version |-> v, state |-> "PENDING_VERIFY"]]
      /\ running' = Spare /\ ~OnTrial /\ v > Version /\ v # 0
  BY ImageAssumption DEF Install, MayInstall, is_firmware_updated, ImageAssumption
<1>2. Spare' = running
  BY <1>1 DEF SlotInv, Spare
<1>3. /\ slots'[Spare] = [version |-> v, state |-> "PENDING_VERIFY"]
      /\ slots'[running] = slots[running]
      /\ slots' \in [{0, 1} -> Images]
  BY <1>1, SlotFacts DEF SlotInv, Images, ImageStates
<1>4. slots[running].state # "PENDING_VERIFY" /\ slots[running].state # "ABORTED"
  BY <1>1 DEF SlotInv, OnTrial
<1> QED
  BY <1>1, <1>2, <1>3, <1>4, SlotFacts DEF SlotInv, Version, OnTrial, Bootable

LEMMA SlotStep ==
    ASSUME SlotInv, [Next]_vars
    PROVE  SlotInv'
<1>1. ASSUME UNCHANGED images PROVE SlotInv'
  BY <1>1 DEF images, SlotInv, Version, OnTrial, Spare, Bootable
<1>2. CASE routine_http_server_events_handler
  BY <1>1, <1>2, SpoilingKeepsSlots, InstallingKeepsSlots DEF routine_http_server_events_handler
<1>3. CASE routine_ota_service_events_handler
  BY <1>3, ValidationKeepsSlots DEF routine_ota_service_events_handler
<1>4. CASE UNCHANGED vars
  BY <1>1, <1>4 DEF vars
<1> QED
  BY <1>1, <1>2, <1>3, <1>4, NextCases, ImagesKept, BootloadKeepsSlots

LEMMA SlotInvariant == Spec => []SlotInv
BY SlotInit, SlotStep, PTL DEF Spec

-----------------------------------------------------------------------------
(***************************************************************************)
(* Type correctness.                                                       *)
(***************************************************************************)
PhaseNames == Setup \cup {"waiting", "found", "ota_ready", "serving"}

(* How far app_main is, by name instead of by position.                    *)
LEMMA PhaseFacts ==
    /\ (\E i \in DOMAIN Phases : main = Phases[i]) <=> main \in PhaseNames
    /\ main \in PhaseNames =>
         /\ Reached("found") <=> main \in {"found", "ota_ready", "serving"}
         /\ Reached("lock_created") <=> main \notin {"power", "flash", "station", "transport", "codec"}
         /\ Reached("codec") <=> main \notin {"power", "flash", "station", "transport"}
<1>1. DOMAIN Phases = 1..11
  BY DEF Phases
<1>2. /\ Phases[1] = "power" /\ Phases[2] = "flash" /\ Phases[3] = "station"
      /\ Phases[4] = "transport" /\ Phases[5] = "codec" /\ Phases[6] = "lock_created"
      /\ Phases[7] = "lock_ready" /\ Phases[8] = "waiting" /\ Phases[9] = "found"
      /\ Phases[10] = "ota_ready" /\ Phases[11] = "serving"
  BY DEF Phases
<1>3. \A i \in 1..11 : \/ i = 1 \/ i = 2 \/ i = 3 \/ i = 4 \/ i = 5 \/ i = 6 \/ i = 7 \/ i = 8
                         \/ i = 9 \/ i = 10 \/ i = 11
  OBVIOUS
<1>4. (\E i \in DOMAIN Phases : main = Phases[i]) <=> main \in PhaseNames
  BY <1>1, <1>2, <1>3 DEF PhaseNames, Setup
<1>5. ASSUME main \in PhaseNames
      PROVE  /\ Reached("found") <=> main \in {"found", "ota_ready", "serving"}
             /\ Reached("lock_created") <=>
                   main \notin {"power", "flash", "station", "transport", "codec"}
             /\ Reached("codec") <=> main \notin {"power", "flash", "station", "transport"}
  <2>1. PICK k \in 1..11 : Phases[k] = main
    BY <1>1, <1>4, <1>5
  <2>2. \A j \in 1..11 : Phases[j] = main => j = k
    BY <1>2, <1>3, <2>1
  <2>3. \A q : Reached(q) <=> \E i \in 1..k : Phases[i] = q
    BY <1>1, <2>1, <2>2 DEF Reached
  <2>4. /\ Reached("found") <=> k >= 9
        /\ Reached("lock_created") <=> k >= 6
        /\ Reached("codec") <=> k >= 5
    BY <1>2, <1>3, <2>3
  <2> QED
    BY <1>2, <1>3, <2>1, <2>4
<1> QED
  BY <1>4, <1>5

NodeTypeOK ==
    /\ main \in PhaseNames
    /\ home \in ScanChannels
    /\ radio \in 0..MAX_WIFI_CHANNEL
    /\ transport \in {"up", "down"}
    /\ discovering \in BOOLEAN /\ silent \in BOOLEAN
    /\ netifs \in BOOLEAN /\ signalled \in BOOLEAN
    /\ events \in Seq(EventKinds) /\ Len(events) <= EVENT_QUEUE_LENGTH
    /\ channel \in 0..MAX_WIFI_CHANNEL
    /\ delegate_queue \in Seq(Jobs) /\ Len(delegate_queue) <= DELEGATE_QUEUE_LENGTH
    /\ delegate \in Jobs \cup {Idle}
    /\ ap = Off \/ ap \in 0..MAX_WIFI_CHANNEL
    /\ node \in {"up", "aborted"}
    /\ budget \in [{"losses", "faults", "commands", "uploads", "power"} -> Nat]

(* Posting an event, and taking one, leave a queue of events.              *)
LEMMA PostType ==
    ASSUME NodeTypeOK, NEW e \in EventKinds, Post(e)
    PROVE  events' \in Seq(EventKinds) /\ Len(events') <= EVENT_QUEUE_LENGTH
<1>1. events \in Seq(EventKinds) /\ events' = Append(events, e)
      /\ Len(events) < EVENT_QUEUE_LENGTH /\ EVENT_QUEUE_LENGTH \in Nat
  BY BootAssumption DEF NodeTypeOK, Post, BootAssumption
<1> QED
  BY <1>1

LEMMA TakeType ==
    ASSUME NodeTypeOK, events # <<>>, events' = Tail(events)
    PROVE  events' \in Seq(EventKinds) /\ Len(events') <= EVENT_QUEUE_LENGTH
<1>1. events \in Seq(EventKinds) /\ Len(events) <= EVENT_QUEUE_LENGTH /\ EVENT_QUEUE_LENGTH \in Nat
  BY BootAssumption DEF NodeTypeOK, BootAssumption
<1> QED
  BY <1>1

LEMMA SpendType ==
    ASSUME NodeTypeOK, NEW what \in {"losses", "faults", "commands", "uploads", "power"},
           Spend(what)
    PROVE  budget' \in [{"losses", "faults", "commands", "uploads", "power"} -> Nat]
<1>1. budget[what] - 1 \in Nat
  BY DEF NodeTypeOK, Spend
<1> QED
  BY <1>1 DEF NodeTypeOK, Spend

(* A job at the end of the queue, or taken from its front.                 *)
LEMMA JobType ==
    ASSUME NodeTypeOK, NEW f \in {"restart_discovery", "restart_wifi_apsta"},
           NEW c \in 0..MAX_WIFI_CHANNEL, delegate_post(f, c)
    PROVE  delegate_queue' \in Seq(Jobs) /\ Len(delegate_queue') <= DELEGATE_QUEUE_LENGTH
<1>1. [func |-> f, channel |-> c] \in Jobs
  BY DEF Jobs
<1>2. /\ delegate_queue \in Seq(Jobs) /\ Len(delegate_queue) < DELEGATE_QUEUE_LENGTH
      /\ DELEGATE_QUEUE_LENGTH \in Nat
      /\ delegate_queue' = Append(delegate_queue, [func |-> f, channel |-> c])
  BY BootAssumption DEF NodeTypeOK, delegate_post, BootAssumption
<1> QED
  BY <1>1, <1>2

LEMMA ChannelRange ==
    /\ MAX_WIFI_CHANNEL \in Nat \ {0}
    /\ 0 \in 0..MAX_WIFI_CHANNEL /\ 1 \in 0..MAX_WIFI_CHANNEL
    /\ \A c \in ScanChannels : c \in 0..MAX_WIFI_CHANNEL
<1>1. MAX_WIFI_CHANNEL \in Nat \ {0}
  BY BootAssumption DEF BootAssumption
<1> QED
  BY <1>1 DEF ScanChannels

LEMMA ChannelType ==
    ASSUME NodeTypeOK
    PROVE  NextChannel \in 1..MAX_WIFI_CHANNEL /\ NextChannel \in 0..MAX_WIFI_CHANNEL
<1>1. channel \in 0..MAX_WIFI_CHANNEL
  BY DEF NodeTypeOK
<1> QED
  BY <1>1, ChannelRange DEF NextChannel

LEMMA PowerUpType ==
    ASSUME NodeTypeOK, PowerUp, UNCHANGED home,
           budget' \in [{"losses", "faults", "commands", "uploads", "power"} -> Nat]
    PROVE  NodeTypeOK'
<1>1. <<>> \in Seq(EventKinds) /\ <<>> \in Seq(Jobs) /\ Len(<<>>) = 0
  OBVIOUS
<1> QED
  <2>1. 0 <= EVENT_QUEUE_LENGTH /\ 0 <= DELEGATE_QUEUE_LENGTH
    BY BootAssumption DEF BootAssumption
  <2>2. events' = <<>> /\ delegate_queue' = <<>>
    BY DEF PowerUp
  <2>3. /\ main' \in PhaseNames /\ radio' = 0 /\ transport' = "down" /\ channel' = 0
        /\ discovering' = FALSE /\ silent' = FALSE /\ netifs' = FALSE /\ signalled' = FALSE
        /\ delegate' = Idle /\ ap' = Off /\ node' = "up"
    BY DEF PowerUp, PhaseNames, Setup
  <2> QED
    BY <1>1, <2>1, <2>2, <2>3, ChannelRange DEF NodeTypeOK

LEMMA NodeTypeStep ==
    ASSUME NodeTypeOK, [Next]_vars
    PROVE  NodeTypeOK'
<1> USE BootAssumption DEF BootAssumption, jobs, wifi, scan, steady
<1>1. CASE app_main
  <2>1. /\ main' \in PhaseNames /\ radio' \in 0..MAX_WIFI_CHANNEL /\ transport' \in {"up", "down"}
        /\ node' \in {"up", "aborted"}
        /\ discovering' \in BOOLEAN /\ silent' \in BOOLEAN /\ signalled' \in BOOLEAN
        /\ UNCHANGED events \/ Post("validate")
        /\ UNCHANGED budget \/ Spend("faults")
    <3>1. CASE CheckFails(main)
      BY <3>1 DEF CheckFails, NodeTypeOK
    <3>2. CASE discovery_awaited \/ ota_service_init \/ http_server_init
      BY <3>2 DEF discovery_awaited, ota_service_init, http_server_init, Pass, Proceed, NodeTypeOK,
         PhaseNames
    <3>3. CASE ~CheckFails(main) /\ ~(discovery_awaited \/ ota_service_init \/ http_server_init)
      BY <1>1, <3>3, AppMainCases, ChannelRange DEF NodeTypeOK, PhaseNames, Setup
    <3> QED
      BY <3>1, <3>2, <3>3
  <2>2. events' \in Seq(EventKinds) /\ Len(events') <= EVENT_QUEUE_LENGTH
    BY <2>1, PostType DEF NodeTypeOK, EventKinds
  <2>3. budget' \in [{"losses", "faults", "commands", "uploads", "power"} -> Nat]
    BY <2>1, SpendType DEF NodeTypeOK
  <2>4. UNCHANGED <<jobs, netifs, ap, home>>
    BY <1>1, AppMainCases
  <2> QED
    BY <2>1, <2>2, <2>3, <2>4 DEF NodeTypeOK
<1>2. CASE TimePasses \/ main_loop \/ BrokenImageCrashes
  <2>1. UNCHANGED budget \/ Spend("faults")
    BY <1>2 DEF TimePasses, main_loop, BrokenImageCrashes
  <2>2. budget' \in [{"losses", "faults", "commands", "uploads", "power"} -> Nat]
    BY <2>1, SpendType DEF NodeTypeOK
  <2>3. discovering' \in BOOLEAN
    BY <1>2 DEF NodeTypeOK, TimePasses, main_loop, BrokenImageCrashes
  <2> QED
    BY <1>2, <2>2, <2>3 DEF NodeTypeOK, TimePasses, main_loop, BrokenImageCrashes
<1>3. CASE DiscoveryCompletes
  <2>1. Post("found") \/ Post("nobody")
    BY <1>3 DEF DiscoveryCompletes, DiscoveryFinds, DiscoveryFindsNobody
  <2>2. events' \in Seq(EventKinds) /\ Len(events') <= EVENT_QUEUE_LENGTH
    BY <2>1, PostType DEF EventKinds
  <2>3. UNCHANGED budget \/ Spend("losses")
    BY <1>3 DEF DiscoveryCompletes, DiscoveryFinds, DiscoveryFindsNobody
  <2>4. budget' \in [{"losses", "faults", "commands", "uploads", "power"} -> Nat]
    BY <2>3, SpendType DEF NodeTypeOK
  <2>5. discovering' = FALSE /\ UNCHANGED <<silent, steady, wifi, jobs, signalled, node>>
    BY <1>3 DEF DiscoveryCompletes, DiscoveryFinds, DiscoveryFindsNobody
  <2> QED
    BY <2>2, <2>4, <2>5 DEF NodeTypeOK
<1>4. CASE CommandArrives \/ UploadArrives
  <2>1. Post("command") \/ Post("upload")
    BY <1>4 DEF CommandArrives, UploadArrives
  <2>2. events' \in Seq(EventKinds) /\ Len(events') <= EVENT_QUEUE_LENGTH
    BY <2>1, PostType DEF EventKinds
  <2>3. budget' \in [{"losses", "faults", "commands", "uploads", "power"} -> Nat]
    BY <1>4, SpendType DEF CommandArrives, UploadArrives
  <2>4. UNCHANGED <<steady, wifi, scan, jobs, signalled, node>>
    BY <1>4 DEF CommandArrives, UploadArrives
  <2> QED
    BY <2>2, <2>3, <2>4 DEF NodeTypeOK
<1>5. CASE routine_discovery_events_handler
  <2>1. /\ events # <<>> /\ events' = Tail(events)
        /\ UNCHANGED <<steady, wifi, scan, delegate, signalled, node, budget>>
    BY <1>5 DEF routine_discovery_events_handler
  <2>2. /\ channel' \in 0..MAX_WIFI_CHANNEL
        /\ delegate_queue' \in Seq(Jobs) /\ Len(delegate_queue') <= DELEGATE_QUEUE_LENGTH
    <3>1. CASE NoPeer
      BY <3>1, ChannelType, JobType DEF NoPeer
    <3>2. CASE PeerFound
      BY <3>2, JobType DEF PeerFound, NodeTypeOK
    <3> QED
      BY <1>5, <3>1, <3>2 DEF routine_discovery_events_handler
  <2> QED
    BY <2>1, <2>2, TakeType DEF NodeTypeOK
<1>6. CASE routine_message_codec_events_handler \/ routine_ota_service_events_handler
  <2>1. /\ events # <<>> /\ events' = Tail(events) /\ node' \in {"up", "aborted"}
        /\ UNCHANGED <<main, home, wifi, scan, jobs, signalled, budget>>
    BY <1>6 DEF routine_message_codec_events_handler, routine_ota_service_events_handler, NodeTypeOK
  <2> QED
    BY <2>1, TakeType DEF NodeTypeOK
<1>7. CASE routine_http_server_events_handler
  <2>1. CASE PowerUp
    BY <1>7, <2>1, PowerUpType DEF routine_http_server_events_handler, NodeTypeOK
  <2>2. CASE /\ events # <<>> /\ events' = Tail(events)
             /\ UNCHANGED <<main, wifi, scan, jobs, signalled, node, home, budget>>
    BY <2>2, TakeType DEF NodeTypeOK
  <2> QED
    BY <1>7, <2>1, <2>2 DEF routine_http_server_events_handler
<1>8. CASE delegate_run_task
  <2>1. delegate_queue \in Seq(Jobs) /\ Len(delegate_queue) <= DELEGATE_QUEUE_LENGTH
        /\ delegate_queue # <<>> /\ delegate' = Head(delegate_queue)
        /\ delegate_queue' = Tail(delegate_queue)
    BY <1>8 DEF delegate_run_task, NodeTypeOK
  <2>2. /\ delegate' \in Jobs
        /\ delegate_queue' \in Seq(Jobs) /\ Len(delegate_queue') <= DELEGATE_QUEUE_LENGTH
    BY <2>1
  <2>3. radio' \in 0..MAX_WIFI_CHANNEL /\ transport' \in {"up", "down"}
    BY <1>8, ChannelRange DEF delegate_run_task, NodeTypeOK
  <2> QED
    BY <1>8, <2>2, <2>3 DEF delegate_run_task, NodeTypeOK
<1>9. CASE delegated_to_task_restart_discovery_on_new_channel
  <2>1. delegate \in Jobs /\ delegate.channel \in 0..MAX_WIFI_CHANNEL
    BY <1>9 DEF delegated_to_task_restart_discovery_on_new_channel, NodeTypeOK, Idle, Jobs
  <2>2. radio' \in 0..MAX_WIFI_CHANNEL
    BY <1>9, <2>1, ChannelRange
    DEF delegated_to_task_restart_discovery_on_new_channel, NodeTypeOK
  <2>3. budget' \in [{"losses", "faults", "commands", "uploads", "power"} -> Nat]
    BY <1>9, SpendType DEF delegated_to_task_restart_discovery_on_new_channel, NodeTypeOK
  <2>4. transport' \in {"up", "down"} /\ discovering' \in BOOLEAN /\ silent' \in BOOLEAN
    BY <1>9 DEF delegated_to_task_restart_discovery_on_new_channel, NodeTypeOK
  <2> QED
    BY <1>9, <2>2, <2>3, <2>4 DEF delegated_to_task_restart_discovery_on_new_channel, NodeTypeOK
<1>10. CASE delegated_to_task_restart_wifi_apsta
  <2>1. delegate \in Jobs /\ delegate.channel \in 0..MAX_WIFI_CHANNEL
    BY <1>10 DEF delegated_to_task_restart_wifi_apsta, NodeTypeOK, Idle, Jobs
  <2>2. /\ radio' \in 0..MAX_WIFI_CHANNEL /\ netifs' \in BOOLEAN
        /\ ap' = Off \/ ap' \in 0..MAX_WIFI_CHANNEL
        /\ node' \in {"up", "aborted"}
        /\ UNCHANGED budget \/ Spend("faults")
    <3>1. ASSUME NEW c \in 0..MAX_WIFI_CHANNEL, radio' \in IF c = 0 THEN ScanChannels ELSE {c}
          PROVE  radio' \in 0..MAX_WIFI_CHANNEL
      BY <3>1, ChannelRange
    <3>2. UNCHANGED radio => radio' \in 0..MAX_WIFI_CHANNEL
      BY DEF NodeTypeOK
    <3> QED
      BY <1>10, <2>1, <3>1, <3>2
      DEF delegated_to_task_restart_wifi_apsta, wifi_init_softap, NodeTypeOK
  <2>3. budget' \in [{"losses", "faults", "commands", "uploads", "power"} -> Nat]
    BY <2>2, SpendType DEF NodeTypeOK
  <2> QED
    BY <1>10, <2>2, <2>3 DEF delegated_to_task_restart_wifi_apsta, NodeTypeOK
<1>11. CASE Restart \/ PowerLoss
  <2>1. budget' \in [{"losses", "faults", "commands", "uploads", "power"} -> Nat]
    BY <1>11, SpendType DEF Restart, PowerLoss, NodeTypeOK
  <2> QED
    BY <1>11, <2>1, PowerUpType DEF Restart, PowerLoss
<1>12. CASE UNCHANGED vars
  BY <1>12 DEF vars, volatile, NodeTypeOK
<1> QED
  BY <1>1, <1>2, <1>3, <1>4, <1>5, <1>6, <1>7, <1>8, <1>9, <1>10, <1>11, <1>12
  DEF Next, Operation, routine_event_handler, DelegateTask

LEMMA NodeTypeInitial ==
    ASSUME Init
    PROVE  NodeTypeOK
<1>1. <<>> \in Seq(EventKinds) /\ <<>> \in Seq(Jobs) /\ Len(<<>>) = 0
  OBVIOUS
<1>2. budget \in [{"losses", "faults", "commands", "uploads", "power"} -> Nat]
  BY BootAssumption DEF Init, BootAssumption
<1> QED
  <2>1. 0 <= EVENT_QUEUE_LENGTH /\ 0 <= DELEGATE_QUEUE_LENGTH
    BY BootAssumption DEF BootAssumption
  <2>2. events = <<>> /\ delegate_queue = <<>> /\ home \in ScanChannels
    BY DEF Init
  <2>3. /\ main \in PhaseNames /\ radio = 0 /\ transport = "down" /\ channel = 0
        /\ discovering = FALSE /\ silent = FALSE /\ netifs = FALSE /\ signalled = FALSE
        /\ delegate = Idle /\ ap = Off /\ node = "up"
    BY DEF Init, PhaseNames, Setup
  <2> QED
    BY <1>1, <1>2, <2>1, <2>2, <2>3, ChannelRange DEF NodeTypeOK

LEMMA NodeTypeInvariant == Spec => []NodeTypeOK
BY NodeTypeInitial, NodeTypeStep, PTL DEF Spec

(* Everything the node keeps has its type in every reachable state, the    *)
(* lengths of both queues and the contents of the image slots included.    *)
THEOREM TypeCorrect == Spec => []TypeOK
<1>1. NodeTypeOK /\ SlotInv /\ ClockInv => TypeOK
  BY PhaseFacts DEF NodeTypeOK, SlotInv, ClockInv, TypeOK
<1> QED
  BY <1>1, ClockInvariant, NodeTypeInvariant, SlotInvariant, PTL

-----------------------------------------------------------------------------
(***************************************************************************)
(* The order of the events: an image validates itself before it is asked   *)
(* to update, because its validation is queued before there is a server.   *)
(***************************************************************************)
Absent(q, e) == \A i \in DOMAIN q : q[i] # e

(* A validation is queued, and no upload in front of it.                   *)
ValidateFirst(q) ==
    \E i \in DOMAIN q : q[i] = "validate" /\ \A j \in 1..i : q[j] # "upload"

EventInv ==
    /\ main \in {"found", "ota_ready", "serving"} => Version \notin Broken
    /\ main # "serving" => Absent(events, "upload")
    /\ main \notin {"ota_ready", "serving"} => Absent(events, "validate")
    /\ OnTrial /\ main \in {"ota_ready", "serving"} => ValidateFirst(events)

LEMMA AppendEvents ==
    ASSUME NEW q \in Seq(EventKinds), NEW e \in EventKinds
    PROVE  /\ ValidateFirst(q) => ValidateFirst(Append(q, e))
           /\ Absent(q, "upload") => ValidateFirst(Append(q, "validate"))
           /\ \A x : x # e /\ Absent(q, x) => Absent(Append(q, e), x)
<1>1. /\ Len(q) \in Nat /\ DOMAIN q = 1..Len(q)
      /\ DOMAIN Append(q, e) = 1..(Len(q) + 1)
      /\ DOMAIN Append(q, "validate") = 1..(Len(q) + 1)
      /\ \A i \in 1..Len(q) : Append(q, e)[i] = q[i] /\ Append(q, "validate")[i] = q[i]
      /\ Append(q, e)[Len(q) + 1] = e
      /\ Append(q, "validate")[Len(q) + 1] = "validate"
  OBVIOUS
<1>2. ASSUME ValidateFirst(q) PROVE ValidateFirst(Append(q, e))
  <2>1. PICK i \in DOMAIN q : q[i] = "validate" /\ \A j \in 1..i : q[j] # "upload"
    BY <1>2 DEF ValidateFirst
  <2>2. i \in 1..(Len(q) + 1) /\ \A j \in 1..i : j \in 1..Len(q)
    BY <1>1, <2>1
  <2> QED
    BY <1>1, <2>1, <2>2 DEF ValidateFirst
<1>3. ASSUME Absent(q, "upload") PROVE ValidateFirst(Append(q, "validate"))
  <2>1. \A j \in 1..(Len(q) + 1) : j \in 1..Len(q) \/ j = Len(q) + 1
    BY <1>1
  <2>2. \A j \in 1..(Len(q) + 1) : Append(q, "validate")[j] # "upload"
    BY <1>1, <1>3, <2>1 DEF Absent
  <2>3. Len(q) + 1 \in 1..(Len(q) + 1)
    BY <1>1
  <2> QED
    BY <1>1, <2>2, <2>3 DEF ValidateFirst
<1>4. ASSUME NEW x, x # e, Absent(q, x) PROVE Absent(Append(q, e), x)
  <2>1. \A j \in 1..(Len(q) + 1) : j \in 1..Len(q) \/ j = Len(q) + 1
    BY <1>1
  <2> QED
    BY <1>1, <1>4, <2>1 DEF Absent
<1> QED
  BY <1>2, <1>3, <1>4

LEMMA TakeEvents ==
    ASSUME NEW q \in Seq(EventKinds), q # <<>>
    PROVE  /\ ValidateFirst(q) => Head(q) # "upload"
           /\ ValidateFirst(q) /\ Head(q) # "validate" => ValidateFirst(Tail(q))
           /\ \A x : Absent(q, x) => Head(q) # x /\ Absent(Tail(q), x)
<1>1. /\ Len(q) \in Nat \ {0} /\ DOMAIN q = 1..Len(q)
      /\ DOMAIN Tail(q) = 1..(Len(q) - 1)
      /\ \A i \in 1..(Len(q) - 1) : Tail(q)[i] = q[i + 1]
      /\ Head(q) = q[1]
  OBVIOUS
<1>2. ASSUME ValidateFirst(q)
      PROVE  Head(q) # "upload" /\ (Head(q) # "validate" => ValidateFirst(Tail(q)))
  <2>1. PICK i \in DOMAIN q : q[i] = "validate" /\ \A j \in 1..i : q[j] # "upload"
    BY <1>2 DEF ValidateFirst
  <2>2. Head(q) # "upload"
    BY <1>1, <2>1
  <2>3. ASSUME Head(q) # "validate" PROVE ValidateFirst(Tail(q))
    <3>1. i - 1 \in 1..(Len(q) - 1) /\ \A j \in 1..(i - 1) : j \in 1..(Len(q) - 1) /\ j + 1 \in 1..i
      BY <1>1, <2>1, <2>3
    <3>2. Tail(q)[i - 1] = "validate"
      BY <1>1, <2>1, <3>1
    <3> QED
      BY <1>1, <2>1, <3>1, <3>2 DEF ValidateFirst
  <2> QED
    BY <2>2, <2>3
<1>3. ASSUME NEW x, Absent(q, x) PROVE Head(q) # x /\ Absent(Tail(q), x)
  <2>1. 1 \in 1..Len(q) /\ \A i \in 1..(Len(q) - 1) : i + 1 \in 1..Len(q)
    BY <1>1
  <2> QED
    BY <1>1, <1>3, <2>1 DEF Absent
<1> QED
  BY <1>2, <1>3

(* app_main, with the validation it may post.                              *)
LEMMA AppMainKeepsEvents ==
    ASSUME NodeTypeOK, EventInv, app_main
    PROVE  EventInv'
<1>1. UNCHANGED images /\ Version' = Version /\ OnTrial' = OnTrial
  BY AppMainCases DEF images, Version, OnTrial
<1>2. CASE ~(discovery_awaited \/ ota_service_init \/ http_server_init)
  <2>1. UNCHANGED events /\ main' \notin {"found", "ota_ready", "serving"}
        /\ main \notin {"found", "ota_ready", "serving"}
    BY <1>2, AppMainCases DEF CheckFails, Checked, steady
  <2> QED
    BY <1>1, <2>1 DEF EventInv
<1>3. CASE discovery_awaited
  BY <1>1, <1>3 DEF discovery_awaited, Proceed, EventInv
<1>4. CASE ota_service_init
  <2>1. /\ main = "found" /\ main' = "ota_ready" /\ Absent(events, "upload")
        /\ Version \notin Broken /\ events \in Seq(EventKinds)
        /\ IF OnTrial THEN events' = Append(events, "validate") ELSE UNCHANGED events
    BY <1>4 DEF ota_service_init, Proceed, EventInv, Post, NodeTypeOK
  <2>2. Absent(events', "upload")
    BY <2>1, AppendEvents DEF EventKinds
  <2>3. OnTrial => ValidateFirst(events')
    BY <2>1, AppendEvents DEF EventKinds
  <2> QED
    BY <1>1, <2>1, <2>2, <2>3 DEF EventInv
<1>5. CASE http_server_init
  BY <1>1, <1>5 DEF http_server_init, Pass, Proceed, EventInv
<1> QED
  BY <1>2, <1>3, <1>4, <1>5

(* An event that is not a validation and that the phase allows.            *)
LEMMA PostKeepsEvents ==
    ASSUME NodeTypeOK, EventInv, UNCHANGED <<main, images>>,
           NEW e \in EventKinds \ {"validate"}, Post(e), e = "upload" => main = "serving"
    PROVE  EventInv'
<1>1. events \in Seq(EventKinds) /\ events' = Append(events, e)
  BY DEF NodeTypeOK, Post
<1>2. /\ ValidateFirst(events) => ValidateFirst(events')
      /\ \A x : x # e /\ Absent(events, x) => Absent(events', x)
  BY <1>1, AppendEvents
<1>3. Version' = Version /\ OnTrial' = OnTrial
  BY DEF images, Version, OnTrial
<1> QED
  BY <1>2, <1>3 DEF EventInv

(* Taking an event that is not a validation.                               *)
LEMMA TakeKeepsEvents ==
    ASSUME NodeTypeOK, EventInv, events # <<>>, events' = Tail(events), UNCHANGED main,
           Version' = Version, OnTrial' => OnTrial /\ Head(events) # "validate"
    PROVE  EventInv'
<1>1. events \in Seq(EventKinds)
  BY DEF NodeTypeOK
<1>2. /\ ValidateFirst(events) /\ Head(events) # "validate" => ValidateFirst(events')
      /\ \A x : Absent(events, x) => Absent(events', x)
  BY <1>1, TakeEvents
<1> QED
  BY <1>2 DEF EventInv

LEMMA EventStep ==
    ASSUME NodeTypeOK, SlotInv, EventInv, [Next]_vars
    PROVE  EventInv'
<1>1. ASSUME UNCHANGED <<events, main, images>> PROVE EventInv'
  BY <1>1 DEF EventInv, Version, OnTrial, images
<1>2. CASE TimePasses \/ main_loop \/ BrokenImageCrashes \/ DelegateTask \/ UNCHANGED vars
  <2>1. CASE TimePasses \/ main_loop
    BY <1>1, <2>1 DEF TimePasses, main_loop
  <2>2. CASE BrokenImageCrashes \/ DelegateTask
    BY <1>1, <2>2 DEF BrokenImageCrashes, DelegateTask, delegate_run_task,
       delegated_to_task_restart_discovery_on_new_channel, delegated_to_task_restart_wifi_apsta,
       steady
  <2>3. CASE UNCHANGED vars
    BY <1>1, <2>3 DEF vars, volatile
  <2> QED
    BY <1>2, <2>1, <2>2, <2>3
<1>3. CASE DiscoveryCompletes \/ CommandArrives \/ UploadArrives
  <2>1. UNCHANGED <<main, images>>
    BY <1>3 DEF DiscoveryCompletes, DiscoveryFinds, DiscoveryFindsNobody, CommandArrives,
       UploadArrives, steady
  <2>2. \E e \in EventKinds \ {"validate"} : Post(e) /\ (e = "upload" => main = "serving")
    BY <1>3 DEF DiscoveryCompletes, DiscoveryFinds, DiscoveryFindsNobody, CommandArrives,
       UploadArrives, Serving, EventKinds
  <2> QED
    BY <2>1, <2>2, PostKeepsEvents
<1>4. CASE routine_discovery_events_handler \/ routine_message_codec_events_handler
  <2>1. /\ events # <<>> /\ events' = Tail(events) /\ Head(events) # "validate"
        /\ UNCHANGED <<main, images>>
    BY <1>4 DEF routine_discovery_events_handler, routine_message_codec_events_handler,
       NoPeer, PeerFound, steady
  <2> QED
    BY <2>1, TakeKeepsEvents DEF images, Version, OnTrial
<1>5. CASE routine_ota_service_events_handler
  <2>1. /\ events # <<>> /\ events' = Tail(events) /\ ota_set_valid /\ UNCHANGED main
    BY <1>5 DEF routine_ota_service_events_handler
  <2> QED
    BY <2>1, ValidationKeepsSlots, TakeKeepsEvents
<1>6. ASSUME PowerUp PROVE EventInv'
  BY <1>6 DEF PowerUp, EventInv, Absent
<1>7. CASE routine_http_server_events_handler
  <2>1. ASSUME UNCHANGED images \/ SpoilSpare,
               events # <<>>, Head(events) = "upload", events' = Tail(events), UNCHANGED main
        PROVE  EventInv'
    <3>1. Version' = Version /\ (OnTrial' => OnTrial)
      BY <2>1, SpoilingKeepsSlots DEF images, Version, OnTrial
    <3> QED
      BY <2>1, <3>1, TakeKeepsEvents
  <2> QED
    BY <1>6, <1>7, <2>1 DEF routine_http_server_events_handler
<1> QED
  BY <1>2, <1>3, <1>4, <1>5, <1>6, <1>7, AppMainKeepsEvents
  DEF Next, Operation, routine_event_handler, Restart, PowerLoss

LEMMA EventInvariant == Spec => []EventInv
<1>1. Init => EventInv
  BY DEF Init, EventInv, Absent
<1> QED
  BY <1>1, NodeTypeInvariant, SlotInvariant, EventStep, PTL DEF Spec

(* Whenever an upload is looked at, the running image has been confirmed,  *)
(* so the slot it goes to is not the one the node may have to go back to.  *)
THEOREM UpdatesFromConfirmedImageHolds == Spec => []UpdatesFromConfirmedImage
<1>1. NodeTypeOK /\ EventInv => UpdatesFromConfirmedImage
  <2> SUFFICES ASSUME NodeTypeOK, EventInv, events # <<>>, Head(events) = "upload", OnTrial
               PROVE  FALSE
    BY DEF UpdatesFromConfirmedImage
  <2>1. events \in Seq(EventKinds)
    BY DEF NodeTypeOK
  <2>2. main = "serving"
    BY <2>1, TakeEvents DEF EventInv
  <2>3. ValidateFirst(events)
    BY <2>2 DEF EventInv
  <2> QED
    BY <2>1, <2>3, TakeEvents
<1> QED
  BY <1>1, NodeTypeInvariant, EventInvariant, PTL

-----------------------------------------------------------------------------
(***************************************************************************)
(* The slots implement UpdateContract.                                     *)
(***************************************************************************)
LEMMA ContractStep ==
    ASSUME NodeTypeOK, SlotInv, EventInv, [Next]_vars
    PROVE  [Contract!Next]_(Contract!vars)
<1>1. ASSUME UNCHANGED images PROVE UNCHANGED Contract!vars
  BY <1>1 DEF images, Contract!vars, Confirmed, Trial, OnTrial, Version, Spare
<1>2. CASE routine_http_server_events_handler
  <2>1. ASSUME SpoilSpare PROVE UNCHANGED Contract!vars
    BY <2>1, SpoilingKeepsSlots DEF Contract!vars, Confirmed, Trial
  <2>2. ASSUME NEW v \in Versions, Install(v) PROVE Contract!Try(v)
    BY <2>2, InstallingKeepsSlots DEF Contract!Try, Confirmed, Trial
  <2> QED
    BY <1>1, <1>2, <2>1, <2>2 DEF routine_http_server_events_handler, Contract!Next
<1>3. CASE routine_ota_service_events_handler
  <2>1. ota_set_valid /\ events # <<>> /\ Head(events) = "validate"
    BY <1>3 DEF routine_ota_service_events_handler
  <2>2. Version \notin Broken
    <3>1. events \in Seq(EventKinds)
      BY DEF NodeTypeOK
    <3>2. ~Absent(events, "validate")
      BY <2>1, <3>1, TakeEvents
    <3> QED
      BY <3>2 DEF EventInv
  <2>3. CASE OnTrial
    <3>1. ~OnTrial' /\ Version' = Version /\ Version # 0
      BY <2>1, ValidationKeepsSlots DEF SlotInv
    <3> QED
      BY <2>2, <2>3, <3>1 DEF Contract!Next, Contract!Confirm, Confirmed, Trial
  <2>4. CASE ~OnTrial
    BY <2>1, <2>4, ValidationKeepsSlots DEF Contract!vars, Confirmed, Trial
  <2> QED
    BY <2>3, <2>4
<1>4. CASE Bootload
  <2>1. CASE OnTrial
    <3>1. ~OnTrial' /\ Version' = slots[Spare].version /\ Version # 0
      BY <1>4, <2>1, BootloadKeepsSlots DEF SlotInv
    <3> QED
      BY <2>1, <3>1 DEF Contract!Next, Contract!RollBack, Confirmed, Trial
  <2>2. CASE ~OnTrial
    BY <1>1, <1>4, <2>2, BootloadKeepsSlots
  <2> QED
    BY <2>1, <2>2
<1>5. CASE UNCHANGED vars
  BY <1>1, <1>5 DEF vars
<1> QED
  BY <1>1, <1>2, <1>3, <1>4, <1>5, NextCases, ImagesKept

(* Over any sequence of updates, failures, panics and power losses the two *)
(* slots keep the contract: a newer image is tried from a confirmed one    *)
(* and either takes its place or gives way to it again.                    *)
THEOREM SlotsImplementContract == Spec => ImplementsUpdateContract
<1>1. Init => Contract!Init
  BY DEF Init, Shipped, Contract!Init, Confirmed, Trial, OnTrial, Version
<1> QED
  BY <1>1, NodeTypeInvariant, SlotInvariant, EventInvariant, ContractStep, PTL
  DEF Spec, ImplementsUpdateContract, Contract!Spec

-----------------------------------------------------------------------------
(***************************************************************************)
(* What follows from the contract alone.                                   *)
(***************************************************************************)
(* There is always a version to go back to that works, and a trial is of a *)
(* newer one.                                                              *)
ConfirmedWorks ==
    /\ Confirmed \in Versions \ Broken
    /\ Trial # 0 => Trial > Confirmed

(* The version to go back to is never replaced by an older one.            *)
ConfirmedOnlyRises == [][Confirmed' >= Confirmed]_(Contract!vars)

ContractInv == ConfirmedWorks /\ Trial \in Versions \cup {0}

LEMMA ContractKeepsWorking ==
    ASSUME ContractInv, [Contract!Next]_(Contract!vars)
    PROVE  ContractInv' /\ [Confirmed' >= Confirmed]_(Contract!vars)
<1> USE DEF ContractInv
<1>1. Versions \subseteq Nat \ {0} /\ Confirmed \in Nat \ {0} /\ Trial \in Nat
  BY ImageAssumption DEF ImageAssumption, ConfirmedWorks
<1>2. CASE UNCHANGED Contract!vars
  BY <1>2 DEF Contract!vars, ConfirmedWorks
<1>3. CASE \E v \in Versions : Contract!Try(v)
  BY <1>1, <1>3 DEF Contract!Try, ConfirmedWorks
<1>4. CASE Contract!Confirm
  BY <1>1, <1>4 DEF Contract!Confirm, ConfirmedWorks
<1>5. CASE Contract!RollBack
  BY <1>1, <1>5 DEF Contract!RollBack, ConfirmedWorks
<1> QED
  BY <1>2, <1>3, <1>4, <1>5 DEF Contract!Next

LEMMA ContractInvariant == Contract!Spec => []ContractInv
<1>1. Contract!Init => ContractInv
  BY ImageAssumption DEF Contract!Init, ContractInv, ConfirmedWorks, ImageAssumption
<1> QED
  BY <1>1, ContractKeepsWorking, PTL DEF Contract!Spec

(* Whatever is uploaded, crashes or loses power, the version a restart can *)
(* always go back to is one that works, and one on trial is newer.         *)
THEOREM ConfirmedWorksHolds == Spec => []ConfirmedWorks
<1>1. ContractInv => ConfirmedWorks
  BY DEF ContractInv
<1> QED
  BY <1>1, SlotsImplementContract, ContractInvariant, PTL DEF ImplementsUpdateContract

(* No sequence of updates, roll-backs and restarts takes the node back     *)
(* behind a version that has proved itself.                                *)
THEOREM ConfirmedOnlyRisesHolds == Spec => ConfirmedOnlyRises
<1>1. ASSUME ContractInv, [Contract!Next]_(Contract!vars)
      PROVE  [Confirmed' >= Confirmed]_(Contract!vars)
  BY <1>1, ContractKeepsWorking
<1>2. Contract!Spec => ConfirmedOnlyRises
  BY <1>1, ContractInvariant, PTL DEF Contract!Spec, ConfirmedOnlyRises
<1> QED
  BY <1>2, SlotsImplementContract DEF ImplementsUpdateContract

-----------------------------------------------------------------------------
(***************************************************************************)
(* The scan is one thread of control.                                      *)
(***************************************************************************)
Outcomes == {"found", "nobody"}
Pending == Count(events, Outcomes)
Later == {"found", "ota_ready", "serving"}

(* One step under way while app_main sleeps, none before; afterwards, at   *)
(* most one per rediscovery.  Nothing is signalled and no scan dies before *)
(* anybody waits.                                                          *)
ScanInv ==
    node = "up" =>
        /\ main \in Later => InFlight <= rediscoveries
        /\ main \notin Later => InFlight = One(main = "waiting" /\ ~signalled /\ ~silent)
        /\ main \notin Later \cup {"waiting"} => ~signalled /\ ~silent

LEMMA InFlightSum ==
    ASSUME NodeTypeOK
    PROVE  /\ InFlight = One(discovering) + Pending + Len(delegate_queue) + One(delegate # Idle)
           /\ Pending \in Nat /\ Len(delegate_queue) \in Nat
           /\ One(discovering) \in {0, 1} /\ One(delegate # Idle) \in {0, 1}
<1>1. Pending \in Nat
  BY HitsFinite DEF NodeTypeOK, Pending
<1>2. Results = Hits(events, Outcomes)
  BY DEF Results, Hits, Outcomes
<1>3. Len(delegate_queue) \in Nat
  BY DEF NodeTypeOK
<1> QED
  BY <1>1, <1>2, <1>3 DEF InFlight, Pending, Count, One

(* What posting and taking an event does to the pending outcomes.          *)
LEMMA PendingAfterPost ==
    ASSUME NodeTypeOK, NEW e \in EventKinds, Post(e)
    PROVE  Pending' = Pending + One(e \in Outcomes)
BY CountAppend DEF NodeTypeOK, Post, Pending, One

LEMMA PendingAfterTake ==
    ASSUME NodeTypeOK, events # <<>>, events' = Tail(events)
    PROVE  Pending' = Pending - One(Head(events) \in Outcomes)
BY CountTail DEF NodeTypeOK, Pending, One

(* A step that hands the scan on, neither starting nor ending one.         *)
LEMMA HandedOn ==
    ASSUME ScanInv, InFlight' = InFlight, node = "up",
           UNCHANGED <<main, signalled, silent, rediscoveries>>
    PROVE  ScanInv'
BY DEF ScanInv

(* A step that leaves no more under way than there were rediscoveries.     *)
LEMMA NeverMore ==
    ASSUME main' \in Later, InFlight' <= rediscoveries'
    PROVE  ScanInv'
BY DEF ScanInv, Later

LEMMA ScanAppMain ==
    ASSUME NodeTypeOK, ClockInv, ScanInv, NodeTypeOK', node = "up", app_main
    PROVE  ScanInv'
<1>1. UNCHANGED <<delegate_queue, delegate>>
  BY AppMainCases DEF jobs
<1>2. /\ InFlight = One(discovering) + Pending + Len(delegate_queue) + One(delegate # Idle)
      /\ InFlight' = One(discovering') + Pending' + Len(delegate_queue) + One(delegate # Idle)
      /\ Pending \in Nat /\ Len(delegate_queue) \in Nat
      /\ One(discovering) \in {0, 1} /\ One(delegate # Idle) \in {0, 1}
  <2>1. InFlight' = (One(discovering) + Pending + Len(delegate_queue) + One(delegate # Idle))'
    BY DEF InFlight, Pending, Results, Hits, Count, Outcomes
  <2> QED
    BY <1>1, <2>1, InFlightSum
<1>3. CASE CheckFails(main)
  BY <1>3 DEF CheckFails, ScanInv
<1>4. ASSUME main \in Setup \ {"lock_ready"}, ~CheckFails(main) PROVE ScanInv'
  <2>1. UNCHANGED <<discovering, silent, events, signalled>> /\ main' \in Setup
    BY <1>4, AppMainCases
    DEF Setup, scan, discovery_awaited, ota_service_init, http_server_init, Pass, Proceed
  <2>2. InFlight' = InFlight
    BY <1>2, <2>1 DEF Pending
  <2> QED
    BY <1>4, <2>1, <2>2 DEF ScanInv, Later, One, Setup
<1>5. ASSUME main = "lock_ready", ~CheckFails(main) PROVE ScanInv'
  <2>1. /\ UNCHANGED <<events, signalled>> /\ main' = "waiting"
        /\ \/ discovering' = TRUE /\ UNCHANGED silent
           \/ silent' = TRUE /\ UNCHANGED discovering
    BY <1>5, AppMainCases
    DEF Setup, discovery_awaited, ota_service_init, http_server_init, Pass, Proceed
  <2>2. InFlight = 0 /\ ~signalled /\ ~silent
    BY <1>5 DEF ScanInv, Later, One
  <2>3. One(discovering) = 0
    BY <1>2, <2>2
  <2>4. ~signalled' /\ InFlight' = One(~silent')
    <3>1. CASE discovering' = TRUE /\ UNCHANGED silent
      BY <1>2, <2>1, <2>2, <3>1 DEF Pending, One
    <3>2. CASE silent' = TRUE /\ UNCHANGED discovering
      BY <1>2, <2>1, <2>2, <2>3, <3>2 DEF Pending, One
    <3> QED
      BY <2>1, <2>2, <3>1, <3>2
  <2> QED
    BY <2>1, <2>4 DEF ScanInv, Later, One
<1>6. CASE discovery_awaited
  <2>1. /\ UNCHANGED <<discovering, events, rediscoveries>> /\ signalled
        /\ main = "waiting" /\ main' = "found"
    BY <1>6 DEF discovery_awaited, Proceed, LoopEntered, scan
  <2>2. InFlight = 0
    BY <2>1 DEF ScanInv, Later, One
  <2>3. InFlight' = InFlight
    BY <1>2, <2>1 DEF Pending
  <2> QED
    BY <2>1, <2>2, <2>3 DEF ScanInv, Later, ClockInv
<1>7. CASE ota_service_init \/ http_server_init
  <2>1. /\ UNCHANGED <<discovering, signalled, rediscoveries>>
        /\ main \in Later /\ main' \in Later /\ UNCHANGED node
        /\ UNCHANGED events \/ Post("validate")
    BY <1>7 DEF ota_service_init, http_server_init, Pass, Proceed, Later, clock, scan
  <2>2. Pending' = Pending
    BY <1>2, <2>1, PendingAfterPost DEF Pending, EventKinds, Outcomes, One
  <2>3. InFlight' = InFlight
    BY <1>2, <2>1, <2>2
  <2> QED
    BY <2>1, <2>3 DEF ScanInv
<1> QED
  BY <1>3, <1>4, <1>5, <1>6, <1>7, AppMainCases DEF Setup

LEMMA ScanDelegate ==
    ASSUME NodeTypeOK, ClockInv, ScanInv, NodeTypeOK', node = "up", DelegateTask
    PROVE  ScanInv'
<1>1. UNCHANGED <<main, events, rediscoveries>> /\ Pending' = Pending
  BY DEF DelegateTask, delegate_run_task, delegated_to_task_restart_discovery_on_new_channel,
     delegated_to_task_restart_wifi_apsta, steady, clock, Pending
<1>2. /\ InFlight = One(discovering) + Pending + Len(delegate_queue) + One(delegate # Idle)
      /\ InFlight' = One(discovering') + Pending + Len(delegate_queue') + One(delegate' # Idle)
      /\ Pending \in Nat /\ Len(delegate_queue) \in Nat /\ rediscoveries \in Nat
      /\ One(discovering) \in {0, 1} /\ One(delegate # Idle) \in {0, 1}
  <2>1. InFlight' = (One(discovering) + Pending + Len(delegate_queue) + One(delegate # Idle))'
    BY DEF InFlight, Pending, Results, Hits, Count, Outcomes
  <2> QED
    BY <1>1, <2>1, InFlightSum DEF ClockInv
<1>3. CASE delegate_run_task
  <2>1. /\ delegate_queue \in Seq(Jobs) /\ delegate_queue # <<>> /\ delegate = Idle
        /\ delegate' = Head(delegate_queue) /\ delegate_queue' = Tail(delegate_queue)
        /\ UNCHANGED <<discovering, silent, signalled, node>>
    BY <1>3 DEF delegate_run_task, NodeTypeOK, scan
  <2>2. delegate' \in Jobs /\ Len(delegate_queue') = Len(delegate_queue) - 1
    BY <2>1
  <2>3. delegate' # Idle
    BY <2>2 DEF Jobs, Idle
  <2>4. InFlight' = InFlight
    BY <1>2, <2>1, <2>2, <2>3 DEF One
  <2> QED
    BY <1>1, <2>1, <2>4, HandedOn
<1>4. CASE delegated_to_task_restart_discovery_on_new_channel
  <2>1. /\ delegate # Idle /\ delegate' = Idle
        /\ UNCHANGED <<delegate_queue, signalled, node>>
        /\ \/ discovering' = TRUE /\ silent' = silent
           \/ discovering' = discovering /\ silent' = TRUE
    <3>1. delegate # Idle /\ delegate' = Idle /\ UNCHANGED <<delegate_queue, signalled, node>>
      BY <1>4 DEF delegated_to_task_restart_discovery_on_new_channel, Idle
    <3>2. PICK failing \in SUBSET {"channel", "transport", "start"} :
             /\ discovering' = (discovering \/ "start" \notin failing)
             /\ silent' = (silent \/ "start" \in failing)
      BY <1>4 DEF delegated_to_task_restart_discovery_on_new_channel
    <3>3. discovering \in BOOLEAN /\ silent \in BOOLEAN
      BY DEF NodeTypeOK
    <3>4. CASE "start" \in failing
      BY <3>1, <3>2, <3>3, <3>4, Zenon
    <3>5. CASE "start" \notin failing
      BY <3>1, <3>2, <3>3, <3>5, Zenon
    <3> QED
      BY <3>4, <3>5
  <2>2. /\ InFlight' = InFlight + One(discovering') - One(discovering) - 1 /\ InFlight >= 1
        /\ One(discovering') \in {0, 1}
    <3>1. One(delegate # Idle) = 1 /\ One(delegate' # Idle) = 0 /\ One(discovering') \in {0, 1}
          /\ Len(delegate_queue') = Len(delegate_queue)
      BY <2>1 DEF One
    <3> DEFINE d == One(discovering)
               e == One(discovering')
               l == Len(delegate_queue)
    <3>2. /\ InFlight = d + Pending + l + 1 /\ InFlight' = e + Pending + l + 0
          /\ d \in 0..1 /\ e \in 0..1 /\ Pending \in Nat /\ l \in Nat
      BY <1>2, <3>1
    <3> HIDE DEF d, e, l
    <3>3. InFlight' = InFlight + e - d - 1 /\ InFlight >= 1
      BY <3>2
    <3> QED
      BY <3>1, <3>3 DEF d, e
  <2>3. CASE main \in Later
    <3>1. InFlight <= rediscoveries
      BY <2>3 DEF ScanInv
    <3>2. InFlight' <= InFlight /\ InFlight \in Nat
      BY <1>2, <2>1, <2>2 DEF One
    <3>3. InFlight' <= rediscoveries'
      BY <1>1, <1>2, <2>2, <3>1, <3>2
    <3> QED
      BY <1>1, <2>3, <3>3, NeverMore
  <2>4. CASE main \notin Later
    <3>1. InFlight = 1 /\ main = "waiting" /\ ~signalled /\ ~silent
      BY <2>2, <2>4 DEF ScanInv, One
    <3>2. One(discovering) = 0
      BY <1>2, <2>1, <3>1 DEF One
    <3>3. InFlight' = One(~silent')
      BY <2>1, <2>2, <3>1, <3>2 DEF One
    <3> QED
      BY <1>1, <2>1, <3>1, <3>3 DEF ScanInv, Later, One
  <2> QED
    BY <2>3, <2>4
<1>5. CASE delegated_to_task_restart_wifi_apsta
  <2>1. /\ delegate # Idle /\ delegate' = Idle
        /\ UNCHANGED <<delegate_queue, discovering, silent>>
        /\ signalled' = (signalled \/ node' = "up")
    BY <1>5 DEF delegated_to_task_restart_wifi_apsta, Idle, scan
  <2>2. InFlight' = InFlight - 1 /\ InFlight >= 1
    BY <1>2, <2>1 DEF One
  <2>3. CASE main \in Later
    <3>1. InFlight <= rediscoveries
      BY <2>3 DEF ScanInv
    <3>2. InFlight' <= rediscoveries'
      BY <1>1, <1>2, <2>2, <3>1
    <3> QED
      BY <1>1, <2>3, <3>2, NeverMore
  <2>4. CASE main \notin Later
    <3>1. InFlight = 1 /\ main = "waiting"
      BY <2>2, <2>4 DEF ScanInv, One
    <3>2. InFlight' = 0 /\ main' = "waiting"
      BY <1>1, <2>2, <3>1
    <3>3. node' = "up" => signalled'
      BY <2>1, Zenon
    <3> QED
      BY <2>4, <3>1, <3>2, <3>3 DEF ScanInv, One
  <2> QED
    BY <2>3, <2>4
<1> QED
  BY <1>3, <1>4, <1>5 DEF DelegateTask

LEMMA ScanStep ==
    ASSUME NodeTypeOK, ClockInv, ScanInv, [Next]_vars
    PROVE  ScanInv'
<1>0. NodeTypeOK'
  BY NodeTypeStep
<1>a. /\ InFlight = One(discovering) + Pending + Len(delegate_queue) + One(delegate # Idle)
      /\ InFlight' = One(discovering') + Pending' + Len(delegate_queue') + One(delegate' # Idle)
      /\ Pending \in Nat /\ Len(delegate_queue) \in Nat /\ rediscoveries \in Nat
      /\ One(discovering) \in {0, 1} /\ One(delegate # Idle) \in {0, 1}
  <2>1. InFlight' = (One(discovering) + Pending + Len(delegate_queue) + One(delegate # Idle))'
    BY DEF InFlight, Pending, Results, Hits, Count, Outcomes
  <2> QED
    BY <2>1, InFlightSum DEF ClockInv
<1>1. ASSUME PowerUp PROVE ScanInv'
  <2>1. /\ main' = "power" /\ events' = <<>> /\ delegate_queue' = <<>> /\ delegate' = Idle
        /\ discovering' = FALSE /\ silent' = FALSE /\ signalled' = FALSE
    BY <1>1 DEF PowerUp
  <2>2. Pending' = 0 /\ Len(delegate_queue') = 0
    BY <2>1, CountEmpty DEF Pending
  <2>3. InFlight' = 0
    BY <1>a, <2>1, <2>2 DEF One
  <2> QED
    BY <2>1, <2>3 DEF ScanInv, Later, One
<1>2. ASSUME node = "up", TimePasses PROVE ScanInv'
  <2>1. UNCHANGED <<main, events, delegate_queue, delegate, discovering, silent, signalled, rediscoveries>>
    BY <1>2 DEF TimePasses, Tick, jobs, scan
  <2>2. InFlight' = InFlight
    BY <1>a, <2>1 DEF Pending
  <2> QED
    BY <1>2, <2>1, <2>2, HandedOn
<1>b. ASSUME node = "up", main_loop PROVE ScanInv'
  <2>1. /\ main = "serving" /\ UNCHANGED <<main, events, delegate_queue, delegate>>
        /\ rediscoveries' \in {rediscoveries, rediscoveries + 1}
        /\ \/ discovering' = (discovering \/ rediscoveries' # rediscoveries)
           \/ discovering' = discovering /\ rediscoveries' # rediscoveries
    BY <1>b DEF main_loop, Iteration, jobs
  <2>2. Pending' = Pending
    BY <2>1 DEF Pending
  <2>3. InFlight <= rediscoveries
    BY <1>b, <2>1 DEF ScanInv, Later
  <2>4. InFlight' <= rediscoveries'
    <3>1. CASE rediscoveries' = rediscoveries
      <4>1. discovering' = discovering
        BY <2>1, <3>1 DEF NodeTypeOK
      <4> QED
        BY <1>a, <2>1, <2>2, <2>3, <3>1, <4>1
    <3>2. CASE rediscoveries' = rediscoveries + 1
      <4>1. One(discovering') <= One(discovering) + 1 /\ One(discovering') \in Nat
        BY DEF One
      <4>2. /\ Len(delegate_queue') = Len(delegate_queue)
            /\ One(delegate' # Idle) = One(delegate # Idle)
        BY <2>1
      <4> DEFINE d == One(discovering)
                 e == One(discovering')
                 l == Len(delegate_queue)
                 a == One(delegate # Idle)
      <4>3. /\ InFlight = d + Pending + l + a /\ InFlight' = e + Pending + l + a
            /\ d \in 0..1 /\ e \in Nat /\ e <= d + 1 /\ Pending \in Nat /\ l \in Nat /\ a \in 0..1
        BY <1>a, <2>2, <4>1, <4>2
      <4> HIDE DEF d, e, l, a
      <4>4. InFlight' <= InFlight + 1 /\ InFlight \in Nat /\ InFlight' \in Nat
        BY <4>3
      <4> QED
        BY <1>a, <2>3, <3>2, <4>4
    <3> QED
      BY <2>1, <3>1, <3>2
  <2> QED
    BY <2>1, <2>4, NeverMore DEF Later
<1>3. CASE BrokenImageCrashes
  BY <1>3 DEF BrokenImageCrashes, ScanInv
<1>4. ASSUME node = "up", DiscoveryCompletes PROVE ScanInv'
  <2>1. /\ discovering /\ discovering' = FALSE
        /\ UNCHANGED <<main, silent, delegate_queue, delegate, signalled, rediscoveries>>
        /\ Post("found") \/ Post("nobody")
    BY <1>4 DEF DiscoveryCompletes, DiscoveryFinds, DiscoveryFindsNobody, steady, jobs, clock
  <2>2. Pending' = Pending + 1
    BY <2>1, PendingAfterPost DEF EventKinds, Outcomes, One
  <2>3. InFlight' = InFlight
    BY <1>a, <2>1, <2>2 DEF One
  <2> QED
    BY <1>4, <2>1, <2>3, HandedOn
<1>5. ASSUME node = "up", CommandArrives \/ UploadArrives PROVE ScanInv'
  <2>1. /\ UNCHANGED <<main, discovering, silent, delegate_queue, delegate, signalled,
                       rediscoveries>>
        /\ Post("command") \/ Post("upload")
    BY <1>5 DEF CommandArrives, UploadArrives, steady, jobs, clock, scan
  <2>2. Pending' = Pending
    BY <1>a, <2>1, PendingAfterPost DEF EventKinds, Outcomes, One
  <2>3. InFlight' = InFlight
    BY <1>a, <2>1, <2>2
  <2> QED
    BY <1>5, <2>1, <2>3, HandedOn
<1>6. ASSUME node = "up", routine_discovery_events_handler PROVE ScanInv'
  <2>1. /\ events # <<>> /\ events' = Tail(events) /\ Head(events) \in Outcomes
        /\ UNCHANGED <<main, discovering, silent, delegate, signalled, rediscoveries>>
        /\ Len(delegate_queue') = Len(delegate_queue) + 1
    BY <1>6 DEF routine_discovery_events_handler, NoPeer, PeerFound, delegate_post, Outcomes,
       steady, clock, scan, NodeTypeOK
  <2>2. Pending' = Pending - 1
    BY <2>1, PendingAfterTake DEF One
  <2>3. InFlight' = InFlight
    <3>1. One(discovering') = One(discovering) /\ One(delegate' # Idle) = One(delegate # Idle)
      BY <2>1
    <3>2. Len(delegate_queue') = Len(delegate_queue) + 1
      BY <2>1
    <3> DEFINE d == One(discovering)
               l == Len(delegate_queue)
               a == One(delegate # Idle)
    <3>3. /\ InFlight = d + Pending + l + a /\ InFlight' = d + (Pending - 1) + (l + 1) + a
          /\ d \in 0..1 /\ Pending \in Nat /\ l \in Nat /\ a \in 0..1
      BY <1>a, <2>2, <3>1, <3>2
    <3> HIDE DEF d, l, a
    <3> QED
      BY <3>3
  <2> QED
    BY <1>6, <2>1, <2>3, HandedOn
<1>7. ASSUME node = "up",
             routine_message_codec_events_handler \/ routine_ota_service_events_handler
               \/ (routine_http_server_events_handler /\ ~PowerUp)
      PROVE  ScanInv'
  <2>1. /\ events # <<>> /\ events' = Tail(events) /\ Head(events) \notin Outcomes
        /\ UNCHANGED <<main, discovering, silent, delegate, delegate_queue, signalled,
                       rediscoveries>>
    BY <1>7 DEF routine_message_codec_events_handler, routine_ota_service_events_handler,
       routine_http_server_events_handler, Outcomes, steady, jobs, clock, scan
  <2>2. Pending' = Pending
    BY <1>a, <2>1, PendingAfterTake DEF One
  <2>3. InFlight' = InFlight
    BY <1>a, <2>1, <2>2
  <2> QED
    BY <1>7, <2>1, <2>3, HandedOn
<1>8. CASE UNCHANGED vars
  <2>1. UNCHANGED <<main, events, discovering, silent, delegate, delegate_queue, signalled, node,
                    rediscoveries>>
    BY <1>8 DEF vars, volatile, jobs, clock, scan
  <2>2. InFlight' = InFlight
    BY <1>a, <2>1 DEF Pending
  <2> QED
    BY <2>1, <2>2 DEF ScanInv
<1> QED
  BY <1>0, <1>1, <1>2, <1>b, <1>3, <1>4, <1>5, <1>6, <1>7, <1>8, ScanAppMain, ScanDelegate
  DEF Next, Operation, routine_event_handler, Restart, PowerLoss

LEMMA ScanInvariant == Spec => []ScanInv
<1>1. Init => NodeTypeOK /\ ScanInv
  <2> SUFFICES ASSUME Init PROVE NodeTypeOK /\ ScanInv
    OBVIOUS
  <2>1. NodeTypeOK
    BY NodeTypeInitial
  <2>2. /\ main = "power" /\ events = <<>> /\ delegate_queue = <<>> /\ delegate = Idle
        /\ discovering = FALSE /\ silent = FALSE /\ signalled = FALSE
    BY DEF Init
  <2>3. Pending = 0 /\ Len(delegate_queue) = 0
    BY <2>2, CountEmpty DEF Pending
  <2>4. InFlight = 0
    BY <2>1, <2>2, <2>3, InFlightSum DEF One
  <2> QED
    BY <2>1, <2>2, <2>4 DEF ScanInv, Later, One
<1> QED
  BY <1>1, NodeTypeInvariant, ClockInvariant, ScanStep, PTL DEF Spec

(* However results, jobs and discoveries are handed from task to task, one *)
(* step of the scan is under way while app_main sleeps, unless a failed    *)
(* start_discovery has ended it, and afterwards no more than there have    *)
(* been rediscoveries.                                                     *)
THEOREM ScanIsOneThreadHolds == Spec => []ScanIsOneThread
<1>1. NodeTypeOK /\ ScanInv => ScanIsOneThread
  BY PhaseFacts DEF ScanInv, ScanIsOneThread, Later, NodeTypeOK
<1> QED
  BY <1>1, NodeTypeInvariant, ScanInvariant, PTL

-----------------------------------------------------------------------------
(***************************************************************************)
(* The access point comes up where the peer was found.                     *)
(***************************************************************************)
Tuned(c) == IF c = 0 THEN 1 ELSE c
NoFault == budget["faults"] = MaxFaults
Expects(e) == \E i \in DOMAIN events : events[i] = e

(* A job carries the channel the scan is at: a new one to tune to, or the  *)
(* one of the peer.                                                        *)
Aligned(j) ==
    /\ j.channel = channel
    /\ j.func = "restart_discovery" => channel # 0 /\ radio # 0
    /\ j.func = "restart_wifi_apsta" => home = Tuned(channel)

(* Until the interfaces have been created the radio follows the scan.      *)
Scanning ==
    /\ main \notin Later /\ ~signalled
    /\ main # "waiting" => channel = 0 /\ (radio = 1 \/ main \in {"power", "flash"})
    /\ discovering => radio = Tuned(channel)
    /\ Expects("found") => home = Tuned(channel)
    /\ Expects("nobody") => radio # 0
    /\ \A i \in DOMAIN delegate_queue : Aligned(delegate_queue[i])
    /\ delegate # Idle => Aligned(delegate)

NearInv ==
    /\ budget["faults"] <= MaxFaults
    /\ NoFault /\ ap # Off => home = Tuned(ap)
    /\ NoFault /\ ~netifs /\ node = "up" => Scanning

LEMMA NoneExpected ==
    ASSUME NodeTypeOK, Pending = 0
    PROVE  ~Expects("found") /\ ~Expects("nobody")
<1>1. IsFiniteSet(Hits(events, Outcomes))
  BY HitsFinite DEF NodeTypeOK
<1>2. Hits(events, Outcomes) = {}
  BY <1>1, FS_EmptySet DEF Pending, Count
<1> QED
  BY <1>2 DEF Hits, Outcomes, Expects

(* Faults are only ever spent.                                             *)
LEMMA FaultsSpent ==
    ASSUME NodeTypeOK
    PROVE  /\ \A w \in {"losses", "commands", "uploads", "power"} :
                 Spend(w) => budget'["faults"] = budget["faults"]
           /\ Spend("faults") => budget'["faults"] = budget["faults"] - 1
           /\ budget["faults"] \in Nat
BY DEF NodeTypeOK, Spend

(* Where the one step of the scan is, nothing else is under way.           *)
LEMMA OneAtATime ==
    ASSUME NodeTypeOK, ScanInv, node = "up", main \notin Later, ~signalled
    PROVE  /\ Pending > 0 => /\ Pending = 1 /\ ~discovering /\ delegate_queue = <<>>
                             /\ delegate = Idle /\ main = "waiting"
           /\ delegate_queue # <<>> => /\ Len(delegate_queue) = 1 /\ ~discovering
                                       /\ Pending = 0 /\ delegate = Idle /\ main = "waiting"
           /\ delegate # Idle => /\ ~discovering /\ Pending = 0 /\ delegate_queue = <<>>
                                 /\ main = "waiting"
<1>1. /\ InFlight = One(discovering) + Pending + Len(delegate_queue) + One(delegate # Idle)
      /\ Pending \in Nat /\ Len(delegate_queue) \in Nat
      /\ One(discovering) \in {0, 1} /\ One(delegate # Idle) \in {0, 1}
  BY InFlightSum
<1>2. InFlight = One(main = "waiting" /\ ~silent)
  BY DEF ScanInv
<1>3. delegate_queue # <<>> => Len(delegate_queue) > 0
  BY DEF NodeTypeOK
<1>4. /\ discovering => One(discovering) = 1
      /\ delegate # Idle => One(delegate # Idle) = 1
      /\ main # "waiting" => One(main = "waiting" /\ ~silent) = 0
      /\ One(main = "waiting" /\ ~silent) \in {0, 1}
  BY DEF One
<1>5. CASE One(main = "waiting" /\ ~silent) = 0
  <2>1. /\ One(discovering) = 0 /\ Pending = 0 /\ Len(delegate_queue) = 0
        /\ One(delegate # Idle) = 0
    BY <1>1, <1>2, <1>5
  <2> QED
    BY <1>3, <1>4, <2>1
<1>6. CASE One(main = "waiting" /\ ~silent) = 1
  <2>1. main = "waiting"
    BY <1>4, <1>6
  <2> DEFINE d == One(discovering)
             l == Len(delegate_queue)
             a == One(delegate # Idle)
  <2>2. d + Pending + l + a = 1 /\ Pending \in Nat /\ l \in Nat /\ d \in {0, 1} /\ a \in {0, 1}
    BY <1>1, <1>2, <1>6
  <2>3. Pending > 0 => Pending = 1 /\ d = 0 /\ l = 0 /\ a = 0
    <3> HIDE DEF d, l, a
    <3> QED
      BY <2>2
  <2>4. l > 0 => l = 1 /\ d = 0 /\ Pending = 0 /\ a = 0
    <3> HIDE DEF d, l, a
    <3> QED
      BY <2>2
  <2>5. a = 1 => d = 0 /\ Pending = 0 /\ l = 0
    <3> HIDE DEF d, l, a
    <3> QED
      BY <2>2
  <2> QED
    BY <1>3, <1>4, <2>1, <2>3, <2>4, <2>5
<1> QED
  BY <1>4, <1>5, <1>6

LEMMA NearPowerUp ==
    ASSUME PowerUp, budget'["faults"] <= MaxFaults
    PROVE  NearInv'
<1>1. /\ main' = "power" /\ channel' = 0 /\ ~discovering' /\ ~signalled'
      /\ events' = <<>> /\ delegate_queue' = <<>> /\ delegate' = Idle /\ ap' = Off
  BY DEF PowerUp
<1>2. ~Expects("found")' /\ ~Expects("nobody")'
  BY <1>1 DEF Expects
<1>3. DOMAIN delegate_queue' = {}
  BY <1>1
<1>4. Scanning'
  BY <1>1, <1>2, <1>3 DEF Scanning, Later
<1> QED
  BY <1>1, <1>4 DEF NearInv

(* A step that leaves the radio, the scan's channel and its jobs alone and *)
(* posts no outcome.                                                       *)
LEMMA NearUntouched ==
    ASSUME NearInv, NodeTypeOK, UNCHANGED <<home, radio, ap, netifs, jobs, signalled>>,
           budget'["faults"] = budget["faults"],
           node' = "up" => node = "up",
           node' = "up" /\ Scanning =>
               /\ main' = main
               /\ discovering' => discovering
               /\ \A e \in Outcomes : Expects(e)' => Expects(e)
    PROVE  NearInv'
<1>1. ASSUME NoFault', ~netifs', node' = "up" PROVE Scanning'
  <2>1. Scanning /\ node = "up"
    BY <1>1 DEF NearInv, NoFault
  <2>2. UNCHANGED <<channel, delegate_queue, delegate>>
    BY DEF jobs
  <2>3. \A j : Aligned(j)' <=> Aligned(j)
    BY <2>2 DEF Aligned
  <2>4. /\ main' \notin Later /\ ~signalled'
        /\ main' # "waiting" => channel' = 0 /\ (radio' = 1 \/ main' \in {"power", "flash"})
    BY <1>1, <2>1, <2>2 DEF Scanning
  <2>5. discovering' => radio' = Tuned(channel')
    BY <1>1, <2>1, <2>2 DEF Scanning, Tuned
  <2>6. (Expects("found")' => home' = Tuned(channel')) /\ (Expects("nobody")' => radio' # 0)
    BY <1>1, <2>1, <2>2 DEF Scanning, Outcomes
  <2>7. /\ \A i \in DOMAIN delegate_queue' : Aligned(delegate_queue[i])'
        /\ delegate' # Idle => Aligned(delegate)'
    <3>1. \A i \in DOMAIN delegate_queue : Aligned(delegate_queue[i])
      BY <2>1 DEF Scanning
    <3>2. delegate # Idle => Aligned(delegate)
      BY <2>1 DEF Scanning
    <3> QED
      BY <2>2, <3>1, <3>2 DEF Aligned
  <2> QED
    BY <2>4, <2>5, <2>6, <2>7 DEF Scanning
<1>2. NoFault' /\ ap' # Off => home' = Tuned(ap')
  BY DEF NearInv, NoFault
<1>3. budget'["faults"] <= MaxFaults
  BY DEF NearInv
<1> QED
  BY <1>1, <1>2, <1>3 DEF NearInv

LEMMA ExpectsAfterPost ==
    ASSUME NodeTypeOK, NEW e \in EventKinds, Post(e)
    PROVE  \A x : Expects(x)' => Expects(x) \/ x = e
<1>1. events \in Seq(EventKinds) /\ events' = Append(events, e)
  BY DEF NodeTypeOK, Post
<1>2. \A i \in DOMAIN events' : (i \in DOMAIN events /\ events'[i] = events[i]) \/ events'[i] = e
  BY <1>1
<1> QED
  BY <1>2 DEF Expects

LEMMA ExpectsAfterTake ==
    ASSUME NodeTypeOK, events # <<>>, events' = Tail(events)
    PROVE  (\A x : Expects(x)' => Expects(x)) /\ Expects(Head(events))
<1>1. events \in Seq(EventKinds)
  BY DEF NodeTypeOK
<1>2. \A i \in DOMAIN events' : i + 1 \in DOMAIN events /\ events'[i] = events[i + 1]
  BY <1>1
<1>3. 1 \in DOMAIN events /\ Head(events) = events[1]
  BY <1>1
<1> QED
  BY <1>2, <1>3 DEF Expects

(* A discovery ends: a peer is found on the channel the radio is tuned to. *)
LEMMA NearDiscovery ==
    ASSUME NodeTypeOK, NearInv, node = "up", DiscoveryCompletes
    PROVE  NearInv'
<1>1. /\ UNCHANGED <<main, home, radio, ap, netifs, jobs, signalled, node>>
      /\ discovering /\ ~discovering'
      /\ budget'["faults"] = budget["faults"]
  BY FaultsSpent DEF DiscoveryCompletes, DiscoveryFinds, DiscoveryFindsNobody, steady, wifi
<1>2. ASSUME Scanning PROVE Scanning'
  <2>1. radio = Tuned(channel) /\ channel \in Nat /\ radio # 0
    <3>1. radio = Tuned(channel) /\ channel \in 0..MAX_WIFI_CHANNEL
      BY <1>1, <1>2 DEF Scanning, NodeTypeOK
    <3> QED
      BY <3>1, ChannelRange DEF Tuned
  <2>2. Expects("found")' => home = Tuned(channel)
    <3>1. CASE DiscoveryFinds
      BY <2>1, <3>1 DEF DiscoveryFinds, InRange
    <3>2. CASE DiscoveryFindsNobody
      <4>1. Expects("found")' => Expects("found")
        BY <3>2, ExpectsAfterPost DEF DiscoveryFindsNobody, EventKinds
      <4> QED
        BY <1>2, <4>1 DEF Scanning
    <3> QED
      BY <3>1, <3>2 DEF DiscoveryCompletes
  <2>3. \A j : Aligned(j)' <=> Aligned(j)
    BY <1>1 DEF Aligned, jobs
  <2>4. UNCHANGED <<channel, delegate_queue, delegate>>
    BY <1>1 DEF jobs
  <2>5. /\ \A i \in DOMAIN delegate_queue' : Aligned(delegate_queue[i])'
        /\ delegate' # Idle => Aligned(delegate)'
    <3>1. \A i \in DOMAIN delegate_queue : Aligned(delegate_queue[i])
      BY <1>2 DEF Scanning
    <3>2. delegate # Idle => Aligned(delegate)
      BY <1>2 DEF Scanning
    <3> QED
      BY <1>1, <2>4, <3>1, <3>2 DEF Aligned
  <2> QED
    BY <1>1, <1>2, <2>1, <2>2, <2>4, <2>5 DEF Scanning
<1> QED
  BY <1>1, <1>2 DEF NearInv, NoFault

(* A result becomes a job for the next channel, or for the peer's.         *)
LEMMA NearResult ==
    ASSUME NodeTypeOK, ScanInv, NearInv, node = "up", routine_discovery_events_handler
    PROVE  NearInv'
<1>1. /\ UNCHANGED <<main, home, radio, ap, netifs, delegate, discovering, signalled, node, budget>>
      /\ events # <<>> /\ events' = Tail(events) /\ Head(events) \in Outcomes
  BY DEF routine_discovery_events_handler, steady, wifi, scan, NoPeer, PeerFound, Outcomes
<1>2. ASSUME Scanning PROVE Scanning'
  <2>1. Pending' = Pending - 1 /\ Pending \in Nat /\ NodeTypeOK'
    <3>1. NodeTypeOK'
      BY NodeTypeStep DEF Next, Operation, routine_event_handler
    <3> QED
      BY <1>1, <3>1, PendingAfterTake, InFlightSum DEF One
  <2>2. Pending' \in Nat
    BY <2>1, HitsFinite DEF NodeTypeOK, Pending
  <2>3. Pending > 0
    BY <2>1, <2>2
  <2>4. /\ Pending = 1 /\ ~discovering /\ delegate_queue = <<>> /\ delegate = Idle
        /\ main = "waiting"
    BY <1>2, <2>3, OneAtATime DEF Scanning
  <2>5. ~Expects("found")' /\ ~Expects("nobody")'
    <3>1. IsFiniteSet(Hits(events', Outcomes))
      BY <2>1, HitsFinite DEF NodeTypeOK
    <3>2. Hits(events', Outcomes) = {}
      BY <2>1, <2>4, <3>1, FS_EmptySet DEF Pending, Count
    <3> QED
      BY <3>2 DEF Hits, Outcomes, Expects
  <2>6. Expects(Head(events))
    BY <1>1, ExpectsAfterTake
  <2>7. \A i \in DOMAIN delegate_queue' : Aligned(delegate_queue[i])'
    <3>1. CASE NoPeer
      <4>1. /\ delegate_queue' = <<[func |-> "restart_discovery", channel |-> channel']>>
            /\ channel' = NextChannel /\ radio # 0
        BY <1>2, <2>4, <2>6, <3>1 DEF NoPeer, delegate_post, Scanning
      <4>2. channel' # 0
        BY <4>1, ChannelType
      <4>3. DOMAIN delegate_queue' = {1}
            /\ delegate_queue'[1] = [func |-> "restart_discovery", channel |-> channel']
        BY <4>1
      <4> QED
        BY <1>1, <4>1, <4>2, <4>3 DEF Aligned
    <3>2. CASE PeerFound
      <4>1. /\ delegate_queue' = <<[func |-> "restart_wifi_apsta", channel |-> channel]>>
            /\ channel' = channel /\ home = Tuned(channel)
        BY <1>2, <2>4, <2>6, <3>2 DEF PeerFound, delegate_post, Scanning
      <4>2. DOMAIN delegate_queue' = {1}
            /\ delegate_queue'[1] = [func |-> "restart_wifi_apsta", channel |-> channel]
        BY <4>1
      <4> QED
        BY <1>1, <4>1, <4>2 DEF Aligned
    <3> QED
      BY <3>1, <3>2 DEF routine_discovery_events_handler
  <2> QED
    BY <1>1, <1>2, <2>4, <2>5, <2>7 DEF Scanning
<1> QED
  BY <1>1, <1>2 DEF NearInv, NoFault

(* The delegate task takes a job or does one.                              *)
LEMMA NearDelegate ==
    ASSUME NodeTypeOK, ScanInv, NearInv, node = "up", DelegateTask
    PROVE  NearInv'
<1>1. UNCHANGED <<main, home, events, channel>>
  BY DEF DelegateTask, delegate_run_task, delegated_to_task_restart_discovery_on_new_channel,
     delegated_to_task_restart_wifi_apsta, steady
<1>2. CASE delegate_run_task
  <2>1. /\ UNCHANGED <<ap, netifs, discovering, signalled, node, budget>>
        /\ delegate_queue # <<>> /\ delegate' = Head(delegate_queue)
        /\ delegate_queue' = Tail(delegate_queue)
        /\ \/ delegate'.func = "restart_discovery" /\ UNCHANGED radio
           \/ delegate'.func = "restart_wifi_apsta" /\ radio' = 0
    BY <1>2 DEF delegate_run_task, scan
  <2>2. ASSUME Scanning PROVE Scanning'
    <3>1. /\ Len(delegate_queue) = 1 /\ ~discovering /\ Pending = 0 /\ main = "waiting"
      BY <2>1, <2>2, OneAtATime DEF Scanning
    <3>2. delegate_queue \in Seq(Jobs)
      BY DEF NodeTypeOK
    <3>3. DOMAIN delegate_queue' = {} /\ delegate' = delegate_queue[1] /\ 1 \in DOMAIN delegate_queue
      BY <2>1, <3>1, <3>2
    <3>4. Aligned(delegate_queue[1])
      BY <2>2, <3>3 DEF Scanning
    <3>5. Aligned(delegate)'
      BY <1>1, <2>1, <3>3, <3>4 DEF Aligned
    <3>6. ~Expects("found")' /\ ~Expects("nobody")'
      BY <1>1, <3>1, NoneExpected DEF Expects
    <3> QED
      BY <1>1, <2>1, <2>2, <3>1, <3>3, <3>5, <3>6 DEF Scanning
  <2> QED
    BY <1>1, <2>1, <2>2 DEF NearInv, NoFault
<1>3. CASE delegated_to_task_restart_discovery_on_new_channel
  <2>1. /\ UNCHANGED <<ap, netifs, delegate_queue, signalled, node>>
        /\ delegate.func = "restart_discovery" /\ delegate' = Idle /\ delegate # Idle
        /\ \/ radio' = (IF radio = 0 THEN 0 ELSE delegate.channel) /\ UNCHANGED budget
           \/ Spend("faults")
    <3>1. PICK failing \in SUBSET {"channel", "transport", "start"} :
             /\ IF failing = {} THEN UNCHANGED budget ELSE Spend("faults")
             /\ radio' = IF radio = 0 \/ "channel" \in failing THEN radio ELSE delegate.channel
      BY <1>3 DEF delegated_to_task_restart_discovery_on_new_channel
    <3>2. failing = {} => radio' = (IF radio = 0 THEN 0 ELSE delegate.channel)
      BY <3>1
    <3> QED
      BY <1>3, <3>1, <3>2 DEF delegated_to_task_restart_discovery_on_new_channel, Idle
  <2>2. /\ budget'["faults"] <= MaxFaults
        /\ NoFault' => NoFault /\ radio' = (IF radio = 0 THEN 0 ELSE delegate.channel)
    BY <2>1, FaultsSpent, BootAssumption DEF NearInv, NoFault, BootAssumption
  <2>3. ASSUME Scanning, radio' = (IF radio = 0 THEN 0 ELSE delegate.channel) PROVE Scanning'
    <3>1. ~discovering /\ Pending = 0 /\ delegate_queue = <<>> /\ main = "waiting"
      BY <2>1, <2>3, OneAtATime DEF Scanning
    <3>2. delegate.channel = channel /\ channel # 0 /\ radio # 0
      BY <2>1, <2>3 DEF Scanning, Aligned
    <3>3. radio' = Tuned(channel')
      BY <1>1, <2>3, <3>2 DEF Tuned
    <3>4. ~Expects("found")' /\ ~Expects("nobody")'
      BY <1>1, <3>1, NoneExpected DEF Expects
    <3>5. DOMAIN delegate_queue' = {}
      BY <2>1, <3>1
    <3> QED
      BY <1>1, <2>1, <2>3, <3>1, <3>3, <3>4, <3>5 DEF Scanning
  <2> QED
    BY <1>1, <2>1, <2>2, <2>3 DEF NearInv, NoFault
<1>4. CASE delegated_to_task_restart_wifi_apsta
  <2>1. /\ delegate.func = "restart_wifi_apsta" /\ delegate # Idle
        /\ wifi_init_softap(delegate.channel)
    BY <1>4 DEF delegated_to_task_restart_wifi_apsta, Idle
  <2>2. CASE netifs
    <3>1. node' = "aborted" /\ UNCHANGED <<ap, budget>>
      BY <2>1, <2>2 DEF wifi_init_softap
    <3> QED
      BY <1>1, <3>1 DEF NearInv, NoFault
  <2>3. CASE ~netifs
    <3>1. netifs' /\ ((ap' = delegate.channel /\ UNCHANGED budget) \/ Spend("faults"))
      BY <2>1, <2>3 DEF wifi_init_softap
    <3>2. /\ budget'["faults"] <= MaxFaults
          /\ NoFault' => NoFault /\ ap' = delegate.channel
      BY <3>1, FaultsSpent, BootAssumption DEF NearInv, NoFault, BootAssumption
    <3>3. NoFault => home = Tuned(delegate.channel)
      BY <2>1, <2>3 DEF NearInv, Scanning, Aligned
    <3> QED
      BY <1>1, <3>1, <3>2, <3>3 DEF NearInv
  <2> QED
    BY <2>2, <2>3
<1> QED
  BY <1>2, <1>3, <1>4 DEF DelegateTask

(* app_main: before it waits there is nothing of the scan but the channel  *)
(* it will start on.                                                       *)
LEMMA NearAppMain ==
    ASSUME NodeTypeOK, ScanInv, NearInv, node = "up", app_main
    PROVE  NearInv'
<1>1. UNCHANGED <<home, ap, netifs, jobs>>
  BY AppMainCases
<1>2. ASSUME Spend("faults") PROVE NearInv'
  <2>1. budget'["faults"] < MaxFaults /\ budget'["faults"] <= MaxFaults
    BY <1>2, FaultsSpent, BootAssumption DEF NearInv, BootAssumption
  <2>2. ~NoFault'
    BY <2>1, FaultsSpent, BootAssumption, <1>2 DEF NoFault, NearInv, BootAssumption
  <2> QED
    BY <2>1, <2>2 DEF NearInv
<1>3. CASE discovery_awaited \/ ota_service_init \/ http_server_init
  <2>1. UNCHANGED <<budget, node>> /\ (signalled \/ main \in Later)
    BY <1>3 DEF discovery_awaited, ota_service_init, http_server_init, Pass, Proceed, Later
  <2> QED
    BY <1>1, <2>1 DEF NearInv, NoFault, Scanning
<1>4. ASSUME main \in Setup, UNCHANGED <<budget, node, events, signalled>>,
             \/ main' \in Setup /\ UNCHANGED discovering
             \/ main = "lock_ready" /\ main' = "waiting" /\ UNCHANGED radio,
             main' \in Setup \ {"power", "flash"} =>
                radio' = 1 \/ (UNCHANGED radio /\ main \notin {"power", "flash"})
      PROVE  NearInv'
  <2>1. ASSUME Scanning PROVE Scanning'
    <3>1. main \notin Later /\ main # "waiting" /\ channel = 0 /\ ~signalled
      BY <1>4, <2>1 DEF Scanning, Setup, Later
    <3>2. Pending = 0 /\ delegate_queue = <<>> /\ delegate = Idle /\ ~discovering
      <4>1. InFlight = 0
        BY <1>4, <3>1 DEF ScanInv, One
      <4>2. /\ One(discovering) = 0 /\ Pending = 0 /\ Len(delegate_queue) = 0
            /\ One(delegate # Idle) = 0
        BY <4>1, InFlightSum
      <4> QED
        BY <4>2 DEF One, NodeTypeOK
    <3>3. ~Expects("found")' /\ ~Expects("nobody")'
      BY <1>4, <3>2, NoneExpected DEF Expects
    <3>4. /\ channel' = 0 /\ delegate' = Idle /\ DOMAIN delegate_queue' = {} /\ ~signalled'
      BY <1>1, <1>4, <3>1, <3>2 DEF jobs
    <3>5. main' # "waiting" => radio' = 1 \/ main' \in {"power", "flash"}
      BY <1>4, <2>1, <3>1 DEF Scanning
    <3>6. discovering' => radio' = Tuned(channel')
      <4>1. discovering' => main = "lock_ready" /\ UNCHANGED radio
        BY <1>4, <3>2
      <4> QED
        BY <2>1, <3>4, <4>1 DEF Scanning, Tuned
    <3>7. main' \notin Later
      BY <1>4 DEF Setup, Later
    <3> QED
      BY <3>3, <3>4, <3>5, <3>6, <3>7 DEF Scanning
  <2> QED
    BY <1>1, <1>4, <2>1 DEF NearInv, NoFault
<1>5. CASE CheckFails(main)
  BY <1>2, <1>5 DEF CheckFails
<1>6. CASE main \in {"power", "flash", "station", "transport", "codec", "lock_created"}
  BY <1>2, <1>3, <1>4, <1>5, <1>6, AppMainCases DEF Setup, scan
<1>7. CASE main = "lock_ready"
  BY <1>2, <1>3, <1>4, <1>5, <1>7, AppMainCases DEF Setup, scan
<1> QED
  BY <1>3, <1>5, <1>6, <1>7, AppMainCases DEF Checked

LEMMA NearStep ==
    ASSUME NodeTypeOK, ScanInv, NearInv, [Next]_vars
    PROVE  NearInv'
<1>1. ASSUME node = "up", TimePasses PROVE NearInv'
  <2>1. /\ UNCHANGED <<main, home, radio, ap, netifs, jobs, signalled, discovering, node, budget>>
        /\ UNCHANGED events
    BY <1>1 DEF TimePasses, wifi, scan
  <2>2. \A e \in Outcomes : Expects(e)' => Expects(e)
    BY <2>1 DEF Expects
  <2> QED
    BY <2>1, <2>2, NearUntouched
<1>2. ASSUME node = "up", main_loop PROVE NearInv'
  <2>1. /\ UNCHANGED <<home, ap, netifs, node>> /\ main = "serving"
        /\ UNCHANGED budget \/ Spend("faults")
    BY <1>2 DEF main_loop, wifi
  <2>2. budget'["faults"] <= MaxFaults /\ (NoFault' => NoFault)
    BY <2>1, FaultsSpent, BootAssumption DEF NearInv, NoFault, BootAssumption
  <2> QED
    BY <1>2, <2>1, <2>2 DEF NearInv, Scanning, Later
<1>3. CASE BrokenImageCrashes
  BY <1>3 DEF BrokenImageCrashes, NearInv, NoFault, steady, wifi
<1>4. ASSUME node = "up", CommandArrives \/ UploadArrives PROVE NearInv'
  <2>1. /\ UNCHANGED <<main, home, radio, ap, netifs, jobs, signalled, discovering, node>>
        /\ budget'["faults"] = budget["faults"]
        /\ Post("command") \/ Post("upload")
    BY <1>4, FaultsSpent DEF CommandArrives, UploadArrives, steady, wifi, scan
  <2>2. \A e \in Outcomes : Expects(e)' => Expects(e)
    BY <2>1, ExpectsAfterPost DEF EventKinds, Outcomes
  <2> QED
    BY <1>4, <2>1, <2>2, NearUntouched DEF Scanning
<1>5. ASSUME node = "up",
             routine_message_codec_events_handler \/ routine_ota_service_events_handler
               \/ (routine_http_server_events_handler /\ ~PowerUp)
      PROVE  NearInv'
  <2>1. /\ events # <<>> /\ events' = Tail(events)
        /\ UNCHANGED <<main, home, radio, ap, netifs, jobs, signalled, discovering, budget>>
    BY <1>5 DEF routine_message_codec_events_handler, routine_ota_service_events_handler,
       routine_http_server_events_handler, steady, wifi, scan
  <2>2. \A e \in Outcomes : Expects(e)' => Expects(e)
    BY <2>1, ExpectsAfterTake
  <2> QED
    BY <1>5, <2>1, <2>2, NearUntouched DEF Scanning
<1>6. ASSUME PowerUp, UNCHANGED budget \/ Spend("power") PROVE NearInv'
  <2>1. budget'["faults"] <= MaxFaults
    BY <1>6, FaultsSpent DEF NearInv
  <2> QED
    BY <1>6, <2>1, NearPowerUp
<1>7. CASE UNCHANGED vars
  <2>1. /\ UNCHANGED <<main, home, radio, ap, netifs, jobs, signalled, discovering, node, budget>>
        /\ UNCHANGED events
    BY <1>7 DEF vars, volatile, wifi, scan
  <2>2. \A e \in Outcomes : Expects(e)' => Expects(e)
    BY <2>1 DEF Expects
  <2> QED
    BY <2>1, <2>2, NearUntouched DEF Scanning
<1> QED
  BY <1>1, <1>2, <1>3, <1>4, <1>5, <1>6, <1>7, NearAppMain, NearDiscovery, NearResult, NearDelegate
  DEF Next, Operation, routine_event_handler, Restart, PowerLoss,
      routine_http_server_events_handler

LEMMA NearInvariant == Spec => []NearInv
<1>1. Init => NearInv
  <2> SUFFICES ASSUME Init PROVE NearInv
    OBVIOUS
  <2>1. /\ main = "power" /\ channel = 0 /\ ~discovering /\ ~signalled
        /\ events = <<>> /\ delegate_queue = <<>> /\ delegate = Idle /\ ap = Off
    BY DEF Init
  <2>2. ~Expects("found") /\ ~Expects("nobody") /\ DOMAIN delegate_queue = {}
    BY <2>1 DEF Expects
  <2>3. budget["faults"] <= MaxFaults
    BY BootAssumption DEF Init, BootAssumption
  <2>4. Scanning
    BY <2>1, <2>2 DEF Scanning, Later
  <2> QED
    BY <2>1, <2>3, <2>4 DEF NearInv
<1> QED
  BY <1>1, NodeTypeInvariant, ScanInvariant, NearStep, PTL DEF Spec

(* A channel the scan has moved to becomes that of the access point only   *)
(* if the peer is there, for any number of channels, wherever the peer is  *)
(* and whatever is missed on the way, as long as no call fails.            *)
THEOREM AccessPointNearPeerHolds == Spec => []AccessPointNearPeer
<1>1. NearInv => AccessPointNearPeer
  <2>1. \A c \in ScanChannels : c # Off /\ c # 0
    BY ChannelRange DEF ScanChannels, Off
  <2> QED
    BY <2>1 DEF NearInv, AccessPointNearPeer, NoFault, Tuned
<1> QED
  BY <1>1, NearInvariant, PTL

(* How far the finding AccessPointOnPeersChannel goes: the access point is *)
(* given channel 0 only if the peer is on channel 1.                       *)
ZeroStandsForOne == ap = 0 /\ budget["faults"] = MaxFaults => home = 1

(* As long as no call fails, the only channel that is not handed on is the *)
(* one the radio starts with.                                              *)
THEOREM ZeroStandsForOneHolds == Spec => []ZeroStandsForOne
<1>1. NearInv => ZeroStandsForOne
  BY DEF NearInv, ZeroStandsForOne, NoFault, Tuned, Off
<1> QED
  BY <1>1, NearInvariant, PTL

-----------------------------------------------------------------------------
(***************************************************************************)
(* What may abort the node.                                                *)
(***************************************************************************)
(* The node aborts for a broken image, a command that came before its      *)
(* lock, a failing call of the set-up or the Wi-Fi, or after a             *)
(* rediscovery.                                                            *)
AbortsOnlyForACause ==
    node = "aborted" =>
        \/ Version \in Broken /\ ~Reached("found")
        \/ budget["commands"] < MaxCommands /\ ~Reached("lock_created")
        \/ budget["faults"] < MaxFaults
        \/ rediscoveries > 0

(* Once there are interfaces the discovery has been signalled or app_main  *)
(* has gone on, so that ScanInv leaves no second job for them.             *)
CauseInv ==
    /\ budget["commands"] <= MaxCommands /\ budget["faults"] <= MaxFaults
    /\ Absent(events, "command") \/ budget["commands"] < MaxCommands
    /\ node = "up" /\ netifs => signalled \/ main \in Later
    /\ AbortsOnlyForACause

LEMMA BudgetOnlySpent ==
    ASSUME NodeTypeOK, [Next]_vars
    PROVE  \A w \in {"commands", "faults"} : /\ budget[w] \in Nat /\ budget'[w] \in Nat
                                             /\ budget'[w] <= budget[w]
<1>1. ASSUME NEW k, Spend(k) \/ UNCHANGED budget
      PROVE  \A w \in {"commands", "faults"} : /\ budget[w] \in Nat /\ budget'[w] \in Nat
                                               /\ budget'[w] <= budget[w]
  BY <1>1 DEF NodeTypeOK, Spend
<1>2. CASE UNCHANGED budget
  BY <1>1, <1>2
<1>3. CASE app_main \/ TimePasses \/ main_loop \/ BrokenImageCrashes
  BY <1>1, <1>3, AppMainCases DEF CheckFails, discovery_awaited, ota_service_init,
     http_server_init, Pass, TimePasses, main_loop, BrokenImageCrashes
<1>4. CASE DiscoveryCompletes \/ CommandArrives \/ UploadArrives
  BY <1>1, <1>4 DEF DiscoveryCompletes, DiscoveryFinds, DiscoveryFindsNobody, CommandArrives,
     UploadArrives
<1>5. CASE routine_event_handler
  BY <1>1, <1>5 DEF routine_event_handler, routine_discovery_events_handler,
     routine_message_codec_events_handler, routine_ota_service_events_handler,
     routine_http_server_events_handler
<1>6. CASE DelegateTask
  <2>1. CASE delegate_run_task
    BY <1>2, <2>1 DEF delegate_run_task
  <2>2. CASE delegated_to_task_restart_discovery_on_new_channel
    BY <1>1, <2>2 DEF delegated_to_task_restart_discovery_on_new_channel
  <2>3. CASE delegated_to_task_restart_wifi_apsta
    BY <1>1, <2>3 DEF delegated_to_task_restart_wifi_apsta, wifi_init_softap
  <2> QED
    BY <1>6, <2>1, <2>2, <2>3 DEF DelegateTask
<1>7. CASE Restart \/ PowerLoss
  BY <1>1, <1>7 DEF Restart, PowerLoss
<1> QED
  BY <1>2, <1>3, <1>4, <1>5, <1>6, <1>7 DEF Next, Operation, vars

(* A step that aborts nothing, creates no interfaces and brings no command.*)
LEMMA CauseKept ==
    ASSUME NodeTypeOK, CauseInv, [Next]_vars, node = "up", node' = "up", netifs' = netifs,
           signalled \/ main \in Later => signalled' \/ main' \in Later,
           Absent(events, "command") => Absent(events', "command")
    PROVE  CauseInv'
<1>1. /\ budget["commands"] \in Nat /\ budget'["commands"] <= budget["commands"]
      /\ budget'["faults"] <= budget["faults"] /\ budget'["commands"] \in Nat
      /\ budget["faults"] \in Nat /\ budget'["faults"] \in Nat
      /\ MaxCommands \in Nat /\ MaxFaults \in Nat
  BY BudgetOnlySpent, BootAssumption DEF BootAssumption
<1> QED
  BY <1>1 DEF CauseInv, AbortsOnlyForACause

LEMMA CauseInitOrReset ==
    ASSUME NodeTypeOK, CauseInv, [Next]_vars, PowerUp
    PROVE  CauseInv'
<1>1. /\ budget["commands"] \in Nat /\ budget'["commands"] <= budget["commands"]
      /\ budget'["faults"] <= budget["faults"] /\ budget'["commands"] \in Nat
      /\ budget["faults"] \in Nat /\ budget'["faults"] \in Nat
      /\ MaxCommands \in Nat /\ MaxFaults \in Nat
  BY BudgetOnlySpent, BootAssumption DEF BootAssumption
<1>2. node' = "up" /\ ~netifs' /\ Absent(events', "command")
  BY DEF PowerUp, Absent
<1> QED
  BY <1>1, <1>2 DEF CauseInv, AbortsOnlyForACause

(* The job that sets up the access point: it finds interfaces only when a  *)
(* rediscovery has brought it here.                                        *)
LEMMA CauseAccessPoint ==
    ASSUME NodeTypeOK, ClockInv, ScanInv, CauseInv, [Next]_vars, node = "up",
           delegated_to_task_restart_wifi_apsta
    PROVE  CauseInv'
<1>1. /\ budget["commands"] \in Nat /\ budget'["commands"] <= budget["commands"]
      /\ budget'["faults"] <= budget["faults"] /\ budget'["commands"] \in Nat
      /\ budget["faults"] \in Nat /\ budget'["faults"] \in Nat
      /\ MaxCommands \in Nat /\ MaxFaults \in Nat
  BY BudgetOnlySpent, BootAssumption DEF BootAssumption
<1>2. /\ delegate # Idle /\ UNCHANGED <<main, events, rediscoveries>>
      /\ signalled' = (signalled \/ node' = "up")
  BY DEF delegated_to_task_restart_wifi_apsta, Idle, steady, clock
<1>3. CASE node' = "up"
  <2>1. signalled'
    BY <1>2, <1>3, Zenon
  <2>2. Absent(events', "command") \/ budget'["commands"] < MaxCommands
    BY <1>1, <1>2 DEF CauseInv
  <2>3. budget'["commands"] <= MaxCommands /\ budget'["faults"] <= MaxFaults
    BY <1>1 DEF CauseInv
  <2> QED
    BY <1>3, <2>1, <2>2, <2>3 DEF CauseInv, AbortsOnlyForACause
<1>4. ASSUME netifs PROVE rediscoveries > 0
  <2>1. InFlight >= 1 /\ InFlight \in Nat /\ rediscoveries \in Nat
    <3>1. One(delegate # Idle) = 1 /\ rediscoveries \in Nat
      BY <1>2 DEF One, ClockInv
    <3> DEFINE d == One(discovering)
               l == Len(delegate_queue)
    <3>2. InFlight = d + Pending + l + 1 /\ d \in 0..1 /\ Pending \in Nat /\ l \in Nat
      BY <3>1, InFlightSum
    <3> HIDE DEF d, l
    <3> QED
      BY <3>1, <3>2
  <2>2. main \in Later
    BY <1>4, <2>1 DEF CauseInv, ScanInv, One
  <2> QED
    BY <2>1, <2>2 DEF ScanInv
<1>5. CASE node' # "up"
  <2>1. netifs \/ Spend("faults")
    BY <1>5 DEF delegated_to_task_restart_wifi_apsta, wifi_init_softap
  <2>2. Spend("faults") => budget'["faults"] < MaxFaults
    BY <1>1, FaultsSpent DEF CauseInv
  <2>3. rediscoveries' > 0 \/ budget'["faults"] < MaxFaults
    BY <1>2, <1>4, <2>1, <2>2
  <2> QED
    BY <1>1, <1>2, <1>5, <2>3 DEF CauseInv, AbortsOnlyForACause
<1> QED
  BY <1>3, <1>5

LEMMA CauseStep ==
    ASSUME NodeTypeOK, ClockInv, ScanInv, CauseInv, [Next]_vars
    PROVE  CauseInv'
<1>0. /\ budget["commands"] \in Nat /\ budget'["commands"] <= budget["commands"]
      /\ budget'["faults"] <= budget["faults"] /\ budget'["commands"] \in Nat
      /\ budget["faults"] \in Nat /\ budget'["faults"] \in Nat
      /\ MaxCommands \in Nat /\ MaxFaults \in Nat
  BY BudgetOnlySpent, BootAssumption DEF BootAssumption
<1>1. events \in Seq(EventKinds)
  BY DEF NodeTypeOK
<1>2. ASSUME NEW e \in EventKinds, e # "command", Post(e)
      PROVE  Absent(events, "command") => Absent(events', "command")
  BY <1>1, <1>2, AppendEvents DEF Post
<1>3. ASSUME events # <<>>, events' = Tail(events)
      PROVE  Absent(events, "command") => Absent(events', "command")
  BY <1>1, <1>3, TakeEvents
<1>4. ASSUME node = "up", app_main PROVE CauseInv'
  <2>1. CASE CheckFails(main)
    <3>1. /\ node' = "aborted" /\ UNCHANGED events /\ Spend("faults")
      BY <2>1 DEF CheckFails
    <3>2. budget'["faults"] < MaxFaults
      BY <1>0, <3>1, FaultsSpent DEF CauseInv
    <3>3. Absent(events', "command") \/ budget'["commands"] < MaxCommands
      BY <1>0, <3>1 DEF CauseInv
    <3>4. budget'["commands"] <= MaxCommands /\ budget'["faults"] <= MaxFaults
      BY <1>0 DEF CauseInv
    <3> QED
      BY <3>1, <3>2, <3>3, <3>4 DEF CauseInv, AbortsOnlyForACause
  <2>2. CASE ~CheckFails(main)
    <3>1. /\ node' = node /\ netifs' = netifs
          /\ UNCHANGED events \/ Post("validate")
          /\ signalled \/ main \in Later => signalled' \/ main' \in Later
      <4>1. CASE discovery_awaited \/ ota_service_init \/ http_server_init
        BY <4>1 DEF discovery_awaited, ota_service_init, http_server_init, Pass, Proceed, Later
      <4>2. CASE ~(discovery_awaited \/ ota_service_init \/ http_server_init)
        <5>1. UNCHANGED <<node, events, signalled>> /\ main \notin Later
          BY <1>4, <2>2, <4>2, AppMainCases DEF Later
        <5>2. UNCHANGED netifs
          BY <1>4, AppMainCases
        <5> QED
          BY <5>1, <5>2
      <4> QED
        BY <4>1, <4>2
    <3>2. Absent(events, "command") => Absent(events', "command")
      BY <1>2, <3>1 DEF EventKinds
    <3> QED
      BY <1>4, <3>1, <3>2, CauseKept
  <2> QED
    BY <2>1, <2>2
<1>5. ASSUME node = "up", TimePasses \/ main_loop PROVE CauseInv'
  BY <1>5, CauseKept DEF TimePasses, main_loop, wifi
<1>6. ASSUME node = "up", BrokenImageCrashes PROVE CauseInv'
  <2>1. /\ UNCHANGED <<main, events, budget, images>> /\ node' = "aborted"
        /\ Version \in Broken /\ ~Reached("found")
    BY <1>6 DEF BrokenImageCrashes, steady
  <2>2. Version' \in Broken /\ ~Reached("found")'
    BY <2>1 DEF Version, images, Reached
  <2> QED
    BY <2>1, <2>2 DEF CauseInv, AbortsOnlyForACause
<1>7. ASSUME node = "up", DiscoveryCompletes \/ UploadArrives PROVE CauseInv'
  <2>1. /\ UNCHANGED <<main, netifs, signalled, node>>
        /\ \E e \in EventKinds : e # "command" /\ Post(e)
    BY <1>7 DEF DiscoveryCompletes, DiscoveryFinds, DiscoveryFindsNobody, UploadArrives, steady,
       wifi, EventKinds
  <2> QED
    BY <1>2, <1>7, <2>1, CauseKept
<1>8. ASSUME node = "up", CommandArrives PROVE CauseInv'
  <2>1. UNCHANGED <<main, netifs, signalled, node>> /\ Spend("commands")
    BY <1>8 DEF CommandArrives, steady, wifi
  <2>2. budget'["commands"] < MaxCommands
    BY <1>0, <2>1 DEF Spend, NodeTypeOK, CauseInv
  <2> QED
    BY <1>0, <1>8, <2>1, <2>2 DEF CauseInv, AbortsOnlyForACause
<1>9. ASSUME node = "up",
             routine_discovery_events_handler \/ routine_ota_service_events_handler
               \/ (routine_http_server_events_handler /\ ~PowerUp)
      PROVE  CauseInv'
  <2>1. UNCHANGED <<main, netifs, signalled, node>> /\ events # <<>> /\ events' = Tail(events)
    BY <1>9 DEF routine_discovery_events_handler, routine_ota_service_events_handler,
       routine_http_server_events_handler, steady, wifi
  <2> QED
    BY <1>3, <1>9, <2>1, CauseKept
<1>10. ASSUME node = "up", routine_message_codec_events_handler PROVE CauseInv'
  <2>1. /\ UNCHANGED <<main, netifs, signalled, budget>>
        /\ events # <<>> /\ events' = Tail(events) /\ Head(events) = "command"
        /\ node' = IF Reached("lock_created") THEN "up" ELSE "aborted"
    BY <1>10 DEF routine_message_codec_events_handler, steady, wifi
  <2>2. ~Absent(events, "command") /\ budget["commands"] < MaxCommands
    BY <1>1, <2>1, TakeEvents DEF CauseInv
  <2>3. Reached("lock_created")' = Reached("lock_created")
    BY <2>1 DEF Reached
  <2> QED
    BY <1>10, <2>1, <2>2, <2>3 DEF CauseInv, AbortsOnlyForACause
<1>11. ASSUME node = "up",
              delegate_run_task \/ delegated_to_task_restart_discovery_on_new_channel
       PROVE  CauseInv'
  <2>1. UNCHANGED <<main, netifs, signalled, node, events>>
    BY <1>11 DEF delegate_run_task, delegated_to_task_restart_discovery_on_new_channel, steady
  <2> QED
    BY <1>11, <2>1, CauseKept
<1>12. CASE UNCHANGED vars
  BY <1>12 DEF vars, volatile, wifi, clock, images, CauseInv, AbortsOnlyForACause, Absent,
     Version, Reached
<1> QED
  BY <1>4, <1>5, <1>6, <1>7, <1>8, <1>9, <1>10, <1>11, <1>12, CauseAccessPoint, CauseInitOrReset
  DEF Next, Operation, routine_event_handler, DelegateTask, Restart, PowerLoss

(* Of all that is modelled, only a broken image, a command that came too   *)
(* early, a call of the set-up or the Wi-Fi that failed and a rediscovery  *)
(* abort the node: the order in which tasks and events interleave during   *)
(* the boot, its scan over any number of channels and any number of missed *)
(* peers do not.                                                           *)
THEOREM AbortsOnlyForACauseHolds == Spec => []AbortsOnlyForACause
<1>1. Init => CauseInv
  BY BootAssumption DEF Init, CauseInv, AbortsOnlyForACause, Absent, BootAssumption
<1>2. CauseInv => AbortsOnlyForACause
  BY DEF CauseInv
<1> QED
  BY <1>1, <1>2, NodeTypeInvariant, ClockInvariant, ScanInvariant, CauseStep, PTL DEF Spec
===============================================================================
