------------------------------ MODULE LinearLock ------------------------------
(***************************************************************************)
(* The linear actuator lock: linear_actuator.c on top of lock_drive.c.     *)
(*                                                                         *)
(* Three tasks share it.  A client (the routine event loop) queues OPEN    *)
(* and CLOSE commands; lock_task takes one command at a time and moves the *)
(* state machine; the FreeRTOS timer daemon serves xTimerStart requests    *)
(* from a bounded queue of its own and, when the one-shot timer expires,   *)
(* runs lock_timer_callback_handler, which re-queues current_command.      *)
(* Both queues are written with portMAX_DELAY, so a full queue blocks the  *)
(* writer: a blocking call is an action whose guard asks for room.         *)
(*                                                                         *)
(* What other tasks read of lock_state is status (the query, which runs in *)
(* the event loop) and current_command (the timer callback).  A step of    *)
(* lock_task ends where one of them could tell: a start from rest powers   *)
(* the motor before it writes status, so these are two steps.  A reversal  *)
(* and the end of a ramp stop the motor before they write status, and a    *)
(* query in between answers what it answered before; they are one step.    *)
(*                                                                         *)
(* The state starts where linear_lock_create leaves it.                    *)
(***************************************************************************)
EXTENDS Integers, Sequences

CONSTANTS
    QUEUE_SIZE,           \* capacity of command_queue (10 in the source)
    TIMER_QUEUE_LENGTH,   \* capacity of the FreeRTOS timer command queue
    MaxCommands           \* bound: commands the clients send in one behaviour

ASSUME LockAssumption ==
    /\ QUEUE_SIZE \in Nat \ {0}
    /\ TIMER_QUEUE_LENGTH \in Nat \ {0}
    /\ MaxCommands \in Nat

VARIABLES
    command_queue,      \* FIFO of [command, from]; "from" is history, for properties
    status,             \* lock_state.status
    speed,              \* lock_state.speed, a uint8_t
    speed_increment,    \* lock_state.speed_increment
    current_direction,  \* lock_state.current_direction
    current_command,    \* lock_state.current_command
    duty,               \* PWM duty of the forward and the reverse channel
    task,               \* where lock_task is: "receive", "publish", "hold" or "start"
    timer,              \* the one-shot timer: "dormant" or "active"
    timer_queue,        \* xTimerStart requests the daemon has not served yet
    daemon,             \* command the callback is sending, or "none"
    sent                \* commands the clients have sent

motion == <<status, speed, speed_increment, current_direction, current_command, duty>>

vars == <<command_queue, motion, task, timer, timer_queue, daemon, sent>>

Commands == {"OPEN", "CLOSE"}
Directions == {"FORWARD", "REVERSE"}
Resting == {"CLOSED", "OPENED"}
MovingStates == {"CLOSING", "OPENING"}
Origins == {"client", "timer"}
uint8 == 0..255
Duties == 0..8191       \* a 13-bit PWM channel
Entries == [command : Commands, from : Origins]

(***************************************************************************)
(* The symmetric halves of the state machine, by command.                  *)
(***************************************************************************)
Opposite(c) == IF c = "OPEN" THEN "CLOSE" ELSE "OPEN"
DirectionOf(c) == IF c = "OPEN" THEN "FORWARD" ELSE "REVERSE"
Moving(c) == IF c = "OPEN" THEN "OPENING" ELSE "CLOSING"
Reached(c) == IF c = "OPEN" THEN "OPENED" ELSE "CLOSED"

-----------------------------------------------------------------------------
(***************************************************************************)
(* lock_drive.c: the two PWM channels of the motor driver.                 *)
(***************************************************************************)

(* Mutant: the duty of a channel of 16 bits. *)
speed_to_duty_16_bit(s) == ((IF s > 100 THEN 100 ELSE s) * 65535) \div 100

(* Duty of a 13-bit channel for a speed in percent, in integer arithmetic. *)
speed_to_duty(s) == ((IF s > 100 THEN 100 ELSE s) * 8191) \div 100

(* Mutant: only the forward channel is stopped. *)
lock_drive_idle_one_channel == [duty EXCEPT !["FORWARD"] = 0]

(* Both channels stopped. *)
lock_drive_idle == [d \in Directions |-> 0]

(* Drive one channel and leave the other as it is. *)
lock_drive(direction, s) == [duty EXCEPT ![direction] = speed_to_duty(s)]

-----------------------------------------------------------------------------
(***************************************************************************)
(* Clients: set_motor_open and set_motor_close, and the status query.      *)
(***************************************************************************)
SendCommand(c) ==
    /\ Len(command_queue) < QUEUE_SIZE
    /\ sent < MaxCommands
    /\ command_queue' = Append(command_queue, [command |-> c, from |-> "client"])
    /\ sent' = sent + 1
    /\ UNCHANGED <<motion, task, timer, timer_queue, daemon>>

set_motor_open == SendCommand("OPEN")
set_motor_close == SendCommand("CLOSE")

(* Mutant: a moving lock is reported as the state it is heading for. *)
get_lock_status_optimistic ==
    CASE status \in {"CLOSED", "CLOSING"} -> "CLOSE"
      [] status \in {"OPENED", "OPENING"} -> "OPEN"

(* What a status query answers, from the one word it reads. *)
get_lock_status ==
    CASE status = "CLOSED" -> "CLOSE"
      [] status = "OPENED" -> "OPEN"
      [] OTHER -> "UNDEFINED"

-----------------------------------------------------------------------------
(***************************************************************************)
(* lock_task: one action per arm of its switch, two for a start from rest. *)
(* Every arm that keeps the lock moving ends in xTimerStart, where the     *)
(* task can block ("start").                                               *)
(***************************************************************************)
Receive(c) ==
    /\ task = "receive"
    /\ command_queue # <<>>
    /\ Head(command_queue).command = c
    /\ command_queue' = Tail(command_queue)

(* Mutant: the increment of the interrupted movement is kept. *)
InitMovementKeepsIncrement(c) ==
    /\ speed' = 20
    /\ speed_increment' = IF speed_increment = 0 THEN 20 ELSE speed_increment
    /\ current_direction' = DirectionOf(c)
    /\ current_command' = c

(* The parameters every new movement starts with. *)
InitMovement(c) ==
    /\ speed' = 20
    /\ speed_increment' = 20
    /\ current_direction' = DirectionOf(c)
    /\ current_command' = c

(* CLOSED or OPENED: power the motor for the movement the command asks     *)
(* for; the status is still the old one.                                   *)
StartMovement(c) ==
    /\ Receive(c)
    /\ status \in Resting
    /\ InitMovement(c)
    /\ duty' = lock_drive(DirectionOf(c), 20)
    /\ task' = "publish"
    /\ UNCHANGED <<status, timer, timer_queue, daemon, sent>>

(* The movement that has begun becomes the status. *)
PublishMovement ==
    /\ task = "publish"
    /\ status' = Moving(current_command)
    /\ task' = "start"
    /\ UNCHANGED <<command_queue, speed, speed_increment, current_direction,
                   current_command, duty, timer, timer_queue, daemon, sent>>

(* Mutant: the reversal goes on without the timer being started. *)
ReverseWithoutTimer(c) ==
    /\ Receive(c)
    /\ status = Moving(Opposite(c))
    /\ status' = Moving(c)
    /\ InitMovement(c)
    /\ duty' = lock_drive_idle
    /\ task' = "receive"
    /\ UNCHANGED <<timer, timer_queue, daemon, sent>>

(* Moving the other way: stop the motor and turn around; the new direction *)
(* is driven by the next step only.                                        *)
ReverseMovement(c) ==
    /\ Receive(c)
    /\ status = Moving(Opposite(c))
    /\ status' = Moving(c)
    /\ InitMovement(c)
    /\ duty' = lock_drive_idle
    /\ task' = "start"
    /\ UNCHANGED <<timer, timer_queue, daemon, sent>>

(* Mutant: opening decelerates in steps the ramp does not divide into. *)
DecelerationUneven(c) == IF c = "OPEN" THEN -25 ELSE -20

Deceleration(c) == IF c = "OPEN" THEN -10 ELSE -20

(* speed + speed_increment, stored back into a uint8_t. *)
NextSpeed == (speed + speed_increment) % 256

(* Same direction: above 50% turn the ramp around, then drive. *)
RampPeak(c) ==
    /\ NextSpeed > 50
    /\ speed' = NextSpeed
    /\ speed_increment' = Deceleration(c)
    /\ duty' = lock_drive(current_direction, speed')
    /\ task' = "start"
    /\ UNCHANGED status

(* Mutant: the finished movement leaves the motor powered. *)
RampEndPowered(c) ==
    /\ NextSpeed = 0
    /\ status' = Reached(c)
    /\ speed' = 20
    /\ UNCHANGED <<speed_increment, duty, task>>

(* Same direction: at 0% the movement is over and the timer is left alone. *)
RampEnd(c) ==
    /\ NextSpeed = 0
    /\ duty' = lock_drive_idle
    /\ status' = Reached(c)
    /\ speed' = 20
    /\ UNCHANGED <<speed_increment, task>>

(* Opening only: at 10% or less wait unlock_hold_duration before driving. *)
RampHold(c) ==
    /\ c = "OPEN"
    /\ NextSpeed \in 1..10
    /\ speed' = NextSpeed
    /\ task' = "hold"
    /\ UNCHANGED <<status, speed_increment, duty>>

(* Same direction, in between: drive at the next speed. *)
RampStep(c) ==
    /\ NextSpeed \in 1..50
    /\ ~(c = "OPEN" /\ NextSpeed <= 10)
    /\ speed' = NextSpeed
    /\ duty' = lock_drive(current_direction, speed')
    /\ task' = "start"
    /\ UNCHANGED <<status, speed_increment>>

ContinueMovement(c) ==
    /\ Receive(c)
    /\ status = Moving(c)
    /\ RampPeak(c) \/ RampEnd(c) \/ RampHold(c) \/ RampStep(c)
    /\ UNCHANGED <<current_direction, current_command, timer, timer_queue, daemon, sent>>

(* Mutant: the timer is not started again after the hold. *)
HoldForgetsTimer ==
    /\ task = "hold"
    /\ duty' = lock_drive(current_direction, speed)
    /\ task' = "receive"
    /\ UNCHANGED <<command_queue, status, speed, speed_increment, current_direction,
                   current_command, timer, timer_queue, daemon, sent>>

(* vTaskDelay is over: drive at the hold speed. *)
HoldElapsed ==
    /\ task = "hold"
    /\ duty' = lock_drive(current_direction, speed)
    /\ task' = "start"
    /\ UNCHANGED <<command_queue, status, speed, speed_increment, current_direction,
                   current_command, timer, timer_queue, daemon, sent>>

(* xTimerStart(timer, portMAX_DELAY) posts to the daemon's queue. *)
xTimerStart ==
    /\ task = "start"
    /\ timer_queue < TIMER_QUEUE_LENGTH
    /\ timer_queue' = timer_queue + 1
    /\ task' = "receive"
    /\ UNCHANGED <<command_queue, motion, timer, daemon, sent>>

lock_task ==
    \/ \E c \in Commands : StartMovement(c) \/ ReverseMovement(c) \/ ContinueMovement(c)
    \/ PublishMovement
    \/ HoldElapsed
    \/ xTimerStart

-----------------------------------------------------------------------------
(***************************************************************************)
(* The FreeRTOS timer daemon.  It serves one start request at a time,      *)
(* restarting the timer if it is already active; while the callback is     *)
(* blocked on a full command_queue it serves nothing.                      *)
(***************************************************************************)
ServeTimerStart ==
    /\ daemon = "none"
    /\ timer_queue > 0
    /\ timer_queue' = timer_queue - 1
    /\ timer' = "active"
    /\ UNCHANGED <<command_queue, motion, task, daemon, sent>>

(* Mutant: the timer is created with auto-reload. *)
TimerReloads ==
    /\ daemon = "none"
    /\ timer = "active"
    /\ timer' = "active"
    /\ daemon' = current_command
    /\ UNCHANGED <<command_queue, motion, task, timer_queue, sent>>

(* The timer expires and the callback reads current_command. *)
TimerExpires ==
    /\ daemon = "none"
    /\ timer = "active"
    /\ timer' = "dormant"
    /\ daemon' = current_command
    /\ UNCHANGED <<command_queue, motion, task, timer_queue, sent>>

(* The callback queues the command it read. *)
lock_timer_callback_handler ==
    /\ daemon # "none"
    /\ Len(command_queue) < QUEUE_SIZE
    /\ command_queue' = Append(command_queue, [command |-> daemon, from |-> "timer"])
    /\ daemon' = "none"
    /\ UNCHANGED <<motion, task, timer, timer_queue, sent>>

timer_daemon == ServeTimerStart \/ TimerExpires \/ lock_timer_callback_handler

-----------------------------------------------------------------------------
Init ==
    /\ command_queue = <<>>
    /\ status = "CLOSED"
    /\ speed = 0
    /\ speed_increment = 0
    /\ current_direction = "FORWARD"
    /\ current_command = "CLOSE"
    /\ duty = [d \in Directions |-> 0]
    /\ task = "receive"
    /\ timer = "dormant"
    /\ timer_queue = 0
    /\ daemon = "none"
    /\ sent = 0

Next == set_motor_open \/ set_motor_close \/ lock_task \/ timer_daemon

Spec == Init /\ [][Next]_vars

(* The scheduler runs every ready task and the daemon; nothing makes the   *)
(* clients send.                                                           *)
FairSpec == Spec /\ WF_vars(lock_task) /\ WF_vars(timer_daemon)

(***************************************************************************)
(* The timing of the target: the 100 ms period is long against the work of *)
(* the two tasks, so the timer expires only when the daemon has no request *)
(* left and lock_task is blocked on its empty queue or delayed for the     *)
(* (much longer) unlock hold.                                              *)
(***************************************************************************)
CaughtUp ==
    /\ timer_queue = 0
    /\ task = "hold" \/ (task = "receive" /\ command_queue = <<>>)

PunctualNext == Next /\ (TimerExpires => CaughtUp)

PunctualSpec == Init /\ [][PunctualNext]_vars

-----------------------------------------------------------------------------
QueueTypeOK ==
    /\ command_queue \in Seq(Entries)
    /\ Len(command_queue) <= QUEUE_SIZE

MotionTypeOK ==
    /\ status \in Resting \cup MovingStates
    /\ speed \in uint8
    /\ speed_increment \in {0, 20, -20, -10}
    /\ current_direction \in Directions
    /\ current_command \in Commands
    /\ duty \in [Directions -> Duties]

TaskTypeOK ==
    /\ task \in {"receive", "publish", "hold", "start"}
    /\ timer \in {"dormant", "active"}
    /\ timer_queue \in 0..TIMER_QUEUE_LENGTH
    /\ daemon \in Commands \cup {"none"}
    /\ sent \in 0..MaxCommands

(* Every variable holds a value its C type and its writers allow; neither  *)
(* queue outgrows its capacity.                                            *)
TypeOK == QueueTypeOK /\ MotionTypeOK /\ TaskTypeOK

(* lock_drive writes one channel and trusts the other to be off: whatever  *)
(* the order of commands, ticks and reversals, the two inputs of the       *)
(* bridge are never driven at once, and a lock at rest drives neither,     *)
(* unless lock_task is just starting a movement.                           *)
NoShootThrough ==
    /\ duty["FORWARD"] = 0 \/ duty["REVERSE"] = 0
    /\ status \in Resting /\ task # "publish" => duty = lock_drive_idle

(* speed is a uint8_t, so "speed<=0" is only ever true at exactly zero: no *)
(* sequence of commands and ticks makes the ramp step over zero and wrap.  *)
SpeedNeverWraps ==
    status \in MovingStates => speed + speed_increment \in 0..100

(* The (speed, speed_increment) pairs a movement passes through. *)
Ramp(c) ==
    {<<20, 20>>, <<40, 20>>}
      \cup IF c = "OPEN" THEN {<<s, -10>> : s \in {60, 50, 40, 30, 20, 10}}
                         ELSE {<<s, -20>> : s \in {60, 40, 20}}

RestInv ==
    status \in Resting =>
        \/ duty = lock_drive_idle /\ task = "receive" /\ status = Reached(current_command)
        \/ task = "publish"

(* A movement that has begun but is not in the status yet. *)
StartInv ==
    task = "publish" =>
        /\ status \in Resting
        /\ speed = 20 /\ speed_increment = 20
        /\ current_direction = DirectionOf(current_command)
        /\ duty = [lock_drive_idle EXCEPT ![current_direction] = speed_to_duty(20)]

MovementInv(c) ==
    status = Moving(c) =>
        /\ current_command = c
        /\ current_direction = DirectionOf(c)
        /\ <<speed, speed_increment>> \in Ramp(c)
        /\ duty[DirectionOf(Opposite(c))] = 0
        /\ speed_increment < 0 => duty[DirectionOf(c)] > 0

HoldInv == task = "hold" => status = "OPENING" /\ speed = 10 /\ speed_increment < 0

(* However commands, ticks and reversals alternate, the motion parameters  *)
(* stay those of one movement: a ramp is never continued with the          *)
(* increment, the direction or the command of another one, and a ramp that *)
(* goes down is one whose motor is powered.  (The inductive invariant      *)
(* behind the safety properties.)                                          *)
MotionInv == RestInv /\ StartInv /\ (\A c \in Commands : MovementInv(c)) /\ HoldInv

(* Pending work: queue entries, start requests, an active timer, a blocked *)
(* callback, a lock_task that has not reached xTimerStart yet.             *)
One(b) == IF b THEN 1 ELSE 0
Work ==
    Len(command_queue) + timer_queue + One(timer = "active")
      + One(daemon # "none") + One(task # "receive")

(* A lock that is moving, or whose motor is powered, has something left to *)
(* move it on: no interleaving of task, timer daemon and clients leaves    *)
(* the motor running with nobody to switch it off.                         *)
MotorNeverStranded == status \in MovingStates \/ duty # lock_drive_idle => Work > 0

(* Ticks do not multiply: all the pending work in the system was put there *)
(* by a client command, one unit each.                                     *)
WorkIsBounded == Work <= sent

(* lock_task waits for room in the timer queue while the daemon, blocked   *)
(* in the callback, waits for room in command_queue.                       *)
CircularWait ==
    /\ task = "start"
    /\ timer_queue = TIMER_QUEUE_LENGTH
    /\ daemon # "none"
    /\ Len(command_queue) = QUEUE_SIZE

(* The two tasks of the lock cannot block each other for good before both  *)
(* queues and both tasks are filled by commands of the clients.            *)
NoEarlyCircularWait ==
    sent < QUEUE_SIZE + TIMER_QUEUE_LENGTH + 2 => ~CircularWait

(* A status query, which runs in another task, answers OPEN or CLOSE only  *)
(* for a lock whose motor is off and whose last movement ended there, or   *)
(* in the moment between lock_drive and the write of the status: then the  *)
(* motor already runs at 20%, in either direction, and the answer is that  *)
(* of before.  No answer is older than that: by the first tick of a        *)
(* movement it is UNDEFINED.                                               *)
StatusIsSettled ==
    get_lock_status # "UNDEFINED" =>
        \/ duty = lock_drive_idle /\ get_lock_status = current_command
        \/ /\ task = "publish"
           /\ duty = [lock_drive_idle EXCEPT ![current_direction] = speed_to_duty(20)]

(* The direction the motor is driven in, as seen on the two channels. *)
motor ==
    CASE duty["FORWARD"] = 0 /\ duty["REVERSE"] = 0 -> "off"
      [] duty["FORWARD"] > 0 /\ duty["REVERSE"] = 0 -> "FORWARD"
      [] duty["FORWARD"] = 0 /\ duty["REVERSE"] > 0 -> "REVERSE"
      [] OTHER -> "both"

Actuator == INSTANCE GateActuator WITH position <- status, motor <- motor

(* Queues, ticks and ramp implement the actuator the node relies on: every *)
(* turn goes through a stopped motor, every position is reported only      *)
(* after the motor was driven there, and a movement that has begun is      *)
(* reported before anything else happens to it.                            *)
ImplementsActuator == Actuator!Spec

(* From some time on the timer expires punctually. *)
PunctualAtLast == <>[][TimerExpires => CaughtUp]_vars

(* Every movement ends: once the clients are silent and the ticks arrive   *)
(* in time, the lock comes to rest and stays there with the motor off,     *)
(* whatever late ticks have left in the queues, unless lock_task and the   *)
(* daemon block each other for good.                                       *)
Settles ==
    PunctualAtLast =>
        \/ <>[](status \in Resting /\ duty = lock_drive_idle)
        \/ <>[]CircularWait

(* A command that finds the lock at rest with nothing pending, and is the  *)
(* last one sent, takes the lock to its position for good, however late or *)
(* early its ticks are.                                                    *)
UndisturbedCommandSucceeds ==
    \A c \in Commands :
        (/\ status \in Resting
         /\ sent = MaxCommands
         /\ Work = 1
         /\ command_queue = <<[command |-> c, from |-> "client"]>>)
        ~> [](get_lock_status = c)

-----------------------------------------------------------------------------
(* What a comment of linear_actuator.c says and the code does not do.      *)

(* "Each timer fire advances the speed ramp by one step": a tick neither   *)
(* starts a movement of a lock that has come to rest nor turns one around. *)
TickOnlyAdvances ==
    [][\A c \in Commands :
          StartMovement(c) \/ ReverseMovement(c) => Head(command_queue).from = "client"]_vars
===============================================================================
