--------------------------- MODULE LinearLockProofs ---------------------------
(***************************************************************************)
(* Proofs about LinearLock, for queues of any capacity and any number of   *)
(* commands.  MotionInv and the work count are inductive relative to       *)
(* TypeOK; the properties of the runs and the refinement follow from them. *)
(* SoloInv shows that a single command leaves no stale tick behind.        *)
(***************************************************************************)
EXTENDS LinearLock, TLAPS

(* A speed of at most 100% fits the 13-bit channel, and only a speed of 0  *)
(* switches the channel off (speed_to_duty of lock_drive.c).               *)
LEMMA SpeedToDuty ==
    /\ \A s \in uint8 : speed_to_duty(s) \in Duties
    /\ \A s \in uint8 : s > 0 => speed_to_duty(s) > 0
    /\ speed_to_duty(0) = 0
BY DEF speed_to_duty, uint8, Duties

(* What taking a command leaves in the queue. *)
LEMMA ReceiveFacts ==
    ASSUME QueueTypeOK, NEW c, Receive(c)
    PROVE  QueueTypeOK' /\ Len(command_queue') = Len(command_queue) - 1
<1>1. command_queue \in Seq(Entries) /\ command_queue # <<>> /\ Len(command_queue) <= QUEUE_SIZE
  BY DEF QueueTypeOK, Receive
<1>2. command_queue' = Tail(command_queue)
  BY DEF Receive
<1>3. Len(command_queue) \in Nat \ {0}
  BY <1>1
<1> QED
  BY <1>1, <1>2, <1>3, LockAssumption DEF LockAssumption, QueueTypeOK

(* What queueing a command leaves in the queue. *)
LEMMA AppendFacts ==
    ASSUME QueueTypeOK, NEW e \in Entries, Len(command_queue) < QUEUE_SIZE,
           command_queue' = Append(command_queue, e)
    PROVE  QueueTypeOK' /\ Len(command_queue') = Len(command_queue) + 1
<1>1. command_queue \in Seq(Entries) /\ Len(command_queue) \in Nat
  BY DEF QueueTypeOK
<1> QED
  BY <1>1, LockAssumption DEF LockAssumption, QueueTypeOK

(* A step that leaves the motion parameters alone leaves each one alone. *)
LEMMA MotionUnchanged ==
    ASSUME UNCHANGED motion
    PROVE  UNCHANGED status /\ UNCHANGED speed /\ UNCHANGED speed_increment
           /\ UNCHANGED current_direction /\ UNCHANGED current_command /\ UNCHANGED duty
BY DEF motion

(* Driving one channel, or none, leaves a pair of 13-bit duties. *)
LEMMA DriveType ==
    ASSUME duty \in [Directions -> Duties]
    PROVE  /\ lock_drive_idle \in [Directions -> Duties]
           /\ \A d \in Directions, s \in uint8 : lock_drive(d, s) \in [Directions -> Duties]
<1>1. lock_drive_idle \in [Directions -> Duties]
  BY DEF lock_drive_idle, Duties
<1>2. ASSUME NEW d \in Directions, NEW s \in uint8
      PROVE  lock_drive(d, s) \in [Directions -> Duties]
  <2>1. speed_to_duty(s) \in Duties
    BY SpeedToDuty
  <2> QED
    BY <2>1 DEF lock_drive
<1> QED
  BY <1>1, <1>2

(* One step of the ramp keeps the motion parameters well typed. *)
LEMMA RampType ==
    ASSUME MotionTypeOK, task = "receive", NEW c \in Commands,
           RampPeak(c) \/ RampEnd(c) \/ RampHold(c) \/ RampStep(c),
           UNCHANGED <<current_direction, current_command>>
    PROVE  MotionTypeOK' /\ task' \in {"receive", "hold", "start"}
<1>1. NextSpeed \in uint8
  BY DEF MotionTypeOK, NextSpeed, uint8
<1>a. duty \in [Directions -> Duties] /\ current_direction \in Directions
  BY DEF MotionTypeOK
<1>b. /\ lock_drive_idle \in [Directions -> Duties]
      /\ lock_drive(current_direction, NextSpeed) \in [Directions -> Duties]
  BY <1>1, <1>a, DriveType
<1>2. CASE RampPeak(c)
  BY <1>1, <1>2, <1>b DEF MotionTypeOK, RampPeak, Deceleration
<1>3. CASE RampEnd(c)
  BY <1>3, <1>b DEF MotionTypeOK, RampEnd, Reached, Resting, uint8
<1>4. CASE RampHold(c)
  BY <1>1, <1>4 DEF MotionTypeOK, RampHold
<1>5. CASE RampStep(c)
  BY <1>1, <1>5, <1>b DEF MotionTypeOK, RampStep
<1> QED
  BY <1>2, <1>3, <1>4, <1>5

(* TypeOK is inductive. *)
LEMMA TypeStep ==
    ASSUME TypeOK, [Next]_vars
    PROVE  TypeOK'
<1> USE LockAssumption DEF LockAssumption
<1>0. QueueTypeOK /\ MotionTypeOK /\ TaskTypeOK
  BY DEF TypeOK
<1>a. ASSUME UNCHANGED motion PROVE MotionTypeOK'
  BY <1>0, <1>a, MotionUnchanged DEF MotionTypeOK
<1>b. ASSUME UNCHANGED command_queue PROVE QueueTypeOK'
  BY <1>0, <1>b DEF QueueTypeOK
<1>1. ASSUME NEW c \in Commands, SendCommand(c) PROVE TypeOK'
  <2>1. [command |-> c, from |-> "client"] \in Entries
    BY DEF Entries, Origins
  <2>2. QueueTypeOK'
    BY <1>0, <1>1, <2>1, AppendFacts DEF SendCommand
  <2>3. TaskTypeOK' /\ UNCHANGED motion
    BY <1>0, <1>1 DEF SendCommand, TaskTypeOK
  <2> QED
    BY <1>a, <2>2, <2>3 DEF TypeOK
<1>2. ASSUME NEW c \in Commands, StartMovement(c) \/ ReverseMovement(c) PROVE TypeOK'
  <2>1. /\ Receive(c) /\ InitMovement(c) /\ task' \in {"publish", "start"}
        /\ status' \in {status, Moving(c)}
        /\ UNCHANGED <<timer, timer_queue, daemon, sent>>
    BY <1>2 DEF StartMovement, ReverseMovement
  <2>2. duty' \in [Directions -> Duties]
    <3>1. DirectionOf(c) \in Directions /\ 20 \in uint8
      BY DEF DirectionOf, Directions, uint8
    <3>2. duty \in [Directions -> Duties]
      BY <1>0 DEF MotionTypeOK
    <3>3. /\ lock_drive_idle \in [Directions -> Duties]
          /\ lock_drive(DirectionOf(c), 20) \in [Directions -> Duties]
      BY <3>1, <3>2, DriveType
    <3> QED
      BY <1>2, <3>3 DEF StartMovement, ReverseMovement
  <2>3. MotionTypeOK'
    BY <1>0, <2>1, <2>2
    DEF MotionTypeOK, InitMovement, MovingStates, Directions, Moving, DirectionOf, uint8
  <2>4. TaskTypeOK'
    BY <1>0, <2>1 DEF TaskTypeOK
  <2> QED
    BY <1>0, <2>1, <2>3, <2>4, ReceiveFacts DEF TypeOK
<1>3. ASSUME NEW c \in Commands, ContinueMovement(c) PROVE TypeOK'
  <2>1. /\ Receive(c) /\ task = "receive"
        /\ RampPeak(c) \/ RampEnd(c) \/ RampHold(c) \/ RampStep(c)
        /\ UNCHANGED <<current_direction, current_command, timer, timer_queue, daemon, sent>>
    BY <1>3 DEF ContinueMovement, Receive
  <2>2. MotionTypeOK' /\ task' \in {"receive", "hold", "start"}
    BY <1>0, <2>1, RampType
  <2>3. TaskTypeOK'
    BY <1>0, <2>1, <2>2 DEF TaskTypeOK
  <2> QED
    BY <1>0, <2>1, <2>2, <2>3, ReceiveFacts DEF TypeOK
<1>4. CASE HoldElapsed
  <2>1. MotionTypeOK'
    <3>1. /\ duty \in [Directions -> Duties]
          /\ current_direction \in Directions
          /\ speed \in uint8
      BY <1>0 DEF MotionTypeOK
    <3>2. lock_drive(current_direction, speed) \in [Directions -> Duties]
      BY <3>1, DriveType
    <3> QED
      BY <1>0, <1>4, <3>2 DEF HoldElapsed, MotionTypeOK
  <2>2. TaskTypeOK' /\ UNCHANGED command_queue
    BY <1>0, <1>4 DEF HoldElapsed, TaskTypeOK
  <2> QED
    BY <1>b, <2>1, <2>2 DEF TypeOK
<1>5. CASE xTimerStart
  <2>1. TaskTypeOK' /\ UNCHANGED command_queue /\ UNCHANGED motion
    BY <1>0, <1>5 DEF xTimerStart, TaskTypeOK
  <2> QED
    BY <1>a, <1>b, <2>1 DEF TypeOK
<1>6. CASE ServeTimerStart
  <2>1. TaskTypeOK' /\ UNCHANGED command_queue /\ UNCHANGED motion
    BY <1>0, <1>6 DEF ServeTimerStart, TaskTypeOK
  <2> QED
    BY <1>a, <1>b, <2>1 DEF TypeOK
<1>7. CASE TimerExpires
  <2>1. TaskTypeOK' /\ UNCHANGED command_queue /\ UNCHANGED motion
    BY <1>0, <1>7 DEF TimerExpires, TaskTypeOK, MotionTypeOK
  <2> QED
    BY <1>a, <1>b, <2>1 DEF TypeOK
<1>8. CASE lock_timer_callback_handler
  <2>1. [command |-> daemon, from |-> "timer"] \in Entries
    BY <1>0, <1>8 DEF Entries, Origins, lock_timer_callback_handler, TaskTypeOK
  <2>2. QueueTypeOK'
    BY <1>0, <1>8, <2>1, AppendFacts DEF lock_timer_callback_handler
  <2>3. TaskTypeOK' /\ UNCHANGED motion
    BY <1>0, <1>8 DEF lock_timer_callback_handler, TaskTypeOK
  <2> QED
    BY <1>a, <2>2, <2>3 DEF TypeOK
<1>9. CASE UNCHANGED vars
  <2>1. TaskTypeOK' /\ UNCHANGED command_queue /\ UNCHANGED motion
    BY <1>0, <1>9 DEF vars, TaskTypeOK
  <2> QED
    BY <1>a, <1>b, <2>1 DEF TypeOK
<1>10. CASE PublishMovement
  <2>1. status' \in MovingStates
    BY <1>10 DEF PublishMovement, Moving, MovingStates
  <2>2. MotionTypeOK' /\ TaskTypeOK' /\ UNCHANGED command_queue
    BY <1>0, <1>10, <2>1 DEF PublishMovement, MotionTypeOK, TaskTypeOK
  <2> QED
    BY <1>b, <2>2 DEF TypeOK
<1> QED
  BY <1>1, <1>2, <1>3, <1>4, <1>5, <1>6, <1>7, <1>8, <1>9, <1>10
  DEF Next, set_motor_open, set_motor_close, lock_task, timer_daemon, Commands

(* Every value the lock keeps has its type in every reachable state,       *)
(* the duties of the PWM channels and both queue lengths included.         *)
THEOREM TypeCorrect == Spec => []TypeOK
<1>1. Init => TypeOK
  <2> SUFFICES ASSUME Init PROVE TypeOK
    OBVIOUS
  <2>1. QueueTypeOK
    BY LockAssumption DEF Init, QueueTypeOK, LockAssumption
  <2>2. MotionTypeOK
    BY DEF Init, MotionTypeOK, Resting, Directions, Commands, uint8, Duties
  <2>3. TaskTypeOK
    BY LockAssumption DEF Init, TaskTypeOK, LockAssumption
  <2> QED
    BY <2>1, <2>2, <2>3 DEF TypeOK
<1> QED
  BY <1>1, TypeStep, PTL DEF Spec
-----------------------------------------------------------------------------
(* Reading a channel after a drive: the driven one carries the new speed,  *)
(* the other one what it carried before; after lock_drive_idle both are 0. *)
LEMMA DriveValue ==
    ASSUME duty \in [Directions -> Duties], NEW c \in Commands, NEW s \in uint8
    PROVE  /\ lock_drive(DirectionOf(c), s)[DirectionOf(c)] = speed_to_duty(s)
           /\ lock_drive(DirectionOf(c), s)[DirectionOf(Opposite(c))]
                = duty[DirectionOf(Opposite(c))]
           /\ lock_drive_idle[DirectionOf(c)] = 0
           /\ lock_drive_idle[DirectionOf(Opposite(c))] = 0
BY DEF lock_drive, lock_drive_idle, Directions, Commands, DirectionOf, Opposite

(* The four movements and rests are told apart by their names. *)
LEMMA StatusNames ==
    /\ \A c \in Commands : /\ Moving(c) \notin Resting
                           /\ Reached(c) \in Resting
                           /\ Moving(c) \in MovingStates
                           /\ Opposite(c) \in Commands
                           /\ DirectionOf(c) \in Directions
    /\ \A c, d \in Commands : /\ Moving(c) = Moving(d) => c = d
                              /\ Reached(c) # Moving(d)
BY DEF Commands, Moving, Reached, Resting, MovingStates, Opposite, DirectionOf, Directions

(* A ramp seen from its next speed: the peak, the end and the steps in     *)
(* between are the only cases, and each leads to the ramp or to its end.   *)
LEMMA RampFacts ==
    ASSUME NEW c \in Commands, <<speed, speed_increment>> \in Ramp(c)
    PROVE  /\ NextSpeed = speed + speed_increment
           /\ NextSpeed \in uint8 /\ speed \in uint8 /\ speed > 0
           /\ NextSpeed <= 100
           /\ NextSpeed > 50 => <<NextSpeed, Deceleration(c)>> \in Ramp(c)
           /\ NextSpeed \in 1..50 => <<NextSpeed, speed_increment>> \in Ramp(c)
           /\ NextSpeed = 0 => speed_increment < 0
           /\ c = "OPEN" /\ NextSpeed \in 1..10 => NextSpeed = 10 /\ speed_increment < 0
<1>1. CASE c = "OPEN"
  BY <1>1 DEF Ramp, NextSpeed, Deceleration, uint8
<1>2. CASE c = "CLOSE"
  BY <1>2 DEF Ramp, NextSpeed, Deceleration, uint8
<1> QED
  BY <1>1, <1>2 DEF Commands

(* While a movement is being started exactly its channel is driven. *)
LEMMA StartDuty ==
    ASSUME StartInv, task = "publish", current_command \in Commands
    PROVE  /\ duty[DirectionOf(current_command)] > 0
           /\ duty[DirectionOf(Opposite(current_command))] = 0
<1>1. speed_to_duty(20) > 0
  BY SpeedToDuty DEF uint8
<1>2. duty = [lock_drive_idle EXCEPT ![DirectionOf(current_command)] = speed_to_duty(20)]
  BY DEF StartInv
<1> QED
  BY <1>1, <1>2 DEF lock_drive_idle, Directions, Commands, DirectionOf, Opposite

(* MotionInv is inductive relative to TypeOK. *)
LEMMA MotionStep ==
    ASSUME TypeOK, MotionInv, [Next]_vars
    PROVE  MotionInv'
<1>0. /\ MotionTypeOK /\ duty \in [Directions -> Duties]
      /\ RestInv /\ StartInv /\ (\A c \in Commands : MovementInv(c)) /\ HoldInv
  BY DEF TypeOK, MotionTypeOK, MotionInv
<1>a. ASSUME UNCHANGED motion, UNCHANGED task PROVE MotionInv'
  <2>1. RestInv' /\ StartInv' /\ HoldInv'
    BY <1>0, <1>a, MotionUnchanged DEF RestInv, StartInv, HoldInv, lock_drive_idle
  <2>2. ASSUME NEW c \in Commands PROVE MovementInv(c)'
    BY <1>0, <1>a, MotionUnchanged DEF MovementInv
  <2> QED
    BY <2>1, <2>2 DEF MotionInv
<1>1. ASSUME NEW c \in Commands, ReverseMovement(c) PROVE MotionInv'
  <2>1. InitMovement(c) /\ status' = Moving(c) /\ task' = "start"
    BY <1>1 DEF ReverseMovement
  <2>2. speed' = 20 /\ speed_increment' = 20
        /\ current_direction' = DirectionOf(c) /\ current_command' = c
    BY <2>1 DEF InitMovement
  <2>3. duty'[DirectionOf(Opposite(c))] = 0
    <3>1. 20 \in uint8
      BY DEF uint8
    <3> QED
      BY <1>0, <1>1, <3>1, DriveValue DEF ReverseMovement
  <2>4. <<speed, speed_increment>>' \in Ramp(c)
    BY <2>2 DEF Ramp
  <2>5. ASSUME NEW d \in Commands PROVE MovementInv(d)'
    <3>1. CASE d = c
      BY <2>1, <2>2, <2>3, <2>4, <3>1 DEF MovementInv
    <3>2. CASE d # c
      BY <2>1, <3>2, StatusNames DEF MovementInv
    <3> QED
      BY <3>1, <3>2
  <2>6. RestInv' /\ StartInv' /\ HoldInv'
    BY <2>1, StatusNames DEF RestInv, StartInv, HoldInv
  <2> QED
    BY <2>5, <2>6 DEF MotionInv
<1>s. ASSUME NEW c \in Commands, StartMovement(c) PROVE MotionInv'
  <2>1. /\ status \in Resting /\ UNCHANGED status /\ task = "receive" /\ task' = "publish"
        /\ speed' = 20 /\ speed_increment' = 20
        /\ current_direction' = DirectionOf(c) /\ current_command' = c
        /\ duty' = lock_drive(DirectionOf(c), 20)
    BY <1>s DEF StartMovement, InitMovement, Receive
  <2>2. duty = lock_drive_idle
    BY <1>0, <2>1 DEF RestInv
  <2>3. duty' = [lock_drive_idle EXCEPT ![DirectionOf(c)] = speed_to_duty(20)]
    BY <2>1, <2>2 DEF lock_drive
  <2>4. StartInv'
    BY <2>1, <2>3 DEF StartInv, lock_drive_idle
  <2>5. RestInv' /\ HoldInv'
    BY <2>1 DEF RestInv, HoldInv
  <2>6. ASSUME NEW d \in Commands PROVE MovementInv(d)'
    BY <2>1, StatusNames DEF MovementInv
  <2> QED
    BY <2>4, <2>5, <2>6 DEF MotionInv
<1>p. CASE PublishMovement
  <2>0. current_command \in Commands /\ <<20, 20>> \in Ramp(current_command)
    BY <1>0 DEF MotionTypeOK, Ramp
  <2>1. /\ status' = Moving(current_command) /\ task' = "start"
        /\ UNCHANGED <<speed, speed_increment, current_direction, current_command, duty>>
        /\ speed = 20 /\ speed_increment = 20
        /\ current_direction = DirectionOf(current_command)
    BY <1>0, <1>p DEF PublishMovement, StartInv
  <2>a. duty[DirectionOf(Opposite(current_command))] = 0
    BY <1>0, <1>p, <2>0, StartDuty DEF PublishMovement
  <2>2. ASSUME NEW d \in Commands PROVE MovementInv(d)'
    <3>1. CASE d = current_command
      BY <2>0, <2>1, <2>a, <3>1 DEF MovementInv
    <3>2. CASE d # current_command
      BY <2>0, <2>1, <3>2, StatusNames DEF MovementInv
    <3> QED
      BY <3>1, <3>2
  <2>3. RestInv' /\ StartInv' /\ HoldInv'
    BY <2>0, <2>1, StatusNames DEF RestInv, StartInv, HoldInv
  <2> QED
    BY <2>2, <2>3 DEF MotionInv
<1>2. ASSUME NEW c \in Commands, ContinueMovement(c) PROVE MotionInv'
  <2>1. /\ status = Moving(c) /\ task = "receive"
        /\ UNCHANGED <<current_direction, current_command>>
        /\ RampPeak(c) \/ RampEnd(c) \/ RampHold(c) \/ RampStep(c)
    BY <1>2 DEF ContinueMovement, Receive
  <2>2. /\ current_command = c /\ current_direction = DirectionOf(c)
        /\ <<speed, speed_increment>> \in Ramp(c)
        /\ duty[DirectionOf(Opposite(c))] = 0
        /\ speed_increment < 0 => duty[DirectionOf(c)] > 0
    BY <1>0, <2>1 DEF MovementInv
  <2>3. NextSpeed \in uint8 /\ NextSpeed \in Nat
    <3>1. NextSpeed \in uint8
      BY <2>2, RampFacts
    <3> QED
      BY <3>1 DEF uint8
  <2>4. CASE RampEnd(c)
    <3>1. status' = Reached(c) /\ duty' = lock_drive_idle /\ task' = "receive"
          /\ current_command' = c
      BY <2>1, <2>2, <2>4 DEF RampEnd
    <3>2. RestInv' /\ StartInv' /\ HoldInv'
      BY <3>1 DEF RestInv, StartInv, HoldInv, lock_drive_idle
    <3>3. ASSUME NEW d \in Commands PROVE MovementInv(d)'
      BY <3>1, StatusNames DEF MovementInv
    <3> QED
      BY <3>2, <3>3 DEF MotionInv
  <2>5. CASE RampPeak(c) \/ RampStep(c)
    <3>1. /\ status' = Moving(c) /\ speed' = NextSpeed /\ task' = "start"
          /\ duty' = lock_drive(DirectionOf(c), NextSpeed)
          /\ NextSpeed > 0
      BY <2>1, <2>2, <2>3, <2>5 DEF RampPeak, RampStep
    <3>2. <<speed', speed_increment'>> \in Ramp(c)
      BY <2>2, <2>5, RampFacts DEF RampPeak, RampStep
    <3>3. duty'[DirectionOf(c)] > 0 /\ duty'[DirectionOf(Opposite(c))] = 0
      BY <1>0, <2>2, <2>3, <3>1, DriveValue, SpeedToDuty
    <3>4. ASSUME NEW d \in Commands PROVE MovementInv(d)'
      <4>1. CASE d = c
        BY <2>1, <2>2, <3>1, <3>2, <3>3, <4>1 DEF MovementInv
      <4>2. CASE d # c
        BY <3>1, <4>2, StatusNames DEF MovementInv
      <4> QED
        BY <4>1, <4>2
    <3>5. RestInv' /\ StartInv' /\ HoldInv'
      BY <3>1, StatusNames DEF RestInv, StartInv, HoldInv
    <3> QED
      BY <3>4, <3>5 DEF MotionInv
  <2>6. CASE RampHold(c)
    <3>1. /\ c = "OPEN" /\ status' = Moving(c) /\ speed' = NextSpeed /\ task' = "hold"
          /\ UNCHANGED speed_increment /\ UNCHANGED duty
          /\ NextSpeed \in 1..10
      BY <2>1, <2>6 DEF RampHold
    <3>2. NextSpeed = 10 /\ speed_increment < 0 /\ NextSpeed \in 1..50
      <4>1. NextSpeed = 10 /\ speed_increment < 0
        BY <2>2, <3>1, RampFacts
      <4> QED
        BY <4>1
    <3>3. <<speed', speed_increment'>> \in Ramp(c)
      BY <2>2, <3>1, <3>2, RampFacts
    <3>4. ASSUME NEW d \in Commands PROVE MovementInv(d)'
      <4>1. CASE d = c
        BY <2>1, <2>2, <3>1, <3>3, <4>1 DEF MovementInv
      <4>2. CASE d # c
        BY <3>1, <4>2, StatusNames DEF MovementInv
      <4> QED
        BY <4>1, <4>2
    <3>5. RestInv' /\ StartInv' /\ HoldInv'
      BY <3>1, <3>2, StatusNames DEF RestInv, StartInv, HoldInv, Moving
    <3> QED
      BY <3>4, <3>5 DEF MotionInv
  <2> QED
    BY <2>1, <2>4, <2>5, <2>6
<1>3. CASE HoldElapsed
  <2>1. /\ status = Moving("OPEN") /\ "OPEN" \in Commands /\ speed = 10 /\ speed \in uint8
        /\ task' = "start"
        /\ duty' = lock_drive(current_direction, speed)
        /\ UNCHANGED <<status, speed, speed_increment, current_direction, current_command>>
    BY <1>0, <1>3 DEF HoldElapsed, HoldInv, Moving, Commands, MotionTypeOK
  <2>2. /\ current_command = "OPEN" /\ current_direction = DirectionOf("OPEN")
        /\ <<speed, speed_increment>> \in Ramp("OPEN")
        /\ duty[DirectionOf(Opposite("OPEN"))] = 0
    BY <1>0, <2>1 DEF MovementInv
  <2>3. duty'[DirectionOf("OPEN")] > 0 /\ duty'[DirectionOf(Opposite("OPEN"))] = 0
    BY <1>0, <2>1, <2>2, DriveValue, SpeedToDuty
  <2>4. ASSUME NEW d \in Commands PROVE MovementInv(d)'
    <3>1. CASE d = "OPEN"
      BY <2>1, <2>2, <2>3, <3>1 DEF MovementInv
    <3>2. CASE d # "OPEN"
      BY <2>1, <3>2, StatusNames DEF MovementInv
    <3> QED
      BY <3>1, <3>2
  <2>5. RestInv' /\ StartInv' /\ HoldInv'
    BY <2>1, StatusNames DEF RestInv, StartInv, HoldInv
  <2> QED
    BY <2>4, <2>5 DEF MotionInv
<1>4. CASE xTimerStart
  <2>1. task = "start" /\ task' = "receive" /\ UNCHANGED motion
    BY <1>4 DEF xTimerStart
  <2>2. RestInv' /\ StartInv' /\ HoldInv'
    BY <1>0, <2>1, MotionUnchanged DEF RestInv, StartInv, HoldInv, lock_drive_idle
  <2>3. ASSUME NEW c \in Commands PROVE MovementInv(c)'
    BY <1>0, <2>1, MotionUnchanged DEF MovementInv
  <2> QED
    BY <2>2, <2>3 DEF MotionInv
<1>5. CASE \/ set_motor_open \/ set_motor_close \/ timer_daemon \/ UNCHANGED vars
  <2>1. UNCHANGED motion /\ UNCHANGED task
    BY <1>5 DEF set_motor_open, set_motor_close, SendCommand, timer_daemon, ServeTimerStart,
                TimerExpires, lock_timer_callback_handler, vars
  <2> QED
    BY <1>a, <2>1
<1> QED
  BY <1>1, <1>s, <1>p, <1>2, <1>3, <1>4, <1>5 DEF Next, lock_task

(* The motion parameters are always those of one movement. *)
THEOREM MotionCorrect == Spec => []MotionInv
<1>1. Init => MotionInv
  <2> SUFFICES ASSUME Init PROVE MotionInv
    OBVIOUS
  <2>1. RestInv /\ StartInv /\ HoldInv
    BY DEF Init, RestInv, StartInv, HoldInv, lock_drive_idle, Reached
  <2>2. ASSUME NEW c \in Commands PROVE MovementInv(c)
    BY DEF Init, MovementInv, Moving
  <2> QED
    BY <2>1, <2>2 DEF MotionInv
<1> QED
  BY <1>1, MotionStep, TypeCorrect, PTL DEF Spec

(* For queues of any capacity and any number of commands, the two inputs   *)
(* of the motor bridge are never driven at once, and a lock at rest drives *)
(* neither unless a movement is just being started.                        *)
THEOREM NoShootThroughHolds == Spec => []NoShootThrough
<1>1. TypeOK /\ MotionInv => NoShootThrough
  <2> SUFFICES ASSUME TypeOK, MotionInv PROVE NoShootThrough
    OBVIOUS
  <2>1. status \in Resting \cup MovingStates
    BY DEF TypeOK, MotionTypeOK
  <2>2. CASE status \in Resting
    <3>1. CASE task = "publish"
      <4>1. current_command \in Commands /\ duty[DirectionOf(Opposite(current_command))] = 0
        BY <3>1, StartDuty DEF TypeOK, MotionTypeOK, MotionInv
      <4>2. duty["FORWARD"] = 0 \/ duty["REVERSE"] = 0
        BY <4>1 DEF DirectionOf, Opposite, Commands
      <4> QED
        BY <3>1, <4>2 DEF NoShootThrough
    <3>2. CASE task # "publish"
      BY <2>2, <3>2 DEF MotionInv, RestInv, NoShootThrough, lock_drive_idle, Directions
    <3> QED
      BY <3>1, <3>2
  <2>3. CASE status \in MovingStates
    <3>1. PICK c \in Commands : status = Moving(c)
      BY <2>3 DEF MovingStates, Commands, Moving
    <3>2. duty[DirectionOf(Opposite(c))] = 0
      BY <3>1 DEF MotionInv, MovementInv
    <3>3. duty["FORWARD"] = 0 \/ duty["REVERSE"] = 0
      BY <3>2 DEF DirectionOf, Opposite, Commands
    <3>4. status \notin Resting
      BY <3>1, StatusNames
    <3> QED
      BY <3>3, <3>4 DEF NoShootThrough
  <2> QED
    BY <2>1, <2>2, <2>3
<1> QED
  BY <1>1, TypeCorrect, MotionCorrect, PTL

(* The uint8_t speed never wraps: every ramp meets zero exactly. *)
THEOREM SpeedNeverWrapsHolds == Spec => []SpeedNeverWraps
<1>1. TypeOK /\ MotionInv => SpeedNeverWraps
  <2> SUFFICES ASSUME MotionInv, status \in MovingStates
               PROVE  speed + speed_increment \in 0..100
    BY DEF SpeedNeverWraps
  <2>1. PICK c \in Commands : status = Moving(c)
    BY DEF MovingStates, Commands, Moving
  <2>2. <<speed, speed_increment>> \in Ramp(c)
    BY <2>1 DEF MotionInv, MovementInv
  <2>3. CASE c = "OPEN"
    BY <2>2, <2>3 DEF Ramp
  <2>4. CASE c = "CLOSE"
    BY <2>2, <2>4 DEF Ramp
  <2> QED
    BY <2>3, <2>4 DEF Commands
<1> QED
  BY <1>1, TypeCorrect, MotionCorrect, PTL

(* A status other than UNDEFINED is reported only with the motor off and   *)
(* for the end of the last movement, or while lock_task has powered the    *)
(* motor at 20% and is about to write the status.                          *)
THEOREM StatusIsSettledHolds == Spec => []StatusIsSettled
<1>1. TypeOK /\ MotionInv => StatusIsSettled
  <2> SUFFICES ASSUME TypeOK, MotionInv, get_lock_status # "UNDEFINED"
               PROVE  \/ duty = lock_drive_idle /\ get_lock_status = current_command
                      \/ /\ task = "publish"
                         /\ duty = [lock_drive_idle EXCEPT
                                      ![current_direction] = speed_to_duty(20)]
    BY DEF StatusIsSettled
  <2>1. /\ status \in Resting /\ current_command \in Commands
        /\ RestInv /\ StartInv
        /\ duty \in [Directions -> Duties]
    BY DEF TypeOK, MotionTypeOK, MotionInv, get_lock_status, Resting, MovingStates
  <2>2. CASE task # "publish"
    BY <2>1, <2>2 DEF RestInv, get_lock_status, Resting, Commands, Reached
  <2>3. CASE task = "publish"
    BY <2>1, <2>3 DEF StartInv
  <2> QED
    BY <2>2, <2>3
<1> QED
  BY <1>1, TypeCorrect, MotionCorrect, PTL

-----------------------------------------------------------------------------
(***************************************************************************)
(* Pending work.  A client command is the only source of a unit of work;   *)
(* every other step moves a unit on, merges two (a timer restarted while   *)
(* active) or, at the end of a movement, uses one up.                      *)
(***************************************************************************)
MoverHasWork == status \in MovingStates => Work > 0

WorkInv == WorkIsBounded /\ MoverHasWork

(* WorkInv is inductive relative to TypeOK. *)
LEMMA WorkStep ==
    ASSUME TypeOK, TypeOK', WorkInv, [Next]_vars
    PROVE  WorkInv'
<1>0. /\ Len(command_queue) \in Nat /\ Len(command_queue)' \in Nat
      /\ timer_queue \in Nat /\ sent \in Nat
      /\ task \in {"receive", "publish", "hold", "start"} /\ timer \in {"dormant", "active"}
      /\ QueueTypeOK
  BY LockAssumption DEF TypeOK, QueueTypeOK, TaskTypeOK, LockAssumption
<1>1. ASSUME NEW c \in Commands, SendCommand(c) PROVE WorkInv'
  <2>1. [command |-> c, from |-> "client"] \in Entries
    BY DEF Entries, Origins
  <2>2. Len(command_queue') = Len(command_queue) + 1
    BY <1>0, <1>1, <2>1, AppendFacts DEF SendCommand
  <2>3. /\ UNCHANGED <<task, timer, timer_queue, daemon>> /\ sent' = sent + 1
    BY <1>1 DEF SendCommand
  <2> QED
    BY <1>0, <2>2, <2>3 DEF WorkInv, WorkIsBounded, MoverHasWork, Work, One
<1>2. ASSUME NEW c \in Commands,
             StartMovement(c) \/ ReverseMovement(c) \/ ContinueMovement(c)
      PROVE  WorkInv'
  <2>1. Receive(c) /\ task = "receive" /\ UNCHANGED <<timer, timer_queue, daemon, sent>>
    BY <1>2 DEF StartMovement, ReverseMovement, ContinueMovement, Receive
  <2>2. Len(command_queue') = Len(command_queue) - 1
    BY <1>0, <2>1, ReceiveFacts
  <2>3. WorkIsBounded'
    BY <1>0, <2>1, <2>2 DEF WorkInv, WorkIsBounded, Work, One
  <2>4. task' # "receive" \/ status' \notin MovingStates
    BY <1>2 DEF StartMovement, ReverseMovement, ContinueMovement, RampPeak, RampEnd, RampHold,
                RampStep, Reached, MovingStates
  <2>5. MoverHasWork'
    BY <1>0, <2>1, <2>4 DEF MoverHasWork, Work, One
  <2> QED
    BY <2>3, <2>5 DEF WorkInv
<1>3. CASE HoldElapsed
  BY <1>0, <1>3 DEF HoldElapsed, WorkInv, WorkIsBounded, MoverHasWork, Work, One
<1>4. CASE xTimerStart
  BY <1>0, <1>4, MotionUnchanged
  DEF xTimerStart, WorkInv, WorkIsBounded, MoverHasWork, Work, One
<1>5. CASE ServeTimerStart
  BY <1>0, <1>5, MotionUnchanged
  DEF ServeTimerStart, WorkInv, WorkIsBounded, MoverHasWork, Work, One
<1>6. CASE TimerExpires
  <2>1. current_command # "none"
    BY DEF TypeOK, MotionTypeOK, Commands
  <2> QED
    BY <1>0, <1>6, <2>1, MotionUnchanged
    DEF TimerExpires, WorkInv, WorkIsBounded, MoverHasWork, Work, One
<1>7. CASE lock_timer_callback_handler
  <2>1. [command |-> daemon, from |-> "timer"] \in Entries
    BY <1>7 DEF TypeOK, TaskTypeOK, Entries, Origins, lock_timer_callback_handler
  <2>2. Len(command_queue') = Len(command_queue) + 1
    BY <1>0, <1>7, <2>1, AppendFacts DEF lock_timer_callback_handler
  <2>3. /\ daemon # "none" /\ daemon' = "none"
        /\ UNCHANGED <<task, timer, timer_queue, sent>>
    BY <1>7 DEF lock_timer_callback_handler
  <2> QED
    BY <1>0, <2>2, <2>3 DEF WorkInv, WorkIsBounded, MoverHasWork, Work, One
<1>9. CASE PublishMovement
  BY <1>0, <1>9 DEF PublishMovement, WorkInv, WorkIsBounded, MoverHasWork, Work, One
<1>8. CASE UNCHANGED vars
  BY <1>0, <1>8, MotionUnchanged
  DEF vars, WorkInv, WorkIsBounded, MoverHasWork, Work, One
<1> QED
  BY <1>1, <1>2, <1>3, <1>4, <1>5, <1>6, <1>7, <1>8, <1>9
  DEF Next, set_motor_open, set_motor_close, lock_task, timer_daemon, Commands

(* Both halves of the work count hold in every reachable state. *)
THEOREM WorkCorrect == Spec => []WorkInv
<1>1. Init => WorkInv
  BY DEF Init, WorkInv, WorkIsBounded, MoverHasWork, Work, One, MovingStates
<1> QED
  BY <1>1, WorkStep, TypeCorrect, PTL DEF Spec

(* Nobody leaves the motor running with nothing pending to stop it. *)
THEOREM MotorNeverStrandedHolds == Spec => []MotorNeverStranded
<1>1. TypeOK /\ MotionInv /\ MoverHasWork => MotorNeverStranded
  <2> SUFFICES ASSUME TypeOK, MotionInv, MoverHasWork,
                      status \notin MovingStates, duty # lock_drive_idle
               PROVE  Work > 0
    BY DEF MotorNeverStranded, MoverHasWork
  <2>1. task # "receive"
    BY DEF TypeOK, MotionTypeOK, MotionInv, RestInv
  <2>2. Len(command_queue) \in Nat /\ timer_queue \in Nat
    BY LockAssumption DEF TypeOK, QueueTypeOK, TaskTypeOK, LockAssumption
  <2> QED
    BY <2>1, <2>2 DEF Work, One
<1> QED
  BY <1>1, TypeCorrect, MotionCorrect, WorkCorrect, PTL DEF WorkInv

(* Ticks never multiply: pending work is bounded by the commands sent. *)
THEOREM WorkIsBoundedHolds == Spec => []WorkIsBounded
BY WorkCorrect, PTL DEF WorkInv

(* lock_task and the timer daemon can block each other only after the      *)
(* clients sent enough commands to fill both queues and occupy both tasks. *)
THEOREM NoEarlyCircularWaitHolds == Spec => []NoEarlyCircularWait
<1>1. TypeOK /\ WorkIsBounded => NoEarlyCircularWait
  <2> SUFFICES ASSUME TypeOK, WorkIsBounded, CircularWait
               PROVE  ~(sent < QUEUE_SIZE + TIMER_QUEUE_LENGTH + 2)
    BY DEF NoEarlyCircularWait
  <2>1. sent \in Nat /\ timer \in {"dormant", "active"}
    BY LockAssumption DEF TypeOK, TaskTypeOK, LockAssumption
  <2> QED
    BY <2>1, LockAssumption DEF WorkIsBounded, Work, One, CircularWait, LockAssumption
<1> QED
  BY <1>1, TypeCorrect, WorkIsBoundedHolds, PTL
-----------------------------------------------------------------------------
(***************************************************************************)
(* A command on its own.  TickOnlyAdvances fails (a run of LinearLock      *)
(* shows it); what follows says where: two commands are needed.  As long   *)
(* as the clients sent no more than one, every tick, wherever it is on its *)
(* way from xTimerStart to the queue, belongs to the movement under way.   *)
(***************************************************************************)
TicksOfTheMovement ==
    /\ \A i \in 1..Len(command_queue) :
          command_queue[i].from = "timer" => status = Moving(command_queue[i].command)
    /\ daemon # "none" => status = Moving(daemon)
    /\ timer = "active" => status \in MovingStates
    /\ timer_queue > 0 => status \in MovingStates
    /\ task \in {"hold", "start"} => status \in MovingStates

SoloInv == sent <= 1 => TicksOfTheMovement

(* TickOnlyAdvances for a single command. *)
LoneTickOnlyAdvances ==
    [][sent <= 1 =>
         \A c \in Commands :
            StartMovement(c) \/ ReverseMovement(c) => Head(command_queue).from = "client"]_vars

(* The unit of work of a single command is in one place at a time. *)
LEMMA OneUnitOfWork ==
    ASSUME TypeOK, Work <= 1
    PROVE  /\ Len(command_queue) \in {0, 1} /\ timer_queue \in {0, 1}
           /\ Len(command_queue) = 1 =>
                timer_queue = 0 /\ timer # "active" /\ daemon = "none" /\ task = "receive"
           /\ daemon # "none" =>
                /\ Len(command_queue) = 0 /\ timer_queue = 0
                /\ timer # "active" /\ task = "receive"
<1>1. Len(command_queue) \in Nat /\ timer_queue \in Nat
  BY LockAssumption DEF TypeOK, QueueTypeOK, TaskTypeOK, LockAssumption
<1>2. One(timer = "active") \in {0, 1} /\ One(daemon # "none") \in {0, 1}
      /\ One(task # "receive") \in {0, 1}
  BY DEF One
<1>3. Len(command_queue) \in {0, 1} /\ timer_queue \in {0, 1}
  <2>1. Len(command_queue) + timer_queue <= 1
    BY <1>1, <1>2 DEF Work
  <2>2. \A m, n \in Nat : m + n <= 1 => m \in {0, 1} /\ n \in {0, 1}
    OBVIOUS
  <2> QED
    BY <1>1, <2>1, <2>2
<1>4. ASSUME Len(command_queue) = 1
      PROVE  timer_queue = 0 /\ timer # "active" /\ daemon = "none" /\ task = "receive"
  <2>1. /\ timer_queue = 0 /\ One(timer = "active") = 0 /\ One(daemon # "none") = 0
        /\ One(task # "receive") = 0
    BY <1>1, <1>2, <1>4 DEF Work
  <2> QED
    BY <2>1 DEF One
<1>5. ASSUME daemon # "none"
      PROVE  /\ Len(command_queue) = 0 /\ timer_queue = 0
             /\ timer # "active" /\ task = "receive"
  <2>1. One(daemon # "none") = 1
    BY <1>5 DEF One
  <2>2. /\ Len(command_queue) = 0 /\ timer_queue = 0 /\ One(timer = "active") = 0
        /\ One(task # "receive") = 0
    BY <1>1, <1>2, <2>1 DEF Work
  <2> QED
    BY <2>2 DEF One
<1> QED
  BY <1>3, <1>4, <1>5

(* Before the first command there is no work at all. *)
LEMMA NoWorkYet ==
    ASSUME TypeOK, Work <= 0
    PROVE  /\ command_queue = <<>> /\ timer_queue = 0
           /\ timer # "active" /\ daemon = "none" /\ task = "receive"
<1>1. Len(command_queue) \in Nat /\ timer_queue \in Nat /\ command_queue \in Seq(Entries)
  BY LockAssumption DEF TypeOK, QueueTypeOK, TaskTypeOK, LockAssumption
<1>2. Len(command_queue) = 0
  BY <1>1 DEF Work, One
<1>3. command_queue = <<>>
  BY <1>1, <1>2
<1> QED
  BY <1>1, <1>3 DEF Work, One

(* SoloInv is inductive relative to the type, the motion and the work count. *)
LEMMA SoloStep ==
    ASSUME TypeOK, TypeOK', MotionInv, MotionInv', WorkIsBounded, SoloInv, [Next]_vars
    PROVE  SoloInv'
<1> SUFFICES ASSUME sent' <= 1 PROVE TicksOfTheMovement'
  BY DEF SoloInv
<1>0. /\ command_queue \in Seq(Entries) /\ sent \in Nat /\ timer_queue \in Nat
      /\ \A c \in Commands : MovementInv(c)
      /\ status \in Resting \cup MovingStates
  BY LockAssumption
  DEF TypeOK, QueueTypeOK, MotionTypeOK, TaskTypeOK, LockAssumption, MotionInv
<1>1. ASSUME NEW c \in Commands, SendCommand(c) PROVE TicksOfTheMovement'
  <2>1. sent = 0
    BY <1>0, <1>1 DEF SendCommand
  <2>2. /\ command_queue = <<>> /\ timer_queue = 0
        /\ timer # "active" /\ daemon = "none" /\ task = "receive"
    <3>1. Work <= 0
      BY <2>1 DEF WorkIsBounded
    <3> QED
      BY <3>1, NoWorkYet
  <2>3. command_queue' = <<[command |-> c, from |-> "client"]>>
    BY <1>1, <2>2 DEF SendCommand
  <2>4. UNCHANGED <<task, timer, timer_queue, daemon>>
    BY <1>1 DEF SendCommand
  <2> QED
    BY <2>2, <2>3, <2>4 DEF TicksOfTheMovement
<1>a. ASSUME UNCHANGED sent
      PROVE  TicksOfTheMovement /\ Work <= 1
  BY <1>0, <1>a DEF SoloInv, WorkIsBounded, Work, One
<1>2. ASSUME NEW c \in Commands,
             StartMovement(c) \/ ReverseMovement(c) \/ ContinueMovement(c)
      PROVE  TicksOfTheMovement'
  <2>1. /\ Receive(c) /\ task = "receive" /\ command_queue # <<>>
        /\ UNCHANGED <<timer, timer_queue, daemon, sent>>
    BY <1>2 DEF StartMovement, ReverseMovement, ContinueMovement, Receive
  <2>2. Len(command_queue) = 1 /\ Len(command_queue') = 0
    <3>1. Len(command_queue) \in {0, 1}
      BY <1>a, <2>1, OneUnitOfWork
    <3>2. Len(command_queue) # 0
      BY <1>0, <2>1
    <3>3. Len(command_queue') = Len(command_queue) - 1
      BY <2>1, ReceiveFacts DEF TypeOK
    <3> QED
      BY <3>1, <3>2, <3>3
  <2>3. timer_queue = 0 /\ timer # "active" /\ daemon = "none"
    BY <1>a, <2>1, <2>2, OneUnitOfWork
  <2>4. task' \in {"hold", "start"} => status' \in MovingStates
    <3>1. CASE StartMovement(c) \/ ReverseMovement(c)
      BY <3>1, StatusNames DEF StartMovement, ReverseMovement
    <3>2. CASE ContinueMovement(c)
      BY <2>1, <3>2, StatusNames
      DEF ContinueMovement, RampPeak, RampEnd, RampHold, RampStep
    <3> QED
      BY <1>2, <3>1, <3>2
  <2> QED
    BY <2>1, <2>2, <2>3, <2>4 DEF TicksOfTheMovement
<1>3. CASE HoldElapsed \/ xTimerStart \/ ServeTimerStart
  <2>1. UNCHANGED <<command_queue, status, daemon, sent>>
    BY <1>3, MotionUnchanged DEF HoldElapsed, xTimerStart, ServeTimerStart
  <2>2. TicksOfTheMovement
    BY <1>a, <2>1
  <2>3. status \in MovingStates
    BY <1>3, <2>2 DEF TicksOfTheMovement, HoldElapsed, xTimerStart, ServeTimerStart
  <2> QED
    BY <2>1, <2>2, <2>3 DEF TicksOfTheMovement
<1>4. CASE TimerExpires
  <2>1. /\ UNCHANGED <<command_queue, status, current_command, task, timer_queue, sent>>
        /\ timer = "active" /\ timer' = "dormant" /\ daemon' = current_command
    BY <1>4, MotionUnchanged DEF TimerExpires
  <2>2. TicksOfTheMovement
    BY <1>a, <2>1
  <2>3. PICK c \in Commands : status = Moving(c)
    BY <2>1, <2>2 DEF TicksOfTheMovement, MovingStates, Commands, Moving
  <2>4. status = Moving(current_command)
    BY <1>0, <2>3 DEF MovementInv
  <2> QED
    BY <2>1, <2>2, <2>4 DEF TicksOfTheMovement
<1>5. CASE lock_timer_callback_handler
  <2>1. /\ daemon # "none" /\ daemon' = "none"
        /\ command_queue' = Append(command_queue, [command |-> daemon, from |-> "timer"])
        /\ UNCHANGED <<status, task, timer, timer_queue, sent>>
    BY <1>5, MotionUnchanged DEF lock_timer_callback_handler
  <2>2. TicksOfTheMovement /\ Len(command_queue) = 0
    BY <1>a, <2>1, OneUnitOfWork
  <2>3. command_queue' = <<[command |-> daemon, from |-> "timer"]>>
    <3>1. command_queue = <<>>
      BY <1>0, <2>2
    <3> QED
      BY <2>1, <3>1
  <2> QED
    BY <2>1, <2>2, <2>3 DEF TicksOfTheMovement
<1>6. CASE UNCHANGED vars
  <2>1. UNCHANGED <<command_queue, status, task, timer, timer_queue, daemon, sent>>
    BY <1>6, MotionUnchanged DEF vars
  <2> QED
    BY <1>a, <2>1 DEF TicksOfTheMovement
<1>7. CASE PublishMovement
  <2>1. /\ task = "publish" /\ task' = "start" /\ status' = Moving(current_command)
        /\ UNCHANGED <<command_queue, timer, timer_queue, daemon, sent>>
    BY <1>7 DEF PublishMovement
  <2>2. Work <= 1 /\ task # "receive"
    BY <1>a, <2>1
  <2>3. Len(command_queue) = 0 /\ daemon = "none"
    BY <2>2, OneUnitOfWork
  <2>4. status' \in MovingStates
    BY <2>1 DEF Moving, MovingStates
  <2> QED
    BY <2>1, <2>3, <2>4 DEF TicksOfTheMovement
<1> QED
  BY <1>1, <1>2, <1>3, <1>4, <1>5, <1>6, <1>7
  DEF Next, set_motor_open, set_motor_close, lock_task, timer_daemon, Commands

(* Each timer fire only advances the speed ramp, as the comment says, as   *)
(* long as a single command was sent: it takes a second one, sent while    *)
(* the ticks of the first are under way, to leave a stale tick behind.     *)
THEOREM LoneTickOnlyAdvancesHolds == Spec => LoneTickOnlyAdvances
<1>1. Init => SoloInv
  BY DEF Init, SoloInv, TicksOfTheMovement
<1>2. Spec => []SoloInv
  BY <1>1, SoloStep, TypeCorrect, MotionCorrect, WorkIsBoundedHolds, PTL DEF Spec
<1>3. ASSUME TypeOK, SoloInv, sent <= 1, NEW c \in Commands,
             StartMovement(c) \/ ReverseMovement(c)
      PROVE  Head(command_queue).from = "client"
  <2>1. /\ command_queue \in Seq(Entries) /\ command_queue # <<>>
        /\ Head(command_queue).command = c
        /\ status \in Resting \/ status = Moving(Opposite(c))
    BY <1>3 DEF TypeOK, QueueTypeOK, StartMovement, ReverseMovement, Receive
  <2>2. Head(command_queue) = command_queue[1] /\ 1 \in 1..Len(command_queue)
        /\ Head(command_queue) \in Entries
    BY <2>1
  <2>3. status # Moving(c)
    <3>1. Moving(c) \notin Resting /\ Moving(Opposite(c)) # Moving(c)
      BY DEF Commands, Moving, Opposite, Resting
    <3> QED
      BY <2>1, <3>1
  <2>4. Head(command_queue).from # "timer"
    BY <1>3, <2>1, <2>2, <2>3 DEF SoloInv, TicksOfTheMovement
  <2> QED
    BY <2>2, <2>4 DEF Entries, Origins
<1>4. TypeOK /\ SoloInv =>
        (sent <= 1 =>
           \A c \in Commands :
              StartMovement(c) \/ ReverseMovement(c) => Head(command_queue).from = "client")
  BY <1>3
<1> QED
  BY <1>2, <1>4, TypeCorrect, PTL DEF LoneTickOnlyAdvances
-----------------------------------------------------------------------------
(***************************************************************************)
(* Refinement.  A start from rest is Begin, its publication Depart, a      *)
(* reversal TurnAround, the first powered step after one is Drive, the end *)
(* of a ramp Arrive; every other step stutters.                            *)
(***************************************************************************)

(* A duty is a natural number. *)
LEMMA DutyIsNat == ASSUME NEW x \in Duties PROVE x \in Nat
BY DEF Duties

(* The mapped motor, from the channel of a command and that of its opposite. *)
LEMMA MotorValue ==
    ASSUME duty \in [Directions -> Duties], NEW c \in Commands
    PROVE  /\ duty = lock_drive_idle => motor = "off"
           /\ duty[DirectionOf(Opposite(c))] = 0 /\ duty[DirectionOf(c)] > 0
                => motor = DirectionOf(c)
           /\ duty[DirectionOf(Opposite(c))] = 0
                => motor \in {"off", DirectionOf(c)}
<1>1. duty["FORWARD"] \in Nat /\ duty["REVERSE"] \in Nat
  <2>1. duty["FORWARD"] \in Duties /\ duty["REVERSE"] \in Duties
    BY DEF Directions
  <2> QED
    BY <2>1, DutyIsNat
<1>2. duty = lock_drive_idle => duty["FORWARD"] = 0 /\ duty["REVERSE"] = 0
  BY DEF lock_drive_idle, Directions
<1>3. CASE c = "OPEN"
  BY <1>1, <1>2, <1>3 DEF motor, DirectionOf, Opposite
<1>4. CASE c = "CLOSE"
  BY <1>1, <1>2, <1>4 DEF motor, DirectionOf, Opposite
<1> QED
  BY <1>3, <1>4 DEF Commands

(* The names of the two modules agree. *)
LEMMA ActuatorNames ==
    ASSUME NEW c \in Commands
    PROVE  /\ DirectionOf(c) \in Actuator!Directions
           /\ Actuator!Towards(DirectionOf(c)) = Moving(c)
           /\ Actuator!Towards(Actuator!Other(DirectionOf(c))) = Moving(Opposite(c))
           /\ Actuator!End(DirectionOf(c)) = Reached(c)
BY DEF Commands, DirectionOf, Opposite, Moving, Reached, Actuator!Directions,
       Actuator!Towards, Actuator!Other, Actuator!End

(* Every step of the lock is a step of the actuator or leaves it alone. *)
LEMMA RefinementStep ==
    ASSUME TypeOK, TypeOK', MotionInv, MotionInv', [Next]_vars
    PROVE  [Actuator!Next]_<<status, motor>>
<1>0. /\ duty \in [Directions -> Duties] /\ duty' \in [Directions -> Duties]
      /\ current_command \in Commands
      /\ RestInv /\ StartInv /\ \A c \in Commands : MovementInv(c) /\ MovementInv(c)'
  BY DEF TypeOK, MotionTypeOK, MotionInv
<1>a. ASSUME UNCHANGED motion PROVE UNCHANGED <<status, motor>>
  <2>1. UNCHANGED status /\ UNCHANGED duty
    BY <1>a, MotionUnchanged
  <2>2. UNCHANGED motor
    BY <2>1, Zenon DEF motor
  <2> QED
    BY <2>1, <2>2
<1>b. ASSUME NEW c \in Commands
      PROVE  /\ duty' = lock_drive_idle => motor' = "off"
             /\ duty'[DirectionOf(Opposite(c))] = 0 /\ duty'[DirectionOf(c)] > 0
                  => motor' = DirectionOf(c)
  <2>1. duty'["FORWARD"] \in Nat /\ duty'["REVERSE"] \in Nat
    <3>1. duty'["FORWARD"] \in Duties /\ duty'["REVERSE"] \in Duties
      BY <1>0 DEF Directions
    <3> QED
      BY <3>1, DutyIsNat
  <2>2. duty' = lock_drive_idle => duty'["FORWARD"] = 0 /\ duty'["REVERSE"] = 0
    BY DEF lock_drive_idle, Directions
  <2>3. CASE c = "OPEN"
    BY <2>1, <2>2, <2>3 DEF motor, DirectionOf, Opposite
  <2>4. CASE c = "CLOSE"
    BY <2>1, <2>2, <2>4 DEF motor, DirectionOf, Opposite
  <2> QED
    BY <1>b, <2>3, <2>4 DEF Commands
<1>1. ASSUME NEW c \in Commands, StartMovement(c) PROVE Actuator!Next
  <2>1. /\ status \in Resting /\ UNCHANGED status
        /\ duty' = lock_drive(DirectionOf(c), 20)
        /\ duty = lock_drive_idle
    BY <1>0, <1>1 DEF StartMovement, Receive, RestInv
  <2>2. 20 \in uint8
    BY DEF uint8
  <2>3. duty'[DirectionOf(c)] > 0 /\ duty'[DirectionOf(Opposite(c))] = 0
    BY <1>0, <2>1, <2>2, DriveValue, SpeedToDuty
  <2>4. motor = "off" /\ motor' = DirectionOf(c)
    BY <1>0, <1>b, <2>1, <2>3, MotorValue
  <2>5. Actuator!Begin(DirectionOf(c))
    BY <2>1, <2>4, ActuatorNames DEF Actuator!Begin, Resting
  <2> QED
    BY <2>5, ActuatorNames DEF Actuator!Next
<1>p. CASE PublishMovement
  <2>1. /\ status \in Resting /\ status' = Moving(current_command) /\ task = "publish"
        /\ UNCHANGED duty
    BY <1>0, <1>p DEF PublishMovement, StartInv
  <2>2. duty[DirectionOf(current_command)] > 0 /\ duty[DirectionOf(Opposite(current_command))] = 0
    BY <1>0, <2>1, StartDuty
  <2>3. motor = DirectionOf(current_command) /\ UNCHANGED motor
    <3>1. motor = DirectionOf(current_command)
      BY <1>0, <2>2, MotorValue
    <3>2. UNCHANGED motor
      BY <2>1, Zenon DEF motor
    <3> QED
      BY <3>1, <3>2
  <2>4. Actuator!Depart(DirectionOf(current_command))
    BY <1>0, <2>1, <2>3, ActuatorNames DEF Actuator!Depart, Resting
  <2> QED
    BY <1>0, <2>4, ActuatorNames DEF Actuator!Next
<1>2. ASSUME NEW c \in Commands, ReverseMovement(c) PROVE Actuator!Next
  <2>1. status = Moving(Opposite(c)) /\ status' = Moving(c) /\ duty' = lock_drive_idle
    BY <1>2 DEF ReverseMovement
  <2>2. motor' = "off"
    BY <1>b, <2>1
  <2>3. Actuator!TurnAround(DirectionOf(c))
    BY <2>1, <2>2, ActuatorNames DEF Actuator!TurnAround
  <2> QED
    BY <2>3, ActuatorNames DEF Actuator!Next
<1>3. ASSUME NEW c \in Commands, status = Moving(c), status' = Moving(c),
             duty'[DirectionOf(c)] > 0, duty'[DirectionOf(Opposite(c))] = 0
      PROVE  [Actuator!Next]_<<status, motor>>
  <2>1. duty[DirectionOf(Opposite(c))] = 0
    BY <1>0, <1>3 DEF MovementInv
  <2>2. motor' = DirectionOf(c) /\ motor \in {"off", DirectionOf(c)}
    BY <1>0, <1>b, <1>3, <2>1, MotorValue
  <2>3. CASE motor = "off"
    <3>1. Actuator!Drive(DirectionOf(c))
      BY <1>3, <2>2, <2>3, ActuatorNames DEF Actuator!Drive
    <3> QED
      BY <3>1, ActuatorNames DEF Actuator!Next
  <2>4. CASE motor = DirectionOf(c)
    BY <1>3, <2>2, <2>4
  <2> QED
    BY <2>2, <2>3, <2>4
<1>4. ASSUME NEW c \in Commands, ContinueMovement(c) PROVE [Actuator!Next]_<<status, motor>>
  <2>1. /\ status = Moving(c) /\ current_direction = DirectionOf(c)
        /\ <<speed, speed_increment>> \in Ramp(c)
        /\ duty[DirectionOf(Opposite(c))] = 0
        /\ speed_increment < 0 => duty[DirectionOf(c)] > 0
        /\ RampPeak(c) \/ RampEnd(c) \/ RampHold(c) \/ RampStep(c)
    BY <1>0, <1>4 DEF ContinueMovement, MovementInv
  <2>2. CASE RampEnd(c)
    <3>1. duty[DirectionOf(c)] > 0 /\ status' = Reached(c) /\ duty' = lock_drive_idle
      BY <2>1, <2>2, RampFacts DEF RampEnd
    <3>2. motor = DirectionOf(c) /\ motor' = "off"
      BY <1>0, <1>b, <2>1, <3>1, MotorValue
    <3>3. Actuator!Arrive(DirectionOf(c))
      BY <2>1, <3>1, <3>2, ActuatorNames DEF Actuator!Arrive
    <3> QED
      BY <3>3, ActuatorNames DEF Actuator!Next
  <2>3. CASE RampHold(c)
    BY <2>3 DEF RampHold, motor
  <2>4. CASE RampPeak(c) \/ RampStep(c)
    <3>0. NextSpeed \in uint8 /\ NextSpeed \in Nat
      <4>1. NextSpeed \in uint8
        BY <2>1, RampFacts
      <4> QED
        BY <4>1 DEF uint8
    <3>1. status' = Moving(c) /\ duty' = lock_drive(DirectionOf(c), NextSpeed) /\ NextSpeed > 0
      BY <2>1, <2>4, <3>0 DEF RampPeak, RampStep
    <3>2. duty'[DirectionOf(c)] > 0 /\ duty'[DirectionOf(Opposite(c))] = 0
      BY <1>0, <2>1, <3>0, <3>1, DriveValue, SpeedToDuty
    <3> QED
      BY <1>3, <2>1, <3>1, <3>2
  <2> QED
    BY <2>1, <2>2, <2>3, <2>4
<1>5. CASE HoldElapsed
  <2>1. /\ status = Moving("OPEN") /\ status' = Moving("OPEN") /\ "OPEN" \in Commands
        /\ speed = 10 /\ speed \in uint8 /\ duty' = lock_drive(current_direction, speed)
    BY <1>5 DEF HoldElapsed, MotionInv, HoldInv, Moving, Commands, TypeOK, MotionTypeOK
  <2>2. current_direction = DirectionOf("OPEN") /\ duty[DirectionOf(Opposite("OPEN"))] = 0
    BY <1>0, <2>1 DEF MovementInv
  <2>3. duty'[DirectionOf("OPEN")] > 0 /\ duty'[DirectionOf(Opposite("OPEN"))] = 0
    BY <1>0, <2>1, <2>2, DriveValue, SpeedToDuty
  <2> QED
    BY <1>3, <2>1, <2>3
<1>6. CASE \/ set_motor_open \/ set_motor_close \/ xTimerStart \/ timer_daemon
           \/ UNCHANGED vars
  <2>1. UNCHANGED motion
    BY <1>6 DEF set_motor_open, set_motor_close, SendCommand, xTimerStart, timer_daemon,
                ServeTimerStart, TimerExpires, lock_timer_callback_handler, vars
  <2> QED
    BY <1>a, <2>1
<1> QED
  BY <1>1, <1>p, <1>2, <1>4, <1>5, <1>6 DEF Next, lock_task

(* Queues, ticks and ramp implement the actuator the node relies on. *)
THEOREM Refinement == Spec => ImplementsActuator
<1>1. Init => Actuator!Init
  BY DEF Init, Actuator!Init, motor, Directions
<1> QED
  BY <1>1, RefinementStep, TypeCorrect, MotionCorrect, PTL
  DEF Spec, ImplementsActuator, Actuator!Spec
===============================================================================
