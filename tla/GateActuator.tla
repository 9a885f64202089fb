----------------------------- MODULE GateActuator -----------------------------
(***************************************************************************)
(* What the lock promises to the rest of the node, without queues, timers  *)
(* or ramps: a position, and a motor that is off or driven in one of two   *)
(* directions.  A movement starts from rest, where the motor is powered a  *)
(* moment before the position is seen to change, may be turned around at   *)
(* any time but only through a stopped motor, and ends only while the      *)
(* motor is driven towards the position that is then reported.             *)
(***************************************************************************)
VARIABLES
    position,   \* "CLOSED", "OPENING", "OPENED" or "CLOSING"
    motor       \* "off", "FORWARD" or "REVERSE"

Directions == {"FORWARD", "REVERSE"}
Towards(d) == IF d = "FORWARD" THEN "OPENING" ELSE "CLOSING"
End(d) == IF d = "FORWARD" THEN "OPENED" ELSE "CLOSED"
Other(d) == IF d = "FORWARD" THEN "REVERSE" ELSE "FORWARD"

Init == position = "CLOSED" /\ motor = "off"

Begin(d) ==
    /\ position \in {"CLOSED", "OPENED"}
    /\ motor = "off"
    /\ motor' = d
    /\ UNCHANGED position

Depart(d) ==
    /\ position \in {"CLOSED", "OPENED"}
    /\ motor = d
    /\ position' = Towards(d)
    /\ UNCHANGED motor

TurnAround(d) ==
    /\ position = Towards(Other(d))
    /\ position' = Towards(d)
    /\ motor' = "off"

Drive(d) ==
    /\ position = Towards(d)
    /\ motor = "off"
    /\ motor' = d
    /\ UNCHANGED position

Arrive(d) ==
    /\ position = Towards(d)
    /\ motor = d
    /\ position' = End(d)
    /\ motor' = "off"

Next ==
    \E d \in Directions : Begin(d) \/ Depart(d) \/ TurnAround(d) \/ Drive(d) \/ Arrive(d)

Spec == Init /\ [][Next]_<<position, motor>>
===============================================================================
