----------------------------- MODULE DogTracker -----------------------------
(***************************************************************************)
(* The camera mount that follows the dog:                                  *)
(* Dog_Tracking/Motor_Control/0916_motor_detect.py.  A stepper turns it,    *)
(* counted in motor_steps, and a servo tilts it, whose angle is remembered; *)
(* when the program ends, for whatever reason, reset_motors is to bring     *)
(* both back.  A count and an angle are recorded after the movement, so     *)
(* that an interruption in the middle of one is not known to the way back.  *)
(*                                                                         *)
(* The rotor is where the coils pull it: to the nearest position of the    *)
(* phase that is on, one of eight in a cycle, for ever the same.            *)
(***************************************************************************)
EXTENDS Integers

CONSTANTS
    STEPS,      \* cycles of one turn of the stepper: 10
    Tilt,       \* error_y / 10: what the dog's height asks of the angle
    MaxFrames   \* bound: frames with a dog

PHASES == 8
SERVO_INITIAL == 90
Direction == {1, -1}

ASSUME TrackerConstants ==
    /\ STEPS \in Nat \ {0}
    /\ Tilt \subseteq Int
    /\ MaxFrames \in Nat

VARIABLES
    pc,          \* "frame", "turn", "tilt", "settle"; "done", or "stopped" in reset_motors
    caller,      \* who called step_motor or move_servo: "loop" or "reset"
    dir,         \* direction of the turn
    left,        \* cycles of it that are left
    step,        \* index in the sequence
    taken,       \* steps, the parameter
    tilt,        \* error_y / 10 of the frame, 0 when none is to follow
    motor_steps,
    target_angle,
    current_servo_angle,
    rotor,       \* where the stepper stands, in phases
    start,       \* where it stood at first
    servo,       \* where the servo stands
    frames,      \* frames with a dog so far (bound)
    cut          \* a movement was interrupted (history)

stepper == <<dir, left, step, taken, motor_steps, rotor>>
tilting == <<tilt, target_angle, current_servo_angle, servo>>
vars == <<pc, caller, stepper, tilting, start, frames, cut>>

Init ==
    /\ pc = "frame" /\ caller = "loop"
    /\ dir = 1 /\ left = 0 /\ step = 0 /\ taken = 0 /\ motor_steps = 0
    /\ rotor \in 0 .. PHASES - 1 /\ start = rotor
    /\ tilt = 0 /\ target_angle = SERVO_INITIAL
    /\ current_servo_angle = SERVO_INITIAL /\ servo = SERVO_INITIAL
    /\ frames = 0 /\ cut = FALSE

-----------------------------------------------------------------------------
(* step_motor and move_servo *)

(* What a call of step_motor sets up, for n cycles in direction d. *)
BeginTurn(n, d) ==
    /\ pc' = "turn"
    /\ dir' = d /\ left' = n /\ taken' = n /\ step' = 0
    /\ UNCHANGED <<motor_steps, rotor>>

Clamped(a) == IF a < 0 THEN 0 ELSE IF a > 180 THEN 180 ELSE a
BeginTilt(a) ==
    /\ pc' = "tilt"
    /\ target_angle' = Clamped(a)
    /\ UNCHANGED <<current_servo_angle, servo>>

(* The rotor follows to the nearest position of the phase, either way when it *)
(* stands opposite.                                                           *)
Pull(phase) == {r \in rotor - PHASES \div 2 .. rotor + PHASES \div 2 : r % PHASES = phase}

SequenceOneWay(k) == k                                              \* mutant
Sequence(k) == IF dir = 1 THEN k ELSE PHASES - 1 - k

(* One phase of the sequence. *)
TurnPhase ==
    /\ pc = "turn" /\ left > 0
    /\ rotor' \in Pull(Sequence(step))
    /\ step' = (step + 1) % PHASES
    /\ left' = IF step = PHASES - 1 THEN left - 1 ELSE left
    /\ UNCHANGED <<pc, caller, dir, taken, motor_steps, tilting, start, frames, cut>>

(* In the loop the servo is next, if the height asks for it. *)
AfterTurn ==
    IF caller = "reset" THEN pc' = "done" /\ UNCHANGED tilting
    ELSE IF tilt # 0 THEN BeginTilt(current_servo_angle - tilt) /\ tilt' = 0
    ELSE pc' = "frame" /\ UNCHANGED tilting

RecordUnsigned ==                                                   \* mutant
    /\ pc = "turn" /\ left = 0
    /\ motor_steps' = IF caller = "reset" THEN 0 ELSE motor_steps + taken
    /\ AfterTurn
    /\ UNCHANGED <<caller, dir, left, step, taken, rotor, start, frames, cut>>
TurnEnd ==
    /\ pc = "turn" /\ left = 0
    /\ motor_steps' = IF caller = "reset" THEN 0 ELSE motor_steps + taken * dir
    /\ AfterTurn
    /\ UNCHANGED <<caller, dir, left, step, taken, rotor, start, frames, cut>>

TiltPulse ==
    /\ pc = "tilt"
    /\ pc' = "settle"
    /\ servo' = target_angle
    /\ UNCHANGED <<caller, stepper, tilt, target_angle, current_servo_angle, start, frames, cut>>

(* The way back of the stepper, the steps recorded. *)
BackHome(n) ==
    IF n # 0 THEN BeginTurn(IF n > 0 THEN n ELSE -n, IF n > 0 THEN -1 ELSE 1)
    ELSE pc' = "done" /\ UNCHANGED stepper

TiltEnd ==
    /\ pc = "settle"
    /\ current_servo_angle' = target_angle
    /\ IF caller = "reset" THEN BackHome(motor_steps) ELSE pc' = "frame" /\ UNCHANGED stepper
    /\ UNCHANGED <<caller, tilt, target_angle, servo, start, frames, cut>>

-----------------------------------------------------------------------------
(* The loop and its ends *)

(* A frame with a dog that is off the centre: to one side, in height, or both. *)
Follow(d, t) ==
    /\ pc = "frame" /\ frames < MaxFrames
    /\ frames' = frames + 1
    /\ IF d # 0
       THEN BeginTurn(STEPS, d) /\ tilt' = t /\ UNCHANGED <<target_angle, current_servo_angle, servo>>
       ELSE BeginTilt(current_servo_angle - t) /\ UNCHANGED <<tilt, stepper>>
    /\ UNCHANGED <<caller, start, cut>>

(* reset_motors: first the servo, unless it is believed to be home. *)
Reset ==
    /\ caller' = "reset"
    /\ IF current_servo_angle # SERVO_INITIAL
       THEN BeginTilt(SERVO_INITIAL) /\ tilt' = 0 /\ UNCHANGED stepper
       ELSE BackHome(motor_steps) /\ tilt' = 0 /\ UNCHANGED <<target_angle, current_servo_angle, servo>>

(* "q", or an exception while no motor moves. *)
Leave ==
    /\ pc = "frame"
    /\ Reset
    /\ UNCHANGED <<start, frames, cut>>

(* The keyboard interrupt, in the middle of a movement or between two. *)
Interrupt ==
    /\ caller = "loop" /\ pc \in {"turn", "tilt", "settle"}
    /\ Reset
    /\ cut' = TRUE
    /\ UNCHANGED <<start, frames>>

(* A second one ends the way back where it is. *)
InterruptReset ==
    /\ caller = "reset" /\ pc \in {"turn", "tilt", "settle"}
    /\ pc' = "stopped"
    /\ UNCHANGED <<caller, stepper, tilting, start, frames, cut>>

-----------------------------------------------------------------------------
Motors == TurnPhase \/ TurnEnd \/ TiltPulse \/ TiltEnd
Next ==
    \/ \E d \in Direction \cup {0}, t \in Tilt \cup {0} : (d # 0 \/ t # 0) /\ Follow(d, t)
    \/ Motors \/ Leave \/ Interrupt \/ InterruptReset

Spec == Init /\ [][Next]_vars

-----------------------------------------------------------------------------
(* Properties *)

TypeOK ==
    /\ pc \in {"frame", "turn", "tilt", "settle", "done", "stopped"}
    /\ caller \in {"loop", "reset"}
    /\ dir \in Direction /\ left \in Nat /\ taken \in Nat /\ left <= taken
    /\ step \in 0 .. PHASES - 1
    /\ tilt \in Int /\ motor_steps \in Int /\ rotor \in Int
    /\ start \in 0 .. PHASES - 1
    /\ target_angle \in 0 .. 180 /\ current_servo_angle \in 0 .. 180 /\ servo \in 0 .. 180
    /\ frames \in 0 .. MaxFrames /\ cut \in BOOLEAN

Off == IF rotor > start THEN rotor - start ELSE start - rotor

(* When the way back is done, and no movement had been cut, the servo is at its *)
(* first angle and the stepper less than a cycle from where it began, however   *)
(* often the dog changed sides: the phase that a reversed turn repeats is not   *)
(* lost again at every turn.                                                    *)
ReturnsHome == (pc = "done" /\ ~cut) => servo = SERVO_INITIAL /\ Off <= 5

(* A movement that was cut costs no more than itself: the stepper ends within   *)
(* that one turn, and a cycle, of where it began.                               *)
CutCostsOneTurn == pc = "done" => Off < PHASES * (STEPS + 1)
=============================================================================
