-------------------------- MODULE DogTrackerProofs --------------------------
(***************************************************************************)
(* Where the camera mount of DogTracker stands when its way back is done,   *)
(* for every length of a turn, every height of the dog and any number of    *)
(* frames.                                                                 *)
(***************************************************************************)
EXTENDS DogTracker, TLAPS

USE DEF PHASES, SERVO_INITIAL, Direction

(* Every variable has its type in every reachable state. *)
Working == (pc = "turn" => taken > 0) /\ (pc = "turn" /\ left = 0 => step = 0)
Angles == target_angle \in 0 .. 180 /\ current_servo_angle \in 0 .. 180 /\ servo \in 0 .. 180
Shape == TypeOK /\ Working

LEMMA ClampedType == ASSUME NEW a \in Int PROVE Clamped(a) \in 0 .. 180
BY DEF Clamped

LEMMA ShapeInit == Init => Shape
<1> SUFFICES ASSUME Init PROVE Shape  OBVIOUS
<1>1. rotor \in Int /\ start \in 0 .. 7  BY DEF Init, Angles
<1>2. Angles  BY DEF Init, Angles
<1>3. TypeOK
  <2>1. 0 \in 0 .. MaxFrames  BY TrackerConstants
  <2>2. rotor \in Int /\ start \in 0 .. 7  BY DEF Init
  <2>3. /\ dir \in Direction /\ step \in 0 .. 7 /\ left \in Nat /\ taken \in Nat /\ left <= taken
        /\ motor_steps \in Int /\ tilt \in Int
        /\ pc \in {"frame"} /\ caller \in {"loop"} /\ frames = 0
    BY DEF Init
  <2>4. Angles  BY DEF Init, Angles
  <2>5. cut \in BOOLEAN  BY DEF Init
  <2> QED  BY <2>1, <2>2, <2>3, <2>4, <2>5 DEF TypeOK, Angles
<1> QED  BY <1>3 DEF Init, Shape, Working

LEMMA BeginTurnShape ==
  ASSUME Shape, NEW STATE n, n \in Nat \ {0}, NEW STATE d, d \in Direction, BeginTurn(n, d)
  PROVE  /\ pc' = "turn" /\ dir' \in Direction /\ left' = taken' /\ taken' \in Nat /\ taken' > 0
         /\ step' = 0 /\ motor_steps' \in Int /\ rotor' \in Int
BY DEF BeginTurn, Shape, TypeOK, Angles

LEMMA BeginTiltShape ==
  ASSUME Shape, NEW STATE a, a \in Int, BeginTilt(a)
  PROVE  pc' = "tilt" /\ Angles'
<1>1. Clamped(a) \in 0 .. 180  BY ClampedType
<1> QED  BY <1>1 DEF BeginTilt, Shape, TypeOK, Angles

LEMMA BackHomeShape ==
  ASSUME Shape, BackHome(motor_steps)
  PROVE  /\ pc' \in {"turn", "done"} /\ dir' \in Direction /\ left' \in Nat /\ taken' \in Nat
         /\ left' <= taken' /\ step' \in 0 .. 7 /\ motor_steps' = motor_steps /\ rotor' = rotor
         /\ Working'
BY DEF BackHome, BeginTurn, stepper, Shape, TypeOK, Angles, Working

LEMMA ResetShape ==
  ASSUME Shape, Reset, UNCHANGED <<start, frames>>, cut' \in BOOLEAN
  PROVE  Shape'
<1>1. CASE current_servo_angle # SERVO_INITIAL
  <2>1. BeginTilt(SERVO_INITIAL) /\ tilt' = 0 /\ UNCHANGED stepper /\ caller' = "reset"
    BY <1>1 DEF Reset
  <2>2. pc' = "tilt" /\ Angles'
    BY <2>1 DEF BeginTilt, Clamped, Shape, TypeOK, Angles
  <2> QED  BY <2>1, <2>2 DEF Shape, TypeOK, Angles, Working, stepper
<1>2. CASE current_servo_angle = SERVO_INITIAL
  <2>1. BackHome(motor_steps) /\ tilt' = 0 /\ caller' = "reset"
        /\ UNCHANGED <<target_angle, current_servo_angle, servo>>
    BY <1>2 DEF Reset
  <2> QED  BY <2>1, BackHomeShape DEF Shape, TypeOK, Angles
<1> QED  BY <1>1, <1>2

LEMMA PullType ==
  ASSUME rotor \in Int, NEW phase, NEW r \in Pull(phase) PROVE r \in Int /\ r % 8 = phase
BY DEF Pull

LEMMA ShapeStep == Shape /\ [Next]_vars => Shape'
<1> SUFFICES ASSUME Shape, [Next]_vars PROVE Shape'  OBVIOUS
<1>1. ASSUME NEW d \in Direction \cup {0}, NEW t \in Tilt \cup {0}, Follow(d, t)
      PROVE  Shape'
  <2>1. t \in Int  BY TrackerConstants
  <2>2. CASE d # 0
    BY <1>1, <2>1, <2>2, TrackerConstants DEF Follow, BeginTurn, Shape, TypeOK, Angles, Working
  <2>3. CASE d = 0
    <3>1. Clamped(current_servo_angle - t) \in 0 .. 180  BY <2>1, ClampedType DEF Shape, TypeOK, Angles
    <3>2. frames' \in 0 .. MaxFrames  BY <1>1, TrackerConstants DEF Follow, Shape, TypeOK
    <3>3. TypeOK'  BY <1>1, <2>3, <3>1, <3>2 DEF Follow, BeginTilt, Shape, TypeOK, stepper
    <3> QED  BY <1>1, <2>3, <3>3 DEF Follow, BeginTilt, Shape, Working
  <2> QED  BY <2>2, <2>3
<1>2. CASE TurnPhase
  <2>1. rotor' \in Int
    <3>1. PICK r \in Pull(Sequence(step)) : rotor' = r  BY <1>2 DEF TurnPhase
    <3> QED  BY <3>1, PullType DEF Shape, TypeOK, Angles
  <2>2. step' \in 0 .. 7 /\ left' \in Nat /\ left' <= left /\ (left' = 0 => step' = 0)
    <3>1. CASE step = 7  BY <1>2, <3>1 DEF TurnPhase, Shape, TypeOK, Angles
    <3>2. CASE step # 7  BY <1>2, <3>2 DEF TurnPhase, Shape, TypeOK, Angles
    <3> QED  BY <3>1, <3>2
  <2> QED  BY <1>2, <2>1, <2>2 DEF TurnPhase, tilting, Shape, TypeOK, Angles, Working
<1>3. CASE TurnEnd
  <2>1. motor_steps' \in Int
    <3>1. taken * dir \in Int  BY DEF Shape, TypeOK, Angles
    <3> QED  BY <1>3, <3>1 DEF TurnEnd, Shape, TypeOK, Angles
  <2>2. /\ pc' \in {"done", "frame", "tilt"} /\ tilt' \in Int
        /\ Angles'
    <3>1. Clamped(current_servo_angle - tilt) \in 0 .. 180  BY ClampedType DEF Shape, TypeOK, Angles
    <3> QED  BY <1>3, <3>1 DEF TurnEnd, AfterTurn, BeginTilt, tilting, Shape, TypeOK, Angles
  <2> QED  BY <1>3, <2>1, <2>2 DEF TurnEnd, Shape, TypeOK, Angles, Working
<1>4. CASE TiltPulse  BY <1>4 DEF TiltPulse, stepper, Shape, TypeOK, Angles, Working
<1>5. CASE TiltEnd
  <2>1. CASE caller = "reset"
    <3>1. BackHome(motor_steps)  BY <1>5, <2>1 DEF TiltEnd
    <3> QED  BY <1>5, <3>1, BackHomeShape DEF TiltEnd, Shape, TypeOK, Angles
  <2>2. CASE caller # "reset"
    BY <1>5, <2>2 DEF TiltEnd, stepper, Shape, TypeOK, Angles, Working
  <2> QED  BY <2>1, <2>2
<1>6. CASE Leave \/ Interrupt
  BY <1>6, ResetShape DEF Leave, Interrupt, Shape, TypeOK, Angles
<1>7. CASE InterruptReset
  BY <1>7 DEF InterruptReset, stepper, tilting, Shape, TypeOK, Angles, Working
<1>8. CASE UNCHANGED vars
  BY <1>8 DEF vars, stepper, tilting, Shape, TypeOK, Angles, Working
<1> QED  BY <1>1, <1>2, <1>3, <1>4, <1>5, <1>6, <1>7, <1>8 DEF Next, Motors

(* Every variable has its type in every reachable state; both angles and the   *)
(* servo stay between 0 and 180 degrees.                                      *)
THEOREM TrackerTypes == Spec => []TypeOK
<1>1. Shape => TypeOK  BY DEF Shape
<1> QED  BY <1>1, ShapeInit, ShapeStep, PTL DEF Spec

-----------------------------------------------------------------------------
(* The servo, and who turns what: the way back turns what is recorded.        *)
CallInv ==
    /\ caller = "loop" => ~cut /\ pc \notin {"done", "stopped"}
    /\ caller = "reset" => pc # "frame"
    /\ caller = "loop" /\ pc = "turn" => taken = STEPS
    /\ caller = "reset" /\ pc = "turn" => motor_steps = (IF dir = 1 THEN -taken ELSE taken)

ServoInv ==
    /\ caller = "reset" /\ pc \in {"tilt", "settle"} => target_angle = SERVO_INITIAL
    /\ caller = "reset" /\ pc \in {"turn", "done"} => current_servo_angle = SERVO_INITIAL
    /\ ~cut /\ pc # "stopped" =>
         servo = (IF pc = "settle" THEN target_angle ELSE current_servo_angle)

LEMMA CallInit == Init => CallInv /\ ServoInv
BY DEF Init, CallInv, ServoInv

LEMMA ResetCalls ==
  ASSUME Shape, CallInv, ServoInv, Reset, pc # "stopped",
         cut' = TRUE \/ (pc = "frame" /\ UNCHANGED cut)
  PROVE  CallInv' /\ ServoInv'
<1>1. CASE current_servo_angle # SERVO_INITIAL
  <2>1. BeginTilt(SERVO_INITIAL) /\ caller' = "reset"  BY <1>1 DEF Reset
  <2>2. pc' = "tilt" /\ target_angle' = SERVO_INITIAL /\ UNCHANGED <<current_servo_angle, servo>>
    BY <2>1 DEF BeginTilt, Clamped
  <2> QED  BY <2>1, <2>2 DEF CallInv, ServoInv
<1>2. CASE current_servo_angle = SERVO_INITIAL
  <2>1. BackHome(motor_steps) /\ caller' = "reset"
        /\ UNCHANGED <<target_angle, current_servo_angle, servo>>
    BY <1>2 DEF Reset
  <2>2. pc' \in {"turn", "done"} /\ ServoInv'
    BY <1>2, <2>1 DEF BackHome, BeginTurn, CallInv, ServoInv
  <2>3. CallInv'  BY <2>1, <2>2 DEF BackHome, BeginTurn, CallInv, Shape, TypeOK
  <2> QED  BY <2>2, <2>3
<1> QED  BY <1>1, <1>2

LEMMA CallStep == Shape /\ CallInv /\ ServoInv /\ [Next]_vars => CallInv' /\ ServoInv'
<1> SUFFICES ASSUME Shape, CallInv, ServoInv, [Next]_vars PROVE CallInv' /\ ServoInv'  OBVIOUS
<1>1. ASSUME NEW d \in Direction \cup {0}, NEW t \in Tilt \cup {0}, Follow(d, t)
      PROVE  CallInv' /\ ServoInv'
  <2>1. pc = "frame" /\ caller = "loop" /\ ~cut /\ UNCHANGED <<caller, cut>>
    BY <1>1 DEF Follow, CallInv, Shape, TypeOK
  <2>2. CASE d # 0  BY <1>1, <2>1, <2>2 DEF Follow, BeginTurn, CallInv, ServoInv
  <2>3. CASE d = 0  BY <1>1, <2>1, <2>3 DEF Follow, BeginTilt, CallInv, ServoInv
  <2> QED  BY <2>2, <2>3
<1>2. CASE TurnPhase  BY <1>2 DEF TurnPhase, tilting, CallInv, ServoInv
<1>3. CASE TurnEnd
  <2>1. CASE caller = "reset"
    BY <1>3, <2>1 DEF TurnEnd, AfterTurn, tilting, CallInv, ServoInv
  <2>2. CASE caller = "loop"
    BY <1>3, <2>2 DEF TurnEnd, AfterTurn, BeginTilt, tilting, CallInv, ServoInv
  <2> QED  BY <2>1, <2>2 DEF Shape, TypeOK
<1>4. CASE TiltPulse  BY <1>4 DEF TiltPulse, stepper, CallInv, ServoInv
<1>5. CASE TiltEnd
  <2>1. CASE caller = "reset"
    <3>1. BackHome(motor_steps) /\ current_servo_angle' = SERVO_INITIAL /\ pc = "settle"
          /\ UNCHANGED <<caller, servo, cut>>
      BY <1>5, <2>1 DEF TiltEnd, ServoInv
    <3>2. pc' \in {"turn", "done"} /\ ServoInv'
      BY <2>1, <3>1 DEF BackHome, BeginTurn, ServoInv
    <3>3. CallInv'  BY <2>1, <3>1, <3>2 DEF BackHome, BeginTurn, CallInv, Shape, TypeOK
    <3> QED  BY <3>2, <3>3
  <2>2. CASE caller = "loop"
    BY <1>5, <2>2 DEF TiltEnd, stepper, CallInv, ServoInv
  <2> QED  BY <2>1, <2>2 DEF Shape, TypeOK
<1>6. CASE Leave \/ Interrupt  BY <1>6, ResetCalls DEF Leave, Interrupt, CallInv
<1>7. CASE InterruptReset  BY <1>7 DEF InterruptReset, stepper, tilting, CallInv, ServoInv
<1>8. CASE UNCHANGED vars  BY <1>8 DEF vars, stepper, tilting, CallInv, ServoInv
<1> QED  BY <1>1, <1>2, <1>3, <1>4, <1>5, <1>6, <1>7, <1>8 DEF Next, Motors

-----------------------------------------------------------------------------
(* Phases.  Positions of one phase are whole cycles apart. *)
LEMMA Cycle == ASSUME NEW r \in Int PROVE \E z \in Int : r = 8 * z + (r % 8)
<1>1. r = 8 * (r \div 8) + (r % 8) /\ r \div 8 \in Int  OBVIOUS
<1> QED  BY <1>1

(* The position the rotor is pulled to, when one of that phase is within 3. *)
LEMMA Pulled ==
  ASSUME NEW x \in Int, NEW q \in Int, NEW p \in 0 .. 7, NEW r \in x - 4 .. x + 4, r % 8 = p,
         8 * q + p \in x - 3 .. x + 3
  PROVE  r = 8 * q + p
<1>1. PICK z \in Int : r = 8 * z + p  BY Cycle
<1> QED  BY <1>1

-----------------------------------------------------------------------------
(* Where the rotor is, in terms of the steps recorded.  The first phase of the *)
(* first turn pulls it to one side of its start, Side: from then on it is a    *)
(* whole number of cycles from there, and one more behind a turn back.         *)
Moving == pc = "turn" /\ (left < taken \/ step > 0)
Side(b) == (b = 0 => start >= 3) /\ (b = -1 => start <= 4)

(* In a turn, at rest behind one, and at rest behind one that was cut. *)
Track(k) ==
    rotor = IF dir = 1 THEN 8 * (motor_steps + taken - left + k) + 7 + step
                       ELSE 8 * (motor_steps - taken + left + k) + 8 - step
Still(b) == rotor \in {8 * (motor_steps + b) + 7, 8 * (motor_steps + b) + 8}
Near(b) == 8 * (motor_steps + b - STEPS) + 8 <= rotor /\ rotor <= 8 * (motor_steps + b + STEPS) + 7

Fresh == motor_steps = 0 /\ rotor = start
Resting == IF cut THEN \E b \in {-1, 0} : Side(b) /\ Near(b)
                  ELSE Fresh \/ \E b \in {-1, 0} : Side(b) /\ Still(b)
Turning == IF cut THEN \E b \in {-1, 0} : Side(b) /\ \E k \in b - STEPS .. b + STEPS : Track(k)
                  ELSE \E b \in {-1, 0} : Side(b) /\ Track(b)
Home == (~cut => Off <= 5) /\ Off < 8 * (STEPS + 1)

PosInv ==
    /\ pc \notin {"done", "stopped"} => IF Moving THEN Turning ELSE Resting
    /\ pc = "done" => Home

LEMMA PosInit == Init => PosInv
BY DEF Init, PosInv, Moving, Resting, Fresh

(* At rest with nothing recorded the rotor is home, cut or not. *)
LEMMA RestingHome == Shape /\ Resting /\ motor_steps = 0 => Home
<1> SUFFICES ASSUME Shape, Resting, motor_steps = 0 PROVE Home  OBVIOUS
<1>1. rotor \in Int /\ start \in 0 .. 7 /\ STEPS \in Nat /\ STEPS > 0
  BY TrackerConstants DEF Shape, TypeOK
<1>2. CASE cut
  <2>1. PICK b \in {-1, 0} : Side(b) /\ Near(b)  BY <1>2 DEF Resting
  <2>2. CASE b = 0   BY <1>1, <1>2, <2>1, <2>2 DEF Side, Near, Home, Off
  <2>3. CASE b = -1  BY <1>1, <1>2, <2>1, <2>3 DEF Side, Near, Home, Off
  <2> QED  BY <2>2, <2>3
<1>3. CASE ~cut
  <2>1. CASE Fresh  BY <1>1, <1>3, <2>1 DEF Fresh, Home, Off
  <2>2. CASE \E b \in {-1, 0} : Side(b) /\ Still(b)
    <3>1. PICK b \in {-1, 0} : Side(b) /\ Still(b)  BY <2>2
    <3>2. CASE b = 0   BY <1>1, <1>3, <3>1, <3>2 DEF Side, Still, Home, Off
    <3>3. CASE b = -1  BY <1>1, <1>3, <3>1, <3>3 DEF Side, Still, Home, Off
    <3> QED  BY <3>2, <3>3
  <2> QED  BY <1>3, <2>1, <2>2 DEF Resting
<1> QED  BY <1>2, <1>3

(* The way back begins where the rotor rests. *)
LEMMA BackHomePos ==
  ASSUME Shape, Shape', Resting', BackHome(motor_steps)
  PROVE  PosInv'
<1>1. CASE motor_steps # 0
  <2>1. pc' = "turn" /\ left' = taken' /\ step' = 0 /\ taken' \in Int
    BY <1>1 DEF BackHome, BeginTurn, Shape, TypeOK
  <2> QED  BY <2>1 DEF PosInv, Moving
<1>2. CASE motor_steps = 0
  <2>1. pc' = "done" /\ motor_steps' = 0  BY <1>2 DEF BackHome, stepper
  <2>2. (Shape /\ Resting /\ motor_steps = 0 => Home)'  BY RestingHome, PTL
  <2> QED  BY <2>1, <2>2 DEF PosInv
<1> QED  BY <1>1, <1>2

(* A movement that is cut leaves the rotor within one turn of where it was. *)
LEMMA CutNear ==
  ASSUME Shape, CallInv, PosInv, caller = "loop"
  PROVE  \E b \in {-1, 0} : Side(b) /\ Near(b)
<1>1. ~cut /\ pc \notin {"done", "stopped"}  BY DEF CallInv
<1>2. /\ rotor \in Int /\ start \in 0 .. 7 /\ STEPS \in Nat /\ STEPS > 0 /\ motor_steps \in Int
      /\ left \in Nat /\ taken \in Nat /\ left <= taken /\ step \in 0 .. 7
  BY TrackerConstants DEF Shape, TypeOK
<1>3. CASE Moving
  <2>1. PICK b \in {-1, 0} : Side(b) /\ Track(b)  BY <1>1, <1>3 DEF PosInv, Turning
  <2>2. taken = STEPS /\ (left = 0 => step = 0) BY <1>3 DEF Moving, CallInv, Shape, Working
  <2>3. Near(b)
    <3>1. CASE dir = 1  BY <1>2, <2>1, <2>2, <3>1 DEF Track, Near
    <3>2. CASE dir # 1  BY <1>2, <2>1, <2>2, <3>2 DEF Track, Near
    <3> QED  BY <3>1, <3>2
  <2> QED  BY <2>1, <2>3
<1>4. CASE ~Moving
  <2>1. CASE Fresh
    <3>1. CASE start >= 3
      <4>1. Side(0) /\ Near(0)  BY <1>2, <2>1, <3>1 DEF Fresh, Side, Near
      <4> QED  BY <4>1
    <3>2. CASE ~(start >= 3)
      <4>1. Side(-1) /\ Near(-1)  BY <1>2, <2>1, <3>2 DEF Fresh, Side, Near
      <4> QED  BY <4>1
    <3> QED  BY <3>1, <3>2
  <2>2. CASE \E b \in {-1, 0} : Side(b) /\ Still(b)
    <3>1. PICK b \in {-1, 0} : Side(b) /\ Still(b)  BY <2>2
    <3>2. Near(b)  BY <1>2, <3>1 DEF Still, Near
    <3> QED  BY <3>1, <3>2
  <2> QED  BY <1>1, <1>4, <2>1, <2>2 DEF PosInv, Resting
<1> QED  BY <1>3, <1>4

(* A phase in the middle of a turn moves the rotor by one. *)
LEMMA MidPhase ==
  ASSUME Shape, TurnPhase, Moving, NEW k \in Int, Track(k)
  PROVE  Track(k)'
<1>1. /\ rotor \in Int /\ motor_steps \in Int /\ left \in Nat /\ taken \in Nat /\ step \in 0 .. 7
      /\ dir \in {1, -1} /\ UNCHANGED <<dir, taken, motor_steps>>
  BY DEF Shape, TypeOK, TurnPhase
<1>2. PICK r \in rotor - 4 .. rotor + 4 : rotor' = r /\ r % 8 = Sequence(step)
  BY DEF TurnPhase, Pull
<1>3. CASE dir = 1
  <2>1. rotor = 8 * (motor_steps + taken - left + k) + 7 + step /\ Sequence(step) = step
    BY <1>3 DEF Track, Sequence
  <2>2. rotor' = rotor + 1
    <3>1. 8 * (motor_steps + taken - left + k + 1) + step = rotor + 1  BY <1>1, <2>1
    <3>2. motor_steps + taken - left + k + 1 \in Int  BY <1>1
    <3> QED  BY <1>1, <1>2, <2>1, <3>1, <3>2, Pulled
  <2>3. CASE step = 7  BY <1>1, <1>3, <2>1, <2>2, <2>3 DEF TurnPhase, Track
  <2>4. CASE step # 7  BY <1>1, <1>3, <2>1, <2>2, <2>4 DEF TurnPhase, Track
  <2> QED  BY <2>3, <2>4
<1>4. CASE dir = -1
  <2>1. rotor = 8 * (motor_steps - taken + left + k) + 8 - step /\ Sequence(step) = 7 - step
    BY <1>4 DEF Track, Sequence
  <2>2. rotor' = rotor - 1
    <3>1. 8 * (motor_steps - taken + left + k) + (7 - step) = rotor - 1  BY <1>1, <2>1
    <3>2. motor_steps - taken + left + k \in Int /\ 7 - step \in 0 .. 7  BY <1>1
    <3> QED  BY <1>1, <1>2, <2>1, <3>1, <3>2, Pulled
  <2>3. CASE step = 7  BY <1>1, <1>4, <2>1, <2>2, <2>3 DEF TurnPhase, Track
  <2>4. CASE step # 7  BY <1>1, <1>4, <2>1, <2>2, <2>4 DEF TurnPhase, Track
  <2> QED  BY <2>3, <2>4
<1> QED  BY <1>1, <1>3, <1>4

(* The first phase of a turn pulls the rotor to where the turn begins. *)
LEMMA FirstPhase ==
  ASSUME Shape, TurnPhase, ~Moving, Resting
  PROVE  Turning'
<1>1. /\ rotor \in Int /\ motor_steps \in Int /\ left \in Nat /\ taken \in Nat /\ step = 0
      /\ left = taken /\ left' = left /\ step' = 1 /\ start \in 0 .. 7 /\ STEPS \in Nat /\ STEPS > 0
      /\ dir \in {1, -1} /\ UNCHANGED <<dir, taken, motor_steps, start, cut>>
  BY TrackerConstants DEF Shape, TypeOK, TurnPhase, Moving
<1>2. PICK r \in rotor - 4 .. rotor + 4 : rotor' = r /\ r % 8 = Sequence(step)
  BY DEF TurnPhase, Pull
<1>3. PICK z \in Int : r = 8 * z + Sequence(step)  BY <1>1, <1>2, Cycle
<1>4. \A k \in Int : (dir = 1 /\ r = 8 * (motor_steps + k) + 8) \/ (dir = -1 /\ r = 8 * (motor_steps + k) + 7)
                    => Track(k)'
  BY <1>1, <1>2 DEF Track
<1>5. Sequence(step) = (IF dir = 1 THEN 0 ELSE 7)  BY <1>1 DEF Sequence
<1>6. CASE cut
  <2>1. PICK b \in {-1, 0} : Side(b) /\ Near(b)  BY <1>6 DEF Resting
  <2>2. \E k \in b - STEPS .. b + STEPS : Track(k)'
    <3>1. CASE dir = 1
      <4>1. z - motor_steps - 1 \in b - STEPS .. b + STEPS
        <5>1. r = 8 * z /\ r <= rotor + 4 /\ rotor - 4 <= r  BY <1>1, <1>2, <1>3, <1>5, <3>1
        <5>2. /\ 8 * (motor_steps + b - STEPS) + 4 <= 8 * z
              /\ 8 * z <= 8 * (motor_steps + b + STEPS) + 11
          BY <1>1, <2>1, <5>1 DEF Near
        <5> QED  BY <1>1, <5>2
      <4>2. Track(z - motor_steps - 1)'
        <5>1. r = 8 * (motor_steps + (z - motor_steps - 1)) + 8  BY <1>1, <1>3, <1>5, <3>1
        <5> QED  BY <1>1, <1>2, <3>1, <5>1 DEF Track
      <4> QED  BY <1>1, <4>1, <4>2 DEF Track
    <3>2. CASE dir = -1
      <4>1. z - motor_steps \in b - STEPS .. b + STEPS  BY <1>1, <1>2, <1>3, <1>5, <2>1, <3>2 DEF Near
      <4>2. Track(z - motor_steps)'
        <5>1. r = 8 * (motor_steps + (z - motor_steps)) + 7  BY <1>1, <1>3, <1>5, <3>2
        <5> QED  BY <1>1, <1>2, <3>2, <5>1 DEF Track
      <4> QED  BY <1>1, <4>1, <4>2 DEF Track
    <3> QED  BY <1>1, <3>1, <3>2
  <2> QED  BY <1>1, <1>6, <2>1, <2>2 DEF Turning, Side
<1>7. CASE ~cut
  <2>1. CASE Fresh
    <3>1. ASSUME NEW b \in {-1, 0}, Side(b), r = 8 * b + (IF dir = 1 THEN 8 ELSE 7) PROVE Turning'
      <4>1. Track(b)'  BY <1>1, <1>4, <2>1, <3>1 DEF Fresh
      <4> QED  BY <1>1, <1>7, <3>1, <4>1 DEF Turning, Side
    <3>2. rotor = start /\ start \in 0 .. 7  BY <1>1, <2>1 DEF Fresh
    <3>3. CASE dir = 1
      <4>1. z \in {0, 1} /\ (z = 0 => start <= 4) /\ (z = 1 => start >= 4)
        BY <1>2, <1>3, <1>5, <3>2, <3>3
      <4>2. Side(z - 1) /\ z - 1 \in {-1, 0} /\ r = 8 * (z - 1) + 8
        BY <1>1, <1>3, <1>5, <3>3, <4>1 DEF Side
      <4> QED  BY <3>1, <3>3, <4>2
    <3>4. CASE dir = -1
      <4>1. z \in {-1, 0} /\ (z = -1 => start <= 3) /\ (z = 0 => start >= 3)
        BY <1>2, <1>3, <1>5, <3>2, <3>4
      <4>2. Side(z) /\ r = 8 * z + 7  BY <1>1, <1>3, <1>5, <3>4, <4>1 DEF Side
      <4> QED  BY <3>1, <3>4, <4>1, <4>2
    <3> QED  BY <1>1, <3>3, <3>4
  <2>2. CASE \E b \in {-1, 0} : Side(b) /\ Still(b)
    <3>1. PICK b \in {-1, 0} : Side(b) /\ Still(b)  BY <2>2
    <3>2. Track(b)'
      <4>1. CASE dir = 1
        <5>1. z = motor_steps + b + 1
          <6>1. r = 8 * z /\ r <= rotor + 4 /\ rotor - 4 <= r  BY <1>1, <1>2, <1>3, <1>5, <4>1
          <6>2. /\ 8 * (motor_steps + b) + 3 <= 8 * z
                /\ 8 * z <= 8 * (motor_steps + b) + 12
            BY <1>1, <3>1, <6>1 DEF Still
          <6> QED  BY <1>1, <6>2
        <5> QED  BY <1>1, <1>3, <1>4, <1>5, <4>1, <5>1
      <4>2. CASE dir = -1
        <5>1. z = motor_steps + b  BY <1>1, <1>2, <1>3, <1>5, <3>1, <4>2 DEF Still
        <5> QED  BY <1>1, <1>3, <1>4, <1>5, <4>2, <5>1
      <4> QED  BY <1>1, <4>1, <4>2
    <3> QED  BY <1>1, <1>7, <3>1, <3>2 DEF Turning, Side
  <2> QED  BY <1>7, <2>1, <2>2 DEF Resting
<1> QED  BY <1>6, <1>7

(* The end of a turn: it is recorded, or it was the way back. *)
LEMMA TurnEndPos ==
  ASSUME Shape, CallInv, PosInv, TurnEnd
  PROVE  PosInv'
<1>1. /\ pc = "turn" /\ left = 0 /\ step = 0 /\ taken > 0 /\ Moving
      /\ rotor \in Int /\ motor_steps \in Int /\ taken \in Nat /\ start \in 0 .. 7
      /\ STEPS \in Nat /\ STEPS > 0
      /\ dir \in {1, -1} /\ caller \in {"loop", "reset"} /\ UNCHANGED <<rotor, start, cut>>
  BY TrackerConstants DEF Shape, TypeOK, Working, TurnEnd, Moving
<1>2. Turning  BY <1>1 DEF PosInv
<1>3. CASE caller = "loop"
  <2>1. ~cut /\ pc' \in {"frame", "tilt"}
    BY <1>3 DEF CallInv, TurnEnd, AfterTurn, BeginTilt
  <2>2. PICK b \in {-1, 0} : Side(b) /\ Track(b)  BY <1>2, <2>1 DEF Turning
  <2>3. Still(b)'
    <3>1. CASE dir = 1
      <4>1. motor_steps' = motor_steps + taken  BY <1>1, <1>3, <3>1 DEF TurnEnd
      <4> QED  BY <1>1, <2>2, <3>1, <4>1 DEF Track, Still
    <3>2. CASE dir = -1
      <4>1. motor_steps' = motor_steps - taken  BY <1>1, <1>3, <3>2 DEF TurnEnd
      <4> QED  BY <1>1, <2>2, <3>2, <4>1 DEF Track, Still
    <3> QED  BY <1>1, <3>1, <3>2
  <2>4. Resting'  BY <1>1, <2>1, <2>2, <2>3 DEF Resting, Side
  <2> QED  BY <2>1, <2>4 DEF PosInv, Moving
<1>4. CASE caller = "reset"
  <2>1. pc' = "done" /\ motor_steps = (IF dir = 1 THEN -taken ELSE taken)
    BY <1>1, <1>4 DEF CallInv, TurnEnd, AfterTurn
  <2>2. \A k \in Int : Track(k) => rotor = 8 * k + 7 \/ rotor = 8 * k + 8
    BY <1>1, <2>1 DEF Track
  <2>3. CASE cut
    <3>1. PICK b \in {-1, 0} : Side(b) /\ \E k \in b - STEPS .. b + STEPS : Track(k)
      BY <1>2, <2>3 DEF Turning
    <3>2. PICK k \in b - STEPS .. b + STEPS : Track(k)  BY <3>1
    <3>3. k \in Int /\ b - STEPS <= k /\ k <= b + STEPS  BY <1>1
    <3>4. rotor = 8 * k + 7 \/ rotor = 8 * k + 8  BY <2>2, <3>2, <3>3
    <3>5. 8 * (b - STEPS) + 7 <= rotor /\ rotor <= 8 * (b + STEPS) + 8  BY <1>1, <3>3, <3>4
    <3>6. Off < 8 * (STEPS + 1)
      <4>1. CASE b = 0   BY <1>1, <3>1, <3>5, <4>1 DEF Side, Off
      <4>2. CASE b = -1  BY <1>1, <3>1, <3>5, <4>2 DEF Side, Off
      <4> QED  BY <4>1, <4>2
    <3> QED  BY <1>1, <2>1, <2>3, <3>6 DEF PosInv, Home, Off
  <2>4. CASE ~cut
    <3>1. PICK b \in {-1, 0} : Side(b) /\ Track(b)  BY <1>2, <2>4 DEF Turning
    <3>2. rotor = 8 * b + 7 \/ rotor = 8 * b + 8  BY <2>2, <3>1
    <3>3. Off <= 5 /\ Off < 8 * (STEPS + 1)  BY <1>1, <3>1, <3>2 DEF Side, Off
    <3> QED  BY <1>1, <2>1, <2>4, <3>3 DEF PosInv, Home, Off
  <2> QED  BY <2>3, <2>4
<1> QED  BY <1>1, <1>3, <1>4

(* A step that neither turns nor records, on which no turn begins. *)
LEMMA RestingKept ==
  ASSUME Shape, PosInv, ~Moving, pc \notin {"done", "stopped"},
         UNCHANGED <<motor_steps, rotor, start, cut>>, pc' # "done",
         pc' = "turn" => left' = taken' /\ step' = 0 /\ taken' \in Int
  PROVE  PosInv'
<1>1. Resting'  BY DEF PosInv, Resting, Fresh, Side, Still, Near
<1> QED  BY <1>1 DEF PosInv, Moving

LEMMA ResetPos ==
  ASSUME Shape, Shape', Reset, Resting' PROVE PosInv'
<1>1. CASE current_servo_angle # SERVO_INITIAL
  <2>1. pc' = "tilt"  BY <1>1 DEF Reset, BeginTilt
  <2> QED  BY <2>1 DEF PosInv, Moving
<1>2. CASE current_servo_angle = SERVO_INITIAL
  BY <1>2, BackHomePos DEF Reset
<1> QED  BY <1>1, <1>2

LEMMA PosStep == Shape /\ CallInv /\ PosInv /\ [Next]_vars => PosInv'
<1> SUFFICES ASSUME Shape, CallInv, PosInv, [Next]_vars PROVE PosInv'  OBVIOUS
<1>0. Shape'  BY ShapeStep
<1>1. ASSUME NEW d \in Direction \cup {0}, NEW t \in Tilt \cup {0}, Follow(d, t)
      PROVE  PosInv'
  <2>1. pc = "frame" /\ ~Moving  BY <1>1 DEF Follow, Moving
  <2>2. /\ UNCHANGED <<motor_steps, rotor, start, cut>> /\ pc' # "done"
        /\ pc' = "turn" => left' = taken' /\ step' = 0 /\ taken' \in Int
    BY <1>1, TrackerConstants DEF Follow, BeginTurn, BeginTilt, stepper
  <2> QED  BY <2>1, <2>2, RestingKept
<1>2. CASE TurnPhase
  <2>1. pc = "turn" /\ pc' = "turn" /\ UNCHANGED <<start, cut>>  BY <1>2 DEF TurnPhase
  <2>2. Moving'
    <3>1. step' > 0 \/ left' < taken'
      <4>1. CASE step = 7  BY <1>2, <4>1 DEF TurnPhase, Shape, TypeOK
      <4>2. CASE step # 7  BY <1>2, <4>2 DEF TurnPhase, Shape, TypeOK
      <4> QED  BY <4>1, <4>2
    <3> QED  BY <2>1, <3>1 DEF Moving
  <2>3. CASE Moving
    <3>1. Turning  BY <2>1, <2>3 DEF PosInv
    <3>2. ASSUME NEW b \in {-1, 0} PROVE Side(b)' <=> Side(b)  BY <2>1 DEF Side
    <3>3. CASE cut
      <4>1. PICK b \in {-1, 0} : Side(b) /\ \E k \in b - STEPS .. b + STEPS : Track(k)
        BY <3>1, <3>3 DEF Turning
      <4>2. PICK k \in b - STEPS .. b + STEPS : Track(k)  BY <4>1
      <4>3. Track(k)'  BY <1>2, <2>3, <4>2, MidPhase
      <4> QED  BY <2>1, <2>2, <3>2, <3>3, <4>1, <4>3 DEF PosInv, Turning
    <3>4. CASE ~cut
      <4>1. PICK b \in {-1, 0} : Side(b) /\ Track(b)  BY <3>1, <3>4 DEF Turning
      <4>2. Track(b)'  BY <1>2, <2>3, <4>1, MidPhase
      <4> QED  BY <2>1, <2>2, <3>2, <3>4, <4>1, <4>2 DEF PosInv, Turning
    <3> QED  BY <3>3, <3>4
  <2>4. CASE ~Moving
    <3>1. Turning'  BY <1>2, <2>1, <2>4, FirstPhase DEF PosInv
    <3> QED  BY <2>1, <2>2, <3>1 DEF PosInv
  <2> QED  BY <2>3, <2>4
<1>3. CASE TurnEnd  BY <1>3, TurnEndPos
<1>4. CASE TiltPulse  BY <1>4, RestingKept DEF TiltPulse, stepper, Moving
<1>5. CASE TiltEnd
  <2>1. pc = "settle" /\ ~Moving /\ UNCHANGED <<start, cut>>  BY <1>5 DEF TiltEnd, Moving
  <2>2. CASE caller = "reset"
    <3>1. BackHome(motor_steps)  BY <1>5, <2>2 DEF TiltEnd
    <3>2. UNCHANGED <<motor_steps, rotor>>  BY <3>1 DEF BackHome, BeginTurn, stepper
    <3>3. Resting'  BY <2>1, <3>2 DEF PosInv, Resting, Fresh, Side, Still, Near
    <3> QED  BY <1>0, <3>1, <3>3, BackHomePos
  <2>3. CASE caller # "reset"
    BY <1>5, <2>1, <2>3, RestingKept DEF TiltEnd, stepper
  <2> QED  BY <2>2, <2>3
<1>6. CASE Leave \/ Interrupt
  <2>1. Reset /\ start' = start /\ pc \notin {"done", "stopped"}
    BY <1>6 DEF Leave, Interrupt
  <2>2. UNCHANGED <<motor_steps, rotor>>
    BY <2>1 DEF Reset, BackHome, BeginTurn, stepper
  <2>3. CASE Leave
    <3>1. ~Moving /\ cut' = cut  BY <2>3 DEF Leave, Moving
    <3>2. Resting'  BY <2>1, <2>2, <3>1 DEF PosInv, Resting, Fresh, Side, Still, Near
    <3> QED  BY <1>0, <2>1, <3>2, ResetPos
  <2>4. CASE Interrupt
    <3>1. cut' = TRUE /\ caller = "loop"  BY <2>4 DEF Interrupt
    <3>2. PICK b \in {-1, 0} : Side(b) /\ Near(b)  BY <3>1, CutNear
    <3>3. Resting'  BY <2>1, <2>2, <3>1, <3>2 DEF Resting, Side, Near
    <3> QED  BY <1>0, <2>1, <3>3, ResetPos
  <2> QED  BY <1>6, <2>3, <2>4
<1>7. CASE InterruptReset  BY <1>7 DEF InterruptReset, PosInv
<1>8. CASE UNCHANGED vars
  BY <1>8 DEF vars, stepper, PosInv, Moving, Turning, Resting, Fresh, Side, Still, Near, Track, Home, Off
<1> QED  BY <1>1, <1>2, <1>3, <1>4, <1>5, <1>6, <1>7, <1>8 DEF Next, Motors

LEMMA PosInvariant == Spec => [](Shape /\ CallInv /\ ServoInv /\ PosInv)
BY ShapeInit, ShapeStep, CallInit, CallStep, PosInit, PosStep, PTL DEF Spec

(* The mount comes back (reset_motors, l. 78-91): when no movement was cut, the  *)
(* servo is at its first angle and the rotor within five phases of its start,   *)
(* after any number of turns to either side, each of any length.                *)
THEOREM MountReturnsHome == Spec => []ReturnsHome
<1>1. Shape /\ CallInv /\ ServoInv /\ PosInv => ReturnsHome
  <2> SUFFICES ASSUME Shape, CallInv, ServoInv, PosInv, pc = "done", ~cut PROVE servo = SERVO_INITIAL /\ Off <= 5
    BY DEF ReturnsHome
  <2>1. Off <= 5  BY DEF PosInv, Home
  <2>2. servo = current_servo_angle  BY DEF ServoInv
  <2>3. caller = "reset"  BY DEF CallInv, Shape, TypeOK
  <2> QED  BY <2>1, <2>2, <2>3 DEF ServoInv
<1> QED  BY <1>1, PosInvariant, PTL

(* A turn that an interrupt cut, whose part is not recorded (l. 59, 183), costs *)
(* no more than that turn and a cycle.                                          *)
THEOREM CutCosts == Spec => []CutCostsOneTurn
<1>1. PosInv => CutCostsOneTurn  BY DEF PosInv, Home, CutCostsOneTurn
<1> QED  BY <1>1, PosInvariant, PTL
=============================================================================
