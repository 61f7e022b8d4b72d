------------------------------- MODULE Drive -------------------------------
(***************************************************************************)
(* The motor driver of the rover, libraries/motor_control/drive.{h,cpp}.   *)
(*                                                                         *)
(* The object remembers a mode, one speed and one rpm for two wheels, and  *)
(* drives four pins: a duty index per wheel (0 is full power, 255 is no    *)
(* power) and a spin direction per wheel.  Speeds are in thousandths of a  *)
(* metre per second, so 0.333 m/s is 333; the arithmetic on them is the    *)
(* code's, with its integer divisions.                                     *)
(*                                                                         *)
(* cruise, turn_right, turn_left and estop are one step each; accelerate   *)
(* and deccelerate block their caller while they walk the duty index, so   *)
(* they are a call step, one step per loop iteration and a return step.    *)
(***************************************************************************)
EXTENDS Integers

CONSTANT Speeds \* the speeds callers pass, in thousandths of m/s

ASSUME SpeedsAssumption == Speeds \subseteq Int

VARIABLES
    mode,   \* _mode
    dir,    \* what the two direction pins were last told
    pwm,    \* what the two PWM pins were last told
    speed,  \* _current_speed
    rpm,    \* _current_rpm
    ramp    \* the loop of accelerate or deccelerate, if one is running

driveVars == <<mode, dir, pwm, speed, rpm, ramp>>

-----------------------------------------------------------------------------
(* Constants of drive.h.                                                   *)

MAX_RPM == 159
MAX_SPEED == 333
HIGH_SPEED == 137
NO_SPEED == 0
NoPower == 255

CLOCKWISE == "clockwise"
COUNTERCLOCKWISE == "counterclockwise"
Spin == {CLOCKWISE, COUNTERCLOCKWISE}

Wheel == {"left", "right"}
Mode == {"ACCELERATING", "DECELERATING", "TURNING", "STOPPED", "CRUISING"}
NoRamp == [kind |-> "none", i |-> 0]

Both(x) == [w \in Wheel |-> x]
Each(l, r) == [w \in Wheel |-> IF w = "left" THEN l ELSE r]

-----------------------------------------------------------------------------
(* The conversions.  (255 - i)/255 is a division of integers, so it is 1   *)
(* for i = 0 and 0 for every other index.                                  *)

ConvertIToSpeed(i) ==
    IF i > NoPower THEN 0 ELSE ((NoPower - i) \div NoPower) * MAX_SPEED

ConvertIToRpm(i) ==
    IF i > NoPower THEN MAX_RPM ELSE ((NoPower - i) \div NoPower) * MAX_RPM

ConvertSpeedToI(s) ==
    IF s >= MAX_SPEED THEN 0
    ELSE IF s <= 0 THEN NoPower
    ELSE (NoPower * (MAX_SPEED - s)) \div MAX_SPEED

ConvertSpeedToRpm(s) == ConvertIToRpm(ConvertSpeedToI(s))

-----------------------------------------------------------------------------
(* Direction pins.                                                         *)

Forward == Each(CLOCKWISE, COUNTERCLOCKWISE)
Backward == Each(COUNTERCLOCKWISE, CLOCKWISE)
Rightward == Both(COUNTERCLOCKWISE)
Leftward == Both(CLOCKWISE)

Straight(fwd) == IF fwd THEN Forward ELSE Backward

-----------------------------------------------------------------------------
(* The constructor sets both PWM pins to no power and leaves the direction *)
(* pins as they are.                                                       *)

DriveInit ==
    /\ mode = "STOPPED"
    /\ dir \in [Wheel -> Spin]
    /\ pwm = Both(NoPower)
    /\ speed = 0
    /\ rpm = 0
    /\ ramp = NoRamp

Idle == ramp.kind = "none"

(* accelerate(rate, fwd) up to the head of its loop.  The rate only sets   *)
(* the pause between two iterations.                                       *)
Accelerate(fwd) ==
    /\ Idle
    /\ mode' = "ACCELERATING"
    /\ dir' = Straight(fwd)
    /\ ramp' = [kind |-> "up", i |-> ConvertSpeedToI(speed)]
    /\ UNCHANGED <<pwm, speed, rpm>>

(* One iteration of either loop: both wheels get the index.                *)

WriteIndex(i) ==
    /\ pwm' = Both(i)
    /\ speed' = ConvertIToSpeed(i)
    /\ rpm' = ConvertIToRpm(i)

RampUp ==
    /\ ramp.kind = "up"
    /\ ramp.i > 0
    /\ WriteIndex(ramp.i)
    /\ ramp' = [ramp EXCEPT !.i = @ - 1]
    /\ UNCHANGED <<mode, dir>>

AccelerateDone ==
    /\ ramp.kind = "up"
    /\ ramp.i = 0
    /\ pwm' = Both(0)
    /\ speed' = MAX_SPEED
    /\ rpm' = MAX_RPM
    /\ ramp' = NoRamp
    /\ UNCHANGED <<mode, dir>>

(* deccelerate(rate, fwd).                                                 *)
Deccelerate(fwd) ==
    /\ Idle
    /\ mode' = "DECELERATING"
    /\ dir' = Straight(fwd)
    /\ ramp' = [kind |-> "down", i |-> ConvertSpeedToI(speed)]
    /\ UNCHANGED <<pwm, speed, rpm>>

RampDown ==
    /\ ramp.kind = "down"
    /\ ramp.i < NoPower
    /\ WriteIndex(ramp.i)
    /\ ramp' = [ramp EXCEPT !.i = @ + 1]
    /\ UNCHANGED <<mode, dir>>

DeccelerateDone ==
    /\ ramp.kind = "down"
    /\ ramp.i = NoPower
    /\ WriteIndex(NoPower)
    /\ ramp' = NoRamp
    /\ UNCHANGED <<mode, dir>>

(* turn_right and turn_left keep the duty index where a speed belongs:     *)
(* _current_speed = turn_speed_i, that is i metres per second.             *)
TurnInPlace(s, spins) ==
    /\ Idle
    /\ mode' = "TURNING"
    /\ dir' = spins
    /\ pwm' = Both(ConvertSpeedToI(s))
    /\ speed' = 1000 * ConvertSpeedToI(s)
    /\ rpm' = ConvertSpeedToRpm(s)
    /\ UNCHANGED ramp

TurnRight(s) == TurnInPlace(s, Rightward)
TurnLeft(s) == TurnInPlace(s, Leftward)

BugEStop ==  \* the stop forgets the bookkeeping
    /\ Idle
    /\ mode' = "STOPPED"
    /\ pwm' = Both(NoPower)
    /\ UNCHANGED <<dir, speed, rpm, ramp>>

EStop ==
    /\ Idle
    /\ mode' = "STOPPED"
    /\ pwm' = Both(NoPower)
    /\ speed' = 0
    /\ rpm' = 0
    /\ UNCHANGED <<dir, ramp>>

(* cruise(lspeed, rspeed, fwd); cruise(speed, fwd) is Cruise(s, s, fwd).   *)
Cruise(l, r, fwd) ==
    /\ Idle
    /\ mode' = "CRUISING"
    /\ dir' = Straight(fwd)
    /\ pwm' = Each(ConvertSpeedToI(l), ConvertSpeedToI(r))
    /\ speed' = l
    /\ rpm' = ConvertSpeedToRpm(l)
    /\ UNCHANGED ramp

DriveNext ==
    \/ \E fwd \in BOOLEAN : Accelerate(fwd)
    \/ RampUp
    \/ AccelerateDone
    \/ \E fwd \in BOOLEAN : Deccelerate(fwd)
    \/ RampDown
    \/ DeccelerateDone
    \/ \E s \in Speeds : TurnRight(s)
    \/ \E s \in Speeds : TurnLeft(s)
    \/ EStop
    \/ \E l, r \in Speeds, fwd \in BOOLEAN : Cruise(l, r, fwd)

(* The loops run on the only thread there is: once entered, they go on.    *)
DriveFairness ==
    /\ WF_driveVars(RampUp)
    /\ WF_driveVars(AccelerateDone)
    /\ WF_driveVars(RampDown)
    /\ WF_driveVars(DeccelerateDone)

DriveSpec == DriveInit /\ [][DriveNext]_driveVars /\ DriveFairness

-----------------------------------------------------------------------------
(* Type invariant: the state of the object and of its four pins; every     *)
(* index written to a PWM pin is in 0..255 whatever speed was asked for.   *)
DriveTypeOK ==
    /\ mode \in Mode
    /\ dir \in [Wheel -> Spin]
    /\ pwm \in [Wheel -> 0..NoPower]
    /\ speed \in Int
    /\ rpm \in 0..MAX_RPM
    /\ ramp \in [kind : {"none", "up", "down"}, i : 0..NoPower]

(* The mode tells which way the wheels spin: in place while TURNING, the   *)
(* same way along the track while cruising or ramping (a flag left over    *)
(* from an earlier command never leaks into the pins).                     *)
DirectionAgreesWithMode ==
    /\ mode = "TURNING" => dir["left"] = dir["right"]
    /\ mode \in {"ACCELERATING", "DECELERATING", "CRUISING"} =>
           dir["left"] # dir["right"]

(* Outside a ramp and unless the last command was a turn, the remembered   *)
(* speed is one that convert_speed_to_i maps back to the left wheel's      *)
(* duty index: accelerate and deccelerate rely on it for their start.      *)
SpeedMatchesLeftWheel ==
    Idle /\ mode # "TURNING" => ConvertSpeedToI(speed) = pwm["left"]

(* "Get current speed as starting point" (drive.cpp:44 and 85): a ramp     *)
(* starts from the duty index at which the wheels run.                     *)
RampStartsAtCurrentSpeed ==
    [][Idle /\ ramp'.kind # "none" => ramp'.i = pwm["left"]]_driveVars

(* _current_rpm is at all times the rpm convert_i_to_rpm gives for the     *)
(* left wheel's duty index, in the middle of a ramp too.                   *)
RpmTracksLeftWheel == rpm = ConvertIToRpm(pwm["left"])
=============================================================================
