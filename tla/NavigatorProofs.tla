-------------------------- MODULE NavigatorProofs --------------------------
(***************************************************************************)
(* The safety properties of the motor driver, for every set of speeds, and *)
(* of the navigation loop above it, for every set of ranges and of         *)
(* uninitialised values and any number of laps, and the proof that the     *)
(* loop implements Spiral.                                                 *)
(***************************************************************************)
EXTENDS Navigator, TLAPS

-----------------------------------------------------------------------------
(* The motor driver.                                                       *)

(* The index for any speed, also one out of range, fits a PWM pin.         *)
LEMMA IndexInRange ==
    ASSUME NEW s \in Int
    PROVE  ConvertSpeedToI(s) \in 0..NoPower
BY SMT DEF ConvertSpeedToI, NoPower, MAX_SPEED

(* The rpm of an index is the maximum at full power and otherwise 0, for   *)
(* the division in convert_i_to_rpm is one of integers.                    *)
LEMMA RpmIsAllOrNothing ==
    ASSUME NEW i \in 0..NoPower
    PROVE  ConvertIToRpm(i) = IF i = 0 THEN MAX_RPM ELSE 0
BY SMT DEF ConvertIToRpm, NoPower, MAX_RPM

LEMMA SpeedIsAllOrNothing ==
    ASSUME NEW i \in 0..NoPower
    PROVE  ConvertIToSpeed(i) = IF i = 0 THEN MAX_SPEED ELSE 0
BY SMT DEF ConvertIToSpeed, NoPower, MAX_SPEED

-----------------------------------------------------------------------------
LEMMA DriveTypeInit == DriveInit => DriveTypeOK
BY SMT DEF DriveInit, DriveTypeOK, Mode, Both, Wheel, NoRamp, NoPower, MAX_RPM

LEMMA StraightType ==
    ASSUME NEW fwd \in BOOLEAN
    PROVE  /\ Straight(fwd) \in [Wheel -> Spin]
           /\ Straight(fwd)["left"] # Straight(fwd)["right"]
BY DEF Straight, Forward, Backward, Each, Wheel, Spin, CLOCKWISE, COUNTERCLOCKWISE

LEMMA AccelerateType ==
    ASSUME DriveTypeOK, NEW fwd \in BOOLEAN, Accelerate(fwd)
    PROVE  DriveTypeOK'
BY IndexInRange, StraightType DEF DriveTypeOK, Accelerate, Mode

LEMMA DeccelerateType ==
    ASSUME DriveTypeOK, NEW fwd \in BOOLEAN, Deccelerate(fwd)
    PROVE  DriveTypeOK'
BY IndexInRange, StraightType DEF DriveTypeOK, Deccelerate, Mode

LEMMA WriteIndexType ==
    ASSUME NEW i \in 0..NoPower, WriteIndex(i)
    PROVE  /\ pwm' \in [Wheel -> 0..NoPower]
           /\ speed' \in Int
           /\ rpm' \in 0..MAX_RPM
BY RpmIsAllOrNothing, SpeedIsAllOrNothing
   DEF WriteIndex, Both, MAX_RPM, MAX_SPEED

LEMMA RampUpType == ASSUME DriveTypeOK, RampUp PROVE DriveTypeOK'
<1>1. ramp.i \in 0..NoPower
  BY DEF DriveTypeOK
<1>2. pwm' \in [Wheel -> 0..NoPower] /\ speed' \in Int /\ rpm' \in 0..MAX_RPM
  BY <1>1, WriteIndexType DEF RampUp
<1>3. ramp' \in [kind : {"none", "up", "down"}, i : 0..NoPower]
  BY DEF RampUp, DriveTypeOK, NoPower
<1>4. QED
  BY <1>2, <1>3 DEF RampUp, DriveTypeOK

LEMMA RampDownType == ASSUME DriveTypeOK, RampDown PROVE DriveTypeOK'
<1>1. ramp.i \in 0..NoPower
  BY DEF DriveTypeOK
<1>2. pwm' \in [Wheel -> 0..NoPower] /\ speed' \in Int /\ rpm' \in 0..MAX_RPM
  BY <1>1, WriteIndexType DEF RampDown
<1>3. ramp' \in [kind : {"none", "up", "down"}, i : 0..NoPower]
  BY DEF RampDown, DriveTypeOK, NoPower
<1>4. QED
  BY <1>2, <1>3 DEF RampDown, DriveTypeOK

LEMMA RampDoneType ==
    ASSUME DriveTypeOK, AccelerateDone \/ DeccelerateDone
    PROVE  DriveTypeOK'
<1>1. CASE AccelerateDone
  BY <1>1 DEF AccelerateDone, DriveTypeOK, NoRamp, Both, NoPower, MAX_SPEED, MAX_RPM
<1>2. CASE DeccelerateDone
  <2>1. NoPower \in 0..NoPower
    BY DEF NoPower
  <2>2. pwm' \in [Wheel -> 0..NoPower] /\ speed' \in Int /\ rpm' \in 0..MAX_RPM
    BY <1>2, <2>1, WriteIndexType DEF DeccelerateDone
  <2>3. NoRamp \in [kind : {"none", "up", "down"}, i : 0..NoPower]
    BY DEF NoRamp, NoPower
  <2>4. QED
    BY <1>2, <2>2, <2>3 DEF DeccelerateDone, DriveTypeOK
<1>3. QED
  BY <1>1, <1>2

LEMMA SpeedToRpmType ==
    ASSUME NEW s \in Int
    PROVE  ConvertSpeedToRpm(s) \in 0..MAX_RPM
BY IndexInRange, RpmIsAllOrNothing DEF ConvertSpeedToRpm, MAX_RPM

LEMMA TurnType ==
    ASSUME DriveTypeOK, NEW s \in Int, NEW spins \in [Wheel -> Spin],
           TurnInPlace(s, spins)
    PROVE  DriveTypeOK'
<1>1. ConvertSpeedToI(s) \in 0..NoPower /\ 1000 * ConvertSpeedToI(s) \in Int
  BY IndexInRange DEF NoPower
<1>2. QED
  BY <1>1, SpeedToRpmType DEF TurnInPlace, DriveTypeOK, Both, Mode

LEMMA EStopType == ASSUME DriveTypeOK, EStop PROVE DriveTypeOK'
BY DEF EStop, DriveTypeOK, Both, NoPower, Mode, MAX_RPM

LEMMA CruiseType ==
    ASSUME DriveTypeOK, NEW l \in Int, NEW r \in Int, NEW fwd \in BOOLEAN,
           Cruise(l, r, fwd)
    PROVE  DriveTypeOK'
BY IndexInRange, StraightType, SpeedToRpmType DEF Cruise, DriveTypeOK, Each, Mode

LEMMA SpinTypes ==
    /\ Rightward \in [Wheel -> Spin]
    /\ Leftward \in [Wheel -> Spin]
    /\ Rightward["left"] = Rightward["right"]
    /\ Leftward["left"] = Leftward["right"]
BY DEF Rightward, Leftward, Both, Wheel, Spin

LEMMA DriveTypeStep == DriveTypeOK /\ [DriveNext]_driveVars => DriveTypeOK'
<1> SUFFICES ASSUME DriveTypeOK, [DriveNext]_driveVars
             PROVE  DriveTypeOK'
  OBVIOUS
<1>1. ASSUME NEW fwd \in BOOLEAN, Accelerate(fwd) PROVE DriveTypeOK'
  BY <1>1, AccelerateType
<1>2. ASSUME NEW fwd \in BOOLEAN, Deccelerate(fwd) PROVE DriveTypeOK'
  BY <1>2, DeccelerateType
<1>3. CASE RampUp
  BY <1>3, RampUpType
<1>4. CASE RampDown
  BY <1>4, RampDownType
<1>5. CASE AccelerateDone \/ DeccelerateDone
  BY <1>5, RampDoneType
<1>6. ASSUME NEW s \in Speeds, TurnRight(s) \/ TurnLeft(s) PROVE DriveTypeOK'
  BY <1>6, SpeedsAssumption, SpinTypes, TurnType DEF TurnRight, TurnLeft
<1>7. CASE EStop
  BY <1>7, EStopType
<1>8. ASSUME NEW l \in Speeds, NEW r \in Speeds, NEW fwd \in BOOLEAN,
             Cruise(l, r, fwd)
      PROVE  DriveTypeOK'
  BY <1>8, SpeedsAssumption, CruiseType
<1>9. CASE UNCHANGED driveVars
  BY <1>9 DEF driveVars, DriveTypeOK
<1>10. QED
  BY <1>1, <1>2, <1>3, <1>4, <1>5, <1>6, <1>7, <1>8, <1>9 DEF DriveNext

(* The state of the driver is well typed: whatever speeds callers ask for, *)
(* drive.cpp writes indexes in 0..255 to its pins and its loops stay in it.*)
THEOREM DriveTypeCorrect == DriveSpec => []DriveTypeOK
<1>1. DriveInit => DriveTypeOK
  BY DriveTypeInit
<1>2. DriveTypeOK /\ [DriveNext]_driveVars => DriveTypeOK'
  BY DriveTypeStep
<1>3. QED
  BY <1>1, <1>2, PTL DEF DriveSpec

-----------------------------------------------------------------------------
(* After any call but a turn, the remembered speed converts back to the    *)
(* index on the left wheel; the type invariant is the lemma it needs, for  *)
(* the conversion of the indexes written by a ramp.                        *)
THEOREM SpeedMatches == DriveSpec => []SpeedMatchesLeftWheel
<1>1. DriveInit => SpeedMatchesLeftWheel
  BY DEF DriveInit, SpeedMatchesLeftWheel, ConvertSpeedToI, Both, Wheel, NoPower,
         MAX_SPEED
<1>2. ASSUME DriveTypeOK, SpeedMatchesLeftWheel, [DriveNext]_driveVars
      PROVE  SpeedMatchesLeftWheel'
  <2>1. ASSUME NEW fwd \in BOOLEAN, Accelerate(fwd) \/ Deccelerate(fwd)
        PROVE  SpeedMatchesLeftWheel'
    BY <1>2, <2>1 DEF Accelerate, Deccelerate, SpeedMatchesLeftWheel, Idle
  <2>2. CASE RampUp \/ RampDown
    <3>1. ramp'.kind = ramp.kind /\ ramp.kind # "none"
      BY <1>2, <2>2 DEF RampUp, RampDown, DriveTypeOK
    <3>2. QED
      BY <3>1 DEF SpeedMatchesLeftWheel, Idle
  <2>3. CASE AccelerateDone
    BY <2>3 DEF AccelerateDone, SpeedMatchesLeftWheel, ConvertSpeedToI, Both, Wheel,
                MAX_SPEED
  <2>4. CASE DeccelerateDone
    <3>1. ConvertIToSpeed(NoPower) = 0 /\ ConvertSpeedToI(0) = NoPower
      BY DEF ConvertIToSpeed, ConvertSpeedToI, NoPower, MAX_SPEED
    <3>2. QED
      BY <2>4, <3>1 DEF DeccelerateDone, WriteIndex, SpeedMatchesLeftWheel, Both, Wheel
  <2>5. ASSUME NEW s \in Speeds, TurnRight(s) \/ TurnLeft(s)
        PROVE  SpeedMatchesLeftWheel'
    BY <2>5 DEF TurnRight, TurnLeft, TurnInPlace, SpeedMatchesLeftWheel
  <2>6. CASE EStop
    <3>1. ConvertSpeedToI(0) = NoPower
      BY DEF ConvertSpeedToI, NoPower, MAX_SPEED
    <3>2. QED
      BY <2>6, <3>1 DEF EStop, SpeedMatchesLeftWheel, Both, Wheel
  <2>7. ASSUME NEW l \in Speeds, NEW r \in Speeds, NEW fwd \in BOOLEAN,
               Cruise(l, r, fwd)
        PROVE  SpeedMatchesLeftWheel'
    BY <2>7 DEF Cruise, SpeedMatchesLeftWheel, Each, Wheel
  <2>8. CASE UNCHANGED driveVars
    BY <1>2, <2>8 DEF driveVars, SpeedMatchesLeftWheel, Idle
  <2>9. QED
    BY <1>2, <2>1, <2>2, <2>3, <2>4, <2>5, <2>6, <2>7, <2>8 DEF DriveNext
<1>3. QED
  BY <1>1, <1>2, DriveTypeCorrect, PTL DEF DriveSpec

(* _current_rpm is the rpm of the left wheel's index in every state, the   *)
(* middle of a ramp included.                                              *)
THEOREM RpmTracks == DriveSpec => []RpmTracksLeftWheel
<1>1. DriveInit => RpmTracksLeftWheel
  BY DEF DriveInit, RpmTracksLeftWheel, ConvertIToRpm, Both, Wheel, NoPower, MAX_RPM
<1>2. ASSUME DriveTypeOK, RpmTracksLeftWheel, [DriveNext]_driveVars
      PROVE  RpmTracksLeftWheel'
  <2>1. ASSUME NEW fwd \in BOOLEAN, Accelerate(fwd) \/ Deccelerate(fwd)
        PROVE  RpmTracksLeftWheel'
    BY <1>2, <2>1 DEF Accelerate, Deccelerate, RpmTracksLeftWheel
  <2>2. CASE RampUp \/ RampDown \/ DeccelerateDone
    BY <1>2, <2>2 DEF RampUp, RampDown, DeccelerateDone, WriteIndex, RpmTracksLeftWheel,
                Both, Wheel
  <2>3. CASE AccelerateDone
    BY <2>3 DEF AccelerateDone, RpmTracksLeftWheel, ConvertIToRpm, Both, Wheel,
                NoPower, MAX_RPM
  <2>4. ASSUME NEW s \in Speeds, TurnRight(s) \/ TurnLeft(s)
        PROVE  RpmTracksLeftWheel'
    BY <2>4 DEF TurnRight, TurnLeft, TurnInPlace, RpmTracksLeftWheel,
                ConvertSpeedToRpm, Both, Wheel
  <2>5. CASE EStop
    BY <2>5 DEF EStop, RpmTracksLeftWheel, ConvertIToRpm, Both, Wheel, NoPower, MAX_RPM
  <2>6. ASSUME NEW l \in Speeds, NEW r \in Speeds, NEW fwd \in BOOLEAN,
               Cruise(l, r, fwd)
        PROVE  RpmTracksLeftWheel'
    BY <2>6 DEF Cruise, RpmTracksLeftWheel, ConvertSpeedToRpm, Each, Wheel
  <2>7. CASE UNCHANGED driveVars
    BY <1>2, <2>7 DEF driveVars, RpmTracksLeftWheel
  <2>8. QED
    BY <1>2, <2>1, <2>2, <2>3, <2>4, <2>5, <2>6, <2>7 DEF DriveNext
<1>3. QED
  BY <1>1, <1>2, DriveTypeCorrect, PTL DEF DriveSpec

(* The direction pins follow the mode: together in place, opposed on the   *)
(* straight.                                                               *)
THEOREM DirectionAgrees == DriveSpec => []DirectionAgreesWithMode
<1>1. DriveInit => DirectionAgreesWithMode
  BY DEF DriveInit, DirectionAgreesWithMode
<1>2. ASSUME DirectionAgreesWithMode, [DriveNext]_driveVars
      PROVE  DirectionAgreesWithMode'
  <2>1. ASSUME NEW fwd \in BOOLEAN, Accelerate(fwd) \/ Deccelerate(fwd)
        PROVE  DirectionAgreesWithMode'
    BY <2>1, StraightType DEF Accelerate, Deccelerate, DirectionAgreesWithMode
  <2>2. CASE RampUp \/ RampDown \/ AccelerateDone \/ DeccelerateDone
    BY <1>2, <2>2 DEF RampUp, RampDown, AccelerateDone, DeccelerateDone,
                DirectionAgreesWithMode
  <2>3. ASSUME NEW s \in Speeds, TurnRight(s) \/ TurnLeft(s)
        PROVE  DirectionAgreesWithMode'
    BY <2>3, SpinTypes DEF TurnRight, TurnLeft, TurnInPlace, DirectionAgreesWithMode
  <2>4. CASE EStop
    BY <2>4 DEF EStop, DirectionAgreesWithMode
  <2>5. ASSUME NEW l \in Speeds, NEW r \in Speeds, NEW fwd \in BOOLEAN,
               Cruise(l, r, fwd)
        PROVE  DirectionAgreesWithMode'
    BY <2>5, StraightType DEF Cruise, DirectionAgreesWithMode
  <2>6. CASE UNCHANGED driveVars
    BY <1>2, <2>6 DEF driveVars, DirectionAgreesWithMode
  <2>7. QED
    BY <1>2, <2>1, <2>2, <2>3, <2>4, <2>5, <2>6 DEF DriveNext
<1>3. QED
  BY <1>1, <1>2, PTL DEF DriveSpec

-----------------------------------------------------------------------------
(* Type correctness.                                                       *)

LEMMA OrientationType ==
    /\ Orientation = 0..3
    /\ \A o \in Orientation : /\ Clockwise(o) \in Orientation
                              /\ NextOrientation(o) = Clockwise(o)
BY DEF Orientation, UP, RIGHT, DOWN, LEFT, Clockwise, NextOrientation

LEMMA ReadTOFsType ==
    ASSUME NEW front \in Measurement, NEW left \in Measurement, NEW unset \in Int
    PROVE  ReadTOFs(front, left, unset) \in [front : Int, left : Int]
BY NavAssumption DEF ReadTOFs, Distance, Measurement, NoEcho, Lost

LEMMA CornerType ==
    ASSUME NavTypeOK
    PROVE  /\ row \in Int /\ col \in Int
           /\ \A o \in Orientation : Lap(o) \in Nat
           /\ Corner \in Int \X Int
<1>1. row \in Int /\ col \in Int
  BY DEF NavTypeOK, row, col
<1>2. \A o \in Orientation : Lap(o) \in Nat
  BY DEF NavTypeOK, Lap
<1>3. branch \in {UP, RIGHT, DOWN, LEFT} /\ UP \in Orientation /\ RIGHT \in Orientation
      /\ DOWN \in Orientation /\ LEFT \in Orientation
  BY DEF NavTypeOK, Orientation
<1>4. CASE branch = LEFT
  BY <1>1, <1>2, <1>3, <1>4 DEF Corner, UP, RIGHT, DOWN, LEFT
<1>5. CASE branch = UP
  BY <1>1, <1>2, <1>3, <1>5 DEF Corner, UP, RIGHT, DOWN, LEFT
<1>6. CASE branch = RIGHT
  BY <1>1, <1>2, <1>3, <1>6 DEF Corner, UP, RIGHT, DOWN, LEFT
<1>7. CASE branch = DOWN
  BY <1>1, <1>2, <1>3, <1>7 DEF Corner, UP, RIGHT, DOWN, LEFT
<1>8. QED
  BY <1>1, <1>2, <1>3, <1>4, <1>5, <1>6, <1>7

LEMMA NavTypeInit == NavInit => NavTypeOK
<1> SUFFICES ASSUME NavInit PROVE NavTypeOK
  OBVIOUS
<1>1. DriveTypeOK /\ ramp = NoRamp
  BY DriveTypeInit DEF NavInit, DriveInit
<1>2. EmptyTrack \in [Grid -> {-1, 0, 1}]
  BY DEF EmptyTrack
<1>3. Unread \in [front : Int, left : Int] /\ NoEcho \in Measurement
  BY DEF Unread, Lost, Measurement
<1>4. [o \in Orientation |-> 0] \in [Orientation -> Nat] /\ <<5, 4>> \in Int \X Int
  OBVIOUS
<1>5. LEFT \in Orientation /\ DOWN \in Orientation
  BY DEF Orientation
<1>6. QED
  BY <1>1, <1>2, <1>3, <1>4, <1>5 DEF NavInit, NavTypeOK

LEMMA ResetType == ASSUME NavTypeOK, Reset PROVE NavTypeOK'
<1>1. DriveTypeOK' /\ ramp' = NoRamp
  BY DEF Reset, DriveTypeOK, NavTypeOK, Mode, Both, Wheel, NoRamp, NoPower, MAX_RPM
<1>2. EmptyTrack \in [Grid -> {-1, 0, 1}]
  BY DEF EmptyTrack
<1>3. Unread \in [front : Int, left : Int] /\ NoEcho \in Measurement
  BY DEF Unread, Lost, Measurement
<1>4. compass' \in Orientation /\ origin' \in Orientation
  BY OrientationType DEF Reset, NavTypeOK
<1>5. [o \in Orientation |-> 0] \in [Orientation -> Nat] /\ <<5, 4>> \in Int \X Int
  OBVIOUS
<1>6. LEFT \in Orientation /\ DOWN \in Orientation
  BY DEF Orientation
<1>7. QED
  BY <1>1, <1>2, <1>3, <1>4, <1>5, <1>6 DEF Reset, NavTypeOK

(* What a step that leaves the motors alone, and one that commands them,   *)
(* do to the driver's part of the state.                                   *)
LEMMA MotorsKept ==
    ASSUME NavTypeOK, UNCHANGED driveVars
    PROVE  DriveTypeOK' /\ ramp' = NoRamp
BY DEF NavTypeOK, DriveTypeOK, driveVars

LEMMA MotorsCommanded ==
    ASSUME NavTypeOK, NEW l \in Int, NEW r \in Int,
           Cruise(l, r, TRUE) \/ TurnRight(l) \/ EStop
    PROVE  DriveTypeOK' /\ ramp' = NoRamp
<1>1. DriveTypeOK /\ ramp = NoRamp
  BY DEF NavTypeOK
<1>2. CASE Cruise(l, r, TRUE)
  BY <1>1, <1>2, CruiseType DEF Cruise
<1>3. CASE TurnRight(l)
  BY <1>1, <1>3, TurnType, SpinTypes DEF TurnRight, TurnInPlace
<1>4. CASE EStop
  BY <1>1, <1>4, EStopType DEF EStop
<1>5. QED
  BY <1>2, <1>3, <1>4

LEMMA AutoCorrectMotors ==
    ASSUME NavTypeOK, NEW left \in Int, NEW lap \in Nat, AutoCorrect(left, lap)
    PROVE  DriveTypeOK' /\ ramp' = NoRamp
<1> DEFINE l == IF left < 130 + 340 * lap THEN HIGH_SPEED ELSE MAX_SPEED
           r == IF left > 160 + 340 * lap THEN HIGH_SPEED ELSE MAX_SPEED
<1>1. l \in Int /\ r \in Int
  BY DEF HIGH_SPEED, MAX_SPEED
<1>2. Cruise(l, r, TRUE)
  BY DEF AutoCorrect
<1> HIDE DEF l, r
<1>3. QED
  BY <1>1, <1>2, MotorsCommanded

LEMMA NavTypeStep == NavTypeOK /\ [NavNext]_navVars => NavTypeOK'
<1> SUFFICES ASSUME NavTypeOK, [NavNext]_navVars
             PROVE  NavTypeOK'
  OBVIOUS
<1> USE DEF mapVars, sensorVars, worldVars
<1>1. MAX_SPEED \in Int
  BY DEF MAX_SPEED
<1>2. Unread \in [front : Int, left : Int] /\ NoEcho \in Measurement
  BY DEF Unread, Lost, Measurement
<1>3. CASE ReadSensors
  <2>1. tof' \in [front : Int, left : Int] /\ measured' \in Measurement
    BY <1>3, ReadTOFsType, NavAssumption DEF ReadSensors
  <2>2. QED
    BY <1>3, <2>1, MotorsKept DEF ReadSensors, NavTypeOK
<1>4. CASE SkipPit
  BY <1>2, <1>4, MotorsKept DEF SkipPit, EndPass, NavTypeOK
<1>5. CASE Dispatch
  <2>1. tof.left \in Int
    BY DEF NavTypeOK
  <2>2. tof' \in [front : Int, left : Int] /\ measured' \in Measurement
    BY <1>5, <2>1, ReadTOFsType DEF Dispatch
  <2>3. changeOrientation' \in [Orientation -> Nat]
    BY <1>5 DEF Dispatch, NavTypeOK
  <2>4. QED
    BY <1>5, <2>2, <2>3, MotorsKept DEF Dispatch, NavTypeOK
<1>6. CASE DriveOn
  <2>1. tof.left \in Int /\ Lap(branch) \in Nat
    BY CornerType DEF NavTypeOK
  <2>2. DriveTypeOK' /\ ramp' = NoRamp
    BY <1>6, <2>1, AutoCorrectMotors DEF DriveOn
  <2>3. QED
    BY <1>6, <2>2 DEF DriveOn, NavTypeOK
<1>7. CASE EnterLeg
  <2>1. DriveTypeOK' /\ ramp' = NoRamp
    BY <1>1, <1>7, MotorsCommanded DEF EnterLeg
  <2>2. QED
    BY <1>2, <1>7, <2>1 DEF EnterLeg, EndPass, NavTypeOK
<1>8. CASE BeginTurn
  <2>1. DriveTypeOK' /\ ramp' = NoRamp
    BY <1>1, <1>8, MotorsCommanded DEF BeginTurn
  <2>2. QED
    BY <1>8, <2>1 DEF BeginTurn, NavTypeOK, Orientation
<1>9. CASE SpinRight
  <2>1. DriveTypeOK' /\ ramp' = NoRamp
    BY <1>1, <1>9, MotorsCommanded DEF SpinRight
  <2>2. QED
    BY <1>9, <2>1 DEF SpinRight, NavTypeOK
<1>10. CASE EndWait
  <2>1. DriveTypeOK' /\ ramp' = NoRamp
    BY <1>1, <1>10, MotorsCommanded DEF EndWait
  <2>2. compass' \in Orientation
    BY <1>10, OrientationType DEF EndWait, NavTypeOK
  <2>3. QED
    BY <1>10, <2>1, <2>2 DEF EndWait, NavTypeOK
<1>11. CASE Halt
  <2>1. DriveTypeOK' /\ ramp' = NoRamp
    BY <1>1, <1>11, MotorsCommanded DEF Halt
  <2>2. QED
    BY <1>11, <2>1 DEF Halt, NavTypeOK
<1>12. CASE Mark
  <2>1. orientation' \in Orientation
    BY <1>12, OrientationType DEF Mark, NavTypeOK
  <2>2. currentPosition' \in Int \X Int
    BY <1>12, CornerType DEF Mark
  <2>3. changeOrientation' \in [Orientation -> Nat]
    BY <1>12 DEF Mark, NavTypeOK
  <2>4. track' \in [Grid -> {-1, 0, 1}]
    BY <1>12 DEF Mark, NavTypeOK
  <2>5. prevOrientation' \in Orientation
    BY <1>12 DEF Mark, NavTypeOK, Orientation
  <2>6. QED
    BY <1>2, <1>12, <2>1, <2>2, <2>3, <2>4, <2>5, MotorsKept
       DEF Mark, EndPass, NavTypeOK
<1>13. CASE Reset
  BY <1>13, ResetType
<1>14. CASE UNCHANGED navVars
  BY <1>14, MotorsKept DEF navVars, NavTypeOK
<1>15. QED
  BY <1>3, <1>4, <1>5, <1>6, <1>7, <1>8, <1>9, <1>10, <1>11, <1>12, <1>13, <1>14
     DEF NavNext, LoopStep

(* The globals of main_algo.ino, the readings and the motor driver are     *)
(* well typed in every state.                                              *)
THEOREM NavTypeCorrect == NavSpec => []NavTypeOK
<1>1. NavInit => NavTypeOK
  BY NavTypeInit
<1>2. NavTypeOK /\ [NavNext]_navVars => NavTypeOK'
  BY NavTypeStep
<1>3. QED
  BY <1>1, <1>2, PTL DEF NavSpec

-----------------------------------------------------------------------------
(* The spiral.  SpiralOrder is not inductive alone: a turn begins with the *)
(* heading of the branch, which has to be the orientation.  What the code  *)
(* stores in currentPosition is a closed form too, two rows below the plan *)
(* from the second lap on, and rests on the order of the counters.         *)

BranchIsOrientation == pc \in {"decide", "entry"} => branch = orientation

Before(h) == (h + 3) % 4

Stored(h, n) ==
    IF h = LEFT THEN <<IF n = 0 THEN 5 ELSE 7 - n, n>>
    ELSE IF h = UP THEN <<n, n>>
    ELSE IF h = RIGHT THEN <<n, 5 - n>>
    ELSE <<6 - n, 5 - n>>

CornerIsStored ==
    currentPosition = IF Lap(Before(LegHeading)) = 0 THEN <<5, 4>>
                      ELSE Stored(Before(LegHeading), Lap(Before(LegHeading)) - 1)

SpiralInv ==
    /\ NavTypeOK
    /\ BranchIsOrientation
    /\ SpiralOrder
    /\ CornerIsStored

LEMMA SpiralInvInit == NavInit => SpiralInv
<1> SUFFICES ASSUME NavInit PROVE SpiralInv
  OBVIOUS
<1>1. NavTypeOK
  BY NavTypeInit
<1>2. LegHeading = LEFT /\ LEFT = 3 /\ currentPosition = <<5, 4>>
  BY DEF NavInit, LegHeading, Turning, LEFT
<1>3. \A o \in Orientation : Lap(o) = 0
  BY DEF NavInit, Lap
<1>4. SpiralOrder
  <2>1. \A o \in Orientation : ~(Clockwise(o) < Clockwise(LegHeading))
    BY <1>2 DEF Orientation, UP, RIGHT, DOWN, LEFT, Clockwise
  <2>2. LegHeading \in Orientation
    BY <1>2 DEF Orientation
  <2>3. QED
    BY <1>3, <2>1, <2>2 DEF SpiralOrder
<1>5. CornerIsStored
  <2>1. Before(LegHeading) \in Orientation
    BY <1>2 DEF Before, Orientation, UP, RIGHT, DOWN, LEFT
  <2>2. QED
    BY <1>2, <1>3, <2>1 DEF CornerIsStored
<1>6. BranchIsOrientation
  BY DEF NavInit, BranchIsOrientation
<1>7. QED
  BY <1>1, <1>4, <1>5, <1>6 DEF SpiralInv

(* Up to the mark, a pass moves none of the three state functions that     *)
(* Spiral is about, the bump from 2 to 2.25 and the early orientation = UP *)
(* included.                                                               *)
LEMMA LegKept ==
    ASSUME NavTypeOK, BranchIsOrientation,
           ReadSensors \/ SkipPit \/ Dispatch \/ DriveOn \/ EnterLeg \/ BeginTurn
             \/ SpinRight \/ EndWait \/ Halt \/ UNCHANGED navVars
    PROVE  /\ LegHeading' = LegHeading
           /\ currentPosition' = currentPosition
           /\ \A o \in Orientation : Lap(o)' = Lap(o)
           /\ BranchIsOrientation'
<1> USE DEF mapVars, sensorVars, worldVars
<1>1. CASE ReadSensors
  BY <1>1 DEF ReadSensors, LegHeading, Turning, Lap, BranchIsOrientation
<1>2. CASE SkipPit
  BY <1>2 DEF SkipPit, EndPass, LegHeading, Turning, Lap, BranchIsOrientation
<1>3. CASE Dispatch
  <2>1. \A o \in Orientation : Lap(o)' = Lap(o)
    <3>1. ASSUME NEW o \in Orientation
          PROVE  changeOrientation'[o] \div 4 = changeOrientation[o] \div 4
      <4>1. changeOrientation \in [Orientation -> Nat]
        BY DEF NavTypeOK
      <4>2. CASE o = LEFT /\ orientation = LEFT /\ changeOrientation[LEFT] = 8
        BY <1>3, <4>1, <4>2 DEF Dispatch
      <4>3. CASE ~(o = LEFT /\ orientation = LEFT /\ changeOrientation[LEFT] = 8)
        <5>1. changeOrientation'[o] = changeOrientation[o]
          BY <1>3, <4>1, <4>3 DEF Dispatch
        <5>2. QED
          BY <5>1
      <4>4. QED
        BY <4>2, <4>3
    <3>2. QED
      BY <3>1 DEF Lap
  <2>2. QED
    BY <1>3, <2>1 DEF Dispatch, LegHeading, Turning, BranchIsOrientation
<1>4. CASE DriveOn
  BY <1>4 DEF DriveOn, LegHeading, Turning, Lap, BranchIsOrientation
<1>5. CASE EnterLeg
  BY <1>5 DEF EnterLeg, EndPass, LegHeading, Turning, Lap, BranchIsOrientation
<1>6. CASE BeginTurn
  BY <1>6 DEF BeginTurn, LegHeading, Turning, Lap, BranchIsOrientation
<1>7. CASE SpinRight
  BY <1>7 DEF SpinRight, LegHeading, Turning, Lap, BranchIsOrientation
<1>8. CASE EndWait
  BY <1>8 DEF EndWait, LegHeading, Turning, Lap, BranchIsOrientation
<1>9. CASE Halt
  BY <1>9 DEF Halt, LegHeading, Turning, Lap, BranchIsOrientation
<1>10. CASE UNCHANGED navVars
  BY <1>10 DEF navVars, LegHeading, Turning, Lap, BranchIsOrientation
<1>11. QED
  BY <1>1, <1>2, <1>3, <1>4, <1>5, <1>6, <1>7, <1>8, <1>9, <1>10

(* What the mark does to them.                                             *)
LEMMA LegMarked ==
    ASSUME NavTypeOK, Mark
    PROVE  /\ LegHeading = branch
           /\ LegHeading' = Clockwise(branch)
           /\ currentPosition' = Corner
           /\ \A o \in Orientation :
                 Lap(o)' = Lap(o) + IF o = branch THEN 1 ELSE 0
           /\ BranchIsOrientation'
<1>1. LegHeading = branch
  BY DEF Mark, LegHeading, Turning
<1>2. LegHeading' = Clockwise(branch)
  BY OrientationType DEF Mark, EndPass, LegHeading, Turning, NavTypeOK
<1>3. ASSUME NEW o \in Orientation
      PROVE  Lap(o)' = Lap(o) + IF o = branch THEN 1 ELSE 0
  <2>1. changeOrientation[o] \in Nat
    BY DEF NavTypeOK
  <2>2. changeOrientation'[o] = changeOrientation[o] + IF o = branch THEN 4 ELSE 0
    BY <2>1 DEF Mark, NavTypeOK
  <2>3. changeOrientation'[o] \div 4 =
            (changeOrientation[o] \div 4) + IF o = branch THEN 1 ELSE 0
    BY <2>1, <2>2
  <2>4. QED
    BY <2>3 DEF Lap
<1>4. currentPosition' = Corner /\ BranchIsOrientation'
  BY DEF Mark, EndPass, BranchIsOrientation
<1>5. QED
  BY <1>1, <1>2, <1>3, <1>4

(* Where a leg starts, from its heading and its lap.                       *)
LEMMA LegStarts ==
    ASSUME SpiralInv, LegHeading = branch
    PROVE  LET n == Lap(branch)
           IN  /\ n \in Nat /\ branch \in {UP, RIGHT, DOWN, LEFT}
               /\ branch = LEFT  => /\ row = IF n = 0 THEN 5 ELSE 7 - n
                                    /\ col = IF n = 0 THEN 4 ELSE 6 - n
                                    /\ Lap(DOWN) = n
               /\ branch = UP    => (row = IF n = 0 THEN 5 ELSE 7 - n) /\ col = n
               /\ branch = RIGHT => row = n /\ col = n
               /\ branch = DOWN  => row = n /\ col = 5 - n
<1> USE DEF UP, RIGHT, DOWN, LEFT
<1>1. /\ Lap(UP) \in Nat /\ Lap(RIGHT) \in Nat /\ Lap(DOWN) \in Nat /\ Lap(LEFT) \in Nat
      /\ branch \in {UP, RIGHT, DOWN, LEFT}
  BY CornerType, OrientationType DEF SpiralInv, NavTypeOK, Orientation
<1>2. \A o \in 0..3 : Lap(o) = Lap(branch) +
                 IF Clockwise(o) < Clockwise(branch) THEN 1 ELSE 0
  BY OrientationType DEF SpiralInv, SpiralOrder
<1>3. currentPosition = IF Lap(Before(branch)) = 0 THEN <<5, 4>>
                        ELSE Stored(Before(branch), Lap(Before(branch)) - 1)
  BY DEF SpiralInv, CornerIsStored
<1>4. CASE branch = LEFT
  <2>1. Before(branch) = DOWN /\ Lap(DOWN) = Lap(LEFT)
    BY <1>1, <1>2, <1>4 DEF Before, Clockwise
  <2>2. QED
    BY <1>1, <1>3, <1>4, <2>1 DEF row, col, Stored
<1>5. CASE branch = UP
  <2>1. Before(branch) = LEFT /\ Lap(LEFT) = Lap(UP) + 1
    BY <1>1, <1>2, <1>5 DEF Before, Clockwise
  <2>2. QED
    BY <1>1, <1>3, <1>5, <2>1 DEF row, col, Stored
<1>6. CASE branch = RIGHT
  <2>1. Before(branch) = UP /\ Lap(UP) = Lap(RIGHT) + 1
    BY <1>1, <1>2, <1>6 DEF Before, Clockwise
  <2>2. QED
    BY <1>1, <1>3, <1>6, <2>1 DEF row, col, Stored
<1>7. CASE branch = DOWN
  <2>1. Before(branch) = RIGHT /\ Lap(RIGHT) = Lap(DOWN) + 1
    BY <1>1, <1>2, <1>7 DEF Before, Clockwise
  <2>2. QED
    BY <1>1, <1>3, <1>7, <2>1 DEF row, col, Stored
<1>8. QED
  BY <1>1, <1>4, <1>5, <1>6, <1>7

(* The corner a branch books.                                              *)
LEMMA CornerBooked ==
    ASSUME SpiralInv, LegHeading = branch
    PROVE  Corner = Stored(branch, Lap(branch))
<1> USE DEF UP, RIGHT, DOWN, LEFT
<1>1. Lap(branch) \in Nat /\ branch \in {UP, RIGHT, DOWN, LEFT}
  BY LegStarts
<1>2. CASE branch = LEFT
  BY <1>1, <1>2, LegStarts DEF Corner, Stored
<1>3. CASE branch = UP
  BY <1>1, <1>3, LegStarts DEF Corner, Stored
<1>4. CASE branch = RIGHT
  BY <1>1, <1>4, LegStarts DEF Corner, Stored
<1>5. CASE branch = DOWN
  BY <1>1, <1>5, LegStarts DEF Corner, Stored
<1>6. QED
  BY <1>1, <1>2, <1>3, <1>4, <1>5

LEMMA SpiralInvMark == ASSUME SpiralInv, Mark PROVE SpiralInv'
<1>1. NavTypeOK'
  BY NavTypeStep DEF SpiralInv, NavNext, LoopStep
<1>2. /\ LegHeading = branch
      /\ LegHeading' = Clockwise(branch)
      /\ currentPosition' = Corner
      /\ \A o \in Orientation : Lap(o)' = Lap(o) + IF o = branch THEN 1 ELSE 0
      /\ BranchIsOrientation'
  BY LegMarked DEF SpiralInv
<1>3. /\ branch \in 0..3 /\ Clockwise(branch) \in 0..3
      /\ \A o \in 0..3 : Lap(o) \in Nat
  BY OrientationType, CornerType DEF SpiralInv, NavTypeOK
<1>4. SpiralOrder'
  <2>1. SUFFICES ASSUME NEW o \in 0..3
                 PROVE  Lap(o)' = Lap(LegHeading)' +
                          IF Clockwise(o) < Clockwise(LegHeading') THEN 1 ELSE 0
    BY OrientationType DEF SpiralOrder
  <2>2. \A p \in 0..3 : Lap(p) = Lap(branch) +
                          IF Clockwise(p) < Clockwise(branch) THEN 1 ELSE 0
    BY <1>2, OrientationType DEF SpiralInv, SpiralOrder
  <2>3. \A p \in 0..3 : Lap(p)' = Lap(p) + IF p = branch THEN 1 ELSE 0
    BY <1>2, OrientationType
  <2>4. Lap(LegHeading)' = Lap(Clockwise(branch)) +
                              IF Clockwise(branch) = branch THEN 1 ELSE 0
    BY <1>2, <1>3, <2>3 DEF Lap
  <2>5. Lap(o)' = Lap(o) + IF o = branch THEN 1 ELSE 0
    BY <2>3
  <2>6. Lap(branch) \in Nat /\ Lap(o) \in Nat /\ Lap(Clockwise(branch)) \in Nat
    BY <1>3
  <2>7. Lap(o) = Lap(branch) + (IF Clockwise(o) < Clockwise(branch) THEN 1 ELSE 0)
        /\ Lap(Clockwise(branch)) = Lap(branch) +
             (IF Clockwise(Clockwise(branch)) < Clockwise(branch) THEN 1 ELSE 0)
    BY <1>3, <2>2
  <2> HIDE DEF Lap
  <2>8. QED
    BY <1>2, <1>3, <2>4, <2>5, <2>6, <2>7 DEF Clockwise
<1>5. CornerIsStored'
  <2>1. Before(LegHeading') = branch
    BY <1>2, <1>3 DEF Before, Clockwise
  <2>2. Lap(branch)' = Lap(branch) + 1 /\ Lap(branch) \in Nat
    BY <1>2, <1>3, OrientationType DEF Mark, Lap
  <2>3. currentPosition' = Stored(branch, Lap(branch))
    BY <1>2, CornerBooked
  <2>4. QED
    BY <2>1, <2>2, <2>3 DEF CornerIsStored, Stored, Before, Mark, Lap
<1>6. QED
  BY <1>1, <1>2, <1>4, <1>5 DEF SpiralInv

LEMMA SpiralInvReset == ASSUME SpiralInv, Reset PROVE SpiralInv'
<1>1. NavTypeOK'
  BY NavTypeStep DEF SpiralInv, NavNext
<1>2. LegHeading' = LEFT /\ LEFT = 3 /\ currentPosition' = <<5, 4>>
  BY DEF Reset, LegHeading, Turning, LEFT
<1>3. \A o \in Orientation : Lap(o)' = 0
  BY DEF Reset, Lap
<1>4. SpiralOrder'
  <2>1. \A o \in Orientation : ~(Clockwise(o) < Clockwise(LegHeading'))
    BY <1>2 DEF Orientation, UP, RIGHT, DOWN, LEFT, Clockwise
  <2>2. Lap(LegHeading)' = 0
    BY <1>2 DEF Reset, Lap, Orientation
  <2>3. QED
    BY <1>3, <2>1, <2>2 DEF SpiralOrder
<1>5. CornerIsStored'
  <2>1. Lap(Before(LegHeading))' = 0
    BY <1>2 DEF Reset, Lap, Before, Orientation, UP, RIGHT, DOWN, LEFT
  <2>2. QED
    BY <1>2, <2>1 DEF CornerIsStored
<1>6. BranchIsOrientation'
  BY DEF Reset, BranchIsOrientation
<1>7. QED
  BY <1>1, <1>4, <1>5, <1>6 DEF SpiralInv

LEMMA SpiralInvKept ==
    ASSUME SpiralInv, NavTypeOK', BranchIsOrientation',
           LegHeading' = LegHeading, currentPosition' = currentPosition,
           \A o \in Orientation : Lap(o)' = Lap(o)
    PROVE  SpiralInv'
<1>1. LegHeading \in Orientation /\ Before(LegHeading) \in Orientation
  BY OrientationType DEF SpiralInv, NavTypeOK, LegHeading, Before
<1>2. Lap(LegHeading)' = Lap(LegHeading)
      /\ Lap(Before(LegHeading))' = Lap(Before(LegHeading))
  BY <1>1 DEF Lap, Before
<1>3. SpiralOrder'
  BY <1>2 DEF SpiralInv, SpiralOrder
<1>4. CornerIsStored'
  BY <1>2 DEF SpiralInv, CornerIsStored, Stored, Before
<1>5. QED
  BY <1>3, <1>4 DEF SpiralInv

LEMMA SpiralInvStep == SpiralInv /\ [NavNext]_navVars => SpiralInv'
<1> SUFFICES ASSUME SpiralInv, [NavNext]_navVars
             PROVE  SpiralInv'
  OBVIOUS
<1>1. NavTypeOK /\ BranchIsOrientation /\ NavTypeOK'
  BY NavTypeStep DEF SpiralInv
<1>2. CASE Mark
  BY <1>2, SpiralInvMark
<1>3. CASE Reset
  BY <1>3, SpiralInvReset
<1>4. CASE ~Mark /\ ~Reset
  BY <1>1, <1>4, LegKept, SpiralInvKept DEF NavNext, LoopStep
<1>5. QED
  BY <1>2, <1>3, <1>4

LEMMA SpiralInvariant == NavSpec => []SpiralInv
<1>1. NavInit => SpiralInv
  BY SpiralInvInit
<1>2. SpiralInv /\ [NavNext]_navVars => SpiralInv'
  BY SpiralInvStep
<1>3. QED
  BY <1>1, <1>2, PTL DEF NavSpec

(* The four changeOrientation counters never get out of step with the      *)
(* heading, for any number of laps and any readings.                       *)
THEOREM SpiralOrderHolds == NavSpec => []SpiralOrder
<1>1. SpiralInv => SpiralOrder
  BY DEF SpiralInv
<1>2. QED
  BY <1>1, SpiralInvariant, PTL

(* A cell the marking loops look at is on the map or one of the five words *)
(* behind it: only LEFT and UP leave the map, in row 6, in their second    *)
(* lap, as from the fourth on no leg has a cell left to look at.           *)
THEOREM StrayStoresHold == NavSpec => []StrayStores
<1> USE DEF UP, RIGHT, DOWN, LEFT
<1>1. ASSUME SpiralInv, pc = "mark", NEW wild \in BOOLEAN, NEW cell \in Walked(wild)
      PROVE  cell \in Grid \cup BehindTrack
  <2>1. LegHeading = branch
    BY <1>1 DEF LegHeading, Turning
  <2> DEFINE n == Lap(branch)
  <2>2. /\ n \in Nat /\ branch \in {UP, RIGHT, DOWN, LEFT}
        /\ branch = LEFT  => /\ row = IF n = 0 THEN 5 ELSE 7 - n
                             /\ col = IF n = 0 THEN 4 ELSE 6 - n
        /\ branch = UP    => (row = IF n = 0 THEN 5 ELSE 7 - n) /\ col = n
        /\ branch = RIGHT => row = n /\ col = n
        /\ branch = DOWN  => row = n /\ col = 5 - n
    BY <1>1, <2>1, LegStarts
  <2> HIDE DEF n
  <2>3. LegLength \in Int
    BY <1>1, CornerType, <2>2 DEF LegLength, SpiralInv, Orientation
  <2>4. PICK k \in 0..(LegLength - 1) : cell = LegCell(k)
    BY <2>3 DEF Walked
  <2>5. k \in Int /\ 0 <= k /\ k <= LegLength - 1
    BY <2>3, <2>4
  <2>6. CASE branch = LEFT
    <3>1. cell = <<row, col - k>> /\ LegLength = col - n
      BY <2>4, <2>6 DEF LegCell, LegLength, n
    <3>2. row \in 5..6 /\ col - k \in 1..5
      BY <2>2, <2>5, <2>6, <3>1
    <3>3. QED
      BY <3>1, <3>2 DEF Grid, BehindTrack
  <2>7. CASE branch = UP
    <3>1. cell = <<row - k, col>> /\ LegLength = row - n
      BY <2>4, <2>7 DEF LegCell, LegLength, n
    <3>2. /\ row - k \in 0..6 /\ col \in 0..5
          /\ row - k = 6 => col \in 1..5
      BY <2>2, <2>5, <2>7, <3>1
    <3>3. QED
      BY <3>1, <3>2 DEF Grid, BehindTrack
  <2>8. CASE branch = RIGHT
    <3>1. cell = <<row, col + k>> /\ LegLength = 5 - n - col
      BY <2>4, <2>8 DEF LegCell, LegLength, n
    <3>2. row \in 0..5 /\ col + k \in 0..5
      BY <2>2, <2>5, <2>8, <3>1
    <3>3. QED
      BY <3>1, <3>2 DEF Grid
  <2>9. CASE branch = DOWN
    <3>1. cell = <<row + k, col>> /\ LegLength = 4 - n - row
      BY <2>4, <2>9 DEF LegCell, LegLength, n
    <3>2. row + k \in 0..5 /\ col \in 0..5
      BY <2>2, <2>5, <2>9, <3>1
    <3>3. QED
      BY <3>1, <3>2 DEF Grid
  <2>10. QED
    BY <2>2, <2>6, <2>7, <2>8, <2>9
<1>2. SpiralInv => StrayStores
  BY <1>1 DEF StrayStores
<1>3. QED
  BY <1>2, SpiralInvariant, PTL

-----------------------------------------------------------------------------
(* Refinement.                                                             *)

LEMMA SameOrientations ==
    /\ Plan!Orientation = Orientation
    /\ \A o : Plan!Clockwise(o) = Clockwise(o)
    /\ Plan!LEFT = LEFT
BY DEF Orientation, UP, RIGHT, DOWN, LEFT, Clockwise,
       Plan!Orientation, Plan!UP, Plan!RIGHT, Plan!DOWN, Plan!LEFT, Plan!Clockwise

(* The stored corner less Slip is the drawn one.                           *)
LEMMA CornerIsPlanned ==
    ASSUME SpiralInv, Mark
    PROVE  <<row - Slip, col>>' = Plan!CornerAfter(branch, Lap(branch))
<1> USE DEF UP, RIGHT, DOWN, LEFT, Plan!UP, Plan!RIGHT, Plan!DOWN, Plan!LEFT
<1> DEFINE n == Lap(branch)
<1>1. /\ LegHeading = branch
      /\ LegHeading' = Clockwise(branch)
      /\ currentPosition' = Corner
      /\ \A o \in Orientation : Lap(o)' = Lap(o) + IF o = branch THEN 1 ELSE 0
  BY LegMarked DEF SpiralInv
<1>2. /\ n \in Nat /\ branch \in {UP, RIGHT, DOWN, LEFT}
      /\ branch = LEFT => Lap(DOWN) = n
  BY <1>1, LegStarts
<1>3. currentPosition' = Stored(branch, n)
  BY <1>1, CornerBooked
<1>4. Lap(DOWN)' = Lap(DOWN) + IF DOWN = branch THEN 1 ELSE 0
  BY <1>1 DEF Orientation
<1> HIDE DEF n
<1>5. CASE branch = LEFT
  <2>1. Slip' = IF n > 0 THEN 2 ELSE 0
    BY <1>1, <1>2, <1>4, <1>5 DEF Slip, Clockwise
  <2>2. QED
    BY <1>2, <1>3, <1>5, <2>1 DEF row, col, Stored, Plan!CornerAfter, n
<1>6. CASE branch = DOWN
  <2>1. Slip' = 2
    BY <1>1, <1>2, <1>4, <1>6 DEF Slip, Clockwise, n
  <2>2. QED
    BY <1>2, <1>3, <1>6, <2>1 DEF row, col, Stored, Plan!CornerAfter, n
<1>7. CASE branch \in {UP, RIGHT}
  <2>1. Slip' = 0
    BY <1>1, <1>7 DEF Slip, Clockwise
  <2>2. QED
    BY <1>2, <1>3, <1>7, <2>1 DEF row, col, Stored, Plan!CornerAfter, n
<1>8. QED
  BY <1>2, <1>5, <1>6, <1>7

LEMMA RefinesInit == ASSUME NavInit PROVE Plan!SpiralInit
<1>1. LegHeading = LEFT /\ row = 5 /\ col = 4
  BY DEF NavInit, LegHeading, Turning, row, col
<1>2. \A o \in Orientation : Lap(o) = 0
  BY DEF NavInit, Lap
<1>3. Slip = 0
  BY <1>2 DEF Slip, Orientation
<1>4. QED
  BY <1>1, <1>2, <1>3, SameOrientations DEF Plan!SpiralInit

LEMMA RefinesStep ==
    ASSUME SpiralInv, [NavNext]_navVars
    PROVE  [Plan!SpiralNext]_Plan!spiralVars
<1>1. NavTypeOK /\ BranchIsOrientation
  BY DEF SpiralInv
<1>2. CASE Mark
  <2>1. /\ LegHeading = branch /\ branch \in Orientation
        /\ LegHeading' = Clockwise(branch)
        /\ \A o \in Orientation : Lap(o)' = Lap(o) + IF o = branch THEN 1 ELSE 0
    BY <1>1, <1>2, LegMarked DEF NavTypeOK
  <2>2. <<row - Slip, col>>' = Plan!CornerAfter(branch, Lap(branch))
    BY <1>2, CornerIsPlanned
  <2>3. \A o \in Orientation : Lap(o) \in Nat
    BY <1>1, CornerType
  <2>4. [o \in Orientation |-> Lap(o)'] =
            [[o \in Orientation |-> Lap(o)] EXCEPT ![branch] = @ + 1]
    <3> DEFINE f == [o \in Orientation |-> Lap(o)]
               g == [o \in Orientation |-> Lap(o)']
    <3>1. \A o \in Orientation : g[o] = f[o] + (IF o = branch THEN 1 ELSE 0) /\ f[o] \in Nat
      BY <2>1, <2>3
    <3>2. f = [o \in Orientation |-> f[o]] /\ g = [o \in Orientation |-> g[o]]
      OBVIOUS
    <3> HIDE DEF f, g
    <3>3. \A o \in Orientation : g[o] = [f EXCEPT ![branch] = @ + 1][o]
      BY <2>1, <3>1, <3>2
    <3>4. g = [f EXCEPT ![branch] = @ + 1]
      BY <3>2, <3>3
    <3>5. QED
      BY <3>4 DEF f, g
  <2>5. Plan!Turn
    BY <2>1, <2>2, <2>4, SameOrientations DEF Plan!Turn
  <2>6. QED
    BY <2>5 DEF Plan!SpiralNext
<1>3. CASE Reset
  <2>1. LegHeading' = LEFT /\ row' = 5 /\ col' = 4
    BY <1>3 DEF Reset, LegHeading, Turning, row, col
  <2>2. \A o \in Orientation : Lap(o)' = 0
    BY <1>3 DEF Reset, Lap
  <2>3. Slip' = 0
    BY <2>2 DEF Slip, Orientation
  <2>4. Plan!Restart
    BY <2>1, <2>2, <2>3, SameOrientations DEF Plan!Restart
  <2>5. QED
    BY <2>4 DEF Plan!SpiralNext
<1>4. CASE ~Mark /\ ~Reset
  <2>1. /\ LegHeading' = LegHeading
        /\ currentPosition' = currentPosition
        /\ \A o \in Orientation : Lap(o)' = Lap(o)
    BY <1>1, <1>4, LegKept DEF NavNext, LoopStep
  <2>2. [o \in Orientation |-> Lap(o)'] = [o \in Orientation |-> Lap(o)]
    BY <2>1
  <2>3. row' = row /\ col' = col
    BY <2>1 DEF row, col
  <2>4. Slip' = Slip
    BY <2>1 DEF Slip, Orientation
  <2>5. QED
    BY <2>1, <2>2, <2>3, <2>4 DEF Plan!spiralVars
<1>5. QED
  BY <1>2, <1>3, <1>4

(* The navigation loop implements Spiral, for any number of laps: a step   *)
(* of the code is one whole turn of the spiral, a restart, or nothing, and *)
(* the corner it stores is the drawn one but for the two rows of Slip.     *)
THEOREM NavImplementsSpiral == NavSpec => ImplementsSpiral
<1>1. NavInit => Plan!SpiralInit
  BY RefinesInit
<1>2. SpiralInv /\ [NavNext]_navVars => [Plan!SpiralNext]_Plan!spiralVars
  BY RefinesStep
<1>3. QED
  BY <1>1, <1>2, SpiralInvariant, PTL DEF NavSpec, ImplementsSpiral, Plan!SpiralSpec

-----------------------------------------------------------------------------
(* The heading.  Every step but EndWait, Mark and Reset keeps compass and  *)
(* the leg's heading; those three move them together.                      *)

Turned == IF pc \in {"halt", "mark"} THEN 1 ELSE 0

LEMMA HeadingStep ==
    ASSUME NavTypeOK, BranchIsOrientation, HeadingBelief, [NavNext]_navVars
    PROVE  HeadingBelief'
<1> USE DEF mapVars, sensorVars, worldVars
<1>1. /\ compass \in 0..3 /\ origin \in 0..3 /\ branch \in 0..3 /\ LegHeading \in 0..3
      /\ LEFT = 3
  BY OrientationType DEF NavTypeOK, LegHeading, LEFT
<1>2. (compass - origin) % 4 = (LegHeading - 3 + Turned) % 4
  BY <1>1 DEF HeadingBelief, Turned
<1>3. CASE EndWait
  <2>1. /\ compass' = Clockwise(compass) /\ origin' = origin
        /\ LegHeading' = LegHeading /\ Turned = 0 /\ Turned' = 1
    BY <1>3 DEF EndWait, LegHeading, Turning, Turned
  <2>2. (((compass + 1) % 4) - origin) % 4 = (LegHeading - 3 + 1) % 4
    BY <1>1, <1>2, <2>1
  <2>3. QED
    BY <1>1, <2>1, <2>2 DEF HeadingBelief, Turned, Clockwise
<1>4. CASE Mark
  <2>1. /\ compass' = compass /\ origin' = origin
        /\ LegHeading = branch /\ LegHeading' = Clockwise(branch)
        /\ Turned = 1 /\ Turned' = 0
    BY <1>4, LegMarked DEF Mark, EndPass, Turned
  <2>2. (LegHeading - 3 + 1) % 4 = (((branch + 1) % 4) - 3 + 0) % 4
    BY <1>1, <2>1
  <2>3. QED
    BY <1>1, <1>2, <2>1, <2>2 DEF HeadingBelief, Turned, Clockwise
<1>5. CASE Reset
  <2>1. compass' \in 0..3 /\ origin' = compass' /\ LegHeading' = 3 /\ Turned' = 0
    BY <1>1, <1>5, OrientationType DEF Reset, LegHeading, Turning, Turned, LEFT
  <2>2. \A c \in 0..3 : (c - c) % 4 = (3 - 3 + 0) % 4
    OBVIOUS
  <2>3. QED
    BY <1>1, <2>1, <2>2 DEF HeadingBelief, Turned
<1>6. CASE ~EndWait /\ ~Mark /\ ~Reset
  <2>1. LegHeading' = LegHeading
    BY <1>6, LegKept DEF NavNext, LoopStep
  <2>2. compass' = compass /\ origin' = origin /\ Turned' = Turned
    BY <1>6 DEF NavNext, LoopStep, ReadSensors, SkipPit, Dispatch, DriveOn, EnterLeg,
                BeginTurn, SpinRight, Halt, EndPass, navVars, Turned
  <2>3. QED
    BY <2>1, <2>2 DEF HeadingBelief, Turned
<1>7. QED
  BY <1>3, <1>4, <1>5, <1>6

(* The rover's belief of its heading is off by what it had turned before   *)
(* its last restart and by nothing else: every physical turn is booked     *)
(* exactly once.                                                           *)
THEOREM HeadingBeliefHolds == NavSpec => []HeadingBelief
<1>1. NavInit => HeadingBelief
  <2> SUFFICES ASSUME NavInit PROVE HeadingBelief
    OBVIOUS
  <2>1. compass = 3 /\ origin = 3 /\ LegHeading = 3 /\ LEFT = 3
        /\ pc \notin {"halt", "mark"}
    BY DEF NavInit, LegHeading, Turning, LEFT
  <2>2. QED
    BY <2>1 DEF HeadingBelief
<1>2. SpiralInv /\ HeadingBelief /\ [NavNext]_navVars => HeadingBelief'
  BY HeadingStep DEF SpiralInv
<1>3. QED
  BY <1>1, <1>2, SpiralInvariant, PTL DEF NavSpec

-----------------------------------------------------------------------------
(* The readings.  A front reading that is there is the front sensor's own, *)
(* for readTOFs only ever overwrites it with -2.                           *)

ReadingHonest ==
    /\ 0 <= tof.front => measured # NoEcho /\ tof.front = measured
    /\ TurnsOnlyAtWalls

LEMMA HonestFront ==
    ASSUME NEW front \in Measurement, NEW left \in Measurement, NEW unset \in Int,
           0 <= ReadTOFs(front, left, unset).front
    PROVE  front # NoEcho /\ ReadTOFs(front, left, unset).front = front
BY NavAssumption DEF ReadTOFs, Distance, Measurement, NoEcho, Lost

LEMMA HonestStep ==
    ASSUME NavTypeOK, ReadingHonest, [NavNext]_navVars
    PROVE  ReadingHonest'
<1> USE DEF mapVars, sensorVars, worldVars
<1>1. CASE ReadSensors
  <2>1. 0 <= tof'.front => measured' # NoEcho /\ tof'.front = measured'
    BY <1>1, HonestFront, NavAssumption DEF ReadSensors
  <2>2. QED
    BY <1>1, <2>1 DEF ReadSensors, ReadingHonest, TurnsOnlyAtWalls, Turning
<1>2. CASE Dispatch
  <2>1. tof.left \in Int
    BY DEF NavTypeOK
  <2>2. 0 <= tof'.front => measured' # NoEcho /\ tof'.front = measured'
    BY <1>2, <2>1, HonestFront DEF Dispatch
  <2>3. QED
    BY <1>2, <2>2 DEF Dispatch, ReadingHonest, TurnsOnlyAtWalls, Turning
<1>3. CASE SkipPit \/ EnterLeg \/ Mark \/ Reset
  <2>1. tof' = Unread /\ pc' = "read"
    BY <1>3 DEF SkipPit, EnterLeg, Mark, Reset, EndPass
  <2>2. QED
    BY <2>1 DEF ReadingHonest, TurnsOnlyAtWalls, Turning, Unread, Lost
<1>4. CASE DriveOn
  BY <1>4 DEF DriveOn, ReadingHonest, TurnsOnlyAtWalls, Turning
<1>5. CASE BeginTurn
  <2>1. 0 <= tof.front /\ tof.front <= TurnDistance(branch, changeOrientation[branch])
    BY <1>5 DEF BeginTurn, WallAhead, Blocked
  <2>2. QED
    BY <1>5, <2>1 DEF BeginTurn, ReadingHonest, TurnsOnlyAtWalls
<1>6. CASE SpinRight \/ EndWait \/ Halt
  BY <1>6 DEF SpinRight, EndWait, Halt, ReadingHonest, TurnsOnlyAtWalls, Turning
<1>7. CASE UNCHANGED navVars
  BY <1>7 DEF navVars, ReadingHonest, TurnsOnlyAtWalls, Turning
<1>8. QED
  BY <1>1, <1>2, <1>3, <1>4, <1>5, <1>6, <1>7 DEF NavNext, LoopStep

(* No lost echo, overwritten reading or uninitialised array element ever   *)
(* makes the rover turn where the front sensor measured no near wall.      *)
THEOREM TurnsOnlyAtWallsHolds == NavSpec => []TurnsOnlyAtWalls
<1>1. NavInit => ReadingHonest
  BY DEF NavInit, ReadingHonest, TurnsOnlyAtWalls, Turning, Unread, Lost
<1>2. NavTypeOK /\ ReadingHonest /\ [NavNext]_navVars => ReadingHonest'
  BY HonestStep
<1>3. ReadingHonest => TurnsOnlyAtWalls
  BY DEF ReadingHonest
<1>4. QED
  BY <1>1, <1>2, <1>3, NavTypeCorrect, PTL DEF NavSpec

-----------------------------------------------------------------------------
(* The properties that are about the motors and the map.                  *)

(* Full power on both wheels, and what autoCorrect can ask for.            *)
LEMMA FullPower ==
    /\ ConvertSpeedToI(MAX_SPEED) = 0
    /\ Each(0, 0) = Both(0)
    /\ Straight(TRUE) = Forward
BY DEF ConvertSpeedToI, MAX_SPEED, Each, Both, Wheel, Straight

LEMMA CruisingOn ==
    ASSUME Cruise(MAX_SPEED, MAX_SPEED, TRUE)
    PROVE  mode' = "CRUISING" /\ dir' = Forward /\ pwm' = Both(0)
BY FullPower DEF Cruise

LEMMA OneSided ==
    ASSUME NEW left \in Int, NEW lap \in Nat, AutoCorrect(left, lap)
    PROVE  dir' = Forward /\ (pwm'["left"] = 0 \/ pwm'["right"] = 0)
<1>1. CASE left < 130 + 340 * lap
  <2>1. ~(left > 160 + 340 * lap)
    BY <1>1
  <2>2. Cruise(HIGH_SPEED, MAX_SPEED, TRUE)
    BY <1>1, <2>1 DEF AutoCorrect
  <2>3. QED
    BY <2>2, FullPower DEF Cruise, Each, Wheel
<1>2. CASE ~(left < 130 + 340 * lap)
  <2>1. pwm' = Each(0, ConvertSpeedToI(IF left > 160 + 340 * lap
                                       THEN HIGH_SPEED ELSE MAX_SPEED))
    BY <1>2, FullPower DEF AutoCorrect, Cruise
  <2>2. dir' = Forward
    BY FullPower DEF AutoCorrect, Cruise
  <2>3. QED
    BY <2>1, <2>2 DEF Each, Wheel
<1>3. QED
  BY <1>1, <1>2

LEMMA MotorsStep ==
    ASSUME NavTypeOK, MotorsMatchPhase, [NavNext]_navVars
    PROVE  MotorsMatchPhase'
<1> USE DEF mapVars, sensorVars, worldVars
<1>1. CASE ReadSensors \/ SkipPit \/ Dispatch
  BY <1>1 DEF ReadSensors, SkipPit, Dispatch, EndPass, driveVars, MotorsMatchPhase
<1>2. CASE DriveOn
  <2>1. tof.left \in Int /\ Lap(branch) \in Nat
    BY CornerType DEF NavTypeOK
  <2>2. dir' = Forward /\ (pwm'["left"] = 0 \/ pwm'["right"] = 0)
    BY <1>2, <2>1, OneSided DEF DriveOn
  <2>3. QED
    BY <1>2, <2>2 DEF DriveOn, MotorsMatchPhase
<1>3. CASE EnterLeg
  BY <1>3, CruisingOn DEF EnterLeg, EndPass, MotorsMatchPhase
<1>4. CASE BeginTurn
  BY <1>4 DEF BeginTurn, EStop, MotorsMatchPhase
<1>5. CASE SpinRight
  BY <1>5, FullPower DEF SpinRight, TurnRight, TurnInPlace, MotorsMatchPhase
<1>6. CASE EndWait
  BY <1>6 DEF EndWait, MotorsMatchPhase
<1>7. CASE Halt
  BY <1>7 DEF Halt, EStop, MotorsMatchPhase
<1>8. CASE Mark
  BY <1>8 DEF Mark, EndPass, driveVars, MotorsMatchPhase
<1>9. CASE Reset
  BY <1>9 DEF Reset, MotorsMatchPhase
<1>10. CASE UNCHANGED navVars
  BY <1>10 DEF navVars, driveVars, MotorsMatchPhase
<1>11. QED
  BY <1>1, <1>2, <1>3, <1>4, <1>5, <1>6, <1>7, <1>8, <1>9, <1>10 DEF NavNext, LoopStep

(* The pins of the motor driver suit the point of the pass: no turn is     *)
(* begun or booked while the wheels run, and a correction of the course    *)
(* ends with its pass.                                                     *)
THEOREM MotorsMatchPhaseHolds == NavSpec => []MotorsMatchPhase
<1>1. NavInit => MotorsMatchPhase
  BY DEF NavInit, DriveInit, MotorsMatchPhase
<1>2. NavTypeOK /\ MotorsMatchPhase /\ [NavNext]_navVars => MotorsMatchPhase'
  BY MotorsStep
<1>3. QED
  BY <1>1, <1>2, NavTypeCorrect, PTL DEF NavSpec

-----------------------------------------------------------------------------
(* The map.                                                                *)

(* A cell the loop marks lies on the leg's line: in the row or column of   *)
(* the corner it leaves, before the corner it books, and short of the edge.*)
LEMMA WalkedCells ==
    ASSUME NavTypeOK, NEW wild \in BOOLEAN, NEW cell \in Walked(wild)
    PROVE  /\ Between(row, cell[1], Corner[1])
           /\ Between(col, cell[2], Corner[2])
           /\ branch = RIGHT => cell[2] < 5
           /\ branch = DOWN => cell[1] < 5
           /\ ~Stops(cell, wild)
<1> USE DEF UP, RIGHT, DOWN, LEFT
<1>1. /\ Lap(UP) \in Nat /\ Lap(RIGHT) \in Nat /\ Lap(DOWN) \in Nat /\ Lap(LEFT) \in Nat
      /\ branch \in {UP, RIGHT, DOWN, LEFT}
      /\ row \in Int /\ col \in Int
  BY CornerType, OrientationType DEF NavTypeOK, Orientation
<1>2. LegLength \in Int
  BY <1>1 DEF LegLength
<1>3. PICK k \in 0..(LegLength - 1) : cell = LegCell(k) /\ ~Stops(LegCell(k), wild)
  BY <1>2 DEF Walked
<1>4. k \in Int /\ 0 <= k /\ k <= LegLength - 1
  BY <1>2, <1>3
<1>5. CASE branch = LEFT
  <2>1. cell = <<row, col - k>> /\ Corner = <<row, Lap(LEFT)>> /\ LegLength = col - Lap(LEFT)
    BY <1>3, <1>5 DEF LegCell, Corner, LegLength
  <2>2. QED
    BY <1>1, <1>3, <1>4, <1>5, <2>1 DEF Between
<1>6. CASE branch = UP
  <2>1. cell = <<row - k, col>> /\ Corner = <<Lap(UP), col>> /\ LegLength = row - Lap(UP)
    BY <1>3, <1>6 DEF LegCell, Corner, LegLength
  <2>2. QED
    BY <1>1, <1>3, <1>4, <1>6, <2>1 DEF Between
<1>7. CASE branch = RIGHT
  <2>1. /\ cell = <<row, col + k>> /\ Corner = <<row, 5 - Lap(RIGHT)>>
        /\ LegLength = 5 - Lap(RIGHT) - col
    BY <1>3, <1>7 DEF LegCell, Corner, LegLength
  <2>2. QED
    BY <1>1, <1>3, <1>4, <1>7, <2>1 DEF Between
<1>8. CASE branch = DOWN
  <2>1. /\ cell = <<row + k, col>> /\ Corner = <<5 - (Lap(DOWN) - 1), col>>
        /\ LegLength = 4 - Lap(DOWN) - row
    BY <1>3, <1>8 DEF LegCell, Corner, LegLength
  <2>2. QED
    BY <1>1, <1>3, <1>4, <1>8, <2>1 DEF Between
<1>9. QED
  BY <1>1, <1>5, <1>6, <1>7, <1>8

(* Only Mark and Reset write the map.                                      *)
LEMMA TrackKept ==
    ASSUME [NavNext]_navVars, ~Mark, ~Reset
    PROVE  track' = track
BY DEF NavNext, LoopStep, ReadSensors, SkipPit, Dispatch, DriveOn, EnterLeg, BeginTurn,
       SpinRight, EndWait, Halt, navVars, mapVars

LEMMA MarkedCells ==
    ASSUME NavTypeOK, Mark, NEW cell \in Grid
    PROVE  \E wild \in BOOLEAN :
              track'[cell] = IF cell \in Walked(wild) THEN 1 ELSE track[cell]
BY DEF Mark

LEMMA StartTileStep ==
    ASSUME NavTypeOK, StartTileKept, [NavNext]_navVars
    PROVE  StartTileKept'
<1>1. StartTile \in Grid /\ StartTile[1] = 5 /\ StartTile[2] = 5
  BY DEF StartTile, Grid
<1>2. CASE Mark
  <2>1. PICK wild \in BOOLEAN :
           track'[StartTile] = IF StartTile \in Walked(wild) THEN 1 ELSE track[StartTile]
    BY <1>1, <1>2, MarkedCells
  <2>2. branch \in {UP, RIGHT, DOWN, LEFT}
    BY DEF NavTypeOK, Orientation
  <2>3. StartTile \notin Walked(wild)
    <3>1. ASSUME StartTile \in Walked(wild) PROVE FALSE
      <4>1. branch \in {UP, LEFT} /\ ~Stops(StartTile, wild)
        BY <1>1, <2>2, <3>1, WalkedCells
      <4>2. QED
        BY <1>1, <4>1 DEF Stops, StartTileKept
    <3>2. QED
      BY <3>1
  <2>4. QED
    BY <2>1, <2>3 DEF StartTileKept
<1>3. CASE Reset
  <2>1. EmptyTrack[StartTile] = -1
    BY <1>1 DEF EmptyTrack
  <2>2. QED
    BY <1>3, <2>1 DEF Reset, StartTileKept
<1>4. CASE ~Mark /\ ~Reset
  BY <1>4, TrackKept DEF StartTileKept
<1>5. QED
  BY <1>2, <1>3, <1>4

(* No leg ever overwrites the pit tile, although the legs to the right and *)
(* downwards would not stop at it.                                         *)
THEOREM StartTileKeptHolds == NavSpec => []StartTileKept
<1>1. NavInit => StartTileKept
  BY DEF NavInit, StartTileKept, EmptyTrack, StartTile, Grid
<1>2. NavTypeOK /\ StartTileKept /\ [NavNext]_navVars => StartTileKept'
  BY StartTileStep
<1>3. QED
  BY <1>1, <1>2, NavTypeCorrect, PTL DEF NavSpec

LEMMA OwnLineStep ==
    ASSUME NavTypeOK, MotorsMatchPhase, [NavNext]_navVars,
           NEW cell \in Grid, track'[cell] = 1, track[cell] # 1
    PROVE  /\ Between(row, cell[1], currentPosition'[1])
           /\ Between(col, cell[2], currentPosition'[2])
           /\ pwm = Both(NoPower)
<1>1. CASE Mark
  <2>1. PICK wild \in BOOLEAN :
           track'[cell] = IF cell \in Walked(wild) THEN 1 ELSE track[cell]
    BY <1>1, MarkedCells
  <2>2. cell \in Walked(wild)
    BY <2>1
  <2>3. currentPosition' = Corner /\ pc = "mark"
    BY <1>1 DEF Mark
  <2>4. QED
    BY <2>2, <2>3, WalkedCells DEF MotorsMatchPhase
<1>2. CASE Reset
  <2>1. track'[cell] # 1
    BY <1>2 DEF Reset, EmptyTrack
  <2>2. QED
    BY <2>1
<1>3. CASE ~Mark /\ ~Reset
  BY <1>3, TrackKept
<1>4. QED
  BY <1>1, <1>2, <1>3

(* Every cell newly marked lies between the corner the rover leaves and    *)
(* the corner it books, and is marked while the rover stands still.        *)
THEOREM LegMarksItsOwnLineHolds == NavSpec => LegMarksItsOwnLine
<1>1. NavTypeOK /\ MotorsMatchPhase /\ [NavNext]_navVars =>
        [\A cell \in Grid :
           track'[cell] = 1 /\ track[cell] # 1 =>
              /\ Between(row, cell[1], currentPosition'[1])
              /\ Between(col, cell[2], currentPosition'[2])
              /\ pwm = Both(NoPower)]_navVars
  BY OwnLineStep
<1>2. QED
  BY <1>1, NavTypeCorrect, MotorsMatchPhaseHolds, PTL DEF NavSpec, LegMarksItsOwnLine
=============================================================================
