----------------------------- MODULE Navigator -----------------------------
(***************************************************************************)
(* loop() of main_algo/main_algo.ino, with the motor driver it commands    *)
(* (module Drive) and the two range sensors it reads.                      *)
(*                                                                         *)
(* One pass of loop() is: read the sensors; leave if the gyro says the     *)
(* rover is tilted; enter the branch of the current orientation and read   *)
(* the sensors again; then either correct the course and go on, or stop,   *)
(* turn right for a fixed time, stop, mark the leg on the map and move the *)
(* orientation on.  The four branches are the same program with different  *)
(* thresholds and a different walk over the map, so the orientation is a   *)
(* parameter here.  The processor may restart between any two steps: its   *)
(* memory starts afresh, the rover stays where it is.                      *)
(*                                                                         *)
(* Distances are in millimetres, as the sensors return them.               *)
(***************************************************************************)
EXTENDS Drive

CONSTANTS
    Ranges,  \* distances the sensors can measure
    Garbage, \* what an unwritten float of a fresh array can hold, in mm
    MaxLaps  \* bound: a heading with this many legs meets no further wall

ASSUME NavAssumption ==
    /\ Ranges \subseteq Nat
    /\ Garbage \subseteq Int
    /\ MaxLaps \in Nat

VARIABLES
    pc,                \* the point of loop() reached
    branch,            \* the orientation whose branch the pass is in
    orientation,       \* the global of that name
    prevOrientation,   \* the global of that name
    changeOrientation, \* changeOrientationUp ... Left, in quarters of a lap
    currentPosition,   \* the global of that name: row and column
    track,             \* the global of that name: the map
    pit, pit2,         \* the globals of those names
    tof,               \* tofReadings: the front and the left distance
    measured,          \* what the front sensor measured at the last reading
    compass,           \* external: the way the rover really points
    origin             \* history: where it pointed when the processor booted

mapVars == <<orientation, prevOrientation, changeOrientation,
             currentPosition, track, pit, pit2>>
sensorVars == <<tof, measured>>
worldVars == <<compass, origin>>
navVars == <<pc, branch, mapVars, sensorVars, worldVars, driveVars>>

-----------------------------------------------------------------------------
UP == 0
RIGHT == 1
DOWN == 2
LEFT == 3
Orientation == {UP, RIGHT, DOWN, LEFT}
Clockwise(h) == (h + 1) % 4

Grid == (0..5) \X (0..5)
StartTile == <<5, 5>>
EmptyTrack == [cell \in Grid |-> IF cell = StartTile THEN -1 ELSE 0]

(* changeOrientationLeft is a float that also takes the values 2.25, 3.25  *)
(* and so on; (int) drops the quarter.                                     *)
Lap(o) == changeOrientation[o] \div 4

(* orientation moves on early in the LEFT branch; the leg does not.        *)
Turning == pc \in {"spin", "wait", "halt", "mark"}
LegHeading == IF Turning THEN branch ELSE orientation

-----------------------------------------------------------------------------
(* Sensors: a measurement is a distance or NoEcho (RangeStatus 4).         *)

NoEcho == -1
Lost == -2
Unread == [front |-> Lost, left |-> Lost]
Measurement == Ranges \cup {NoEcho}
Far == 1300

Distance(m) == IF m = NoEcho \/ m > Far THEN Lost ELSE m

(* readTOFs: a left distance beyond Far overwrites the FRONT reading and   *)
(* leaves the left one as it was in the array.                             *)
ReadTOFs(front, left, unset) ==
    IF left > Far THEN [front |-> Lost, left |-> unset]
                  ELSE [front |-> Distance(front), left |-> Distance(left)]

(* The branch turns when the front reading is there and not above          *)
(* (FRONT_US_DIST + TILE_LENGTH/2) + changeOrientation*TILE_LENGTH, one    *)
(* tile more for DOWN.                                                     *)
TurnDistance(o, quarters) == 270 + 85 * quarters + IF o = DOWN THEN 340 ELSE 0

Blocked(o, front, quarters) ==
    0 <= front /\ front <= TurnDistance(o, quarters)

(* autoCorrect: too far from the wall on the left, too near, in between.   *)
(* A lost reading counts as near: -0.2 as a float is not the double -0.2.  *)
AutoCorrect(left, lap) ==
    LET tooFar == left > 160 + 340 * lap
        tooNear == left < 130 + 340 * lap
    IN  Cruise(IF tooNear THEN HIGH_SPEED ELSE MAX_SPEED,
               IF tooFar THEN HIGH_SPEED ELSE MAX_SPEED, TRUE)

-----------------------------------------------------------------------------
NavInit ==
    /\ DriveInit
    /\ pc = "read"
    /\ branch = LEFT
    /\ orientation = LEFT
    /\ prevOrientation = DOWN
    /\ changeOrientation = [o \in Orientation |-> 0]
    /\ currentPosition = <<5, 4>>
    /\ track = EmptyTrack
    /\ pit = FALSE
    /\ pit2 = FALSE
    /\ tof = Unread
    /\ measured = NoEcho
    /\ compass = LEFT
    /\ origin = LEFT

(* The end of a pass: the arrays are dropped, loop() is called again.      *)
EndPass ==
    /\ pc' = "read"
    /\ tof' = Unread
    /\ measured' = NoEcho

(* The head of loop(): fresh arrays and the first reading.                 *)
ReadSensors ==
    /\ pc = "read"
    /\ pc' = "gate"
    /\ \E front, left \in Measurement, unset \in Garbage :
          /\ tof' = ReadTOFs(front, left, unset)
          /\ measured' = front
    /\ UNCHANGED <<branch, mapVars, worldVars, driveVars>>

(* icmReadings[4] outside +-0.2: nothing else happens in this pass.        *)
SkipPit ==
    /\ pc = "gate"
    /\ EndPass
    /\ UNCHANGED <<branch, mapVars, worldVars, driveVars>>

(* Entering the branch: the second reading, and 2 becomes 2.25 for LEFT.   *)
Dispatch ==
    /\ pc = "gate"
    /\ pc' = "decide"
    /\ branch' = orientation
    /\ changeOrientation' =
          [changeOrientation EXCEPT ![LEFT] =
              IF orientation = LEFT /\ @ = 8 THEN 9 ELSE @]
    /\ \E front, left \in Measurement :
          /\ tof' = ReadTOFs(front, left, tof.left)
          /\ measured' = front
    /\ Lap(orientation) >= MaxLaps =>
          ~Blocked(orientation, tof'.front, changeOrientation'[orientation])
    /\ UNCHANGED <<orientation, prevOrientation, currentPosition, track,
                   pit, pit2, worldVars, driveVars>>

WallAhead == Blocked(branch, tof.front, changeOrientation[branch])

DriveOn ==
    /\ pc = "decide"
    /\ ~WallAhead
    /\ pc' = "entry"
    /\ AutoCorrect(tof.left, Lap(branch))
    /\ UNCHANGED <<branch, mapVars, sensorVars, worldVars>>

(* The blocks that run once when a leg or a pit is entered, and the cruise *)
(* that ends the branch.  Each block cruises and calls delayWithCorrection,*)
(* whose loop condition is false from the start, so it returns at once.    *)
PitBlock == branch \in {LEFT, DOWN} /\ Lap(RIGHT) = 1 /\ ~pit
Pit2Block == branch = DOWN /\ Lap(RIGHT) = 2 /\ ~pit2
LegBlock == Lap(branch) >= IF branch = DOWN THEN 2 ELSE 1

BugEnterLeg ==  \* the branch ends without its last cruise
    /\ pc = "entry"
    /\ EndPass
    /\ prevOrientation' = IF PitBlock \/ Pit2Block \/ LegBlock
                          THEN orientation ELSE prevOrientation
    /\ pit' = (pit \/ PitBlock)
    /\ pit2' = (pit2 \/ Pit2Block)
    /\ UNCHANGED <<branch, orientation, changeOrientation, currentPosition,
                   track, worldVars, driveVars>>

EnterLeg ==
    /\ pc = "entry"
    /\ EndPass
    /\ prevOrientation' = IF PitBlock \/ Pit2Block \/ LegBlock
                          THEN orientation ELSE prevOrientation
    /\ pit' = (pit \/ PitBlock)
    /\ pit2' = (pit2 \/ Pit2Block)
    /\ Cruise(MAX_SPEED, MAX_SPEED, TRUE)
    /\ UNCHANGED <<branch, orientation, changeOrientation, currentPosition,
                   track, worldVars>>

(* A wall: estop, and in the LEFT branch orientation = UP already here.    *)
BeginTurn ==
    /\ pc = "decide"
    /\ WallAhead
    /\ pc' = "spin"
    /\ EStop
    /\ orientation' = IF branch = LEFT THEN UP ELSE orientation
    /\ UNCHANGED <<branch, prevOrientation, changeOrientation,
                   currentPosition, track, pit, pit2, sensorVars, worldVars>>

SpinRight ==
    /\ pc = "spin"
    /\ pc' = "wait"
    /\ TurnRight(MAX_SPEED)
    /\ UNCHANGED <<branch, mapVars, sensorVars, worldVars>>

(* The timed wait is over (module TurnTimer); the rover has turned by a    *)
(* quarter, which is what the 840 ms are tuned for.                        *)
EndWait ==
    /\ pc = "wait"
    /\ pc' = "halt"
    /\ compass' = Clockwise(compass)
    /\ Cruise(MAX_SPEED, MAX_SPEED, TRUE)
    /\ UNCHANGED <<branch, mapVars, sensorVars, origin>>

Halt ==
    /\ pc = "halt"
    /\ pc' = "mark"
    /\ EStop
    /\ UNCHANGED <<branch, mapVars, sensorVars, worldVars>>

-----------------------------------------------------------------------------
(* Marking the leg on the map.                                             *)

row == currentPosition[1]
col == currentPosition[2]

(* The k-th cell the loop looks at, and how many it looks at.              *)
LegCell(k) ==
    CASE branch = LEFT  -> <<row, col - k>>
      [] branch = UP    -> <<row - k, col>>
      [] branch = RIGHT -> <<row, col + k>>
      [] branch = DOWN  -> <<row + k, col>>

LegLength ==
    CASE branch = LEFT  -> col - Lap(LEFT)
      [] branch = UP    -> row - Lap(UP)
      [] branch = RIGHT -> 5 - Lap(RIGHT) - col
      [] branch = DOWN  -> 4 - Lap(DOWN) - row

(* The loop breaks at a cell that is marked already; LEFT and UP take the  *)
(* absolute value, so -1 stops them too.  Off the map, track[i][j] reads   *)
(* whatever lies there: wild says whether it looks like a mark.            *)
Stops(cell, wild) ==
    IF cell \in Grid
    THEN track[cell] = 1 \/ (branch \in {LEFT, UP} /\ track[cell] = -1)
    ELSE wild

Walked(wild) ==
    {LegCell(k) : k \in {n \in 0..(LegLength - 1) :
                            \A m \in 0..n : ~Stops(LegCell(m), wild)}}

(* The orientation each branch sets.                                       *)

BugStayDown(o) ==  \* the branch DOWN does not set it
    IF o = DOWN THEN DOWN ELSE Clockwise(o)

NextOrientation(o) ==
    CASE o = LEFT -> UP [] o = UP -> RIGHT [] o = RIGHT -> DOWN [] o = DOWN -> LEFT

BugCorner ==  \* the row of a downward leg is not moved
    CASE branch = LEFT  -> <<row, Lap(LEFT)>>
      [] branch = UP    -> <<Lap(UP), col>>
      [] branch = RIGHT -> <<row, 5 - Lap(RIGHT)>>
      [] branch = DOWN  -> <<row, col>>

BugFarCorner ==  \* the row of a downward leg moves outwards, lap by lap
    CASE branch = LEFT  -> <<row, Lap(LEFT)>>
      [] branch = UP    -> <<Lap(UP), col>>
      [] branch = RIGHT -> <<row, 5 - Lap(RIGHT)>>
      [] branch = DOWN  -> <<5 + (Lap(DOWN) + 1), col>>

(* currentPosition after the leg.  DOWN stores 5-(changeOrientationDown-1).*)
Corner ==
    CASE branch = LEFT  -> <<row, Lap(LEFT)>>
      [] branch = UP    -> <<Lap(UP), col>>
      [] branch = RIGHT -> <<row, 5 - Lap(RIGHT)>>
      [] branch = DOWN  -> <<5 - (Lap(DOWN) - 1), col>>

BugMark ==  \* orientation is set first and its new value counted up
    /\ pc = "mark"
    /\ EndPass
    /\ \E wild \in BOOLEAN :
          /\ track' = [cell \in Grid |-> IF cell \in Walked(wild) THEN 1 ELSE track[cell]]
          /\ prevOrientation' \in
                {prevOrientation} \cup (IF Walked(wild) \subseteq Grid THEN {} ELSE {RIGHT})
    /\ currentPosition' = Corner
    /\ orientation' = NextOrientation(branch)
    /\ changeOrientation' = [changeOrientation EXCEPT ![NextOrientation(branch)] = @ + 4]
    /\ UNCHANGED <<branch, pit, pit2, worldVars, driveVars>>

(* The store of a 1 off the map can hit the variable next to track:        *)
(* prevOrientation is the one neighbour whose value is read again.         *)
Mark ==
    /\ pc = "mark"
    /\ EndPass
    /\ \E wild \in BOOLEAN :
          /\ track' = [cell \in Grid |-> IF cell \in Walked(wild) THEN 1 ELSE track[cell]]
          /\ prevOrientation' \in
                {prevOrientation} \cup (IF Walked(wild) \subseteq Grid THEN {} ELSE {RIGHT})
    /\ currentPosition' = Corner
    /\ orientation' = NextOrientation(branch)
    /\ changeOrientation' = [changeOrientation EXCEPT ![branch] = @ + 4]
    /\ UNCHANGED <<branch, pit, pit2, worldVars, driveVars>>

-----------------------------------------------------------------------------
(* A restart of the processor (power, watchdog, exhausted heap): setup()   *)
(* and the globals' initial values.  In the middle of the timed turn the   *)
(* rover may point anywhere: spinning until the watchdog bites takes it    *)
(* round several quarters.                                                 *)
Reset ==
    /\ pc' = "read"
    /\ branch' = LEFT
    /\ orientation' = LEFT
    /\ prevOrientation' = DOWN
    /\ changeOrientation' = [o \in Orientation |-> 0]
    /\ currentPosition' = <<5, 4>>
    /\ track' = EmptyTrack
    /\ pit' = FALSE
    /\ pit2' = FALSE
    /\ tof' = Unread
    /\ measured' = NoEcho
    /\ mode' = "STOPPED"
    /\ dir' \in [Wheel -> Spin]
    /\ pwm' = Both(NoPower)
    /\ speed' = 0
    /\ rpm' = 0
    /\ ramp' = NoRamp
    /\ compass' \in IF pc = "wait" THEN Orientation ELSE {compass}
    /\ origin' = compass'

LoopStep ==
    \/ ReadSensors
    \/ SkipPit
    \/ Dispatch
    \/ DriveOn
    \/ EnterLeg
    \/ BeginTurn
    \/ SpinRight
    \/ EndWait
    \/ Halt
    \/ Mark

NavNext == LoopStep \/ Reset

NavSpec == NavInit /\ [][NavNext]_navVars

-----------------------------------------------------------------------------
(* How far below the drawn corner the stored row is: the branch DOWN       *)
(* stores 5-(changeOrientationDown-1) where its own loop and the diagram   *)
(* end two rows higher, LEFT keeps that row, UP stores one of its own.     *)
Slip == IF LegHeading \in {LEFT, UP} /\ Lap(DOWN) > 0 THEN 2 ELSE 0

Plan == INSTANCE Spiral
            WITH heading <- LegHeading,
                 laps <- [o \in Orientation |-> Lap(o)],
                 corner <- <<row - Slip, col>>

(* Type invariant of the globals, the readings and the rover's pose.       *)
NavTypeOK ==
    /\ DriveTypeOK
    /\ ramp = NoRamp
    /\ pc \in {"read", "gate", "decide", "entry", "spin", "wait", "halt", "mark"}
    /\ branch \in Orientation
    /\ orientation \in Orientation
    /\ prevOrientation \in Orientation
    /\ changeOrientation \in [Orientation -> Nat]
    /\ currentPosition \in Int \X Int
    /\ track \in [Grid -> {-1, 0, 1}]
    /\ pit \in BOOLEAN
    /\ pit2 \in BOOLEAN
    /\ tof \in [front : Int, left : Int]
    /\ measured \in Measurement
    /\ compass \in Orientation
    /\ origin \in Orientation

(* The four counters go round with the orientation: the headings that come *)
(* before the present one in LEFT, UP, RIGHT, DOWN are one leg ahead of    *)
(* it, the others level, whatever the sensors said and although            *)
(* changeOrientationLeft jumps by a quarter and orientation moves early.   *)
SpiralOrder ==
    \A o \in Orientation :
        Lap(o) = Lap(LegHeading) +
                 IF Clockwise(o) < Clockwise(LegHeading) THEN 1 ELSE 0

(* currentPosition is at all times the corner the map diagrams draw for    *)
(* the leg driven last, the start before any leg: x at [4][1] (lines       *)
(* 256-262) and at [3][4] (lines 473-479).  The row DOWN stores is not.    *)
OnThePlan ==
    LET before == (LegHeading + 3) % 4
    IN  currentPosition = IF Lap(before) = 0 THEN <<5, 4>>
                          ELSE Plan!CornerAfter(before, Lap(before) - 1)

(* What that row does to the walks over the map: the loops of LEFT and UP  *)
(* store behind track[6][6], but only in the five words that would be      *)
(* track[6][1] to track[6][5], on whatever corner and lap.                 *)
BehindTrack == {<<6, c>> : c \in 1..5}

StrayStores ==
    pc = "mark" => \A wild \in BOOLEAN : Walked(wild) \subseteq Grid \cup BehindTrack

(* The way the rover thinks it points differs from the way it does point   *)
(* by what it had turned before the processor booted, and by nothing else: *)
(* no pass turns the rover without moving orientation on, or the reverse.  *)
HeadingBelief ==
    (compass - origin) % 4 =
        (LegHeading - LEFT + IF pc \in {"halt", "mark"} THEN 1 ELSE 0) % 4

(* The pins suit the point of the pass: no turn starts or is booked while  *)
(* the wheels run, the timed turn is a full-power spin to the right, and   *)
(* the one-sided correction of autoCorrect does not outlive its branch.    *)
MotorsMatchPhase ==
    /\ pc = "wait" => dir = Rightward /\ pwm = Both(0)
    /\ pc \in {"spin", "mark"} => mode = "STOPPED" /\ pwm = Both(NoPower)
    /\ pc \in {"read", "gate", "decide"} =>
           \/ mode = "STOPPED" /\ pwm = Both(NoPower)
           \/ mode = "CRUISING" /\ dir = Forward /\ pwm = Both(0)
    /\ pc = "entry" => dir = Forward /\ (pwm["left"] = 0 \/ pwm["right"] = 0)

(* A turn starts only where the front sensor itself measured a wall within *)
(* the turning distance: neither a lost echo nor an overwritten or unset   *)
(* reading makes the rover turn on open road.                              *)
TurnsOnlyAtWalls ==
    Turning => /\ measured # NoEcho
               /\ measured <= TurnDistance(branch, changeOrientation[branch])

(* The pit tile, track[5][5] = -1, is never overwritten: the legs to the   *)
(* right and downwards test for 1 only and would walk over it.             *)
StartTileKept == track[StartTile] = -1

(* A pass marks cells only on the line between the corner it leaves and    *)
(* the corner it books, and only while the rover stands still.             *)
Between(a, x, b) == (a <= x /\ x <= b) \/ (b <= x /\ x <= a)

LegMarksItsOwnLine ==
    [][\A cell \in Grid :
          track'[cell] = 1 /\ track[cell] # 1 =>
             /\ Between(row, cell[1], currentPosition'[1])
             /\ Between(col, cell[2], currentPosition'[2])
             /\ pwm = Both(NoPower)]_navVars

(* The loop implements Spiral: a pass is one turn of the spiral or         *)
(* nothing, and its corner is the drawn one but for Slip rows.             *)
ImplementsSpiral == Plan!SpiralSpec

(* "front tof is first row, left tof is second row" (sensors.cpp:20): what *)
(* a branch decides on is what the front sensor measured.                  *)
FrontRowIsFrontSensor ==
    pc \in {"gate", "decide"} => tof.front = Distance(measured)
=============================================================================
