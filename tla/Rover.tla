------------------------------- MODULE Rover -------------------------------
(***************************************************************************)
(* The sketches that drive the wheels, each from its own start: main_algo, *)
(* whose loop() is module Navigator; a motor test such as                  *)
(* motor_test_control_scheme, which makes any calls of the driver, loop()  *)
(* of main_algo being "off"; and the timed wait of a turn, for which the   *)
(* clock is followed tick by tick.                                         *)
(***************************************************************************)
EXTENDS Navigator, TurnTimer

VARIABLE sketch

roverVars == <<navVars, timerVars, sketch>>

RoverInit ==
    /\ sketch \in {"main_algo", "motor_test", "timed_turn"}
    /\ NavInit /\ TimerInit

MotorTest ==
    /\ DriveNext
    /\ pc' = "off"
    /\ UNCHANGED <<branch, mapVars, sensorVars, worldVars, timerVars>>

RoverNext ==
    /\ UNCHANGED sketch
    /\ \/ sketch = "main_algo" /\ NavNext /\ UNCHANGED timerVars
       \/ sketch = "motor_test" /\ MotorTest
       \/ sketch = "timed_turn" /\ TimerNext /\ UNCHANGED navVars

\* A ramp that was begun goes on: its loop is the only thread.
RoverSpec == RoverInit /\ [][RoverNext]_roverVars /\ DriveFairness

-----------------------------------------------------------------------------
(* Values of TLC's instance.  Speeds: every named one that makes an index  *)
(* of its own, one below zero, one above the maximum.  Ranges: 100 is a    *)
(* wall ahead and too near on the left, 150 a wall ahead and a well-kept   *)
(* left distance, 1200 open road until the turning distance has grown,     *)
(* 1400 beyond what readTOFs keeps.                                        *)
MCSpeeds == {-1, 0, 33, 72, 137, 150, 333, 400}
MCRanges == {100, 150, 1200, 1400}
MCGarbage == {-5, 700}
=============================================================================
