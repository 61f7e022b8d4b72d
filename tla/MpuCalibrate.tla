---------------------------- MODULE MpuCalibrate ----------------------------
(***************************************************************************)
(* CalibrateGyro and CalibrateAccel of libraries/MPU6050/MPU6050.cpp: a PI *)
(* controller moves the chip's offset registers until the readings are     *)
(* zero, but for gravity.  The numbers are left out; what is kept of the   *)
(* error is the bounds the code compares it with, and of an offset         *)
(* register bit 0, which in the accelerometer's belongs to the temperature *)
(* correction and must survive.                                            *)
(***************************************************************************)
EXTENDS Integers

CONSTANTS
    Loops,       \* the argument of the call
    Rounds,      \* PI calculations of a loop (100)
    MinRound,    \* a loop does not end before (10)
    MinSamples,  \* good samples that end a loop (10)
    MaxFailed    \* bound: register reads that fail

ASSUME CalibrateAssumption ==
    /\ Loops \in Nat /\ Rounds \in Nat \ {0} /\ MinRound \in Nat
    /\ MinSamples \in Nat /\ MaxFailed \in Nat

VARIABLES
    step,     \* where the call is
    accel,    \* ReadAddress == 0x3B: the accelerometer, not the gyro
    axis,     \* axes whose offset has been read
    BitZero,  \* BitZero[3]
    lowBit,   \* external: bit 0 of the three offset registers
    first,    \* history: lowBit when the call began
    L, c, eSample,
    calm,     \* external: the robot stands still
    failedReads

calVars == <<step, accel, axis, BitZero, lowBit, first, L, c, eSample, calm, failedReads>>

Axes == 1..3
Bits01 == {0, 1}

\* eSum: below 5, below 100, up to 1000, more.
Errors == {"tiny", "small", "fair", "great"}

CalibrateInit ==
    /\ step = "idle" /\ accel = FALSE /\ axis = 0 /\ BitZero = [a \in Axes |-> 0]
    /\ lowBit \in [Axes -> Bits01] /\ first = lowBit
    /\ L = 0 /\ c = 0 /\ eSample = 0 /\ calm = TRUE /\ failedReads = 0

StartCalibrate ==
    /\ step = "idle" /\ step' = "read" /\ accel' \in BOOLEAN /\ axis' = 0
    /\ BitZero' \in [Axes -> Bits01]
    /\ first' = lowBit /\ failedReads' = 0
    /\ UNCHANGED <<lowBit, L, c, eSample, calm>>

\* Data & 1; a read that fails leaves in Data what was there before.
ReadOffset ==
    /\ step = "read" /\ axis < 3
    /\ axis' = axis + 1
    /\ \/ /\ BitZero' = [BitZero EXCEPT ![axis'] = lowBit[axis']] /\ UNCHANGED failedReads
       \/ /\ failedReads < MaxFailed /\ failedReads' = failedReads + 1
          /\ BitZero' = [BitZero EXCEPT ![axis'] = IF axis = 0 THEN @ ELSE BitZero[axis]]
    /\ UNCHANGED <<step, accel, lowBit, first, L, c, eSample, calm>>

AllRead ==
    /\ step = "read" /\ axis = 3
    /\ L' = 0 /\ c' = 0 /\ eSample' = 0 /\ step' = IF Loops = 0 THEN "reset" ELSE "round"
    /\ UNCHANGED <<accel, axis, BitZero, lowBit, first, calm, failedReads>>

\* (Data & 0xFFFE) | BitZero[i], for the gyro any value.
BugWritten == [Axes -> Bits01]
Written == IF accel THEN {BitZero} ELSE [Axes -> Bits01]

\* c after the test for too great an error, at the end of a loop.
BugRestarted(error) == IF c = Rounds - 1 /\ error \in {"fair", "great"} THEN 0 ELSE c
Restarted(error) == IF c = Rounds - 1 /\ error = "great" THEN 0 ELSE c

Good(error) == error = "tiny" \/ (accel /\ error = "small")

Round ==
    /\ step = "round" /\ c < Rounds
    /\ lowBit' \in Written
    /\ \E error \in Errors :
          /\ calm => error # "great"
          /\ eSample' = IF Good(error) /\ eSample < MinSamples THEN eSample + 1 ELSE eSample
          /\ LET round == Restarted(error)
             IN IF error \in {"tiny", "small"} /\ round > MinRound /\ eSample' >= MinSamples
                THEN step' = "endOfLoop" /\ c' = round
                ELSE step' = step /\ c' = round + 1
    /\ UNCHANGED <<accel, axis, BitZero, first, L, calm, failedReads>>

LoopIsOver ==
    /\ step = "round" /\ c >= Rounds /\ step' = "endOfLoop"
    /\ UNCHANGED <<accel, axis, BitZero, lowBit, first, L, c, eSample, calm, failedReads>>

\* The integral terms are written as they stand and the next loop begins.
EndOfLoop ==
    /\ step = "endOfLoop" /\ lowBit' \in Written
    /\ L' = L + 1 /\ c' = 0 /\ eSample' = 0
    /\ step' = IF L' < Loops THEN "round" ELSE "reset"
    /\ UNCHANGED <<accel, axis, BitZero, first, calm, failedReads>>

\* resetFIFO and resetDMP.
FinalResets ==
    /\ step = "reset" /\ step' = "idle" /\ L' = 0
    /\ UNCHANGED <<accel, axis, BitZero, lowBit, first, c, eSample, calm, failedReads>>

\* external: the robot is moved, or comes to rest.
Move ==
    /\ calm' = ~calm
    /\ UNCHANGED <<step, accel, axis, BitZero, lowBit, first, L, c, eSample, failedReads>>

Calibrating ==
    ReadOffset \/ AllRead \/ Round \/ LoopIsOver \/ EndOfLoop \/ FinalResets

CalibrateNext == StartCalibrate \/ Calibrating \/ Move

CalibrateSpec == CalibrateInit /\ [][CalibrateNext]_calVars /\ WF_calVars(Calibrating)

(***************************************************************************)
(* Properties.                                                             *)
(***************************************************************************)
\* Calibrating the accelerometer leaves bit 0 of its offset registers alone,
\* at every write and not only at the end, when the offsets could be read.
BitZeroKept == accel /\ failedReads = 0 /\ step # "idle" => lowBit = first

\* A calibration ends when the robot stays at rest; while it is moved the
\* last round is repeated for ever.
CalibrationEnds == <>[]calm => (step # "idle" ~> step = "idle")
=============================================================================
