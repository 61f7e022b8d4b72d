------------------------------ MODULE Mpu6050 ------------------------------
(***************************************************************************)
(* The driver of libraries/MPU6050: one object whose blocking functions    *)
(* its caller calls one after another.  A behaviour stays with one family  *)
(* of them: settings, measurements, packets of the FIFO, memory of the     *)
(* DMP, calibration.  They share no state but the bus and the buffer of    *)
(* the getters, which a call without a failed read fills before it looks.  *)
(***************************************************************************)
EXTENDS MpuSettings, MpuMeasure, MpuFifo, MpuMemory, MpuCalibrate

VARIABLE family

mpuVars == <<settingsVars, measureVars, fifoVars, memoryVars, calVars, family>>

MpuInit ==
    /\ family \in {"settings", "measure", "fifo", "memory", "calibrate"}
    /\ SettingsInit /\ MeasureInit /\ FifoInit /\ MemoryInit /\ CalibrateInit
    /\ family # "measure" => chip = 52
    /\ family # "calibrate" => lowBit = [a \in Axes |-> 0]

Of(name, action, others) == family = name /\ action /\ UNCHANGED <<others, family>>

MpuNext ==
    \/ Of("settings", SettingsNext, <<measureVars, fifoVars, memoryVars, calVars>>)
    \/ Of("measure", MeasureNext, <<settingsVars, fifoVars, memoryVars, calVars>>)
    \/ Of("fifo", FifoNext, <<settingsVars, measureVars, memoryVars, calVars>>)
    \/ Of("memory", MemoryNext, <<settingsVars, measureVars, fifoVars, calVars>>)
    \/ Of("calibrate", CalibrateNext, <<settingsVars, measureVars, fifoVars, memoryVars>>)

\* A blocking call goes on: it waits for the bus and for nothing else.
MpuSpec ==
    /\ MpuInit /\ [][MpuNext]_mpuVars
    /\ WF_mpuVars(Of("fifo", Work, <<settingsVars, measureVars, memoryVars, calVars>>))
    /\ WF_mpuVars(Of("fifo", Tick, <<settingsVars, measureVars, memoryVars, calVars>>))
    /\ WF_mpuVars(Of("calibrate", Calibrating, <<settingsVars, measureVars, fifoVars, memoryVars>>))
=============================================================================
