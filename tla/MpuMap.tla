------------------------------- MODULE MpuMap -------------------------------
(***************************************************************************)
(* The register map of libraries/MPU6050: the addresses and bit numbers of *)
(* MPU6050.h and, for every setting MPU6050.cpp has functions for, the     *)
(* field of the register its functions access.  A setting's getter and its *)
(* setter name the same field.                                             *)
(***************************************************************************)
EXTENDS I2Cdev

\* Register addresses: gyro corrections, offsets and self test ...
OffsetRegisters ==
    [XG_OFFS_TC |-> 0, YG_OFFS_TC |-> 1, ZG_OFFS_TC |-> 2,
     X_FINE_GAIN |-> 3, Y_FINE_GAIN |-> 4, Z_FINE_GAIN |-> 5,
     XA_OFFS_H |-> 6, YA_OFFS_H |-> 8, ZA_OFFS_H |-> 10,
     SELF_TEST_X |-> 13, SELF_TEST_Y |-> 14, SELF_TEST_Z |-> 15,
     SELF_TEST_A |-> 16, XG_OFFS_USRH |-> 19, YG_OFFS_USRH |-> 21,
     ZG_OFFS_USRH |-> 23]

\* ... configuration, detection thresholds and the auxiliary master ...
ConfigRegisters ==
    [SMPLRT_DIV |-> 25, CONFIG |-> 26, GYRO_CONFIG |-> 27,
     ACCEL_CONFIG |-> 28, FF_THR |-> 29, FF_DUR |-> 30, MOT_THR |-> 31,
     MOT_DUR |-> 32, ZRMOT_THR |-> 33, ZRMOT_DUR |-> 34, FIFO_EN |-> 35,
     I2C_MST_CTRL |-> 36, I2C_SLV0_ADDR |-> 37, I2C_SLV0_REG |-> 38,
     I2C_SLV0_CTRL |-> 39, I2C_SLV4_ADDR |-> 49, I2C_SLV4_REG |-> 50,
     I2C_SLV4_DO |-> 51, I2C_SLV4_CTRL |-> 52, I2C_SLV4_DI |-> 53,
     I2C_MST_STATUS |-> 54, INT_PIN_CFG |-> 55, INT_ENABLE |-> 56,
     DMP_INT_STATUS |-> 57, INT_STATUS |-> 58]

\* ... and measurements, power, the FIFO and the DMP's memory.
DataRegisters ==
    [ACCEL_XOUT_H |-> 59, ACCEL_YOUT_H |-> 61, ACCEL_ZOUT_H |-> 63,
     TEMP_OUT_H |-> 65, GYRO_XOUT_H |-> 67, GYRO_YOUT_H |-> 69,
     GYRO_ZOUT_H |-> 71, EXT_SENS_DATA_00 |-> 73, MOT_DETECT_STATUS |-> 97,
     I2C_SLV0_DO |-> 99, I2C_MST_DELAY_CTRL |-> 103,
     SIGNAL_PATH_RESET |-> 104, MOT_DETECT_CTRL |-> 105, USER_CTRL |-> 106,
     PWR_MGMT_1 |-> 107, PWR_MGMT_2 |-> 108, BANK_SEL |-> 109,
     MEM_START_ADDR |-> 110, MEM_R_W |-> 111, DMP_CFG_1 |-> 112,
     DMP_CFG_2 |-> 113, FIFO_COUNTH |-> 114, FIFO_R_W |-> 116,
     WHO_AM_I |-> 117]

RA ==
    [n \in UNION {DOMAIN OffsetRegisters, DOMAIN ConfigRegisters, DOMAIN DataRegisters} |->
        CASE n \in DOMAIN OffsetRegisters -> OffsetRegisters[n]
          [] n \in DOMAIN ConfigRegisters -> ConfigRegisters[n]
          [] n \in DOMAIN DataRegisters -> DataRegisters[n]]

\* Fields: one bit, several bits from the highest one, or a whole register.
Bit(reg, n) == [reg |-> RA[reg], bit |-> n, len |-> 1]
Bits(reg, start, len) == [reg |-> RA[reg], bit |-> start, len |-> len]
Whole(reg) == Bits(reg, 7, 8)

\* The supply of the auxiliary bus, in a register of the gyro's corrections.
SupplySettings == [AuxVDDIOLevel |-> Bit("YG_OFFS_TC", 7)]

\* Temperature corrections of the gyro and fine gains of the accelerometer.
GainSettings ==
    [OTPBankValid |-> Bit("XG_OFFS_TC", 0),
     XGyroOffsetTC |-> Bits("XG_OFFS_TC", 6, 6),
     YGyroOffsetTC |-> Bits("YG_OFFS_TC", 6, 6),
     ZGyroOffsetTC |-> Bits("ZG_OFFS_TC", 6, 6),
     XFineGain |-> Whole("X_FINE_GAIN"),
     YFineGain |-> Whole("Y_FINE_GAIN"),
     ZFineGain |-> Whole("Z_FINE_GAIN")]

\* Sample rate, filters and the range of the gyro.
RateSettings ==
    [Rate |-> Whole("SMPLRT_DIV"),
     ExternalFrameSync |-> Bits("CONFIG", 5, 3),
     DLPFMode |-> Bits("CONFIG", 2, 3),
     FullScaleGyroRange |-> Bits("GYRO_CONFIG", 4, 2)]

\* The factory trims: a gyro's is the low five bits of its register, an
\* accelerometer's three high bits lie above them and its two low bits, in
\* pairs, in a register of their own.  The accelerometer's getters shift the
\* first register and do not mask it.
GyroTrim(self) == ReadBits(self, 4, 5)
AccelTrim(axis, self, selfA) ==
    {i \in ShiftDown(self, 3) : i >= 0}
        \cup ReadBits(selfA, 5 - 2 * axis, 2)

\* Self test, range and high pass filter of the accelerometer.
AccelSettings ==
    [AccelXSelfTest |-> Bit("ACCEL_CONFIG", 7),
     AccelYSelfTest |-> Bit("ACCEL_CONFIG", 6),
     AccelZSelfTest |-> Bit("ACCEL_CONFIG", 5),
     FullScaleAccelRange |-> Bits("ACCEL_CONFIG", 4, 2),
     DHPFMode |-> Bits("ACCEL_CONFIG", 2, 3)]

\* Thresholds and durations of the three kinds of detection.
MotionSettings ==
    [FreefallDetectionThreshold |-> Whole("FF_THR"),
     FreefallDetectionDuration |-> Whole("FF_DUR"),
     MotionDetectionThreshold |-> Whole("MOT_THR"),
     MotionDetectionDuration |-> Whole("MOT_DUR")]

ZeroMotionSettings ==
    [ZeroMotionDetectionThreshold |-> Whole("ZRMOT_THR"),
     ZeroMotionDetectionDuration |-> Whole("ZRMOT_DUR")]

\* Which measurements go to the FIFO.
FifoSettings ==
    [TempFIFOEnabled |-> Bit("FIFO_EN", 7),
     XGyroFIFOEnabled |-> Bit("FIFO_EN", 6),
     YGyroFIFOEnabled |-> Bit("FIFO_EN", 5),
     ZGyroFIFOEnabled |-> Bit("FIFO_EN", 4),
     AccelFIFOEnabled |-> Bit("FIFO_EN", 3),
     Slave2FIFOEnabled |-> Bit("FIFO_EN", 2),
     Slave1FIFOEnabled |-> Bit("FIFO_EN", 1),
     Slave0FIFOEnabled |-> Bit("FIFO_EN", 0)]

\* The master of the auxiliary bus.
MasterSettings ==
    [MultiMasterEnabled |-> Bit("I2C_MST_CTRL", 7),
     WaitForExternalSensorEnabled |-> Bit("I2C_MST_CTRL", 6),
     Slave3FIFOEnabled |-> Bit("I2C_MST_CTRL", 5),
     SlaveReadWriteTransitionEnabled |-> Bit("I2C_MST_CTRL", 4),
     MasterClockSpeed |-> Bits("I2C_MST_CTRL", 3, 4)]

\* Slave 4 of the auxiliary bus.
Slave4Settings ==
    [Slave4Address |-> Whole("I2C_SLV4_ADDR"),
     Slave4Register |-> Whole("I2C_SLV4_REG"),
     Slave4OutputByte |-> Whole("I2C_SLV4_DO"),
     Slave4Enabled |-> Bit("I2C_SLV4_CTRL", 7),
     Slave4InterruptEnabled |-> Bit("I2C_SLV4_CTRL", 6),
     Slave4WriteMode |-> Bit("I2C_SLV4_CTRL", 5),
     Slave4MasterDelay |-> Bits("I2C_SLV4_CTRL", 4, 5)]

\* The interrupt pin.
PinSettings ==
    [InterruptMode |-> Bit("INT_PIN_CFG", 7),
     InterruptDrive |-> Bit("INT_PIN_CFG", 6),
     InterruptLatch |-> Bit("INT_PIN_CFG", 5),
     InterruptLatchClear |-> Bit("INT_PIN_CFG", 4),
     FSyncInterruptLevel |-> Bit("INT_PIN_CFG", 3),
     FSyncInterruptEnabled |-> Bit("INT_PIN_CFG", 2),
     I2CBypassEnabled |-> Bit("INT_PIN_CFG", 1),
     ClockOutputEnabled |-> Bit("INT_PIN_CFG", 0)]

\* The interrupts; IntEnabled stands for all of them at once.
InterruptSettings ==
    [IntEnabled |-> Whole("INT_ENABLE"),
     IntFreefallEnabled |-> Bit("INT_ENABLE", 7),
     IntMotionEnabled |-> Bit("INT_ENABLE", 6),
     IntZeroMotionEnabled |-> Bit("INT_ENABLE", 5),
     IntFIFOBufferOverflowEnabled |-> Bit("INT_ENABLE", 4),
     IntI2CMasterEnabled |-> Bit("INT_ENABLE", 3),
     IntDataReadyEnabled |-> Bit("INT_ENABLE", 0)]

DmpInterruptSettings ==
    [IntPLLReadyEnabled |-> Bit("INT_ENABLE", 2),
     IntDMPEnabled |-> Bit("INT_ENABLE", 1)]

\* Counters of the detection and the delay after power on.
CounterSettings ==
    [AccelerometerPowerOnDelay |-> Bits("MOT_DETECT_CTRL", 5, 2),
     FreefallDetectionCounterDecrement |-> Bits("MOT_DETECT_CTRL", 3, 2),
     MotionDetectionCounterDecrement |-> Bits("MOT_DETECT_CTRL", 1, 2)]

\* The FIFO, the master and the DMP on or off.
UserSettings ==
    [FIFOEnabled |-> Bit("USER_CTRL", 6),
     I2CMasterModeEnabled |-> Bit("USER_CTRL", 5),
     SPIEnabled |-> Bit("USER_CTRL", 4)]

DmpSettings ==
    [DMPEnabled |-> Bit("USER_CTRL", 7),
     DMPConfig1 |-> Whole("DMP_CFG_1"),
     DMPConfig2 |-> Whole("DMP_CFG_2")]

\* Sleep, wake cycle, temperature sensor and clock.
PowerSettings ==
    [SleepEnabled |-> Bit("PWR_MGMT_1", 6),
     WakeCycleEnabled |-> Bit("PWR_MGMT_1", 5),
     TempSensorEnabled |-> Bit("PWR_MGMT_1", 3),
     ClockSource |-> Bits("PWR_MGMT_1", 2, 3)]

StandbySettings ==
    [WakeFrequency |-> Bits("PWR_MGMT_2", 7, 2),
     StandbyXAccelEnabled |-> Bit("PWR_MGMT_2", 5),
     StandbyYAccelEnabled |-> Bit("PWR_MGMT_2", 4),
     StandbyZAccelEnabled |-> Bit("PWR_MGMT_2", 3),
     StandbyXGyroEnabled |-> Bit("PWR_MGMT_2", 2),
     StandbyYGyroEnabled |-> Bit("PWR_MGMT_2", 1),
     StandbyZGyroEnabled |-> Bit("PWR_MGMT_2", 0)]

IdentitySettings == [DeviceID |-> Bits("WHO_AM_I", 6, 6)]

\* Settings of slaves 0 to 3, whose registers follow each other in threes.
OfSlave(num, f) == [f EXCEPT !.reg = @ + 3 * num]

SlaveAddressing(num) ==
    [SlaveAddress |-> OfSlave(num, Whole("I2C_SLV0_ADDR")),
     SlaveRegister |-> OfSlave(num, Whole("I2C_SLV0_REG"))]

SlaveControl(num) ==
    [SlaveEnabled |-> OfSlave(num, Bit("I2C_SLV0_CTRL", 7)),
     SlaveWordByteSwap |-> OfSlave(num, Bit("I2C_SLV0_CTRL", 6)),
     SlaveWriteMode |-> OfSlave(num, Bit("I2C_SLV0_CTRL", 5)),
     SlaveWordGroupOffset |-> OfSlave(num, Bit("I2C_SLV0_CTRL", 4)),
     SlaveDataLength |-> OfSlave(num, Bits("I2C_SLV0_CTRL", 3, 4))]

\* The byte slave num writes, one register per slave.
SlaveOutput(num) ==
    [SlaveOutputByte |-> [Whole("I2C_SLV0_DO") EXCEPT !.reg = @ + num]]

\* Delays of the auxiliary slaves: bit num for slave num, bit 7 the shadow.
SlaveDelay(num) == [SlaveDelayEnabled |-> Bit("I2C_MST_DELAY_CTRL", num)]
ShadowDelay == [ExternalShadowDelayEnabled |-> Bit("I2C_MST_DELAY_CTRL", 7)]

\* Bits the driver only sets, and the chip clears when it has acted on them.
Resets ==
    [resetFIFO |-> Bit("USER_CTRL", 2), resetI2CMaster |-> Bit("USER_CTRL", 1),
     resetSensors |-> Bit("USER_CTRL", 0), reset |-> Bit("PWR_MGMT_1", 7)]

ResetDmp == [resetDMP |-> Bit("USER_CTRL", 3)]

PathResets ==
    [resetGyroscopePath |-> Bit("SIGNAL_PATH_RESET", 2),
     resetAccelerometerPath |-> Bit("SIGNAL_PATH_RESET", 1),
     resetTemperaturePath |-> Bit("SIGNAL_PATH_RESET", 0)]

\* Bits and bytes the driver only reads.
MasterStatus ==
    [PassthroughStatus |-> Bit("I2C_MST_STATUS", 7),
     Slave4IsDone |-> Bit("I2C_MST_STATUS", 6),
     LostArbitration |-> Bit("I2C_MST_STATUS", 5),
     Slave4Nack |-> Bit("I2C_MST_STATUS", 4),
     Slave3Nack |-> Bit("I2C_MST_STATUS", 3),
     Slave2Nack |-> Bit("I2C_MST_STATUS", 2),
     Slave1Nack |-> Bit("I2C_MST_STATUS", 1),
     Slave0Nack |-> Bit("I2C_MST_STATUS", 0)]

InterruptStatus ==
    [IntStatus |-> Whole("INT_STATUS"),
     IntFreefallStatus |-> Bit("INT_STATUS", 7),
     IntMotionStatus |-> Bit("INT_STATUS", 6),
     IntZeroMotionStatus |-> Bit("INT_STATUS", 5),
     IntFIFOBufferOverflowStatus |-> Bit("INT_STATUS", 4),
     IntI2CMasterStatus |-> Bit("INT_STATUS", 3),
     IntDataReadyStatus |-> Bit("INT_STATUS", 0)]

DmpStatus ==
    [IntPLLReadyStatus |-> Bit("INT_STATUS", 2),
     IntDMPStatus |-> Bit("INT_STATUS", 1)]

DmpInterruptStatus ==
    [i \in 0..5 |-> Bit("DMP_INT_STATUS", i)]

MotionStatus ==
    [MotionStatus |-> Whole("MOT_DETECT_STATUS"),
     XNegMotionDetected |-> Bit("MOT_DETECT_STATUS", 7),
     XPosMotionDetected |-> Bit("MOT_DETECT_STATUS", 6),
     YNegMotionDetected |-> Bit("MOT_DETECT_STATUS", 5),
     YPosMotionDetected |-> Bit("MOT_DETECT_STATUS", 4),
     ZNegMotionDetected |-> Bit("MOT_DETECT_STATUS", 3),
     ZPosMotionDetected |-> Bit("MOT_DETECT_STATUS", 2),
     ZeroMotionDetected |-> Bit("MOT_DETECT_STATUS", 0)]

\* 16-bit values, high byte in the lower of two registers.
Accelerations ==
    [AccelerationX |-> RA.ACCEL_XOUT_H, AccelerationY |-> RA.ACCEL_YOUT_H,
     AccelerationZ |-> RA.ACCEL_ZOUT_H]

Temperature == [Temperature |-> RA.TEMP_OUT_H]

Rotations ==
    [RotationX |-> RA.GYRO_XOUT_H, RotationY |-> RA.GYRO_YOUT_H,
     RotationZ |-> RA.GYRO_ZOUT_H]

\* getMotion6 reads 14 bytes from the first acceleration on and skips the
\* temperature between the two triples.
BugMotion6 == [i \in 1..6 |-> RA.ACCEL_XOUT_H + 2 * (i - 1)]
Motion6 ==
    [i \in 1..6 |-> RA.ACCEL_XOUT_H + 2 * (IF i <= 3 THEN i - 1 ELSE i)]

\* What the auxiliary slaves delivered, n bytes from a position on.
ExternalSensorData(position, n) ==
    [i \in 1..n |-> RA.EXT_SENS_DATA_00 + position + i - 1]

GyroOffsets ==
    [XGyroOffset |-> RA.XG_OFFS_USRH, YGyroOffset |-> RA.YG_OFFS_USRH,
     ZGyroOffset |-> RA.ZG_OFFS_USRH]

\* The accelerometer's offsets lie elsewhere in the later chips of the
\* family, which the driver tells by their identity.
AccelOffset(axis, id) ==
    IF id < 56 THEN RA.XA_OFFS_H + 2 * axis ELSE 119 + 3 * axis
=============================================================================
