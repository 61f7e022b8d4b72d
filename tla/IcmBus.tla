------------------------------- MODULE IcmBus -------------------------------
(***************************************************************************)
(* The driver of the motion sensor (libraries/Adafruit_ICM20X, over        *)
(* Adafruit_BusIO) and the chip at the other end of the I2C bus.           *)
(*                                                                         *)
(* The chip's registers lie in four banks behind one window of addresses.  *)
(* Every method of the driver first selects a bank and then reads and      *)
(* writes by address, so that what an access hits is decided by the last   *)
(* selection that got through.  A method is written here as the sequence   *)
(* of its bus transactions; the steps below take them one at a time, since *)
(* the chip acts between two of them, any of them may fail, and so may the *)
(* processor.                                                              *)
(***************************************************************************)
EXTENDS Integers, Sequences, SequencesExt

CONSTANTS
    Checks,    \* NUM_FINISHED_CHECKS
    Resets,    \* I2C_MASTER_RESETS_BEFORE_FAIL
    MaxFaults  \* bound: failed transactions and restarts in a behaviour

ASSUME IcmAssumption == Checks \in Nat \ {0} /\ Resets \in Nat \ {0} /\ MaxFaults \in Nat

VARIABLES
    bank,       \* external: the bank the chip has selected
    cells,      \* external: the chip's registers
    slave4,     \* external: "busy" while slave 4 moves a byte to or from the magnetometer
    magRate,    \* external: CNTL2 of the magnetometer
    accelRange, \* current_accel_range
    gyroRange,  \* current_gyro_range
    todo,       \* the transactions left of the call in progress
    got,        \* the byte read last
    ok,         \* what the call, or the auxiliary transaction, returns
    held,       \* success, in setMagDataRate
    known,      \* init_success, in begin_I2C
    begun,      \* history: begin_I2C has returned true
    clean,      \* history: nothing has failed on the bus since begin_I2C was called
    faults      \* bound: failed transactions and restarts so far

chipVars == <<bank, cells, slave4, magRate>>
rangeVars == <<accelRange, gyroRange>>
callVars == <<todo, got, ok, held, known, begun>>
faultVars == <<clean, faults>>
icmVars == <<chipVars, rangeVars, callVars, faultVars>>

(* Registers, as bank and address.                                         *)
WhoAmI == <<0, 0>>
UserCtrl == <<0, 3>>
PwrMgmt1 == <<0, 6>>
IntPinCfg == <<0, 15>>
IntEnable1 == <<0, 17>>
MstStatus == <<0, 23>>
AccelXoutH == <<0, 45>>
GyroSmplrtDiv == <<2, 0>>
GyroConfig1 == <<2, 1>>
AccelSmplrtDiv1 == <<2, 16>>
AccelSmplrtDiv2 == <<2, 17>>
AccelConfig1 == <<2, 20>>
MstCtrl == <<3, 1>>
Slv0Addr == <<3, 3>>
Slv0Reg == <<3, 4>>
Slv0Ctrl == <<3, 5>>
Slv4Addr == <<3, 19>>
Slv4Reg == <<3, 20>>
Slv4Ctrl == <<3, 21>>
Slv4Do == <<3, 22>>
Slv4Di == <<3, 23>>

Cells == {WhoAmI, UserCtrl, PwrMgmt1, IntPinCfg, IntEnable1, MstStatus,
          AccelXoutH, GyroSmplrtDiv, GyroConfig1, AccelSmplrtDiv1,
          AccelSmplrtDiv2, AccelConfig1, MstCtrl, Slv0Addr, Slv0Reg, Slv0Ctrl,
          Slv4Addr, Slv4Reg, Slv4Ctrl, Slv4Do, Slv4Di}

(* Those the chip does not let the driver write.                           *)
ReadOnly == {WhoAmI, MstStatus, AccelXoutH, Slv4Di}

Byte == 0..255
AllOnes == 255        \* the low byte of the -1 that a failed read returns
ChipIds == {225, 234} \* ICM20649_CHIP_ID, ICM20948_CHIP_ID
MagId == 9            \* ICM20948_MAG_ID
MagAddress == 12      \* 0x0C, and 0x8C to read
Wia2 == 1             \* AK09916_WIA2
Cntl2 == 49           \* AK09916_CNTL2

(* A group of bits of a byte, and a byte with a group replaced.            *)
Bits(v, n, shift) == (v \div 2 ^ shift) % 2 ^ n

WithBits(v, n, shift, data) ==
    v + ((data % 2 ^ n) - Bits(v, n, shift)) * 2 ^ shift

(* The registers after power-on or a reset: asleep, smallest ranges.       *)
Defaults == [c \in Cells |->
    CASE c = WhoAmI -> 234
      [] c = PwrMgmt1 -> 65
      [] c \in {GyroConfig1, AccelConfig1} -> 1
      [] OTHER -> 0]

-----------------------------------------------------------------------------
(* The steps a method is made of.  A step with a label in "else" makes the *)
(* method return false there when it fails; without one it is ignored.     *)

Ignore == "ignore"
Select(b) == [do |-> "select", to |-> b]
Detect == [do |-> "detect", else |-> "end"]
Fetch(r) == [do |-> "fetch", reg |-> r]
Put(r, v, l) == [do |-> "put", reg |-> r, value |-> v, else |-> l]
Put2(r, v, l) == [do |-> "put2", reg |-> r, value |-> v, else |-> l]
Merge(r, n, s, v, l) ==
    [do |-> "merge", reg |-> r, bits |-> n, shift |-> s, value |-> v, else |-> l]
Join(l) == [do |-> "join", label |-> l]
Op(name) == [do |-> name]
Poll(n) == [do |-> "poll", reg |-> MstStatus, try |-> n]
Cleared(r, s) == [do |-> "cleared", reg |-> r, shift |-> s]
Cache(range, v) == [do |-> "cache", range |-> range, value |-> v]
TryMag(n) == [do |-> "tryMag", try |-> n]

(* RegisterBits::write reads the register, replaces the bits and writes.   *)
Write(r, n, s, v, l) == <<Fetch(r), Merge(r, n, s, v, l)>>

ReadRange(r) == <<Select(2), Fetch(r), Select(0)>>

WriteGyroRange(v) ==
    <<Select(2)>> \o Write(GyroConfig1, 2, 1, v, Ignore)
        \o <<Cache("gyro", v), Select(0)>>

BugWriteAccelRange(v) ==  \* without its own _setBank(2)
    Write(AccelConfig1, 2, 1, v, Ignore) \o <<Cache("accel", v), Select(0)>>

WriteAccelRange(v) ==
    <<Select(2)>> \o Write(AccelConfig1, 2, 1, v, Ignore)
        \o <<Cache("accel", v), Select(0)>>

SetGyroRateDivisor(v) == <<Select(2), Put(GyroSmplrtDiv, v, Ignore), Select(0)>>
SetAccelRateDivisor(v) == <<Select(2), Put2(AccelSmplrtDiv1, v, Ignore), Select(0)>>

(* enableAccelDLPF and enableGyrolDLPF: both write ACCEL_CONFIG_1, and     *)
(* both leave bank 2 selected.                                             *)
EnableDLPF(enable, cutoff) ==
    <<Select(2)>> \o Write(AccelConfig1, 1, 0, IF enable THEN 1 ELSE 0, "end")
        \o (IF enable THEN Write(AccelConfig1, 3, 3, cutoff, "end") ELSE <<>>)
        \o <<Join("end")>>

IntActiveLow(r, low) ==
    <<Select(0)>> \o Write(r, 1, 6, 1, Ignore) \o Write(r, 1, 7, low, Ignore)

SetI2CBypass(on) == <<Select(0)>> \o Write(IntPinCfg, 1, 1, on, Ignore)
ConfigureI2CMaster == <<Select(3), Put(MstCtrl, 23, Ignore)>>
EnableI2CMaster == <<Select(0)>> \o Write(UserCtrl, 1, 5, 1, Ignore)

ResetI2CMaster ==
    <<Select(0)>> \o Write(UserCtrl, 1, 1, 1, Ignore) \o <<Cleared(UserCtrl, 1)>>

(* reset(): the bit stays set until the chip is done.                      *)
Reset ==
    <<Select(0)>> \o Write(PwrMgmt1, 1, 7, 1, Ignore) \o <<Cleared(PwrMgmt1, 7)>>

(* auxillaryRegisterTransaction, leaving its result in ok and got.         *)
AuxRead(reg) ==
    <<Op("aux"), Select(3),
      Put(Slv4Addr, 128 + MagAddress, "aux"), Put(Slv4Reg, reg, "aux"),
      Put(Slv4Ctrl, 128, "aux"), Select(0), Poll(1),
      Select(3), Fetch(Slv4Di), Join("aux")>>

AuxWrite(reg, value) ==
    <<Op("aux"), Select(3), Put(Slv4Do, value, "aux"),
      Put(Slv4Addr, MagAddress, "aux"), Put(Slv4Reg, reg, "aux"),
      Put(Slv4Ctrl, 128, "aux"), Select(0), Poll(1), Join("aux")>>

(* The rate goes through SHUTDOWN; both writes are always made.            *)
SetMagDataRate(rate) ==
    AuxWrite(Cntl2, 0) \o <<Op("hold")>> \o AuxWrite(Cntl2, rate) \o <<Op("both")>>

(* auxI2CBusSetupFailed, one try of it: TryMag looks at the identity.      *)
MagTry(n) == AuxRead(Wia2) \o <<TryMag(n)>>

SetupMag ==
    SetI2CBypass(0) \o ConfigureI2CMaster \o EnableI2CMaster \o MagTry(1)
        \o SetMagDataRate(8) \o <<Op("orEnd"), Select(3),
             Put(Slv0Addr, 128 + MagAddress, "end"), Put(Slv0Reg, 16, "end"),
             Put(Slv0Ctrl, 137, "end")>>

BugInitChip ==  \* awake first, then reset
    <<Select(0), Fetch(WhoAmI), Op("identify")>>
        \o Write(PwrMgmt1, 1, 6, 0, Ignore) \o Reset
        \o WriteGyroRange(3) \o WriteAccelRange(3)
        \o SetGyroRateDivisor(10) \o SetAccelRateDivisor(20) \o <<Join("init")>>

InitChip ==
    <<Select(0), Fetch(WhoAmI), Op("identify")>> \o Reset
        \o Write(PwrMgmt1, 1, 6, 0, Ignore)
        \o WriteGyroRange(3) \o WriteAccelRange(3)
        \o SetGyroRateDivisor(10) \o SetAccelRateDivisor(20) \o <<Join("init")>>

(* begin_I2C sets up the magnetometer even when _init has failed.          *)
BeginI2C ==
    <<Op("begin"), Detect>> \o InitChip \o SetupMag \o <<Op("begun"), Join("end")>>

GetEvent == <<Select(0), Fetch(AccelXoutH), Select(0)>>

(* The methods a sketch may call once the sensor has begun; of those that  *)
(* differ in the register alone, one.                                      *)
Methods ==
    {ReadRange(GyroSmplrtDiv), GetEvent, WriteGyroRange(0), WriteAccelRange(1),
     SetGyroRateDivisor(5), SetAccelRateDivisor(300), EnableDLPF(TRUE, 7),
     EnableDLPF(FALSE, 7), IntActiveLow(IntPinCfg, 1), IntActiveLow(IntEnable1, 1),
     SetMagDataRate(2), AuxRead(Cntl2), ResetI2CMaster}

-----------------------------------------------------------------------------
IcmInit ==
    /\ bank = 0 /\ cells = Defaults /\ slave4 = "idle" /\ magRate = 0
    /\ accelRange = 0 /\ gyroRange = 0
    /\ todo = <<>> /\ got = 0 /\ ok = FALSE /\ held = FALSE /\ known = FALSE
    /\ begun = FALSE /\ clean = TRUE /\ faults = 0

Idle == todo = <<>>
Next1 == Head(todo)
Doing(name) == ~Idle /\ Next1.do = name
Advance == todo' = Tail(todo)

(* return false: on with what follows the label.                           *)
ReturnFalse(l) ==
    /\ ok' = FALSE /\ got' = 0
    /\ todo' = SubSeq(todo, 1 + SelectInSeq(todo, LAMBDA o : o = Join(l)), Len(todo))

Works == UNCHANGED faultVars
Fails ==
    /\ faults < MaxFaults
    /\ faults' = faults + 1
    /\ clean' = FALSE

Call(method) == Idle /\ todo' = method /\ ok' = TRUE

(* The byte an access to address a reads, 0 where no register is.          *)
At(a) == IF <<bank, a>> \in Cells THEN cells[<<bank, a>>] ELSE 0

(* A write of v to address a: setting bit 7 of I2C_SLV4_CTRL starts slave  *)
(* 4, when the I2C master is enabled.                                      *)
Store(a, v) ==
    /\ cells' = [c \in Cells |-> IF c = <<bank, a>> /\ c \notin ReadOnly THEN v ELSE cells[c]]
    /\ slave4' = IF /\ <<bank, a>> = Slv4Ctrl /\ v >= 128
                    /\ Bits(cells[UserCtrl], 1, 5) = 1
                 THEN "busy" ELSE slave4
    /\ UNCHANGED <<bank, magRate>>

Store2(a, v) ==
    /\ cells' = [c \in Cells |-> CASE c \in ReadOnly -> cells[c]
                                   [] c = <<bank, a>> /\ c \notin ReadOnly -> v \div 256
                                   [] c = <<bank, a + 1>> /\ c \notin ReadOnly -> v % 256
                                   [] OTHER -> cells[c]]
    /\ UNCHANGED <<bank, slave4, magRate>>

(* Reading I2C_MST_STATUS clears it.                                       *)
Loaded(a) ==
    /\ cells' = IF <<bank, a>> = MstStatus THEN [cells EXCEPT ![MstStatus] = 0] ELSE cells
    /\ UNCHANGED <<bank, slave4, magRate>>

DoSelect ==
    /\ Doing("select")
    /\ \/ Works /\ bank' = Next1.to
       \/ Fails /\ UNCHANGED bank
    /\ Advance
    /\ UNCHANGED <<cells, slave4, magRate, rangeVars, got, ok, held, known, begun>>

DoDetect ==
    /\ Doing("detect")
    /\ \/ Works /\ Advance /\ UNCHANGED <<ok, got>>
       \/ Fails /\ ReturnFalse(Next1.else)
    /\ UNCHANGED <<chipVars, rangeVars, held, known, begun>>

DoFetch ==
    /\ Doing("fetch")
    /\ \/ Works /\ got' = At(Next1.reg[2]) /\ Loaded(Next1.reg[2])
       \/ Fails /\ got' = AllOnes /\ UNCHANGED chipVars
    /\ Advance
    /\ UNCHANGED <<rangeVars, ok, held, known, begun>>

(* A write that fails changes nothing and ends the method, or not.         *)
WriteFails ==
    /\ Fails
    /\ IF Next1.else = Ignore THEN Advance /\ UNCHANGED <<ok, got>>
                              ELSE ReturnFalse(Next1.else)
    /\ UNCHANGED chipVars

DoPut ==
    /\ Doing("put")
    /\ \/ Works /\ Store(Next1.reg[2], Next1.value) /\ Advance /\ UNCHANGED <<ok, got>>
       \/ WriteFails
    /\ UNCHANGED <<rangeVars, held, known, begun>>

DoPut2 ==
    /\ Doing("put2")
    /\ \/ Works /\ Store2(Next1.reg[2], Next1.value) /\ Advance /\ UNCHANGED <<ok, got>>
       \/ WriteFails
    /\ UNCHANGED <<rangeVars, held, known, begun>>

DoMerge ==
    /\ Doing("merge")
    /\ \/ /\ Works /\ Advance /\ UNCHANGED <<ok, got>>
          /\ Store(Next1.reg[2], WithBits(got, Next1.bits, Next1.shift, Next1.value))
       \/ WriteFails
    /\ UNCHANGED <<rangeVars, held, known, begun>>

DoCache ==
    /\ Doing("cache")
    /\ IF Next1.range = "gyro"
       THEN gyroRange' = Next1.value /\ UNCHANGED accelRange
       ELSE accelRange' = Next1.value /\ UNCHANGED gyroRange
    /\ Advance
    /\ UNCHANGED <<chipVars, got, ok, held, known, begun, faultVars>>

(* while (bit.read()): a read that fails reads as a set bit.               *)
DoCleared ==
    /\ Doing("cleared")
    /\ \/ /\ Works
          /\ Bits(At(Next1.reg[2]), 1, Next1.shift) = 0
          /\ Advance
       \/ Fails /\ UNCHANGED todo
    /\ UNCHANGED <<chipVars, rangeVars, got, ok, held, known, begun>>

(* while (slave_finished_bit.read() != true), at most Checks times.        *)
PollFinds ==
    \/ Works /\ Bits(At(MstStatus[2]), 1, 6) = 1 /\ Loaded(MstStatus[2])
    \/ Fails /\ UNCHANGED chipVars

BugDoPoll ==  \* the tries are not counted
    /\ Doing("poll")
    /\ \/ PollFinds /\ Advance /\ UNCHANGED <<ok, got>>
       \/ /\ Works /\ Bits(At(MstStatus[2]), 1, 6) = 0
          /\ UNCHANGED <<chipVars, todo, ok, got>>
    /\ UNCHANGED <<rangeVars, held, known, begun>>

DoPoll ==
    /\ Doing("poll")
    /\ \/ PollFinds /\ Advance /\ UNCHANGED <<ok, got>>
       \/ /\ Works /\ Bits(At(MstStatus[2]), 1, 6) = 0
          /\ UNCHANGED chipVars
          /\ IF Next1.try >= Checks THEN ReturnFalse("aux")
             ELSE todo' = <<Poll(Next1.try + 1)>> \o Tail(todo) /\ UNCHANGED <<ok, got>>
    /\ UNCHANGED <<rangeVars, held, known, begun>>

(* After getMagId: the next try comes after a reset of the I2C master,     *)
(* also after the last one.                                                *)
DoTryMag ==
    /\ Doing("tryMag")
    /\ CASE got = MagId -> Advance /\ UNCHANGED <<ok, got>>
         [] got # MagId /\ Next1.try < Resets ->
              /\ todo' = ResetI2CMaster \o MagTry(Next1.try + 1) \o Tail(todo)
              /\ UNCHANGED <<ok, got>>
         [] OTHER ->
              /\ todo' = ResetI2CMaster \o <<Op("giveUp"), Join("end")>>
              /\ UNCHANGED <<ok, got>>
    /\ UNCHANGED <<chipVars, rangeVars, held, known, begun, faultVars>>

(* The steps that only move results around.                                *)
DoFlow ==
    /\ ~Idle
    /\ CASE Doing("join") -> Advance /\ UNCHANGED <<got, ok, held, known, begun>>
         [] Doing("aux") -> Advance /\ ok' = TRUE /\ UNCHANGED <<got, held, known, begun>>
         [] Doing("hold") -> Advance /\ held' = ok /\ UNCHANGED <<got, ok, known, begun>>
         [] Doing("both") -> Advance /\ ok' = (ok /\ held) /\ UNCHANGED <<got, held, known, begun>>
         [] Doing("orEnd") ->
              /\ IF ok THEN Advance /\ UNCHANGED <<ok, got>> ELSE ReturnFalse("end")
              /\ UNCHANGED <<held, known, begun>>
         [] Doing("giveUp") -> ReturnFalse("end") /\ UNCHANGED <<held, known, begun>>
         [] Doing("identify") /\ got \in ChipIds ->
              Advance /\ known' = TRUE /\ UNCHANGED <<got, ok, held, begun>>
         [] Doing("identify") /\ got \notin ChipIds ->
              ReturnFalse("init") /\ known' = FALSE /\ UNCHANGED <<held, begun>>
         [] Doing("begun") ->
              Advance /\ ok' = known /\ begun' = known /\ UNCHANGED <<got, held, known>>
         [] OTHER -> FALSE
    /\ UNCHANGED <<chipVars, rangeVars, faultVars>>

(* begin_I2C starts over, whatever an earlier call has left.               *)
DoBegin ==
    /\ Doing("begin")
    /\ Advance
    /\ begun' = FALSE /\ clean' = TRUE
    /\ UNCHANGED <<chipVars, rangeVars, got, ok, held, known, faults>>

DriverStep ==
    \/ DoSelect
    \/ DoDetect
    \/ DoFetch
    \/ DoPut
    \/ DoPut2
    \/ DoMerge
    \/ DoCache
    \/ DoCleared
    \/ DoPoll
    \/ DoTryMag
    \/ DoFlow
    \/ DoBegin

-----------------------------------------------------------------------------
(* The chip completes a reset of itself or of its I2C master, or slave 4   *)
(* its byte.                                                               *)
ChipResets ==
    /\ Bits(cells[PwrMgmt1], 1, 7) = 1
    /\ cells' = Defaults
    /\ bank' = 0
    /\ slave4' = "idle"
    /\ UNCHANGED <<magRate, rangeVars, callVars, faultVars>>

MasterResets ==
    /\ Bits(cells[UserCtrl], 1, 1) = 1
    /\ cells' = [cells EXCEPT ![UserCtrl] = WithBits(cells[UserCtrl], 1, 1, 0)]
    /\ slave4' = "idle"
    /\ UNCHANGED <<bank, magRate, rangeVars, callVars, faultVars>>

(* An address where the magnetometer does not answer moves nothing.        *)
AuxFinishes ==
    /\ slave4 = "busy"
    /\ slave4' = "idle"
    /\ LET answers == cells[Slv4Addr] % 128 = MagAddress
           reading == cells[Slv4Addr] >= 128
           value == CASE cells[Slv4Reg] = Wia2 -> MagId
                      [] cells[Slv4Reg] = Cntl2 -> magRate
                      [] OTHER -> 0
       IN /\ cells' = [cells EXCEPT
                ![MstStatus] = WithBits(@, 1, 6, 1),
                ![Slv4Di] = IF answers /\ reading THEN value ELSE @]
          /\ magRate' = IF answers /\ ~reading /\ cells[Slv4Reg] = Cntl2
                        THEN cells[Slv4Do] ELSE magRate
    /\ UNCHANGED <<bank, rangeVars, callVars, faultVars>>

ChipStep ==
    \/ ChipResets
    \/ MasterResets
    \/ AuxFinishes

(* The processor restarts: the driver is as new, the chip is not told.     *)
DriverRestarts ==
    /\ accelRange' = 0 /\ gyroRange' = 0
    /\ todo' = <<>> /\ got' = 0 /\ ok' = FALSE /\ held' = FALSE /\ known' = FALSE
    /\ begun' = FALSE
    /\ UNCHANGED chipVars

-----------------------------------------------------------------------------

(* While nothing fails on the bus, every access by address is made in the  *)
(* bank whose register it is meant for, whichever methods were called      *)
(* before and wherever the processor restarted: methods leave banks 0, 2   *)
(* and 3 behind.                                                           *)
MeantRegister ==
    clean /\ ~Idle /\ Next1.do \in {"fetch", "put", "put2", "merge", "cleared", "poll"}
        => bank = Next1.reg[1]

(* After a begin_I2C that returned true without a failure on the bus, the  *)
(* chip is awake, its ranges are the ones the driver scales by, and slave  *)
(* 0 feeds the magnetometer: also when the restart came in the middle of   *)
(* an earlier begin_I2C, with a bank selected, a reset pending or slave 4  *)
(* busy.                                                                   *)
BegunIsConfigured ==
    begun /\ clean =>
        /\ Bits(cells[PwrMgmt1], 1, 6) = 0
        /\ Idle => /\ Bits(cells[AccelConfig1], 2, 1) = accelRange
                   /\ Bits(cells[GyroConfig1], 2, 1) = gyroRange
        /\ cells[Slv0Addr] = 128 + MagAddress
        /\ cells[Slv0Ctrl] = 137
        /\ Bits(cells[UserCtrl], 1, 5) = 1

(* What the driver's documentation says of readExternalRegister, here of a *)
(* read of the magnetometer's CNTL2 that did not time out: it returns the  *)
(* value of the register that was asked for.                               *)
RequestedRegisterValue == clean /\ todo = <<Join("aux")>> => got = magRate
=============================================================================
