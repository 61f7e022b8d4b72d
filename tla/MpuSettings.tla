---------------------------- MODULE MpuSettings ----------------------------
(***************************************************************************)
(* The settings of libraries/MPU6050/MPU6050.cpp over I2Cdev.  A setter    *)
(* whose field is not a whole register reads the register, changes the     *)
(* field and writes it back: two transactions, and the chip acts between   *)
(* them.  Any transaction may fail.  writeBit does not look whether its    *)
(* read succeeded and writes back a byte it never initialised; writeBits   *)
(* stops after a read of nothing, but takes the -1 of a timeout for a      *)
(* success.  A getter of a failed read returns what `buffer' held before.  *)
(***************************************************************************)
EXTENDS MpuMap, FiniteSets, Sequences

CONSTANTS
    MaxCalls,    \* bound: calls from power on
    MaxFaults,   \* bound: failed transactions
    Fills        \* bound: what the configuration registers hold at first

ASSUME SettingsAssumption == MaxCalls \in Nat /\ MaxFaults \in Nat /\ Fills \subseteq Byte

VARIABLES
    regs,      \* external: the chip's registers
    buffer,    \* buffer[0], where getters read to
    call,      \* the call in progress
    todo,      \* the setter calls left of initialize
    b,         \* the byte on the stack of writeBit and writeBits
    result,    \* what the last call returned
    asked,     \* history: settings the chip should hold
    faulty,    \* history: a transaction of this call has failed
    calls, faults

settingsVars == <<regs, buffer, call, todo, b, result, asked, faulty, calls, faults>>

Named(table) == {[name |-> n, num |-> 0, at |-> table[n]] : n \in DOMAIN table}
OfSlaves(nums, tables) ==
    UNION {{[s EXCEPT !.num = k] : s \in Named(tables[k])} : k \in nums}

\* getSlave... and setSlave... return at once for num > 3, the delays of
\* five slaves have a bit.
Settings ==
    UNION {Named(SupplySettings), Named(GainSettings), Named(RateSettings),
           Named(AccelSettings), Named(MotionSettings), Named(ZeroMotionSettings),
           Named(FifoSettings), Named(MasterSettings), Named(Slave4Settings),
           Named(PinSettings), Named(InterruptSettings), Named(DmpInterruptSettings),
           Named(CounterSettings), Named(UserSettings), Named(DmpSettings),
           Named(PowerSettings), Named(StandbySettings), Named(IdentitySettings),
           OfSlaves(0..3, [k \in 0..3 |-> SlaveAddressing(k)]),
           OfSlaves(0..3, [k \in 0..3 |-> SlaveControl(k)]),
           OfSlaves(0..3, [k \in 0..3 |-> SlaveOutput(k)]),
           OfSlaves(0..4, [k \in 0..4 |-> SlaveDelay(k)]), Named(ShadowDelay)}

ResetBits == UNION {Named(Resets), Named(ResetDmp), Named(PathResets)}

Statuses ==
    UNION {Named(MasterStatus), Named(InterruptStatus), Named(DmpStatus),
           Named(MotionStatus)}

SettingNamed(n) == CHOOSE s \in Settings : s.name = n

\* Values callers pass: none and all of the bits of a byte.
Values == {{}, ByteBits}

\* setTempSensorEnabled stores the opposite: the bit disables the sensor.
Stored(s, v) ==
    IF s.name = "TempSensorEnabled" THEN (IF v = {} THEN {0} ELSE {}) ELSE v

RegisterAddresses == {s.at.reg : s \in Settings \cup ResetBits \cup Statuses}

\* external: reset values of the data sheet, all others are zero.
ResetValue(r) == CASE r = RA.PWR_MGMT_1 -> {6}
                   [] r = RA.WHO_AM_I -> {3, 5, 6}
                   [] OTHER -> {}

\* external: an uninitialised byte of the stack is anything; two values show it.
Garbage == {{}, ByteBits}

None == [name |-> "none", num |-> 0, at |-> [reg |-> 0, bit |-> 0, len |-> 0]]
Idle == [pc |-> "idle", kind |-> "none", s |-> None, v |-> {}]

SettingsInit ==
    /\ \E fill \in Fills :
          regs = [r \in RegisterAddresses |->
                    IF ResetValue(r) # {} \/ r \in {a.at.reg : a \in ResetBits}
                    THEN ResetValue(r) ELSE fill]
    /\ buffer = {} /\ call = Idle /\ todo = <<>> /\ b = {} /\ result = {}
    /\ asked = {} /\ faulty = FALSE /\ calls = 0 /\ faults = 0

(***************************************************************************)
(* Setters.                                                                *)
(***************************************************************************)
\* A whole register is written without reading it first.
SetterCall(s, v) ==
    [pc |-> IF s.at.len = 8 THEN "write" ELSE "read", kind |-> "set", s |-> s,
     v |-> v]

\* After the first call, calls to the same register: others share nothing.
Interesting(s) == asked = {} \/ \E a \in asked : a.s.at.reg = s.at.reg

StartSet ==
    /\ call = Idle /\ todo = <<>> /\ calls < MaxCalls
    /\ \E s \in Settings, v \in Values : Interesting(s) /\ call' = SetterCall(s, v)
    /\ calls' = calls + 1 /\ faulty' = FALSE
    /\ UNCHANGED <<regs, buffer, todo, b, result, asked, faults>>

StartReset ==
    /\ call = Idle /\ todo = <<>> /\ calls < MaxCalls
    /\ \E s \in ResetBits :
          Interesting(s) /\ call' = [SetterCall(s, {0}) EXCEPT !.kind = "reset"]
    /\ calls' = calls + 1 /\ faulty' = FALSE
    /\ UNCHANGED <<regs, buffer, todo, b, result, asked, faults>>

\* initialize(): clock source 1, both ranges 0, awake.
StartInitialize ==
    /\ call = Idle /\ todo = <<>> /\ calls = 0
    /\ todo' = << <<"ClockSource", {0}>>, <<"FullScaleGyroRange", {}>>,
                  <<"FullScaleAccelRange", {}>>, <<"SleepEnabled", {}>> >>
    /\ calls' = calls + 1 /\ faulty' = FALSE
    /\ UNCHANGED <<regs, buffer, call, b, result, asked, faults>>

NextOfInitialize ==
    /\ call = Idle /\ todo # <<>>
    /\ call' = SetterCall(SettingNamed(Head(todo)[1]), Head(todo)[2])
    /\ todo' = Tail(todo) /\ faulty' = FALSE
    /\ UNCHANGED <<regs, buffer, b, result, asked, calls, faults>>

IsRead == call.kind \in {"set", "reset"} /\ call.pc = "read"

ReadRegister ==
    /\ IsRead /\ b' = regs[call.s.at.reg]
    /\ call' = [call EXCEPT !.pc = "write"]
    /\ UNCHANGED <<regs, buffer, todo, result, asked, faulty, calls, faults>>

\* The settings a call leaves in doubt.
Doubt(all) == {a \in asked : a.s.at.reg = call.s.at.reg /\ (all \/ a.s = call.s)}

\* Nothing was read: writeBits returns false, writeBit goes on.
ReadNothing ==
    /\ IsRead /\ faults < MaxFaults
    /\ IF call.s.at.len = 1
       THEN b' \in Garbage /\ call' = [call EXCEPT !.pc = "write"]
                           /\ asked' = asked \ Doubt(TRUE) /\ result' = result
       ELSE b' = b /\ call' = Idle /\ asked' = asked \ Doubt(FALSE) /\ result' = {}
    /\ faults' = faults + 1 /\ faulty' = TRUE
    /\ UNCHANGED <<regs, buffer, todo, calls>>

\* The read timed out: -1 is not zero.
ReadTimesOut ==
    /\ IsRead /\ faults < MaxFaults
    /\ b' \in Garbage /\ call' = [call EXCEPT !.pc = "write"]
    /\ asked' = asked \ Doubt(TRUE) /\ faults' = faults + 1 /\ faulty' = TRUE
    /\ UNCHANGED <<regs, buffer, todo, result, calls>>

NewValue(f, old, v) ==
    CASE f.len = 8 -> v
      [] f.len = 1 -> WriteBit(old, f.bit, v)
      [] OTHER -> WriteBits(old, f.bit, f.len, v)

\* What the chip should hold of it afterwards.
Fits(f, v) ==
    IF f.len = 1 THEN (IF v = {} THEN {} ELSE {0}) ELSE v \cap (0..(f.len - 1))

Overlapping == {a \in asked : \/ a.s = call.s
                              \/ call.s.name = "IntEnabled" /\ a.s.at.reg = call.s.at.reg}

WriteRegister ==
    /\ call.kind \in {"set", "reset"} /\ call.pc = "write"
    /\ regs' = [regs EXCEPT ![call.s.at.reg] = NewValue(call.s.at, b, Stored(call.s, call.v))]
    /\ asked' = IF call.kind = "set" /\ call.s.name # "IntEnabled"
                THEN (asked \ Overlapping) \cup {[s |-> call.s, v |-> Fits(call.s.at, call.v)]}
                ELSE asked \ Overlapping
    /\ result' = {0} /\ call' = Idle
    /\ UNCHANGED <<buffer, todo, b, faulty, calls, faults>>

WriteIsLost ==
    /\ call.kind \in {"set", "reset"} /\ call.pc = "write" /\ faults < MaxFaults
    /\ asked' = asked \ Doubt(FALSE)
    /\ result' = {} /\ call' = Idle /\ faults' = faults + 1 /\ faulty' = TRUE
    /\ UNCHANGED <<regs, buffer, todo, b, calls>>

(***************************************************************************)
(* Getters: one transaction.                                               *)
(***************************************************************************)
StartGet ==
    /\ call = Idle /\ todo = <<>> /\ calls < MaxCalls
    /\ \E s \in Settings \cup Statuses :
          /\ s.name \notin {"Slave4OutputByte", "SlaveOutputByte", "SPIEnabled"}
          /\ Interesting(s)
          /\ call' = [pc |-> "read", kind |-> "get", s |-> s, v |-> {}]
    /\ calls' = calls + 1 /\ faulty' = FALSE
    /\ UNCHANGED <<regs, buffer, todo, b, result, asked, faults>>

FieldOf(f, r) ==
    CASE f.len = 8 -> r
      [] f.len = 1 -> ReadBit(r, f.bit)
      [] OTHER -> ReadBits(r, f.bit, f.len)

\* Getters of one bit return a bool, but for two that return the byte with
\* the bit in its place; getTempSensorEnabled turns it round.
Returned(s, byte) ==
    CASE s.name = "TempSensorEnabled" -> (IF byte = {} THEN {0} ELSE {})
      [] s.at.len > 1 \/ s.name \in {"AuxVDDIOLevel", "OTPBankValid"} -> byte
      [] OTHER -> IF byte = {} THEN {} ELSE {0}

\* testConnection: 0x34 or 0xC.
StartTest ==
    /\ call = Idle /\ todo = <<>> /\ calls < MaxCalls
    /\ call' = [pc |-> "read", kind |-> "test", s |-> SettingNamed("DeviceID"), v |-> {}]
    /\ calls' = calls + 1 /\ faulty' = FALSE
    /\ UNCHANGED <<regs, buffer, todo, b, result, asked, faults>>

Answer(byte) ==
    IF call.kind = "test" THEN (IF byte \in {{2, 4, 5}, {2, 3}} THEN {0} ELSE {})
    ELSE Returned(call.s, byte)

Get ==
    /\ call.kind \in {"get", "test"}
    /\ buffer' = FieldOf(call.s.at, regs[call.s.at.reg])
    /\ result' = Answer(buffer') /\ call' = Idle
    /\ UNCHANGED <<regs, todo, b, asked, faulty, calls, faults>>

\* readBit makes something of the byte it did not get, readBits and readByte
\* leave the buffer as it was.
GetFails ==
    /\ call.kind \in {"get", "test"} /\ faults < MaxFaults
    /\ IF call.s.at.len = 1
       THEN \E g \in Garbage : buffer' = ReadBit(g, call.s.at.bit)
       ELSE buffer' = buffer
    /\ result' = Answer(buffer') /\ call' = Idle
    /\ faults' = faults + 1 /\ faulty' = TRUE
    /\ UNCHANGED <<regs, todo, b, asked, calls>>

(***************************************************************************)
(* The chip clears a reset bit when it has acted on it.                    *)
(***************************************************************************)
ChipResets ==
    \E s \in ResetBits :
        /\ s.at.bit \in regs[s.at.reg]
        /\ regs' = IF s.name = "reset"
                   THEN [r \in RegisterAddresses |-> ResetValue(r)]
                   ELSE [regs EXCEPT ![s.at.reg] = @ \ {s.at.bit}]
        /\ asked' = IF s.name = "reset" THEN {} ELSE asked
        /\ UNCHANGED <<buffer, call, todo, b, result, faulty, calls, faults>>

SettingsNext ==
    \/ StartSet \/ StartReset \/ StartInitialize \/ NextOfInitialize
    \/ ReadRegister \/ ReadNothing \/ ReadTimesOut \/ WriteRegister \/ WriteIsLost
    \/ StartGet \/ StartTest \/ Get \/ GetFails \/ ChipResets

SettingsSpec == SettingsInit /\ [][SettingsNext]_settingsVars

(***************************************************************************)
(* Properties.                                                             *)
(***************************************************************************)
\* A value read back is the one set; of one bit it counts whether it is zero.
Same(s, x, y) == IF s.at.len = 1 THEN (x = {}) = (y = {}) ELSE x = y

\* A setting whose read and write both succeeded stays as it was made until
\* its setter is called again, the chip is reset as a whole, or the read of
\* another setter of the register fails.  Nothing else touches it: not the
\* other setters, a lost write of theirs or what the chip clears in between.
\* Nothing is claimed of the fields a failed read overwrites with garbage.
SettingsStick ==
    \A a \in asked :
        Same(a.s, Returned(a.s, FieldOf(a.s.at, regs[a.s.at.reg])), a.v)
=============================================================================
