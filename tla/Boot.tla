-------------------------------- MODULE Boot --------------------------------
(***************************************************************************)
(* setup() of main_algo.ino: Sensors::setupTOFs wakes the two range        *)
(* sensors, which share the I2C bus, and calibrateICM the motion sensor,   *)
(* whose driver and chip are the module this one extends.  The main loop   *)
(* then uses the driver.                                                   *)
(*                                                                         *)
(* A range sensor answers to the default address from the moment its XSHUT *)
(* line goes up, and to another one after begin(address) has moved it; it  *)
(* keeps its address over a restart of the processor, and loses it when    *)
(* its line goes down.  setupTOFs therefore powers both off first, then    *)
(* wakes and moves them one at a time.  The processor may restart at any   *)
(* point, and any begin may fail because a wire is loose.                  *)
(***************************************************************************)
EXTENDS IcmBus

CONSTANT MaxCalls  \* bound: methods the loop calls in a behaviour

ASSUME BootAssumption == MaxCalls \in Nat

VARIABLES
    at,       \* the statement reached
    xshut,    \* the level of the two XSHUT lines
    address,  \* external: what each range sensor answers to, Off without power
    calls     \* bound: methods called so far

loxVars == <<xshut, address>>
bootVars == <<at, loxVars, calls, icmVars>>

Lox == {1, 2}
Level == {"LOW", "HIGH"}
Off == 0
Default == 41   \* 0x29
Moved == 48     \* 0x30

Places == {"pinMode", "powerOff", "powerOn", "holdSecond", "beginFirst",
           "wakeSecond", "beginSecond", "calibrate", "beginIcm", "show",
           "loop", "stuck", "stuckFed"}

Answering(a) == {d \in Lox : address[d] = a}

(* A line going down cuts the sensor's power; going up it wakes the sensor *)
(* at the default address, and one that is awake stays as it is.           *)
Powered(levels) ==
    [d \in Lox |-> IF levels[d] = "LOW" THEN Off
                   ELSE IF address[d] = Off THEN Default ELSE address[d]]

SetLines(levels) ==
    /\ xshut' = levels
    /\ address' = Powered(levels)

-----------------------------------------------------------------------------
(* Power comes on; the lines float up, so both sensors wake.               *)
BootInit ==
    /\ at = "pinMode"
    /\ xshut = [d \in Lox |-> "HIGH"]
    /\ address = [d \in Lox |-> Default]
    /\ calls = 0
    /\ IcmInit

Goes(from, to) == at = from /\ at' = to

(* pinMode(OUTPUT) on both lines drives whatever the latches hold.         *)
DriveLines ==
    /\ Goes("pinMode", "powerOff")
    /\ \E levels \in [Lox -> Level] : SetLines(levels)
    /\ UNCHANGED <<calls, icmVars>>

BugPowerOff ==  \* _powerCycle does not pull the first line down
    /\ Goes("powerOff", "powerOn")
    /\ SetLines([xshut EXCEPT ![2] = "LOW"])
    /\ UNCHANGED <<calls, icmVars>>

(* _powerCycle, down and up again.                                         *)
PowerOff ==
    /\ Goes("powerOff", "powerOn")
    /\ SetLines([d \in Lox |-> "LOW"])
    /\ UNCHANGED <<calls, icmVars>>

PowerOn ==
    /\ Goes("powerOn", "holdSecond")
    /\ SetLines([d \in Lox |-> "HIGH"])
    /\ UNCHANGED <<calls, icmVars>>

HoldSecond ==
    /\ Goes("holdSecond", "beginFirst")
    /\ SetLines([xshut EXCEPT ![2] = "LOW"])
    /\ UNCHANGED <<calls, icmVars>>

(* begin(a) of the driver library talks to the default address and moves   *)
(* every sensor that listens there to a.                                   *)
MoveTo(a) ==
    address' = [d \in Lox |-> IF address[d] = Default THEN a ELSE address[d]]

BeginFirst ==
    /\ Goes("beginFirst", "wakeSecond")
    /\ Answering(Default) # {}
    /\ MoveTo(Moved)
    /\ UNCHANGED <<xshut, calls, icmVars>>

WakeSecond ==
    /\ Goes("wakeSecond", "beginSecond")
    /\ SetLines([xshut EXCEPT ![2] = "HIGH"])
    /\ UNCHANGED <<calls, icmVars>>

BeginSecond ==
    /\ Goes("beginSecond", "calibrate")
    /\ Answering(Default) # {}
    /\ MoveTo(Default)
    /\ UNCHANGED <<xshut, calls, icmVars>>

(* A begin that fails: while(1); with no call that feeds the watchdog.     *)
BeginFails ==
    /\ at \in {"beginFirst", "beginSecond"}
    /\ at' = "stuck"
    /\ UNCHANGED <<loxVars, calls, icmVars>>

(* calibrateICM: begin_I2C, then the ranges and the divisor are shown, or  *)
(* while(1) delay(10), where delay feeds the watchdog.                     *)
CalibrateICM ==
    /\ Goes("calibrate", "beginIcm")
    /\ Call(BeginI2C)
    /\ UNCHANGED <<loxVars, calls, chipVars, rangeVars, got, held, known, begun, faultVars>>

ShowICM ==
    /\ Goes("beginIcm", "show")
    /\ ok
    /\ Call(ReadRange(AccelConfig1) \o ReadRange(GyroConfig1) \o ReadRange(AccelSmplrtDiv1))
    /\ UNCHANGED <<loxVars, calls, chipVars, rangeVars, got, held, known, begun, faultVars>>

CalibrateFails ==
    /\ Goes("beginIcm", "stuckFed")
    /\ Idle
    /\ ~ok
    /\ UNCHANGED <<loxVars, calls, icmVars>>

SetupReturns ==
    /\ Goes("show", "loop")
    /\ Idle
    /\ UNCHANGED <<loxVars, calls, icmVars>>

(* loop() reads the sensors; another sketch calls what else there is.      *)
CallMethod ==
    /\ Goes("loop", "loop")
    /\ \E method \in Methods : Call(method)
    /\ calls < MaxCalls
    /\ calls' = calls + 1
    /\ UNCHANGED <<loxVars, chipVars, rangeVars, got, held, known, begun, faultVars>>

-----------------------------------------------------------------------------
(* A restart of the processor: its lines float up again, the sensors are   *)
(* not told.                                                               *)
Restarted ==
    /\ at' = "pinMode"
    /\ SetLines([d \in Lox |-> "HIGH"])
    /\ DriverRestarts

WatchdogRestart == at = "stuck" /\ Restarted /\ UNCHANGED <<calls, faultVars>>

(* The reset button, a brown-out or an exception, at any point.            *)
OtherRestart ==
    /\ faults < MaxFaults
    /\ faults' = faults + 1
    /\ Restarted
    /\ UNCHANGED <<clean, calls>>

RangeSetup ==
    \/ DriveLines
    \/ PowerOff
    \/ PowerOn
    \/ HoldSecond
    \/ BeginFirst
    \/ WakeSecond
    \/ BeginSecond

MotionSetup ==
    \/ CalibrateICM
    \/ ShowICM
    \/ CalibrateFails
    \/ SetupReturns

BootNext ==
    \/ RangeSetup
    \/ BeginFails
    \/ MotionSetup
    \/ CallMethod
    \/ WatchdogRestart
    \/ OtherRestart
    \/ (DriverStep \/ ChipStep) /\ UNCHANGED <<at, loxVars, calls>>

(* The processor runs on, and the chip completes its resets, for which the *)
(* driver waits without a limit.  Slave 4 need not ever finish: for it the *)
(* driver counts.                                                          *)
BootFairness ==
    /\ WF_bootVars(MotionSetup)
    /\ WF_bootVars(DriverStep /\ UNCHANGED <<at, loxVars, calls>>)
    /\ WF_bootVars(ChipResets /\ UNCHANGED <<at, loxVars, calls>>)
    /\ WF_bootVars(MasterResets /\ UNCHANGED <<at, loxVars, calls>>)

BootSpec == BootInit /\ [][BootNext]_bootVars /\ BootFairness

-----------------------------------------------------------------------------

(* Whenever the sketch talks to a range sensor exactly one of them hears   *)
(* it: the default address is the first sensor's alone when the first is   *)
(* begun and the second's alone when the second is, and in the loop the    *)
(* two have an address each.  Sensors that a restart in the middle of an   *)
(* earlier setup() has left moved, or off, do not change that.             *)
OneListener ==
    /\ at = "beginFirst" => Answering(Default) = {1}
    /\ at = "beginSecond" => Answering(Default) = {2} /\ Answering(Moved) = {1}
    /\ at \in {"calibrate", "beginIcm", "show", "loop"} =>
         Answering(Default) = {2} /\ Answering(Moved) = {1}

(* begin_I2C returns, whatever state an earlier run, a restart or a method *)
(* of the loop has left the chip in, the magnetometer's answer or not: its *)
(* loops wait for reset bits without a limit, and a bit asked for in the   *)
(* wrong bank would be waited for for ever, as delay feeds the watchdog.   *)
(* On a bus that fails that can happen.  What begin_I2C returns is another *)
(* matter: setup() shows the ranges after true, and after false stays in   *)
(* while(1) delay(10) for good.                                            *)
BeginReturns == at = "beginIcm" ~> at # "beginIcm" \/ ~clean
=============================================================================
