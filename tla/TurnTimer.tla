----------------------------- MODULE TurnTimer -----------------------------
(***************************************************************************)
(* The timed wait of the four turns in loop():                             *)
(*                                                                         *)
(*     float currentTime = millis();                                       *)
(*     while ((millis() - currentTime) < (840 + changeOrientation*5)) { }  *)
(*                                                                         *)
(* millis() is a W-bit counter that wraps; a float keeps M bits of it, and *)
(* the subtraction is done in floats, so both readings are rounded and the *)
(* difference is negative after a wrap.  The body is empty: the only way   *)
(* out besides the condition is the watchdog of the processor, which wants *)
(* loop() to return.                                                       *)
(***************************************************************************)
EXTENDS Integers

CONSTANTS
    W,        \* bits of millis(): 32 in the code
    M,        \* bits of a float's mantissa: 24 in the code
    TurnTime, \* the length asked for, in ms
    Watchdog  \* external: ms without a return to the scheduler

\* Powers of two as a function, by which alone their laws can be proved.
Pow2[n \in Nat] == IF n = 0 THEN 1 ELSE 2 * Pow2[n - 1]

ASSUME TimerAssumption ==
    /\ W \in Nat /\ M \in Nat \ {0} /\ TurnTime \in Nat /\ Watchdog \in Nat
    /\ M < W
    /\ TurnTime + Pow2[W - M] < Watchdog
    /\ Watchdog < Pow2[W]

VARIABLES
    phase,  \* "loop", "waiting", "turned" or "bitten"
    clock,  \* millis()
    start,  \* currentTime
    begun,  \* history: the clock when the wait began
    waited  \* history: the ms that have really gone by since then

timerVars == <<phase, clock, start, begun, waited>>

-----------------------------------------------------------------------------
(* The distance between neighbouring floats at x, and the float nearest to *)
(* x, ties to the even mantissa.                                           *)
Ulp(x) ==
    LET fits == {e \in 0..W : x < Pow2[M + e]}
    IN  Pow2[CHOOSE e \in fits : \A d \in fits : e <= d]

ToFloat(x) ==
    LET u == Ulp(x)
        down == x \div u
        rest == 2 * (x % u)
    IN  u * (down + IF rest > u \/ (rest = u /\ down % 2 = 1) THEN 1 ELSE 0)

BugElapsed ==  \* the operands of the subtraction swapped
    start - ToFloat(clock)

Elapsed == ToFloat(clock) - start

BugExpired ==  \* the loop goes on while the time is <= what was asked for
    Elapsed > TurnTime

Expired == Elapsed >= TurnTime

-----------------------------------------------------------------------------
TimerInit ==
    /\ phase = "loop"
    /\ clock = 0
    /\ start = 0
    /\ begun = 0
    /\ waited = 0

Begin ==
    /\ phase = "loop"
    /\ phase' = "waiting"
    /\ start' = ToFloat(clock)
    /\ begun' = clock
    /\ waited' = 0
    /\ UNCHANGED clock

(* The loop polls far more often than once a millisecond: time goes by     *)
(* only while the condition it polls is false.                             *)
Tick ==
    /\ phase = "loop" \/ (phase = "waiting" /\ ~Expired /\ waited < Watchdog)
    /\ clock' = (clock + 1) % Pow2[W]
    /\ waited' = IF phase = "waiting" THEN waited + 1 ELSE waited
    /\ UNCHANGED <<phase, start, begun>>

EndOfWait ==
    /\ phase = "waiting"
    /\ Expired
    /\ phase' = "turned"
    /\ UNCHANGED <<clock, start, begun, waited>>

(* The rest of the pass; the history is forgotten.                         *)
Return ==
    /\ phase = "turned"
    /\ phase' = "loop"
    /\ start' = 0
    /\ begun' = 0
    /\ waited' = 0
    /\ UNCHANGED clock

Bite ==
    /\ phase = "waiting"
    /\ waited = Watchdog
    /\ ~Expired
    /\ phase' = "bitten"
    /\ UNCHANGED <<clock, start, begun, waited>>

Reboot ==
    /\ phase = "bitten"
    /\ phase' = "loop"
    /\ clock' = 0
    /\ start' = 0
    /\ begun' = 0
    /\ waited' = 0

TimerNext == Begin \/ Tick \/ EndOfWait \/ Return \/ Bite \/ Reboot

TimerSpec == TimerInit /\ [][TimerNext]_timerVars

-----------------------------------------------------------------------------

(* A turn lasts what was asked for, but for the rounding of the two        *)
(* readings, which is half the spacing of floats each: to the millisecond  *)
(* while millis() still fits the mantissa, later up to a whole spacing     *)
(* early or late.                                                          *)
Rounding(x) == Ulp(x) \div 2

TurnLengthHolds ==
    phase = "turned" =>
        waited \in TurnTime - 2 * Rounding(clock)..TurnTime + 2 * Rounding(clock)

(* The watchdog cuts a turn short only if the turn would have ended past   *)
(* the wrap of millis(): the comparison of floats fails in no other case.  *)
BittenOnlyAtTheWrap ==
    phase = "bitten" => begun + Rounding(begun) + TurnTime > Pow2[W]
=============================================================================
