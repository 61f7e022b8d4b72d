----------------------------- MODULE BootProofs -----------------------------
(***************************************************************************)
(* Three results about setup(), for every number of restarts, failures and *)
(* calls: the range sensors are spoken to one at a time, the driver of the *)
(* motion sensor makes every access in the bank it is meant for, and a     *)
(* begin_I2C that has returned true leaves the chip as the driver needs it.*)
(*                                                                         *)
(* The second is about sequences of bus transactions.  An access is bound  *)
(* when the sequence itself selects its bank before it, and loose when it  *)
(* counts on the bank selected when the sequence begins.  Every method is  *)
(* shown to bind its accesses, whatever bank it finds; one step, a jump to *)
(* a label and another try for the magnetometer keep that.  A reset of the *)
(* chip selects bank 0 behind the driver's back, so the invariant also     *)
(* says when one may be pending: between the start of begin_I2C and the    *)
(* end of its wait, where every loose access is to bank 0, or before the   *)
(* next begin_I2C.  No other method writes the reset bit: the only other   *)
(* write to that register puts back the bit it has read, unset.            *)
(*                                                                         *)
(* The third rests on the second, since only a write that reaches its own  *)
(* register counts.  From the end of its reset on, begin_I2C owes five     *)
(* results, and the invariant says of each that it is there or that the    *)
(* step that brings it is still to come: no step in between, a jump out of *)
(* a failed auxiliary transaction and another try for the magnetometer     *)
(* included, passes over such a step, and no method undoes what one has    *)
(* done.  A restart or a new begin_I2C owes nothing of what was before.    *)
(***************************************************************************)
EXTENDS Boot, SequenceTheorems, WellFoundedInduction, TLAPS

LoxTypeOK ==
    /\ at \in Places
    /\ xshut \in [Lox -> Level]
    /\ address \in [Lox -> {Off, Default, Moved}]

(* What the statements of setupTOFs have established when each is reached. *)
(* A sensor is without power exactly while its line is down, so that the   *)
(* power cycle forgets whatever an earlier setup() has done.               *)
Expected ==
    /\ at = "powerOn" => address = [d \in Lox |-> Off]
    /\ at = "holdSecond" => address = [d \in Lox |-> Default]
    /\ at = "beginFirst" => address[1] = Default /\ address[2] = Off
    /\ at = "wakeSecond" => address[1] = Moved /\ address[2] = Off /\ xshut[1] = "HIGH"
    /\ at \in {"beginSecond", "calibrate", "beginIcm", "show", "loop"} =>
         address[1] = Moved /\ address[2] = Default

LinesUp ==
    /\ at \in {"holdSecond", "beginFirst", "wakeSecond"} => xshut[1] = "HIGH"

LoxInv == LoxTypeOK /\ LinesUp /\ Expected

LEMMA LoxInit == BootInit => LoxInv
BY DEF BootInit, LoxInv, LoxTypeOK, LinesUp, Expected, Lox, Level, Places,
       Off, Default, Moved

(* Lines at any level leave every sensor off or at one of its addresses.   *)
LEMMA LinesType ==
    ASSUME LoxTypeOK, NEW levels \in [Lox -> Level], SetLines(levels)
    PROVE  /\ xshut' \in [Lox -> Level]
           /\ address' \in [Lox -> {Off, Default, Moved}]
BY DEF LoxTypeOK, SetLines, Powered

LEMMA Distinct == Off # Default /\ Off # Moved /\ Default # Moved
BY DEF Off, Default, Moved

LEMMA LinesEffect ==
    ASSUME NEW levels, SetLines(levels)
    PROVE  /\ xshut' = levels
           /\ \A d \in Lox : address'[d] =
                IF levels[d] = "LOW" THEN Off
                ELSE IF address[d] = Off THEN Default ELSE address[d]
BY DEF SetLines, Powered

LEMMA RangeSetupStep == ASSUME LoxInv, RangeSetup PROVE LoxInv'
<1> USE DEF LoxInv, Goes
<1>0. 1 \in Lox /\ 2 \in Lox /\ Lox = {1, 2}
  BY DEF Lox
<1>1. CASE DriveLines
  BY <1>1, LinesType DEF DriveLines, LoxTypeOK, LinesUp, Expected, Places
<1>2. CASE PowerOff
  <2>1. [d \in Lox |-> "LOW"] \in [Lox -> Level]
    BY DEF Level
  <2>2. address' = [d \in Lox |-> Off]
    BY <1>2 DEF PowerOff, SetLines, Powered
  <2>3. QED
    BY <1>2, <2>1, <2>2, LinesType DEF PowerOff, LoxTypeOK, LinesUp, Expected, Places
<1>3. CASE PowerOn
  <2>1. [d \in Lox |-> "HIGH"] \in [Lox -> Level]
    BY DEF Level
  <2>2. address' = [d \in Lox |-> Default]
    BY <1>3 DEF PowerOn, SetLines, Powered, Expected
  <2>3. xshut'[1] = "HIGH"
    BY <1>3 DEF PowerOn, SetLines, Lox
  <2>4. QED
    BY <1>3, <2>1, <2>2, <2>3, LinesType DEF PowerOn, LoxTypeOK, LinesUp, Expected, Places
<1>4. CASE HoldSecond
  <2> DEFINE levels == [xshut EXCEPT ![2] = "LOW"]
  <2>1. at = "holdSecond" /\ at' = "beginFirst" /\ SetLines(levels)
    BY <1>4 DEF HoldSecond
  <2>2. levels \in [Lox -> Level] /\ levels[1] = "HIGH" /\ levels[2] = "LOW"
    <3>1. xshut[1] = "HIGH" /\ xshut \in [Lox -> Level]
      BY <2>1 DEF LinesUp, LoxTypeOK
    <3>2. QED
      BY <3>1, <1>0 DEF Level
  <2>3. address[1] = Default
    BY <2>1, <1>0 DEF Expected
  <2> HIDE DEF levels
  <2>4. address'[1] = Default /\ address'[2] = Off /\ xshut'[1] = "HIGH"
    BY <2>1, <2>2, <2>3, <1>0, LinesEffect, Distinct
  <2>5. QED
    BY <2>1, <2>2, <2>4, LinesType DEF LoxTypeOK, LinesUp, Expected, Places
<1>5. CASE BeginFirst
  <2>1. at = "beginFirst" /\ at' = "wakeSecond" /\ xshut' = xshut
    BY <1>5 DEF BeginFirst
  <2>2. \A d \in Lox : address'[d] = IF address[d] = Default THEN Moved ELSE address[d]
    BY <1>5 DEF BeginFirst, MoveTo
  <2>3. address'[1] = Moved /\ address'[2] = Off
    BY <2>1, <2>2, <1>0, Distinct DEF Expected
  <2>4. address' \in [Lox -> {Off, Default, Moved}]
    BY <1>5 DEF BeginFirst, MoveTo, LoxTypeOK
  <2>5. QED
    BY <2>1, <2>3, <2>4 DEF LoxTypeOK, LinesUp, Expected, Places
<1>6. CASE WakeSecond
  <2> DEFINE levels == [xshut EXCEPT ![2] = "HIGH"]
  <2>1. at = "wakeSecond" /\ at' = "beginSecond" /\ SetLines(levels)
    BY <1>6 DEF WakeSecond
  <2>2. levels \in [Lox -> Level] /\ levels[1] = "HIGH" /\ levels[2] = "HIGH"
    BY <2>1, <1>0 DEF Level, LoxTypeOK, LinesUp
  <2>3. address[1] = Moved /\ address[2] = Off
    BY <2>1, <1>0 DEF Expected
  <2> HIDE DEF levels
  <2>4. address'[1] = Moved /\ address'[2] = Default
    BY <2>1, <2>2, <2>3, <1>0, LinesEffect, Distinct
  <2>5. QED
    BY <2>1, <2>2, <2>4, LinesType DEF LoxTypeOK, LinesUp, Expected, Places
<1>7. CASE BeginSecond
  <2>1. address'[1] = Moved /\ address'[2] = Default
    BY <1>7, <1>0, Distinct DEF BeginSecond, MoveTo, Expected
  <2>2. address' \in [Lox -> {Off, Default, Moved}]
    BY <1>7 DEF BeginSecond, MoveTo, LoxTypeOK
  <2>3. QED
    BY <1>7, <2>1, <2>2 DEF BeginSecond, LoxTypeOK, LinesUp, Expected, Places
<1>8. QED
  BY <1>1, <1>2, <1>3, <1>4, <1>5, <1>6, <1>7 DEF RangeSetup

(* The rest of setup() and the loop leave the range sensors alone.         *)
LEMMA MotionSetupStep ==
    ASSUME LoxInv, BeginFails \/ MotionSetup \/ CallMethod
    PROVE  LoxInv'
BY DEF LoxInv, LoxTypeOK, LinesUp, Expected, Places, Goes, loxVars, BeginFails,
       MotionSetup, CalibrateICM, ShowICM, CalibrateFails, SetupReturns, CallMethod

LEMMA RestartStep == ASSUME LoxInv, Restarted PROVE LoxInv'
<1>1. [d \in Lox |-> "HIGH"] \in [Lox -> Level]
  BY DEF Level
<1>2. QED
  BY <1>1, LinesType DEF LoxInv, LoxTypeOK, LinesUp, Expected, Places, Restarted

LEMMA LoxStep == LoxInv /\ [BootNext]_bootVars => LoxInv'
<1> SUFFICES ASSUME LoxInv, [BootNext]_bootVars PROVE LoxInv'
  OBVIOUS
<1>1. CASE RangeSetup
  BY <1>1, RangeSetupStep
<1>2. CASE BeginFails \/ MotionSetup \/ CallMethod
  BY <1>2, MotionSetupStep
<1>3. CASE WatchdogRestart \/ OtherRestart
  BY <1>3, RestartStep DEF WatchdogRestart, OtherRestart
<1>4. CASE UNCHANGED <<at, loxVars>>
  BY <1>4 DEF LoxInv, LoxTypeOK, LinesUp, Expected, loxVars
<1>5. QED
  BY <1>1, <1>2, <1>3, <1>4 DEF BootNext, bootVars, loxVars

LEMMA LoxImplies == LoxInv => OneListener
BY Distinct DEF LoxInv, LoxTypeOK, Expected, OneListener, Answering, Lox

-----------------------------------------------------------------------------
(* Each range sensor is begun alone at the default address, and the loop   *)
(* finds the two at an address each, after any history of restarts in the  *)
(* middle of setup(), failed begins and failed transactions.               *)
THEOREM ListenersAreSeparate == BootSpec => []OneListener
<1>1. LoxInv /\ [BootNext]_bootVars => LoxInv'
  BY LoxStep
<1>2. QED
  BY LoxInit, <1>1, LoxImplies, PTL DEF BootSpec

(***************************************************************************)
(* Sequences of transactions.                                              *)
(***************************************************************************)
Banks == {0, 2, 3}
\* what two bytes hold
Word == {v \in Nat : v \div 256 \in Byte}

(* The steps by kind.                                                      *)
Selections == [do : {"select"}, to : Banks]
Fetches == [do : {"fetch"}, reg : Cells]
Puts == [do : {"put"}, reg : Cells \ {PwrMgmt1}, value : Byte, else : {Ignore, "aux", "end"}]
Puts2 == [do : {"put2"}, reg : {AccelSmplrtDiv1}, value : Word, else : {Ignore}]
Merges ==
    {x \in [do : {"merge"}, reg : Cells, bits : 1..3, shift : 0..7, value : Byte,
            else : {Ignore, "end"}] : x.bits + x.shift <= 8}
Joins == [do : {"join"}, label : {"init", "aux", "end"}]
Polls == [do : {"poll"}, reg : {MstStatus}, try : Nat]
Waits == [do : {"cleared"}, reg : Cells, shift : {1, 7}]
Caches == [do : {"cache"}, range : {"gyro", "accel"}, value : 0..3]
Tries == [do : {"tryMag"}, try : Nat]
Ops == [do : {"begin", "identify", "begun", "aux", "hold", "both", "orEnd", "giveUp"}]

Steps ==
    UNION {Selections, {Detect}, Fetches, Puts, Puts2, Merges, Joins, Polls, Waits, Caches,
           Tries, Ops}

(* Steps after which the bank selected before is not to be counted on: a   *)
(* selection, a label that a failed step jumps to, a try that puts further *)
(* transactions in, and the start of a call.                               *)
Turns(x) == x.do \in {"select", "join", "tryMag", "begin"}
Accesses(x) == x.do \in {"fetch", "put", "put2", "merge", "cleared", "poll"}

(* The access at k comes after a selection of its bank, or it counts on    *)
(* the bank selected when s begins.                                        *)
Bound(s, k) ==
    \E j \in 1..(k - 1) : /\ s[j] = Select(s[k].reg[1])
                          /\ \A m \in (j + 1)..(k - 1) : ~Turns(s[m])
Loose(s, k) == \A m \in 1..(k - 1) : ~Turns(s[m])

Sound(s) == \A k \in 1..Len(s) : Accesses(s[k]) => Bound(s, k) \/ Loose(s, k)
Fit(s, b) ==
    \A k \in 1..Len(s) :
        Accesses(s[k]) => Bound(s, k) \/ (Loose(s, k) /\ s[k].reg[1] = b)
Closed(s) == \A k \in 1..Len(s) : Accesses(s[k]) => Bound(s, k)

(* A bit field is written right after its register is read.                *)
Paired(s) == \A k \in 2..Len(s) : s[k].do = "merge" => s[k - 1] = Fetch(s[k].reg)

(* Past the reset of begin_I2C.                                            *)
Late(s) ==
    \A k \in 1..Len(s) :
        /\ s[k].do \notin {"begin", "identify"}
        /\ s[k].do = "merge" /\ s[k].reg = PwrMgmt1 =>
              s[k].bits = 1 /\ s[k].shift = 6 /\ s[k].value = 0

(* The bank selected after s, when b is selected before it.                *)
Leads(s, b, c) ==
    \/ \E j \in 1..Len(s) : s[j] = Select(c) /\ \A m \in (j + 1)..Len(s) : ~Turns(s[m])
    \/ b = c /\ \A m \in 1..Len(s) : ~Turns(s[m])

LEMMA CellBanks == \A r \in Cells : r[1] \in Banks
BY DEF Cells, Banks, WhoAmI, UserCtrl, PwrMgmt1, IntPinCfg, IntEnable1, MstStatus,
       AccelXoutH, GyroSmplrtDiv, GyroConfig1, AccelSmplrtDiv1, AccelSmplrtDiv2,
       AccelConfig1, MstCtrl, Slv0Addr, Slv0Reg, Slv0Ctrl, Slv4Addr, Slv4Reg,
       Slv4Ctrl, Slv4Do, Slv4Di

LEMMA SelectStep == ASSUME NEW b \in Banks PROVE Select(b) \in Steps
<1>1. Select(b) \in Selections
  BY DEF Select, Selections
<1> QED
  BY <1>1, Zenon DEF Steps

LEMMA FetchStep == ASSUME NEW r \in Cells PROVE Fetch(r) \in Steps
<1>1. Fetch(r) \in Fetches
  BY DEF Fetch, Fetches
<1> QED
  BY <1>1, Zenon DEF Steps

LEMMA PutStep ==
    ASSUME NEW r \in Cells \ {PwrMgmt1}, NEW v \in Byte, NEW l \in {Ignore, "aux", "end"}
    PROVE  Put(r, v, l) \in Steps
<1>1. Put(r, v, l) \in Puts
  BY DEF Put, Puts
<1> QED
  BY <1>1, Zenon DEF Steps

LEMMA Put2Step ==
    ASSUME NEW v \in Word PROVE Put2(AccelSmplrtDiv1, v, Ignore) \in Steps
<1>1. Put2(AccelSmplrtDiv1, v, Ignore) \in Puts2
  BY DEF Put2, Puts2
<1> QED
  BY <1>1, Zenon DEF Steps

LEMMA MergeStep ==
    ASSUME NEW r \in Cells, NEW n \in 1..3, NEW i \in 0..7, n + i <= 8, NEW v \in Byte,
           NEW l \in {Ignore, "end"}
    PROVE  Merge(r, n, i, v, l) \in Steps
<1>1. Merge(r, n, i, v, l) \in Merges
  BY DEF Merge, Merges
<1> QED
  BY <1>1, Zenon DEF Steps

LEMMA FlowStep ==
    /\ \A l \in {"init", "aux", "end"} : Join(l) \in Steps
    /\ \A r \in Cells, i \in {1, 7} : Cleared(r, i) \in Steps
    /\ \A n \in Nat : Poll(n) \in Steps
    /\ \A n \in Nat : TryMag(n) \in Steps
    /\ \A range \in {"gyro", "accel"}, v \in 0..3 : Cache(range, v) \in Steps
    /\ Detect \in Steps
    /\ \A name \in {"begin", "identify", "begun", "aux", "hold", "both", "orEnd", "giveUp"} :
          Op(name) \in Steps
<1>1. \A l \in {"init", "aux", "end"} : Join(l) \in Joins
  BY DEF Join, Joins
<1>2. \A r \in Cells, i \in {1, 7} : Cleared(r, i) \in Waits
  BY DEF Cleared, Waits
<1>3. \A n \in Nat : Poll(n) \in Polls
  BY DEF Poll, Polls
<1>4. \A n \in Nat : TryMag(n) \in Tries
  BY DEF TryMag, Tries
<1>5. \A range \in {"gyro", "accel"}, v \in 0..3 :
        Cache(range, v) \in Caches
  BY DEF Cache, Caches
<1>6. \A name \in {"begin", "identify", "begun", "aux", "hold", "both", "orEnd", "giveUp"} :
        Op(name) \in Ops
  BY DEF Op, Ops
<1>7. \A l \in {"init", "aux", "end"} : Join(l) \in Steps
  BY <1>1, Zenon DEF Steps
<1>8. \A r \in Cells, i \in {1, 7} : Cleared(r, i) \in Steps
  BY <1>2, Zenon DEF Steps
<1>9. \A n \in Nat : Poll(n) \in Steps
  BY <1>3, Zenon DEF Steps
<1>10. \A n \in Nat : TryMag(n) \in Steps
  BY <1>4, Zenon DEF Steps
<1>11. \A range \in {"gyro", "accel"}, v \in 0..3 : Cache(range, v) \in Steps
  BY <1>5, Zenon DEF Steps
<1>12. Detect \in Steps
  BY Zenon DEF Steps
<1>13. \A name \in {"begin", "identify", "begun", "aux", "hold", "both", "orEnd", "giveUp"} :
          Op(name) \in Steps
  BY <1>6, Zenon DEF Steps
<1> QED
  BY <1>7, <1>8, <1>9, <1>10, <1>11, <1>12, <1>13

LEMMA ConcatIndex ==
    ASSUME NEW s \in Seq(Steps), NEW t \in Seq(Steps)
    PROVE  /\ s \o t \in Seq(Steps)
           /\ Len(s) \in Nat /\ Len(t) \in Nat
           /\ Len(s \o t) = Len(s) + Len(t)
           /\ \A i \in 1..Len(s) : (s \o t)[i] = s[i]
           /\ \A i \in 1..Len(t) : (s \o t)[Len(s) + i] = t[i]
<1>1. Len(s) \in Nat /\ Len(t) \in Nat
  BY LenProperties
<1>2. /\ s \o t \in Seq(Steps)
      /\ Len(s \o t) = Len(s) + Len(t)
      /\ \A i \in 1..Len(s) + Len(t) :
            (s \o t)[i] = IF i <= Len(s) THEN s[i] ELSE t[i - Len(s)]
  BY ConcatProperties, Zenon
<1>3. \A i \in 1..Len(t) : (s \o t)[Len(s) + i] = t[i]
  <2> TAKE i \in 1..Len(t)
  <2>1. Len(s) + i \in 1..Len(s) + Len(t) /\ ~(Len(s) + i <= Len(s)) /\ Len(s) + i - Len(s) = i
    BY <1>1
  <2> QED
    BY <1>2, <2>1
<1> QED
  BY <1>1, <1>2, <1>3

LEMMA FitConcat ==
    ASSUME NEW s \in Seq(Steps), NEW t \in Seq(Steps), NEW b, NEW c,
           Fit(s, b), Closed(t) \/ (Fit(t, c) /\ Leads(s, b, c))
    PROVE  Fit(s \o t, b)
<1> DEFINE st == s \o t
<1> DEFINE n == Len(s)
<1> SUFFICES ASSUME NEW k \in 1..Len(st), Accesses(st[k])
             PROVE  Bound(st, k) \/ (Loose(st, k) /\ st[k].reg[1] = b)
  BY DEF Fit
<1>1. /\ n \in Nat /\ Len(t) \in Nat /\ Len(st) = n + Len(t)
      /\ \A i \in 1..n : st[i] = s[i]
      /\ \A i \in 1..Len(t) : st[n + i] = t[i]
  BY ConcatIndex
<1>0. k \in Nat
  BY <1>1
<1> HIDE DEF st, n
<1>2. CASE k <= n
  <2>1. k \in 1..n /\ st[k] = s[k]
    BY <1>1, <1>2
  <2>2. Bound(s, k) \/ (Loose(s, k) /\ s[k].reg[1] = b)
    BY <2>1 DEF Fit, n
  <2>3. \A i \in 1..(k - 1) : st[i] = s[i]
    BY <1>1, <2>1
  <2>4. CASE Bound(s, k)
    BY <2>1, <2>3, <2>4, <1>1 DEF Bound
  <2>5. CASE Loose(s, k) /\ s[k].reg[1] = b
    BY <2>1, <2>3, <2>5, <1>1 DEF Loose
  <2> QED
    BY <2>2, <2>4, <2>5
<1>3. CASE ~(k <= n)
  <2>1. PICK i \in 1..Len(t) : k = n + i
    BY <1>1, <1>3, k - n \in 1..Len(t) /\ k = n + (k - n)
  <2>2. st[k] = t[i] /\ Accesses(t[i])
    BY <1>1, <2>1
  <2>3. Bound(t, i) \/ (Loose(t, i) /\ t[i].reg[1] = c /\ Leads(s, b, c))
    BY <2>2 DEF Fit, Closed
  <2>4. CASE Bound(t, i)
    <3>1. PICK j \in 1..(i - 1) : /\ t[j] = Select(t[i].reg[1])
                                  /\ \A m \in (j + 1)..(i - 1) : ~Turns(t[m])
      BY <2>4 DEF Bound
    <3>2. n + j \in 1..(k - 1) /\ st[n + j] = Select(st[k].reg[1])
      BY <3>1, <2>1, <2>2, <1>1
    <3>3. \A m \in (n + j + 1)..(k - 1) : ~Turns(st[m])
      <4> TAKE m \in (n + j + 1)..(k - 1)
      <4>1. m - n \in (j + 1)..(i - 1) /\ m - n \in 1..Len(t) /\ n + (m - n) = m
        BY <2>1, <1>1
      <4> QED
        BY <4>1, <3>1, <1>1
    <3> QED
      BY <3>2, <3>3 DEF Bound
  <2>5. CASE Loose(t, i) /\ t[i].reg[1] = c /\ Leads(s, b, c)
    <3>1. \A m \in (n + 1)..(k - 1) : ~Turns(st[m])
      <4> TAKE m \in (n + 1)..(k - 1)
      <4>1. m - n \in 1..(i - 1) /\ m - n \in 1..Len(t) /\ n + (m - n) = m
        BY <2>1, <1>1
      <4> QED
        BY <4>1, <2>5, <1>1 DEF Loose
    <3>2. CASE b = c /\ \A m \in 1..n : ~Turns(s[m])
      <4>1. \A m \in 1..(k - 1) : ~Turns(st[m])
        <5> TAKE m \in 1..(k - 1)
        <5>1. m \in 1..n \/ m \in (n + 1)..(k - 1)
          BY <1>1
        <5> QED
          BY <5>1, <3>1, <3>2, <1>1
      <4> QED
        BY <4>1, <2>2, <2>5, <3>2 DEF Loose
    <3>3. CASE \E j \in 1..n : s[j] = Select(c) /\ \A m \in (j + 1)..n : ~Turns(s[m])
      <4>1. PICK j \in 1..n : s[j] = Select(c) /\ \A m \in (j + 1)..n : ~Turns(s[m])
        BY <3>3
      <4>2. j \in 1..(k - 1) /\ st[j] = Select(st[k].reg[1])
        BY <4>1, <1>1, <2>1, <2>2, <2>5
      <4>3. \A m \in (j + 1)..(k - 1) : ~Turns(st[m])
        <5> TAKE m \in (j + 1)..(k - 1)
        <5>1. (m \in (j + 1)..n /\ m \in 1..n) \/ m \in (n + 1)..(k - 1)
          BY <1>1
        <5> QED
          BY <5>1, <3>1, <4>1, <1>1
      <4> QED
        BY <4>2, <4>3 DEF Bound
    <3> QED
      BY <2>5, <3>2, <3>3 DEF Leads, n
  <2> QED
    BY <2>3, <2>4, <2>5
<1> QED
  BY <1>0, <1>1, <1>2, <1>3

(* A sequence that can start with bank b selected, one that can start with *)
(* any, and one of those that begin_I2C is not.                            *)
Made(s, b) ==
    /\ s \in Seq(Steps)
    /\ Fit(s, b)
    /\ Paired(s)
    /\ Late(s)
    /\ Len(s) > 0 => s[1].do # "merge"

Whole(s) == \A b \in Banks : Made(s, b)

LEMMA WholeClosed == ASSUME NEW s, Whole(s) PROVE Closed(s) /\ s \in Seq(Steps)
<1>1. Fit(s, 0) /\ Fit(s, 2) /\ s \in Seq(Steps)
  BY DEF Whole, Made, Banks
<1>2. \A k \in 1..Len(s) : Accesses(s[k]) => Bound(s, k)
  BY <1>1 DEF Fit
<1> QED
  BY <1>1, <1>2 DEF Closed

LEMMA PairedConcat ==
    ASSUME NEW s \in Seq(Steps), NEW t \in Seq(Steps), Paired(s), Paired(t),
           Len(t) > 0 => t[1].do # "merge"
    PROVE  Paired(s \o t)
<1> DEFINE st == s \o t
<1> DEFINE n == Len(s)
<1>1. /\ n \in Nat /\ Len(t) \in Nat /\ Len(st) = n + Len(t)
      /\ \A i \in 1..n : st[i] = s[i]
      /\ \A i \in 1..Len(t) : st[n + i] = t[i]
  BY ConcatIndex
<1> SUFFICES ASSUME NEW k \in 2..Len(st), st[k].do = "merge"
             PROVE  st[k - 1] = Fetch(st[k].reg)
  BY DEF Paired
<1> HIDE DEF st, n
<1>2. CASE k <= n
  <2>1. k \in 2..n /\ st[k] = s[k] /\ st[k - 1] = s[k - 1]
    BY <1>1, <1>2
  <2> QED
    BY <2>1 DEF Paired, n
<1>3. CASE k = n + 1
  <2>1. 1 \in 1..Len(t) /\ st[k] = t[1]
    BY <1>1, <1>3
  <2> QED
    BY <2>1
<1>4. CASE k > n + 1
  <2>1. PICK i \in 2..Len(t) : k = n + i
    BY <1>1, <1>4, k - n \in 2..Len(t) /\ k = n + (k - n)
  <2>2. st[k] = t[i]
    BY <1>1, <2>1
  <2>3. st[n + (i - 1)] = t[i - 1] /\ n + (i - 1) = k - 1
    BY <1>1, <2>1
  <2>4. t[i - 1] = Fetch(t[i].reg)
    BY <2>1, <2>2 DEF Paired
  <2> QED
    BY <2>2, <2>3, <2>4
<1> QED
  BY <1>1, <1>2, <1>3, <1>4

LEMMA LateConcat ==
    ASSUME NEW s \in Seq(Steps), NEW t \in Seq(Steps), Late(s), Late(t)
    PROVE  Late(s \o t)
<1> DEFINE st == s \o t
<1> DEFINE n == Len(s)
<1>1. /\ n \in Nat /\ Len(t) \in Nat /\ Len(st) = n + Len(t)
      /\ \A i \in 1..n : st[i] = s[i]
      /\ \A i \in 1..Len(t) : st[n + i] = t[i]
  BY ConcatIndex
<1> HIDE DEF st
<1>2. \A k \in 1..Len(st) : (k \in 1..n /\ st[k] = s[k])
                            \/ \E i \in 1..Len(t) : st[k] = t[i]
  <2> TAKE k \in 1..Len(st)
  <2>1. CASE k <= n
    BY <2>1, <1>1
  <2>2. CASE ~(k <= n)
    <3>1. k - n \in 1..Len(t) /\ n + (k - n) = k
      BY <2>2, <1>1
    <3> QED
      BY <3>1, <1>1
  <2> QED
    BY <2>1, <2>2
<1> QED
  BY <1>2 DEF Late, st

LEMMA LeadsConcat ==
    ASSUME NEW s \in Seq(Steps), NEW t \in Seq(Steps), NEW b, NEW c, NEW d,
           Leads(s, b, c), Leads(t, c, d)
    PROVE  Leads(s \o t, b, d)
<1> DEFINE st == s \o t
<1> DEFINE n == Len(s)
<1>1. /\ n \in Nat /\ Len(t) \in Nat /\ Len(st) = n + Len(t)
      /\ \A i \in 1..n : st[i] = s[i]
      /\ \A i \in 1..Len(t) : st[n + i] = t[i]
  BY ConcatIndex
<1> HIDE DEF st
<1>2. \A m \in (n + 1)..Len(st) : m - n \in 1..Len(t) /\ st[m] = t[m - n]
  <2> TAKE m \in (n + 1)..Len(st)
  <2>1. m - n \in 1..Len(t) /\ n + (m - n) = m
    BY <1>1
  <2> QED
    BY <2>1, <1>1
<1>3. CASE \E j \in 1..Len(t) : t[j] = Select(d) /\ \A m \in (j + 1)..Len(t) : ~Turns(t[m])
  <2>1. PICK j \in 1..Len(t) : t[j] = Select(d) /\ \A m \in (j + 1)..Len(t) : ~Turns(t[m])
    BY <1>3
  <2>2. n + j \in 1..Len(st) /\ st[n + j] = Select(d)
    BY <1>1, <2>1
  <2>3. \A m \in (n + j + 1)..Len(st) : ~Turns(st[m])
    <3> TAKE m \in (n + j + 1)..Len(st)
    <3>1. m \in (n + 1)..Len(st) /\ m - n \in (j + 1)..Len(t)
      BY <1>1, <2>1
    <3> QED
      BY <3>1, <1>2, <2>1
  <2> QED
    BY <2>2, <2>3 DEF Leads, st
<1>4. CASE c = d /\ \A m \in 1..Len(t) : ~Turns(t[m])
  <2>1. \A m \in (n + 1)..Len(st) : ~Turns(st[m])
    BY <1>2, <1>4
  <2>2. CASE \E j \in 1..n : s[j] = Select(c) /\ \A m \in (j + 1)..n : ~Turns(s[m])
    <3>1. PICK j \in 1..n : s[j] = Select(c) /\ \A m \in (j + 1)..n : ~Turns(s[m])
      BY <2>2
    <3>2. j \in 1..Len(st) /\ st[j] = Select(d)
      BY <3>1, <1>1, <1>4
    <3>3. \A m \in (j + 1)..Len(st) : ~Turns(st[m])
      <4> TAKE m \in (j + 1)..Len(st)
      <4>1. (m \in (j + 1)..n /\ m \in 1..n) \/ m \in (n + 1)..Len(st)
        BY <1>1, <3>1
      <4> QED
        BY <4>1, <1>1, <2>1, <3>1
    <3> QED
      BY <3>2, <3>3 DEF Leads, st
  <2>3. CASE b = c /\ \A m \in 1..n : ~Turns(s[m])
    <3>1. \A m \in 1..Len(st) : ~Turns(st[m])
      <4> TAKE m \in 1..Len(st)
      <4>1. m \in 1..n \/ m \in (n + 1)..Len(st)
        BY <1>1
      <4> QED
        BY <4>1, <1>1, <2>1, <2>3
    <3> QED
      BY <3>1, <1>4, <2>3 DEF Leads, st
  <2> QED
    BY <2>2, <2>3 DEF Leads
<1> QED
  BY <1>3, <1>4 DEF Leads

LEMMA MadeConcat ==
    ASSUME NEW s, NEW t, NEW b, NEW c, Made(s, b),
           (t \in Seq(Steps) /\ Whole(t)) \/ (Made(t, c) /\ Leads(s, b, c))
    PROVE  Made(s \o t, b)
<1>1. s \in Seq(Steps) /\ t \in Seq(Steps) /\ Paired(s) /\ Paired(t) /\ Late(s) /\ Late(t)
      /\ Fit(s, b) /\ (Len(s) > 0 => s[1].do # "merge")
      /\ (Len(t) > 0 => t[1].do # "merge")
  BY DEF Made, Whole, Banks
<1>2. Closed(t) \/ (Fit(t, c) /\ Leads(s, b, c))
  BY WholeClosed DEF Made
<1>3. Fit(s \o t, b)
  BY <1>1, <1>2, FitConcat
<1>4. Paired(s \o t) /\ Late(s \o t)
  BY <1>1, PairedConcat, LateConcat
<1>5. /\ s \o t \in Seq(Steps) /\ Len(s) \in Nat /\ Len(t) \in Nat
      /\ Len(s \o t) = Len(s) + Len(t)
      /\ \A i \in 1..Len(s) : (s \o t)[i] = s[i]
      /\ \A i \in 1..Len(t) : (s \o t)[Len(s) + i] = t[i]
  BY <1>1, ConcatIndex
<1>6. ASSUME Len(s \o t) > 0 PROVE (s \o t)[1].do # "merge"
  <2>1. CASE Len(s) > 0
    <3>1. 1 \in 1..Len(s) /\ (s \o t)[1] = s[1]
      BY <2>1, <1>5
    <3> QED
      BY <3>1, <2>1, <1>1
  <2>2. CASE Len(s) = 0
    <3>1. Len(t) > 0 /\ 1 \in 1..Len(t) /\ Len(s) + 1 = 1
      BY <2>2, <1>5, <1>6
    <3>2. (s \o t)[1] = t[1]
      BY <3>1, <1>5
    <3> QED
      BY <3>1, <3>2, <1>1
  <2>3. Len(s) > 0 \/ Len(s) = 0
    BY <1>5
  <2> QED
    BY <2>1, <2>2, <2>3
<1> QED
  BY <1>3, <1>4, <1>5, <1>6 DEF Made

LEMMA WholeConcat ==
    ASSUME NEW s, NEW t, Whole(s), Whole(t)
    PROVE  Whole(s \o t)
<1>1. t \in Seq(Steps)
  BY WholeClosed
<1> QED
  BY <1>1, MadeConcat DEF Whole

(* What follows a selection of bank c may count on it.                     *)
LEMMA WholeSelect ==
    ASSUME NEW c \in Banks, NEW t, Made(t, c)
    PROVE  Whole(<<Select(c)>> \o t)
<1> DEFINE s == <<Select(c)>>
<1>0. Select(c) \in Steps
  BY SelectStep
<1>1. s \in Seq(Steps) /\ Len(s) = 1 /\ s[1] = Select(c)
  BY <1>0
<1>2. /\ Select(c).do = "select"
      /\ ~Accesses(Select(c))
  BY DEF Select, Accesses
<1> HIDE DEF s
<1>3. \A b \in Banks : Made(s, b)
  <2>1. Paired(s) /\ Late(s)
    BY <1>1, <1>2 DEF Paired, Late
  <2>2. \A b \in Banks : Fit(s, b)
    BY <1>1, <1>2 DEF Fit
  <2> QED
    BY <2>1, <2>2, <1>1, <1>2 DEF Made
<1>4. \A b \in Banks : Leads(s, b, c)
  BY <1>1, <1>2 DEF Leads
<1>5. \A b \in Banks : Made(s \o t, b)
  BY <1>3, <1>4, MadeConcat
<1> QED
  BY <1>5 DEF Whole, s

(***************************************************************************)
(* The methods of the driver.                                              *)
(***************************************************************************)
(* RegisterBits::write.                                                    *)
LEMMA WriteMade ==
    ASSUME NEW r \in Cells, NEW n \in 1..3, NEW i \in 0..7, n + i <= 8, NEW v \in Byte,
           NEW l \in {Ignore, "end"},
           r = PwrMgmt1 => n = 1 /\ i = 6 /\ v = 0
    PROVE  /\ Made(Write(r, n, i, v, l), r[1])
           /\ Leads(Write(r, n, i, v, l), r[1], r[1])
<1> DEFINE s == Write(r, n, i, v, l)
<1>1. s = <<Fetch(r), Merge(r, n, i, v, l)>>
  BY DEF Write
<1>2. s \in Seq(Steps) /\ Len(s) = 2 /\ s[1] = Fetch(r) /\ s[2] = Merge(r, n, i, v, l)
  BY <1>1, FetchStep, MergeStep
<1>3. /\ s[1].do = "fetch" /\ s[2].do = "merge"
      /\ s[1].reg = r /\ s[2].reg = r
      /\ s[2].bits = n /\ s[2].shift = i /\ s[2].value = v
  BY <1>2 DEF Fetch, Merge
<1> HIDE DEF s
<1>4. ~Turns(s[1]) /\ ~Turns(s[2])
  BY <1>3 DEF Turns
<1>5. Fit(s, r[1]) /\ Leads(s, r[1], r[1])
  BY <1>2, <1>3, <1>4 DEF Fit, Loose, Leads
<1>6. Paired(s)
  BY <1>2, <1>3 DEF Paired
<1>7. Late(s)
  BY <1>2, <1>3 DEF Late
<1> QED
  BY <1>2, <1>3, <1>5, <1>6, <1>7 DEF Made, s

(* A step by itself.                                                       *)
LEMMA OneWhole ==
    ASSUME NEW x \in Steps, ~Accesses(x), x.do \notin {"begin", "identify"}
    PROVE  Whole(<<x>>)
<1> DEFINE s == <<x>>
<1>1. s \in Seq(Steps) /\ Len(s) = 1 /\ s[1] = x
  OBVIOUS
<1>2. x.do # "merge"
  BY DEF Accesses
<1> HIDE DEF s
<1>3. Paired(s) /\ Late(s) /\ \A b \in Banks : Fit(s, b)
  BY <1>1, <1>2 DEF Paired, Late, Fit
<1> QED
  BY <1>1, <1>2, <1>3 DEF Whole, Made, s

LEMMA OneMade ==
    ASSUME NEW x \in Steps, Accesses(x), x.do # "merge"
    PROVE  Made(<<x>>, x.reg[1])
<1> DEFINE s == <<x>>
<1>1. s \in Seq(Steps) /\ Len(s) = 1 /\ s[1] = x
  OBVIOUS
<1>2. x.do \notin {"begin", "identify"}
  BY DEF Accesses
<1> HIDE DEF s
<1>3. Paired(s) /\ Late(s)
  BY <1>1, <1>2 DEF Paired, Late
<1>4. Fit(s, x.reg[1])
  BY <1>1 DEF Fit, Loose
<1> QED
  BY <1>1, <1>3, <1>4 DEF Made, s

LEMMA OneLeads ==
    ASSUME NEW x, NEW b
    PROVE  /\ ~Turns(x) => Leads(<<x>>, b, b)
           /\ \A c \in Banks : x = Select(c) => Leads(<<x>>, b, c)
BY DEF Leads

LEMMA BoundBy ==
    ASSUME NEW s, NEW k \in Nat, NEW j \in 1..(k - 1), s[j] = Select(s[k].reg[1]),
           \A m \in (j + 1)..(k - 1) : ~Turns(s[m])
    PROVE  Bound(s, k)
BY DEF Bound

LEMMA SelectAccess ==
    ASSUME NEW x \in Steps, Accesses(x), x.do # "merge", x.reg[1] \in Banks
    PROVE  Whole(<<Select(x.reg[1]), x>>)
<1> DEFINE b == x.reg[1]
<1> DEFINE s == <<Select(b), x>>
<1>1. s \in Seq(Steps) /\ Len(s) = 2 /\ s[1] = Select(b) /\ s[2] = x
  BY SelectStep
<1>2. Select(b).do = "select" /\ x.do \notin {"begin", "identify"}
  BY DEF Select, Accesses
<1> HIDE DEF s
<1>3. Paired(s) /\ Late(s)
  BY <1>1, <1>2 DEF Paired, Late
<1>4. Bound(s, 2)
  BY <1>1 DEF Bound
<1>5. \A k \in 1..Len(s) : Accesses(s[k]) => Bound(s, k)
  BY <1>1, <1>2, <1>4 DEF Accesses
<1> QED
  BY <1>1, <1>2, <1>3, <1>5 DEF Whole, Made, Fit, s

(* Reads and writes between two selections.                                *)
LEMMA BetweenSelects ==
    ASSUME NEW x \in Steps, Accesses(x), x.do # "merge", x.reg[1] \in Banks, NEW c \in Banks
    PROVE  Whole(<<Select(x.reg[1]), x, Select(c)>>)
<1> DEFINE b == x.reg[1]
<1> DEFINE s == <<Select(b), x, Select(c)>>
<1>1. s \in Seq(Steps) /\ Len(s) = 3 /\ s[1] = Select(b) /\ s[2] = x /\ s[3] = Select(c)
  BY SelectStep
<1>2. Select(b).do = "select" /\ Select(c).do = "select" /\ x.do \notin {"begin", "identify"}
  BY DEF Select, Accesses
<1> HIDE DEF s
<1>3. Paired(s) /\ Late(s)
  BY <1>1, <1>2 DEF Paired, Late
<1>4. Bound(s, 2)
  BY <1>1 DEF Bound
<1>5. \A k \in 1..Len(s) : Accesses(s[k]) => Bound(s, k)
  BY <1>1, <1>2, <1>4 DEF Accesses
<1> QED
  BY <1>1, <1>2, <1>3, <1>5 DEF Whole, Made, Fit, s

(* A selection, bit fields of registers of that bank, and what follows.    *)
LEMMA FieldThen ==
    ASSUME NEW r \in Cells, NEW n \in 1..3, NEW i \in 0..7, n + i <= 8, NEW v \in Byte,
           NEW l \in {Ignore, "end"}, r = PwrMgmt1 => n = 1 /\ i = 6 /\ v = 0,
           NEW t, Made(t, r[1])
    PROVE  Made(Write(r, n, i, v, l) \o t, r[1])
BY WriteMade, MadeConcat, Zenon

LEMMA WholeMade == ASSUME NEW t, Whole(t), NEW b \in Banks PROVE Made(t, b)
BY DEF Whole

LEMMA CellFacts ==
    /\ {WhoAmI, UserCtrl, PwrMgmt1, IntPinCfg, IntEnable1, MstStatus, AccelXoutH} \subseteq Cells
    /\ {GyroSmplrtDiv, GyroConfig1, AccelSmplrtDiv1, AccelConfig1} \subseteq Cells
    /\ {MstCtrl, Slv0Addr, Slv0Reg, Slv0Ctrl, Slv4Addr, Slv4Reg, Slv4Ctrl, Slv4Do, Slv4Di}
          \subseteq Cells
    /\ \A r \in {WhoAmI, UserCtrl, PwrMgmt1, IntPinCfg, IntEnable1, MstStatus, AccelXoutH} :
          r[1] = 0
    /\ \A r \in {GyroSmplrtDiv, GyroConfig1, AccelSmplrtDiv1, AccelConfig1} : r[1] = 2
    /\ \A r \in {MstCtrl, Slv0Addr, Slv0Reg, Slv0Ctrl, Slv4Addr, Slv4Reg, Slv4Ctrl, Slv4Do,
                 Slv4Di} : r[1] = 3
    /\ PwrMgmt1 = <<0, 6>>
    /\ \A r \in Cells : r[2] = 6 => r = PwrMgmt1
    /\ PwrMgmt1 \notin {WhoAmI, UserCtrl, IntPinCfg, IntEnable1, MstStatus, AccelXoutH}
BY DEF Cells, WhoAmI, UserCtrl, PwrMgmt1, IntPinCfg, IntEnable1, MstStatus,
       AccelXoutH, GyroSmplrtDiv, GyroConfig1, AccelSmplrtDiv1, AccelSmplrtDiv2,
       AccelConfig1, MstCtrl, Slv0Addr, Slv0Reg, Slv0Ctrl, Slv4Addr, Slv4Reg,
       Slv4Ctrl, Slv4Do, Slv4Di

(* A selection and a bit field, alone and in front of a second one.        *)
LEMMA SelectWrite ==
    ASSUME NEW r \in Cells, NEW c, c = r[1], NEW n \in 1..3, NEW i \in 0..7, n + i <= 8,
           NEW v \in Byte, NEW l \in {Ignore, "end"},
           r = PwrMgmt1 => n = 1 /\ i = 6 /\ v = 0
    PROVE  /\ Whole(<<Select(c)>> \o Write(r, n, i, v, l))
           /\ \A b \in Banks : Leads(<<Select(c)>> \o Write(r, n, i, v, l), b, c)
<1>1. c \in Banks
  BY CellBanks
<1>2. Made(Write(r, n, i, v, l), c) /\ Leads(Write(r, n, i, v, l), c, c)
  BY WriteMade, Zenon
<1>3. <<Select(c)>> \in Seq(Steps)
  BY <1>1, SelectStep
<1>4. \A b \in Banks : Leads(<<Select(c)>>, b, c)
  BY <1>1, OneLeads
<1>5. Write(r, n, i, v, l) \in Seq(Steps)
  BY <1>2 DEF Made
<1>6. \A b \in Banks : Leads(<<Select(c)>> \o Write(r, n, i, v, l), b, c)
  BY <1>2, <1>3, <1>4, <1>5, LeadsConcat, Zenon
<1> QED
  BY <1>1, <1>2, <1>6, WholeSelect, Zenon

LEMMA WholeThenMade ==
    ASSUME NEW s, NEW t, NEW c, Whole(s), \A b \in Banks : Leads(s, b, c), Made(t, c)
    PROVE  Whole(s \o t)
BY MadeConcat DEF Whole

LEMMA CacheSelect ==
    ASSUME NEW range \in {"gyro", "accel"}, NEW v \in 0..3
    PROVE  Whole(<<Cache(range, v), Select(0)>>)
<1> DEFINE s == <<Cache(range, v), Select(0)>>
<1>0. Cache(range, v) \in Steps /\ Select(0) \in Steps
  <2>1. 0 \in Banks
    BY DEF Banks
  <2> QED
    BY <2>1, SelectStep, FlowStep
<1>1. s \in Seq(Steps) /\ Len(s) = 2 /\ s[1] = Cache(range, v) /\ s[2] = Select(0)
  BY <1>0
<1>2. Cache(range, v).do = "cache" /\ Select(0).do = "select"
  BY DEF Cache, Select
<1> HIDE DEF s
<1>3. Paired(s) /\ Late(s) /\ \A b \in Banks : Fit(s, b)
  BY <1>1, <1>2 DEF Paired, Late, Fit, Accesses
<1> QED
  BY <1>1, <1>2, <1>3 DEF Whole, Made, s

LEMMA RangesWhole ==
    ASSUME NEW v \in 0..3
    PROVE  Whole(WriteGyroRange(v)) /\ Whole(WriteAccelRange(v))
<1>1. v \in Byte /\ 2 \in 1..3 /\ 1 \in 0..7 /\ 2 + 1 <= 8 /\ Ignore \in {Ignore, "end"}
  BY DEF Byte
<1>2. /\ GyroConfig1 \in Cells /\ GyroConfig1[1] = 2 /\ GyroConfig1 # PwrMgmt1
      /\ AccelConfig1 \in Cells /\ AccelConfig1[1] = 2 /\ AccelConfig1 # PwrMgmt1
  BY CellFacts
<1>3. /\ Whole(<<Select(GyroConfig1[1])>> \o Write(GyroConfig1, 2, 1, v, Ignore))
      /\ Whole(<<Select(AccelConfig1[1])>> \o Write(AccelConfig1, 2, 1, v, Ignore))
  BY <1>1, <1>2, SelectWrite
<1>4. Whole(<<Cache("gyro", v), Select(0)>>) /\ Whole(<<Cache("accel", v), Select(0)>>)
  BY CacheSelect
<1> QED
  BY <1>2, <1>3, <1>4, WholeConcat DEF WriteGyroRange, WriteAccelRange

LEMMA RatesWhole ==
    /\ \A v \in Byte : Whole(SetGyroRateDivisor(v))
    /\ \A v \in Word : Whole(SetAccelRateDivisor(v))
<1>1. \A v \in Byte : Whole(SetGyroRateDivisor(v))
  <2> TAKE v \in Byte
  <2> DEFINE x == Put(GyroSmplrtDiv, v, Ignore)
  <2>1. GyroSmplrtDiv \in Cells \ {PwrMgmt1} /\ GyroSmplrtDiv[1] = 2
    BY CellFacts
  <2>2. x \in Steps
    BY <2>1, PutStep
  <2>3. Accesses(x) /\ x.do # "merge" /\ x.reg[1] = 2
    BY <2>1 DEF Put, Accesses
  <2> HIDE DEF x
  <2> QED
    BY <2>2, <2>3, BetweenSelects DEF SetGyroRateDivisor, Banks, x
<1>2. \A v \in Word : Whole(SetAccelRateDivisor(v))
  <2> TAKE v \in Word
  <2> DEFINE x == Put2(AccelSmplrtDiv1, v, Ignore)
  <2>1. AccelSmplrtDiv1[1] = 2
    BY CellFacts
  <2>2. x \in Steps
    BY Put2Step
  <2>3. Accesses(x) /\ x.do # "merge" /\ x.reg[1] = 2
    BY <2>1 DEF Put2, Accesses
  <2> HIDE DEF x
  <2> QED
    BY <2>2, <2>3, BetweenSelects DEF SetAccelRateDivisor, Banks, x
<1> QED
  BY <1>1, <1>2

LEMMA ReadsWhole ==
    /\ \A r \in {GyroSmplrtDiv, GyroConfig1, AccelSmplrtDiv1, AccelConfig1} : Whole(ReadRange(r))
    /\ Whole(GetEvent)
<1>1. ASSUME NEW r \in Cells PROVE Whole(<<Select(r[1]), Fetch(r), Select(0)>>)
  <2>1. Fetch(r) \in Steps /\ Accesses(Fetch(r)) /\ Fetch(r).do # "merge" /\ Fetch(r).reg = r
    BY FetchStep DEF Fetch, Accesses
  <2>2. r[1] \in Banks /\ 0 \in Banks
    BY CellBanks DEF Banks
  <2> QED
    BY <2>1, <2>2, BetweenSelects
<1> QED
  BY <1>1, CellFacts DEF ReadRange, GetEvent

LEMMA JoinWhole ==
    /\ \A l \in {"init", "aux", "end"} : Whole(<<Join(l)>>)
    /\ \A name \in {"begun", "aux", "hold", "both", "orEnd", "giveUp"} : Whole(<<Op(name)>>)
    /\ \A n \in Nat : Whole(<<TryMag(n)>>)
<1>1. ASSUME NEW l \in {"init", "aux", "end"} PROVE Whole(<<Join(l)>>)
  <2>1. Join(l) \in Steps
    BY FlowStep
  <2>2. Join(l).do = "join"
    BY DEF Join
  <2> QED
    BY <2>1, <2>2, OneWhole DEF Accesses
<1>2. ASSUME NEW name \in {"begun", "aux", "hold", "both", "orEnd", "giveUp"}
      PROVE  Whole(<<Op(name)>>)
  <2>1. Op(name) \in Steps
    BY FlowStep
  <2>2. Op(name).do = name
    BY DEF Op
  <2> QED
    BY <2>1, <2>2, OneWhole DEF Accesses
<1>3. ASSUME NEW n \in Nat PROVE Whole(<<TryMag(n)>>)
  <2>1. TryMag(n) \in Steps
    BY FlowStep
  <2>2. TryMag(n).do = "tryMag"
    BY DEF TryMag
  <2> QED
    BY <2>1, <2>2, OneWhole DEF Accesses
<1> QED
  BY <1>1, <1>2, <1>3

LEMMA EmptyWhole == Whole(<<>>)
BY EmptySeq DEF Whole, Made, Fit, Paired, Late

LEMMA DLPFWhole ==
    ASSUME NEW enable \in BOOLEAN, NEW cutoff \in Byte
    PROVE  Whole(EnableDLPF(enable, cutoff))
<1> DEFINE first == <<Select(2)>> \o Write(AccelConfig1, 1, 0, IF enable THEN 1 ELSE 0, "end")
<1> DEFINE second == IF enable THEN Write(AccelConfig1, 3, 3, cutoff, "end") ELSE <<>>
<1>1. /\ AccelConfig1 \in Cells /\ AccelConfig1[1] = 2 /\ AccelConfig1 # PwrMgmt1
      /\ (IF enable THEN 1 ELSE 0) \in Byte /\ "end" \in {Ignore, "end"}
      /\ 1 \in 1..3 /\ 0 \in 0..7 /\ 1 + 0 <= 8 /\ 3 \in 1..3 /\ 3 \in 0..7 /\ 3 + 3 <= 8
  BY CellFacts DEF Byte
<1>2. Whole(first) /\ \A b \in Banks : Leads(first, b, 2)
  BY <1>1, SelectWrite
<1>3. Made(Write(AccelConfig1, 3, 3, cutoff, "end"), 2)
  BY <1>1, WriteMade
<1> HIDE DEF first
<1>4. Whole(first \o second)
  <2>1. CASE enable
    BY <2>1, <1>2, <1>3, WholeThenMade
  <2>2. CASE ~enable
    BY <2>2, <1>2, EmptyWhole, WholeConcat
  <2> QED
    BY <2>1, <2>2
<1> HIDE DEF second
<1>5. Whole(<<Join("end")>>)
  BY JoinWhole
<1>6. Whole((first \o second) \o <<Join("end")>>)
  BY <1>4, <1>5, WholeConcat
<1> QED
  BY <1>6 DEF EnableDLPF, first, second

LEMMA InterruptWhole ==
    ASSUME NEW r \in {IntPinCfg, IntEnable1}, NEW low \in Byte
    PROVE  Whole(IntActiveLow(r, low))
<1>1. r \in Cells /\ r[1] = 0 /\ r # PwrMgmt1 /\ 1 \in Byte /\ Ignore \in {Ignore, "end"}
      /\ 1 \in 1..3 /\ 6 \in 0..7 /\ 1 + 6 <= 8 /\ 7 \in 0..7 /\ 1 + 7 <= 8
  BY CellFacts DEF Byte
<1>2. /\ Whole(<<Select(0)>> \o Write(r, 1, 6, 1, Ignore))
      /\ \A b \in Banks : Leads(<<Select(0)>> \o Write(r, 1, 6, 1, Ignore), b, 0)
  BY <1>1, SelectWrite
<1>3. Made(Write(r, 1, 7, low, Ignore), 0)
  BY <1>1, WriteMade
<1> QED
  BY <1>2, <1>3, WholeThenMade DEF IntActiveLow

LEMMA MasterWhole ==
    /\ Whole(SetI2CBypass(0))
    /\ Whole(ConfigureI2CMaster)
    /\ Whole(EnableI2CMaster)
    /\ Whole(ResetI2CMaster)
<1>1. /\ IntPinCfg \in Cells /\ IntPinCfg[1] = 0 /\ IntPinCfg # PwrMgmt1
      /\ UserCtrl \in Cells /\ UserCtrl[1] = 0 /\ UserCtrl # PwrMgmt1
      /\ 0 \in Byte /\ 1 \in Byte /\ Ignore \in {Ignore, "end"} /\ 23 \in Byte
      /\ 1 \in 1..3 /\ 1 \in 0..7 /\ 1 + 1 <= 8 /\ 5 \in 0..7 /\ 1 + 5 <= 8
  BY CellFacts DEF Byte
<1>2. Whole(SetI2CBypass(0)) /\ Whole(EnableI2CMaster)
  BY <1>1, SelectWrite DEF SetI2CBypass, EnableI2CMaster
<1>3. Whole(ConfigureI2CMaster)
  <2> DEFINE x == Put(MstCtrl, 23, Ignore)
  <2>1. x \in Steps /\ Accesses(x) /\ x.do # "merge" /\ x.reg[1] = 3
    <3>1. MstCtrl \in Cells \ {PwrMgmt1} /\ MstCtrl[1] = 3
      BY CellFacts
    <3> QED
      BY <1>1, <3>1, PutStep DEF Put, Accesses
  <2>2. 3 \in Banks
    BY DEF Banks
  <2> HIDE DEF x
  <2>3. Whole(<<Select(3), x>>)
    BY <2>1, <2>2, SelectAccess
  <2> QED
    BY <2>3 DEF ConfigureI2CMaster, x
<1>4. Whole(ResetI2CMaster)
  <2>1. /\ Whole(<<Select(0)>> \o Write(UserCtrl, 1, 1, 1, Ignore))
        /\ \A b \in Banks : Leads(<<Select(0)>> \o Write(UserCtrl, 1, 1, 1, Ignore), b, 0)
    BY <1>1, SelectWrite
  <2>2. /\ Cleared(UserCtrl, 1) \in Steps /\ Accesses(Cleared(UserCtrl, 1))
        /\ Cleared(UserCtrl, 1).do # "merge" /\ Cleared(UserCtrl, 1).reg[1] = 0
    BY <1>1, FlowStep DEF Cleared, Accesses
  <2>3. Made(<<Cleared(UserCtrl, 1)>>, 0)
    BY <2>2, OneMade
  <2> QED
    BY <2>1, <2>3, WholeThenMade DEF ResetI2CMaster
<1> QED
  BY <1>2, <1>3, <1>4

LEMMA AuxWhole ==
    ASSUME NEW reg \in Byte, NEW value \in Byte
    PROVE  Whole(AuxRead(reg)) /\ Whole(AuxWrite(reg, value))
<1>1. /\ {Slv4Do, Slv4Addr, Slv4Reg, Slv4Ctrl} \subseteq Cells \ {PwrMgmt1}
      /\ Slv4Di \in Cells /\ Slv4Di[1] = 3 /\ MstStatus[1] = 0
      /\ Slv4Do[1] = 3 /\ Slv4Addr[1] = 3 /\ Slv4Reg[1] = 3 /\ Slv4Ctrl[1] = 3
  BY CellFacts
<1>2. /\ 128 + MagAddress \in Byte /\ MagAddress \in Byte /\ 128 \in Byte
      /\ "aux" \in {Ignore, "aux", "end"}
  BY DEF MagAddress, Byte
<1>3. /\ Op("aux") \in Steps /\ Select(3) \in Steps /\ Select(0) \in Steps
      /\ Poll(1) \in Steps /\ Fetch(Slv4Di) \in Steps /\ Join("aux") \in Steps
  BY <1>1, FlowStep, SelectStep, FetchStep DEF Banks
<1>4. /\ Put(Slv4Addr, 128 + MagAddress, "aux") \in Steps
      /\ Put(Slv4Addr, MagAddress, "aux") \in Steps
      /\ Put(Slv4Reg, reg, "aux") \in Steps
      /\ Put(Slv4Ctrl, 128, "aux") \in Steps
      /\ Put(Slv4Do, value, "aux") \in Steps
  BY <1>1, <1>2, PutStep
<1>5. /\ Op("aux").do = "aux" /\ Select(3).do = "select" /\ Select(0).do = "select"
      /\ Poll(1).do = "poll" /\ Poll(1).reg = MstStatus
      /\ Fetch(Slv4Di).do = "fetch" /\ Fetch(Slv4Di).reg = Slv4Di
      /\ Join("aux").do = "join"
  BY DEF Op, Select, Poll, Fetch, Join
<1>6. \A r, v : Put(r, v, "aux").do = "put" /\ Put(r, v, "aux").reg = r
  BY DEF Put
<1>7. Whole(AuxRead(reg))
  <2> DEFINE s == AuxRead(reg)
  <2>1. s = <<Op("aux"), Select(3),
              Put(Slv4Addr, 128 + MagAddress, "aux"), Put(Slv4Reg, reg, "aux"),
              Put(Slv4Ctrl, 128, "aux"), Select(0), Poll(1),
              Select(3), Fetch(Slv4Di), Join("aux")>>
    BY DEF AuxRead
  <2>2. /\ s \in Seq(Steps) /\ Len(s) = 10
        /\ s[1] = Op("aux") /\ s[2] = Select(3)
        /\ s[3] = Put(Slv4Addr, 128 + MagAddress, "aux") /\ s[4] = Put(Slv4Reg, reg, "aux")
        /\ s[5] = Put(Slv4Ctrl, 128, "aux") /\ s[6] = Select(0) /\ s[7] = Poll(1)
        /\ s[8] = Select(3) /\ s[9] = Fetch(Slv4Di) /\ s[10] = Join("aux")
    BY <2>1, <1>3, <1>4
  <2> HIDE DEF s
  <2>3. /\ s[1].do = "aux" /\ s[2].do = "select" /\ s[3].do = "put" /\ s[4].do = "put"
        /\ s[5].do = "put" /\ s[6].do = "select" /\ s[7].do = "poll" /\ s[8].do = "select"
        /\ s[9].do = "fetch" /\ s[10].do = "join"
        /\ s[3].reg[1] = 3 /\ s[4].reg[1] = 3 /\ s[5].reg[1] = 3 /\ s[7].reg[1] = 0
        /\ s[9].reg[1] = 3
    BY <2>2, <1>1, <1>5, <1>6
  <2>10. ~Turns(s[3]) /\ ~Turns(s[4]) /\ ~Turns(s[5]) /\ ~Turns(s[7]) /\ ~Turns(s[9])
    BY <2>3 DEF Turns
  <2>11. Bound(s, 3)
    <3>1. 2 \in 1..(3 - 1) /\ s[2] = Select(s[3].reg[1])
      BY <2>2, <2>3
    <3>2. \A m \in (2 + 1)..(3 - 1) : ~Turns(s[m])
      BY <2>10
    <3> QED
      BY <3>1, <3>2, BoundBy
  <2>12. Bound(s, 4)
    <3>1. 2 \in 1..(4 - 1) /\ s[2] = Select(s[4].reg[1])
      BY <2>2, <2>3
    <3>2. \A m \in (2 + 1)..(4 - 1) : ~Turns(s[m])
      BY <2>10
    <3> QED
      BY <3>1, <3>2, BoundBy
  <2>13. Bound(s, 5)
    <3>1. 2 \in 1..(5 - 1) /\ s[2] = Select(s[5].reg[1])
      BY <2>2, <2>3
    <3>2. \A m \in (2 + 1)..(5 - 1) : ~Turns(s[m])
      BY <2>10
    <3> QED
      BY <3>1, <3>2, BoundBy
  <2>14. Bound(s, 7)
    <3>1. 6 \in 1..(7 - 1) /\ s[6] = Select(s[7].reg[1])
      BY <2>2, <2>3
    <3>2. \A m \in (6 + 1)..(7 - 1) : ~Turns(s[m])
      BY <2>10
    <3> QED
      BY <3>1, <3>2, BoundBy
  <2>15. Bound(s, 9)
    <3>1. 8 \in 1..(9 - 1) /\ s[8] = Select(s[9].reg[1])
      BY <2>2, <2>3
    <3>2. \A m \in (8 + 1)..(9 - 1) : ~Turns(s[m])
      BY <2>10
    <3> QED
      BY <3>1, <3>2, BoundBy
  <2>6. \A k \in 1..Len(s) : k \in {3, 4, 5, 7, 9} \/ s[k].do \in {"aux", "select", "join"}
    BY <2>2, <2>3
  <2>7. \A k \in 1..Len(s) : s[k].do \notin {"merge", "begin", "identify"}
    BY <2>2, <2>3
  <2>8. \A b \in Banks : Fit(s, b)
    BY <2>11, <2>12, <2>13, <2>14, <2>15, <2>6 DEF Fit, Accesses
  <2>9. Paired(s) /\ Late(s)
    BY <2>7 DEF Paired, Late
  <2>16. s \in Seq(Steps) /\ s[1].do # "merge"
    BY <2>2, <2>3
  <2> QED
    BY <2>16, <2>8, <2>9 DEF Whole, Made, s
<1>8. Whole(AuxWrite(reg, value))
  <2> DEFINE s == AuxWrite(reg, value)
  <2>1. s = <<Op("aux"), Select(3), Put(Slv4Do, value, "aux"),
              Put(Slv4Addr, MagAddress, "aux"), Put(Slv4Reg, reg, "aux"),
              Put(Slv4Ctrl, 128, "aux"), Select(0), Poll(1), Join("aux")>>
    BY DEF AuxWrite
  <2>2. /\ s \in Seq(Steps) /\ Len(s) = 9
        /\ s[1] = Op("aux") /\ s[2] = Select(3)
        /\ s[3] = Put(Slv4Do, value, "aux")
        /\ s[4] = Put(Slv4Addr, MagAddress, "aux") /\ s[5] = Put(Slv4Reg, reg, "aux")
        /\ s[6] = Put(Slv4Ctrl, 128, "aux") /\ s[7] = Select(0) /\ s[8] = Poll(1)
        /\ s[9] = Join("aux")
    BY <2>1, <1>3, <1>4
  <2> HIDE DEF s
  <2>3. /\ s[1].do = "aux" /\ s[2].do = "select" /\ s[3].do = "put" /\ s[4].do = "put"
        /\ s[5].do = "put" /\ s[6].do = "put" /\ s[7].do = "select" /\ s[8].do = "poll"
        /\ s[9].do = "join"
        /\ s[3].reg[1] = 3 /\ s[4].reg[1] = 3 /\ s[5].reg[1] = 3 /\ s[6].reg[1] = 3
        /\ s[8].reg[1] = 0
    BY <2>2, <1>1, <1>5, <1>6
  <2>10. ~Turns(s[3]) /\ ~Turns(s[4]) /\ ~Turns(s[5]) /\ ~Turns(s[6]) /\ ~Turns(s[8])
    BY <2>3 DEF Turns
  <2>11. Bound(s, 3)
    <3>1. 2 \in 1..(3 - 1) /\ s[2] = Select(s[3].reg[1])
      BY <2>2, <2>3
    <3>2. \A m \in (2 + 1)..(3 - 1) : ~Turns(s[m])
      BY <2>10
    <3> QED
      BY <3>1, <3>2, BoundBy
  <2>12. Bound(s, 4)
    <3>1. 2 \in 1..(4 - 1) /\ s[2] = Select(s[4].reg[1])
      BY <2>2, <2>3
    <3>2. \A m \in (2 + 1)..(4 - 1) : ~Turns(s[m])
      BY <2>10
    <3> QED
      BY <3>1, <3>2, BoundBy
  <2>13. Bound(s, 5)
    <3>1. 2 \in 1..(5 - 1) /\ s[2] = Select(s[5].reg[1])
      BY <2>2, <2>3
    <3>2. \A m \in (2 + 1)..(5 - 1) : ~Turns(s[m])
      BY <2>10
    <3> QED
      BY <3>1, <3>2, BoundBy
  <2>14. Bound(s, 6)
    <3>1. 2 \in 1..(6 - 1) /\ s[2] = Select(s[6].reg[1])
      BY <2>2, <2>3
    <3>2. \A m \in (2 + 1)..(6 - 1) : ~Turns(s[m])
      BY <2>10
    <3> QED
      BY <3>1, <3>2, BoundBy
  <2>15. Bound(s, 8)
    <3>1. 7 \in 1..(8 - 1) /\ s[7] = Select(s[8].reg[1])
      BY <2>2, <2>3
    <3>2. \A m \in (7 + 1)..(8 - 1) : ~Turns(s[m])
      BY <2>10
    <3> QED
      BY <3>1, <3>2, BoundBy
  <2>6. \A k \in 1..Len(s) : k \in {3, 4, 5, 6, 8} \/ s[k].do \in {"aux", "select", "join"}
    BY <2>2, <2>3
  <2>7. \A k \in 1..Len(s) : s[k].do \notin {"merge", "begin", "identify"}
    BY <2>2, <2>3
  <2>8. \A b \in Banks : Fit(s, b)
    BY <2>11, <2>12, <2>13, <2>14, <2>15, <2>6 DEF Fit, Accesses
  <2>9. Paired(s) /\ Late(s)
    BY <2>7 DEF Paired, Late
  <2>16. s \in Seq(Steps) /\ s[1].do # "merge"
    BY <2>2, <2>3
  <2> QED
    BY <2>16, <2>8, <2>9 DEF Whole, Made, s
<1> QED
  BY <1>7, <1>8

LEMMA MagWhole ==
    /\ \A rate \in Byte : Whole(SetMagDataRate(rate))
    /\ \A n \in Nat : Whole(MagTry(n))
<1>1. Cntl2 \in Byte /\ Wia2 \in Byte /\ 0 \in Byte
  BY DEF Cntl2, Wia2, Byte
<1>2. Whole(<<Op("hold")>>) /\ Whole(<<Op("both")>>)
  BY JoinWhole
<1>3. ASSUME NEW rate \in Byte PROVE Whole(SetMagDataRate(rate))
  <2>1. Whole(AuxWrite(Cntl2, 0)) /\ Whole(AuxWrite(Cntl2, rate))
    BY <1>1, AuxWhole
  <2>2. Whole(AuxWrite(Cntl2, 0) \o <<Op("hold")>>)
    BY <2>1, <1>2, WholeConcat
  <2>3. Whole((AuxWrite(Cntl2, 0) \o <<Op("hold")>>) \o AuxWrite(Cntl2, rate))
    BY <2>1, <2>2, WholeConcat
  <2> QED
    BY <2>3, <1>2, WholeConcat DEF SetMagDataRate
<1>4. ASSUME NEW n \in Nat PROVE Whole(MagTry(n))
  <2>1. Whole(AuxRead(Wia2)) /\ Whole(<<TryMag(n)>>)
    BY <1>1, AuxWhole, JoinWhole
  <2> QED
    BY <2>1, WholeConcat DEF MagTry
<1> QED
  BY <1>3, <1>4

LEMMA Slave0Whole ==
    Whole(<<Op("orEnd"), Select(3),
            Put(Slv0Addr, 128 + MagAddress, "end"), Put(Slv0Reg, 16, "end"),
            Put(Slv0Ctrl, 137, "end")>>)
<1> DEFINE s == <<Op("orEnd"), Select(3),
                  Put(Slv0Addr, 128 + MagAddress, "end"), Put(Slv0Reg, 16, "end"),
                  Put(Slv0Ctrl, 137, "end")>>
<1>1. /\ {Slv0Addr, Slv0Reg, Slv0Ctrl} \subseteq Cells \ {PwrMgmt1}
      /\ Slv0Addr[1] = 3 /\ Slv0Reg[1] = 3 /\ Slv0Ctrl[1] = 3
  BY CellFacts
<1>2. /\ 128 + MagAddress \in Byte /\ 16 \in Byte /\ 137 \in Byte
      /\ "end" \in {Ignore, "aux", "end"} /\ 3 \in Banks
  BY DEF MagAddress, Byte, Banks
<1>3. /\ Op("orEnd") \in Steps /\ Select(3) \in Steps
      /\ Put(Slv0Addr, 128 + MagAddress, "end") \in Steps
      /\ Put(Slv0Reg, 16, "end") \in Steps
      /\ Put(Slv0Ctrl, 137, "end") \in Steps
  BY <1>1, <1>2, FlowStep, SelectStep, PutStep
<1>4. Op("orEnd").do = "orEnd" /\ Select(3).do = "select"
  BY DEF Op, Select
<1>5. \A r, v : Put(r, v, "end").do = "put" /\ Put(r, v, "end").reg = r
  BY DEF Put
<1>6. /\ s \in Seq(Steps) /\ Len(s) = 5
      /\ s[1] = Op("orEnd") /\ s[2] = Select(3)
      /\ s[3] = Put(Slv0Addr, 128 + MagAddress, "end") /\ s[4] = Put(Slv0Reg, 16, "end")
      /\ s[5] = Put(Slv0Ctrl, 137, "end")
  BY <1>3
<1> HIDE DEF s
<1>7. /\ s[1].do = "orEnd" /\ s[2].do = "select" /\ s[3].do = "put" /\ s[4].do = "put"
      /\ s[5].do = "put" /\ s[3].reg[1] = 3 /\ s[4].reg[1] = 3 /\ s[5].reg[1] = 3
  BY <1>6, <1>1, <1>4, <1>5
<1>8. ~Turns(s[3]) /\ ~Turns(s[4])
  BY <1>7 DEF Turns
<1>9. ASSUME NEW k \in {3, 4, 5} PROVE Bound(s, k)
  <2>1. k \in Nat /\ 2 \in 1..(k - 1) /\ s[2] = Select(s[k].reg[1])
    BY <1>6, <1>7
  <2>2. \A m \in (2 + 1)..(k - 1) : ~Turns(s[m])
    BY <1>8
  <2> QED
    BY <2>1, <2>2, BoundBy
<1>10. \A k \in 1..Len(s) : k \in {3, 4, 5} \/ s[k].do \in {"orEnd", "select"}
  BY <1>6, <1>7
<1>11. \A k \in 1..Len(s) : s[k].do \notin {"merge", "begin", "identify"}
  BY <1>6, <1>7
<1>12. \A b \in Banks : Fit(s, b)
  BY <1>9, <1>10 DEF Fit, Accesses
<1>13. Paired(s) /\ Late(s)
  BY <1>11 DEF Paired, Late
<1>14. s \in Seq(Steps) /\ s[1].do # "merge"
  BY <1>6, <1>7
<1> QED
  BY <1>12, <1>13, <1>14 DEF Whole, Made, s

LEMMA SetupMagWhole == Whole(SetupMag)
<1> DEFINE slave0 == <<Op("orEnd"), Select(3),
                       Put(Slv0Addr, 128 + MagAddress, "end"), Put(Slv0Reg, 16, "end"),
                       Put(Slv0Ctrl, 137, "end")>>
<1>1. Whole(slave0)
  BY Slave0Whole
<1> HIDE DEF slave0
<1>2. 1 \in Nat /\ 8 \in Byte
  BY DEF Byte
<1>3. Whole(MagTry(1)) /\ Whole(SetMagDataRate(8))
  BY <1>2, MagWhole
<1>4. Whole(SetI2CBypass(0) \o ConfigureI2CMaster)
  BY MasterWhole, WholeConcat
<1>5. Whole((SetI2CBypass(0) \o ConfigureI2CMaster) \o EnableI2CMaster)
  BY <1>4, MasterWhole, WholeConcat
<1>6. Whole(((SetI2CBypass(0) \o ConfigureI2CMaster) \o EnableI2CMaster) \o MagTry(1))
  BY <1>3, <1>5, WholeConcat
<1>7. Whole((((SetI2CBypass(0) \o ConfigureI2CMaster) \o EnableI2CMaster) \o MagTry(1))
            \o SetMagDataRate(8))
  BY <1>3, <1>6, WholeConcat
<1>8. Whole(((((SetI2CBypass(0) \o ConfigureI2CMaster) \o EnableI2CMaster) \o MagTry(1))
            \o SetMagDataRate(8)) \o slave0)
  BY <1>1, <1>7, WholeConcat
<1> QED
  BY <1>8 DEF SetupMag, slave0

LEMMA MethodsWhole == \A method \in Methods : Whole(method)
<1>1. /\ 0 \in 0..3 /\ 1 \in 0..3 /\ 5 \in Byte /\ 300 \in Word /\ 7 \in Byte /\ 1 \in Byte
      /\ 2 \in Byte /\ Cntl2 \in Byte /\ TRUE \in BOOLEAN /\ FALSE \in BOOLEAN
  BY DEF Byte, Word, Cntl2
<1>2. /\ Whole(ReadRange(GyroSmplrtDiv)) /\ Whole(GetEvent)
      /\ Whole(WriteGyroRange(0)) /\ Whole(WriteAccelRange(1))
      /\ Whole(SetGyroRateDivisor(5)) /\ Whole(SetAccelRateDivisor(300))
  BY <1>1, ReadsWhole, RangesWhole, RatesWhole
<1>3. /\ Whole(EnableDLPF(TRUE, 7)) /\ Whole(EnableDLPF(FALSE, 7))
      /\ Whole(IntActiveLow(IntPinCfg, 1)) /\ Whole(IntActiveLow(IntEnable1, 1))
  BY <1>1, DLPFWhole, InterruptWhole
<1>4. Whole(SetMagDataRate(2)) /\ Whole(AuxRead(Cntl2)) /\ Whole(ResetI2CMaster)
  BY <1>1, MagWhole, AuxWhole, MasterWhole
<1> QED
  BY <1>2, <1>3, <1>4, Zenon DEF Methods

-----------------------------------------------------------------------------
(* begin_I2C: up to the end of the chip's reset, and from there.           *)
Configure ==
    ((((Write(PwrMgmt1, 1, 6, 0, Ignore) \o WriteGyroRange(3)) \o WriteAccelRange(3))
        \o SetGyroRateDivisor(10)) \o SetAccelRateDivisor(20)) \o <<Join("init")>>
PowerUp == <<Select(0), Fetch(WhoAmI), Op("identify")>> \o Reset
Opening == <<Op("begin"), Detect>> \o PowerUp
Rest == (Configure \o SetupMag) \o <<Op("begun"), Join("end")>>

LEMMA ConfigureMade ==
    /\ Made(Configure, 0)
    /\ Len(Configure) > 2
    /\ Configure[1] = Fetch(PwrMgmt1)
    /\ Configure[2] = Merge(PwrMgmt1, 1, 6, 0, Ignore)
    /\ Configure[3] = Select(2)
<1>0. /\ 3 \in 0..3 /\ 10 \in Byte /\ 20 \in Word /\ 0 \in Byte /\ Ignore \in {Ignore, "end"}
      /\ 1 \in 1..3 /\ 6 \in 0..7 /\ 1 + 6 <= 8
  BY DEF Byte, Word
<1>1. PwrMgmt1 \in Cells /\ PwrMgmt1[1] = 0
  BY CellFacts
<1> DEFINE w == Write(PwrMgmt1, 1, 6, 0, Ignore)
<1> DEFINE q2 == w \o WriteGyroRange(3)
<1> DEFINE q3 == q2 \o WriteAccelRange(3)
<1> DEFINE q4 == q3 \o SetGyroRateDivisor(10)
<1> DEFINE q5 == q4 \o SetAccelRateDivisor(20)
<1>2. Made(w, 0)
  BY <1>0, <1>1, WriteMade
<1>3. /\ Whole(WriteGyroRange(3)) /\ Whole(WriteAccelRange(3))
      /\ Whole(SetGyroRateDivisor(10)) /\ Whole(SetAccelRateDivisor(20))
      /\ Whole(<<Join("init")>>)
  BY <1>0, RangesWhole, RatesWhole, JoinWhole
<1>4. \A s, t : Made(s, 0) /\ Whole(t) => Made(s \o t, 0)
  BY MadeConcat, WholeClosed
<1>5. w = <<Fetch(PwrMgmt1), Merge(PwrMgmt1, 1, 6, 0, Ignore)>>
  BY DEF Write
<1>6. w \in Seq(Steps) /\ Len(w) = 2 /\ w[1] = Fetch(PwrMgmt1)
      /\ w[2] = Merge(PwrMgmt1, 1, 6, 0, Ignore)
  <2>1. w \in Seq(Steps)
    BY <1>2 DEF Made
  <2> QED
    BY <2>1, <1>5
<1> HIDE DEF w
<1>7. Made(q2, 0)
  BY <1>2, <1>3, <1>4
<1>8. q2[1] = w[1] /\ q2[2] = w[2] /\ q2[3] = Select(2) /\ Len(q2) > 2
  <2> DEFINE u == <<Select(2)>> \o Write(GyroConfig1, 2, 1, 3, Ignore)
  <2> DEFINE g == u \o <<Cache("gyro", 3), Select(0)>>
  <2>1. g = WriteGyroRange(3) /\ g \in Seq(Steps)
    BY <1>3, WholeClosed DEF WriteGyroRange
  <2>2. /\ <<Select(2)>> \in Seq(Steps) /\ Write(GyroConfig1, 2, 1, 3, Ignore) \in Seq(Steps)
        /\ <<Cache("gyro", 3), Select(0)>> \in Seq(Steps)
    <3>1. GyroConfig1 \in Cells /\ GyroConfig1 # PwrMgmt1 /\ 2 \in Banks /\ 3 \in Byte
          /\ 2 \in 1..3 /\ 1 \in 0..7 /\ 2 + 1 <= 8
      BY CellFacts DEF Banks, Byte
    <3>2. Write(GyroConfig1, 2, 1, 3, Ignore) \in Seq(Steps)
      BY <3>1, <1>0, WriteMade DEF Made
    <3>3. <<Cache("gyro", 3), Select(0)>> \in Seq(Steps)
      BY <1>0, CacheSelect, WholeClosed
    <3> QED
      BY <3>1, <3>2, <3>3, SelectStep
  <2>3. u \in Seq(Steps) /\ Len(u) >= 1 /\ u[1] = Select(2)
    <3> HIDE DEF u
    <3> DEFINE s1 == <<Select(2)>>
    <3> DEFINE t == Write(GyroConfig1, 2, 1, 3, Ignore)
    <3>1. Len(s1) = 1 /\ s1[1] = Select(2) /\ s1 \in Seq(Steps) /\ t \in Seq(Steps)
      BY <2>2
    <3>2. u = s1 \o t
      BY DEF u
    <3> HIDE DEF s1, t
    <3>3. /\ s1 \o t \in Seq(Steps) /\ Len(t) \in Nat /\ Len(s1 \o t) = Len(s1) + Len(t)
          /\ \A i \in 1..Len(s1) : (s1 \o t)[i] = s1[i]
      BY <3>1, ConcatIndex
    <3>4. 1 \in 1..Len(s1)
      BY <3>1
    <3>5. u[1] = s1[1]
      BY <3>2, <3>3, <3>4
    <3> QED
      BY <3>1, <3>2, <3>3, <3>5
  <2> HIDE DEF u
  <2>4. Len(g) >= 1 /\ g[1] = Select(2)
    BY <2>2, <2>3, ConcatIndex
  <2> HIDE DEF g
  <2>5. q2 = w \o g
    BY <2>1
  <2> HIDE DEF q2
  <2>6. /\ Len(q2) = Len(w) + Len(g) /\ Len(g) \in Nat
        /\ \A i \in 1..Len(w) : q2[i] = w[i]
        /\ \A i \in 1..Len(g) : q2[Len(w) + i] = g[i]
    BY <2>1, <2>5, <1>6, ConcatIndex
  <2>7. 1 \in 1..Len(w) /\ 2 \in 1..Len(w) /\ 1 \in 1..Len(g) /\ Len(w) + 1 = 3
    BY <2>4, <2>6, <1>6
  <2> QED
    BY <2>4, <2>6, <2>7
<1> HIDE DEF q2
<1>9. ASSUME NEW s, NEW t, Made(s, 0), Whole(t), Len(s) > 2
      PROVE  /\ Made(s \o t, 0) /\ Len(s \o t) > 2
             /\ (s \o t)[1] = s[1] /\ (s \o t)[2] = s[2] /\ (s \o t)[3] = s[3]
  <2>1. s \in Seq(Steps) /\ t \in Seq(Steps)
    BY <1>9, WholeClosed DEF Made
  <2>2. /\ Len(s) \in Nat /\ Len(t) \in Nat /\ Len(s \o t) = Len(s) + Len(t)
        /\ \A i \in 1..Len(s) : (s \o t)[i] = s[i]
    BY <2>1, ConcatIndex
  <2> QED
    BY <1>4, <1>9, <2>2
<1>10. /\ Made(q3, 0) /\ Len(q3) > 2
       /\ q3[1] = q2[1] /\ q3[2] = q2[2] /\ q3[3] = q2[3]
  BY <1>3, <1>7, <1>8, <1>9
<1> HIDE DEF q3
<1>11. /\ Made(q4, 0) /\ Len(q4) > 2
       /\ q4[1] = q2[1] /\ q4[2] = q2[2] /\ q4[3] = q2[3]
  BY <1>3, <1>10, <1>9
<1> HIDE DEF q4
<1>12. /\ Made(q5, 0) /\ Len(q5) > 2
       /\ q5[1] = q2[1] /\ q5[2] = q2[2] /\ q5[3] = q2[3]
  BY <1>3, <1>11, <1>9
<1> HIDE DEF q5
<1> DEFINE q6 == q5 \o <<Join("init")>>
<1>13. /\ Made(q6, 0) /\ Len(q6) > 2
       /\ q6[1] = q2[1] /\ q6[2] = q2[2] /\ q6[3] = q2[3]
  BY <1>3, <1>12, <1>9
<1>14. Configure = q6
  BY DEF Configure, q5, q4, q3, q2, w
<1> HIDE DEF q6
<1> QED
  BY <1>6, <1>8, <1>13, <1>14

LEMMA ResetElements ==
    /\ Reset \in Seq(Steps) /\ Len(Reset) = 4
    /\ Reset[1] = Select(0)
    /\ Reset[2] = Fetch(PwrMgmt1)
    /\ Reset[3] = Merge(PwrMgmt1, 1, 7, 1, Ignore)
    /\ Reset[4] = Cleared(PwrMgmt1, 7)
<1> DEFINE s == <<Select(0)>>
<1> DEFINE w == Write(PwrMgmt1, 1, 7, 1, Ignore)
<1> DEFINE u == s \o w
<1> DEFINE c == <<Cleared(PwrMgmt1, 7)>>
<1>1. PwrMgmt1 \in Cells /\ 1 \in Byte /\ 0 \in Banks /\ Ignore \in {Ignore, "end"}
      /\ 1 \in 1..3 /\ 7 \in 0..7 /\ 1 + 7 <= 8
  BY CellFacts DEF Byte, Banks
<1>2. Select(0) \in Steps /\ Fetch(PwrMgmt1) \in Steps /\ Cleared(PwrMgmt1, 7) \in Steps
      /\ Merge(PwrMgmt1, 1, 7, 1, Ignore) \in Steps
  BY <1>1, SelectStep, FetchStep, FlowStep, MergeStep
<1>3. s \in Seq(Steps) /\ Len(s) = 1 /\ s[1] = Select(0)
  BY <1>2
<1>4. w \in Seq(Steps) /\ Len(w) = 2 /\ w[1] = Fetch(PwrMgmt1)
      /\ w[2] = Merge(PwrMgmt1, 1, 7, 1, Ignore)
  BY <1>2 DEF Write
<1>5. c \in Seq(Steps) /\ Len(c) = 1 /\ c[1] = Cleared(PwrMgmt1, 7)
  BY <1>2
<1> HIDE DEF s, w, c
<1>6. /\ u \in Seq(Steps) /\ Len(u) = 3 /\ u[1] = Select(0) /\ u[2] = Fetch(PwrMgmt1)
      /\ u[3] = Merge(PwrMgmt1, 1, 7, 1, Ignore)
  <2>1. /\ u \in Seq(Steps) /\ Len(u) = Len(s) + Len(w)
        /\ \A i \in 1..Len(s) : u[i] = s[i]
        /\ \A i \in 1..Len(w) : u[Len(s) + i] = w[i]
    BY <1>3, <1>4, ConcatIndex
  <2> HIDE DEF u
  <2>2. u[1] = s[1] /\ u[1 + 1] = w[1] /\ u[1 + 2] = w[2]
    BY <2>1, <1>3, <1>4
  <2> QED
    BY <2>1, <2>2, <1>3, <1>4
<1>7. Reset = u \o c
  BY DEF Reset, s, w, c
<1> HIDE DEF u
<1>8. /\ u \o c \in Seq(Steps) /\ Len(u \o c) = Len(u) + Len(c)
      /\ \A i \in 1..Len(u) : (u \o c)[i] = u[i]
      /\ \A i \in 1..Len(c) : (u \o c)[Len(u) + i] = c[i]
  BY <1>5, <1>6, ConcatIndex
<1>9. Reset[1] = u[1] /\ Reset[2] = u[2] /\ Reset[3] = u[3] /\ Reset[3 + 1] = c[1]
  BY <1>5, <1>6, <1>7, <1>8
<1> QED
  BY <1>5, <1>6, <1>7, <1>8, <1>9

LEMMA FrontElements ==
    /\ Opening \in Seq(Steps) /\ Len(Opening) = 9
    /\ Opening[1] = Op("begin") /\ Opening[2] = Detect
    /\ Opening[3] = Select(0) /\ Opening[4] = Fetch(WhoAmI) /\ Opening[5] = Op("identify")
    /\ Opening[6] = Select(0) /\ Opening[7] = Fetch(PwrMgmt1)
    /\ Opening[8] = Merge(PwrMgmt1, 1, 7, 1, Ignore)
    /\ Opening[9] = Cleared(PwrMgmt1, 7)
    /\ <<Op("begin"), Detect>> \in Seq(Steps) /\ PowerUp \in Seq(Steps)
<1> DEFINE a == <<Op("begin"), Detect>>
<1> DEFINE b == <<Select(0), Fetch(WhoAmI), Op("identify")>>
<1>1. WhoAmI \in Cells /\ 0 \in Banks
  BY CellFacts DEF Banks
<1>2. /\ Op("begin") \in Steps /\ Detect \in Steps /\ Select(0) \in Steps
      /\ Fetch(WhoAmI) \in Steps /\ Op("identify") \in Steps
  BY <1>1, SelectStep, FetchStep, FlowStep
<1>3. a \in Seq(Steps) /\ Len(a) = 2 /\ a[1] = Op("begin") /\ a[2] = Detect
  BY <1>2
<1>4. b \in Seq(Steps) /\ Len(b) = 3 /\ b[1] = Select(0) /\ b[2] = Fetch(WhoAmI)
      /\ b[3] = Op("identify")
  BY <1>2
<1>5. PowerUp = b \o Reset /\ Opening = a \o PowerUp
  BY DEF PowerUp, Opening
<1> HIDE DEF a, b
<1>6. /\ b \o Reset \in Seq(Steps) /\ Len(b \o Reset) = Len(b) + Len(Reset)
      /\ \A i \in 1..Len(b) : (b \o Reset)[i] = b[i]
      /\ \A i \in 1..Len(Reset) : (b \o Reset)[Len(b) + i] = Reset[i]
  BY <1>4, ResetElements, ConcatIndex
<1>7. PowerUp \in Seq(Steps) /\ Len(PowerUp) = 7
  <2>1. PowerUp \in Seq(Steps) /\ Len(PowerUp) = Len(b) + Len(Reset)
    BY <1>5, <1>6
  <2>2. Len(b) = 3 /\ Len(Reset) = 4
    BY <1>4, ResetElements
  <2> QED
    BY <2>1, <2>2
<1>8. /\ PowerUp[1] = b[1] /\ PowerUp[2] = b[2] /\ PowerUp[3] = b[3]
      /\ PowerUp[3 + 1] = Reset[1] /\ PowerUp[3 + 2] = Reset[2] /\ PowerUp[3 + 3] = Reset[3]
      /\ PowerUp[3 + 4] = Reset[4]
  <2>1. (\A i \in 1..3 : PowerUp[i] = b[i]) /\ (\A i \in 1..4 : PowerUp[3 + i] = Reset[i])
    <3>1. Len(b) = 3 /\ Len(Reset) = 4
      BY <1>4, ResetElements
    <3> QED
      BY <1>5, <1>6, <3>1
  <2>2. 1 \in 1..3 /\ 2 \in 1..3 /\ 3 \in 1..3 /\ 1 \in 1..4 /\ 2 \in 1..4 /\ 3 \in 1..4 /\ 4 \in 1..4
    OBVIOUS
  <2> QED
    BY <2>1, <2>2, Zenon
<1>9. /\ a \o PowerUp \in Seq(Steps) /\ Len(a \o PowerUp) = Len(a) + Len(PowerUp)
      /\ \A i \in 1..Len(a) : (a \o PowerUp)[i] = a[i]
      /\ \A i \in 1..Len(PowerUp) : (a \o PowerUp)[Len(a) + i] = PowerUp[i]
  BY <1>3, <1>7, ConcatIndex
<1>10. /\ Opening[1] = a[1] /\ Opening[2] = a[2]
       /\ Opening[2 + 1] = PowerUp[1] /\ Opening[2 + 2] = PowerUp[2] /\ Opening[2 + 3] = PowerUp[3]
       /\ Opening[2 + 4] = PowerUp[4] /\ Opening[2 + 5] = PowerUp[5] /\ Opening[2 + 6] = PowerUp[6]
       /\ Opening[2 + 7] = PowerUp[7]
  <2>1. (\A i \in 1..2 : Opening[i] = a[i]) /\ (\A i \in 1..7 : Opening[2 + i] = PowerUp[i])
    <3>1. Len(a) = 2 /\ Len(PowerUp) = 7
      BY <1>3, <1>7
    <3> QED
      BY <1>5, <1>9, <3>1
  <2>2. 1 \in 1..2 /\ 2 \in 1..2 /\ \A i \in {1, 2, 3, 4, 5, 6, 7} : i \in 1..7
    OBVIOUS
  <2> QED
    BY <2>1, <2>2, Zenon
<1>11. Opening \in Seq(Steps) /\ Len(Opening) = 9
  <2>1. Opening \in Seq(Steps) /\ Len(Opening) = Len(a) + Len(PowerUp)
    BY <1>5, <1>9
  <2>2. Len(a) = 2 /\ Len(PowerUp) = 7
    BY <1>3, <1>7
  <2> QED
    BY <2>1, <2>2
<1>12. PowerUp[4] = Reset[1] /\ PowerUp[5] = Reset[2] /\ PowerUp[6] = Reset[3]
       /\ PowerUp[7] = Reset[4]
  BY <1>8
<1>13. /\ Opening[1] = Op("begin") /\ Opening[2] = Detect
       /\ Opening[3] = Select(0) /\ Opening[4] = Fetch(WhoAmI) /\ Opening[5] = Op("identify")
  BY <1>3, <1>4, <1>8, <1>10
<1>14. /\ Opening[6] = Select(0) /\ Opening[7] = Fetch(PwrMgmt1)
       /\ Opening[8] = Merge(PwrMgmt1, 1, 7, 1, Ignore)
       /\ Opening[9] = Cleared(PwrMgmt1, 7)
  BY <1>10, <1>12, ResetElements
<1> QED
  BY <1>3, <1>7, <1>11, <1>13, <1>14 DEF a

LEMMA FrontFits ==
    /\ \A b \in Banks : Fit(Opening, b)
    /\ \A b \in Banks : Leads(Opening, b, 0)
    /\ Paired(Opening)
<1> DEFINE s == Opening
<1>1. /\ Op("begin").do = "begin" /\ Detect.do = "detect" /\ Select(0).do = "select"
      /\ Fetch(WhoAmI).do = "fetch" /\ Fetch(WhoAmI).reg[1] = 0
      /\ Op("identify").do = "identify"
      /\ Fetch(PwrMgmt1).do = "fetch" /\ Fetch(PwrMgmt1).reg[1] = 0
      /\ Merge(PwrMgmt1, 1, 7, 1, Ignore).do = "merge"
      /\ Merge(PwrMgmt1, 1, 7, 1, Ignore).reg = PwrMgmt1 /\ PwrMgmt1[1] = 0
      /\ Cleared(PwrMgmt1, 7).do = "cleared" /\ Cleared(PwrMgmt1, 7).reg[1] = 0
  BY CellFacts DEF Op, Detect, Select, Fetch, Merge, Cleared
<1>2. /\ s[1].do = "begin" /\ s[2].do = "detect" /\ s[3].do = "select" /\ s[4].do = "fetch"
      /\ s[5].do = "identify" /\ s[6].do = "select" /\ s[7].do = "fetch" /\ s[8].do = "merge"
      /\ s[9].do = "cleared"
      /\ s[4].reg[1] = 0 /\ s[7].reg[1] = 0 /\ s[8].reg[1] = 0 /\ s[9].reg[1] = 0
      /\ s[8].reg = PwrMgmt1
  BY <1>1, FrontElements
<1>3. s[3] = Select(0) /\ s[6] = Select(0) /\ s[7] = Fetch(PwrMgmt1) /\ Len(s) = 9
  BY FrontElements
<1> HIDE DEF s
<1>4. ~Turns(s[7]) /\ ~Turns(s[8]) /\ ~Turns(s[9])
  BY <1>2 DEF Turns
<1>5. Bound(s, 4)
  <2>1. 4 \in Nat /\ 3 \in 1..(4 - 1) /\ s[3] = Select(s[4].reg[1])
    BY <1>2, <1>3
  <2> QED
    BY <2>1, BoundBy
<1>6. ASSUME NEW k \in {7, 8, 9} PROVE Bound(s, k)
  <2>1. k \in Nat /\ 6 \in 1..(k - 1) /\ s[6] = Select(s[k].reg[1])
    BY <1>2, <1>3
  <2>2. \A m \in (6 + 1)..(k - 1) : ~Turns(s[m])
    BY <1>4
  <2> QED
    BY <2>1, <2>2, BoundBy
<1>7. \A k \in 1..Len(s) :
        k \in {4, 7, 8, 9} \/ s[k].do \in {"begin", "detect", "select", "identify"}
  BY <1>2, <1>3
<1>8. \A b \in Banks : Fit(s, b)
  BY <1>5, <1>6, <1>7 DEF Fit, Accesses
<1>9. \A b \in Banks : Leads(s, b, 0)
  BY <1>3, <1>4 DEF Leads
<1>10. Paired(s)
  BY <1>2, <1>3 DEF Paired
<1> QED
  BY <1>8, <1>9, <1>10 DEF s

LEMMA RestMade ==
    /\ Made(Rest, 0)
    /\ Len(Rest) > 2
    /\ Rest[1] = Fetch(PwrMgmt1)
    /\ Rest[2] = Merge(PwrMgmt1, 1, 6, 0, Ignore)
    /\ Rest[3] = Select(2)
<1> DEFINE e == <<Op("begun"), Join("end")>>
<1>1. Whole(e)
  <2>1. Whole(<<Op("begun")>>) /\ Whole(<<Join("end")>>)
    BY JoinWhole
  <2>2. <<Op("begun"), Join("end")>> = <<Op("begun")>> \o <<Join("end")>>
    OBVIOUS
  <2> QED
    BY <2>1, <2>2, WholeConcat
<1> HIDE DEF e
<1>2. ASSUME NEW s, NEW t, Made(s, 0), Whole(t), Len(s) > 2
      PROVE  /\ Made(s \o t, 0) /\ Len(s \o t) > 2
             /\ (s \o t)[1] = s[1] /\ (s \o t)[2] = s[2] /\ (s \o t)[3] = s[3]
  <2>1. s \in Seq(Steps) /\ t \in Seq(Steps)
    BY <1>2, WholeClosed DEF Made
  <2>2. /\ Len(s) \in Nat /\ Len(t) \in Nat /\ Len(s \o t) = Len(s) + Len(t)
        /\ \A i \in 1..Len(s) : (s \o t)[i] = s[i]
    BY <2>1, ConcatIndex
  <2>3. Made(s \o t, 0)
    BY <2>1, <1>2, MadeConcat
  <2> QED
    BY <1>2, <2>2, <2>3
<1> DEFINE m == Configure \o SetupMag
<1>3. /\ Made(m, 0) /\ Len(m) > 2
      /\ m[1] = Configure[1] /\ m[2] = Configure[2] /\ m[3] = Configure[3]
  BY <1>2, ConfigureMade, SetupMagWhole
<1>4. Rest = m \o e
  BY DEF Rest, e
<1> HIDE DEF m
<1>5. /\ Made(m \o e, 0) /\ Len(m \o e) > 2
      /\ (m \o e)[1] = m[1] /\ (m \o e)[2] = m[2] /\ (m \o e)[3] = m[3]
  BY <1>1, <1>2, <1>3
<1> QED
  BY <1>3, <1>4, <1>5, ConfigureMade

LEMMA Regroup ==
    ASSUME NEW s \in Seq(Steps), NEW t \in Seq(Steps), NEW u \in Seq(Steps)
    PROVE  /\ t \o u \in Seq(Steps)
           /\ (s \o t) \o u = s \o (t \o u)
<1>1. t \o u \in Seq(Steps)
  BY ConcatProperties, Zenon
<1>2. (s \o t) \o u = s \o (t \o u)
  BY ConcatAssociative
<1> QED
  BY <1>1, <1>2

LEMMA BeginIsFrontRest == BeginI2C = Opening \o Rest
<1> DEFINE a == <<Op("begin"), Detect>>
<1> DEFINE q1 == Write(PwrMgmt1, 1, 6, 0, Ignore)
<1> DEFINE q2 == WriteGyroRange(3)
<1> DEFINE q3 == WriteAccelRange(3)
<1> DEFINE q4 == SetGyroRateDivisor(10)
<1> DEFINE q5 == SetAccelRateDivisor(20)
<1> DEFINE q6 == <<Join("init")>>
<1> DEFINE e == <<Op("begun"), Join("end")>>
<1> DEFINE p == PowerUp
<1> DEFINE mag == SetupMag
<1>1. a \in Seq(Steps) /\ p \in Seq(Steps)
  BY FrontElements
<1>2. q2 \in Seq(Steps) /\ q3 \in Seq(Steps) /\ q4 \in Seq(Steps) /\ q5 \in Seq(Steps)
      /\ q6 \in Seq(Steps) /\ mag \in Seq(Steps)
  <2>1. 3 \in 0..3 /\ 10 \in Byte /\ 20 \in Word
    BY DEF Byte, Word
  <2> QED
    BY <2>1, RangesWhole, RatesWhole, JoinWhole, SetupMagWhole, WholeClosed
<1>3. q1 \in Seq(Steps) /\ e \in Seq(Steps)
  <2>1. Fetch(PwrMgmt1) \in Steps /\ Merge(PwrMgmt1, 1, 6, 0, Ignore) \in Steps
    <3>1. PwrMgmt1 \in Cells /\ 0 \in Byte /\ Ignore \in {Ignore, "end"}
          /\ 1 \in 1..3 /\ 6 \in 0..7 /\ 1 + 6 <= 8
      BY CellFacts DEF Byte
    <3> QED
      BY <3>1, FetchStep, MergeStep
  <2>2. Op("begun") \in Steps /\ Join("end") \in Steps
    BY FlowStep
  <2> QED
    BY <2>1, <2>2 DEF Write
<1>4. InitChip = (((((p \o q1) \o q2) \o q3) \o q4) \o q5) \o q6
  BY DEF InitChip, PowerUp
<1>5. Configure = ((((q1 \o q2) \o q3) \o q4) \o q5) \o q6
  BY DEF Configure
<1>6. BeginI2C = ((a \o InitChip) \o mag) \o e
  BY DEF BeginI2C
<1>7. Opening = a \o p /\ Rest = (Configure \o mag) \o e
  BY DEF Opening, Rest
<1> HIDE DEF a, q1, q2, q3, q4, q5, q6, e, p, mag
<1> DEFINE r2 == q1 \o q2
<1> DEFINE r3 == r2 \o q3
<1> DEFINE r4 == r3 \o q4
<1> DEFINE r5 == r4 \o q5
<1>10. r2 \in Seq(Steps) /\ (p \o q1) \o q2 = p \o r2
  <2>1. p \in Seq(Steps) /\ q1 \in Seq(Steps) /\ q2 \in Seq(Steps)
    BY <1>1, <1>2, <1>3
  <2> QED
    BY <2>1, Regroup
<1> HIDE DEF r2
<1>11. r3 \in Seq(Steps) /\ (p \o r2) \o q3 = p \o r3
  <2>1. p \in Seq(Steps) /\ r2 \in Seq(Steps) /\ q3 \in Seq(Steps)
    BY <1>1, <1>2, <1>10
  <2> QED
    BY <2>1, Regroup
<1> HIDE DEF r3
<1>12. r4 \in Seq(Steps) /\ (p \o r3) \o q4 = p \o r4
  <2>1. p \in Seq(Steps) /\ r3 \in Seq(Steps) /\ q4 \in Seq(Steps)
    BY <1>1, <1>2, <1>11
  <2> QED
    BY <2>1, Regroup
<1> HIDE DEF r4
<1>13. r5 \in Seq(Steps) /\ (p \o r4) \o q5 = p \o r5
  <2>1. p \in Seq(Steps) /\ r4 \in Seq(Steps) /\ q5 \in Seq(Steps)
    BY <1>1, <1>2, <1>12
  <2> QED
    BY <2>1, Regroup
<1> HIDE DEF r5
<1>14. Configure \in Seq(Steps) /\ (p \o r5) \o q6 = p \o Configure
  <2>1. Configure = r5 \o q6
    BY <1>5 DEF r2, r3, r4, r5
  <2>2. p \in Seq(Steps) /\ r5 \in Seq(Steps) /\ q6 \in Seq(Steps)
    BY <1>1, <1>2, <1>13
  <2> QED
    BY <2>1, <2>2, Regroup
<1>15. InitChip = p \o Configure
  BY <1>4, <1>10, <1>11, <1>12, <1>13, <1>14
<1>16. a \o (p \o Configure) = (a \o p) \o Configure /\ a \o p \in Seq(Steps)
  BY <1>1, <1>14, Regroup, Zenon
<1>17. ((a \o p) \o Configure) \o mag = (a \o p) \o (Configure \o mag)
       /\ Configure \o mag \in Seq(Steps)
  BY <1>2, <1>14, <1>16, Regroup, ZenonT(30)
<1>18. ((a \o p) \o (Configure \o mag)) \o e = (a \o p) \o ((Configure \o mag) \o e)
  BY <1>3, <1>16, <1>17, Regroup, Zenon
<1> QED
  BY <1>6, <1>7, <1>15, <1>16, <1>17, <1>18

LEMMA BeginShape ==
    /\ BeginI2C \in Seq(Steps) /\ Len(BeginI2C) \in Nat /\ Len(BeginI2C) >= 12
    /\ \A k \in 1..9 : BeginI2C[k] = Opening[k]
    /\ BeginI2C[10] = Fetch(PwrMgmt1)
    /\ BeginI2C[11] = Merge(PwrMgmt1, 1, 6, 0, Ignore)
    /\ BeginI2C[12] = Select(2)
    /\ Sound(BeginI2C) /\ Paired(BeginI2C) /\ \A b \in Banks : Fit(BeginI2C, b)
    /\ \A k \in 10..Len(BeginI2C) :
          /\ BeginI2C[k].do \notin {"begin", "identify"}
          /\ BeginI2C[k].do = "merge" /\ BeginI2C[k].reg = PwrMgmt1 =>
                BeginI2C[k].bits = 1 /\ BeginI2C[k].shift = 6 /\ BeginI2C[k].value = 0
<1>1. Opening \in Seq(Steps) /\ Rest \in Seq(Steps) /\ Len(Opening) = 9
      /\ Paired(Rest) /\ Late(Rest) /\ Fit(Rest, 0) /\ Len(Rest) > 2 /\ Rest[1].do # "merge"
  BY RestMade, FrontElements DEF Made
<1> DEFINE s == Opening \o Rest
<1>2. /\ s \in Seq(Steps) /\ Len(Rest) \in Nat /\ Len(s) = Len(Opening) + Len(Rest)
      /\ \A i \in 1..Len(Opening) : s[i] = Opening[i]
      /\ \A i \in 1..Len(Rest) : s[Len(Opening) + i] = Rest[i]
  BY <1>1, ConcatIndex
<1>3. \A b \in Banks : Fit(s, b)
  BY <1>1, FrontFits, FitConcat
<1>4. Paired(s)
  BY <1>1, FrontFits, PairedConcat
<1> HIDE DEF s
<1>5. Sound(s)
  BY <1>3 DEF Fit, Sound, Banks
<1>6. /\ \A i \in 1..9 : s[i] = Opening[i]
      /\ \A i \in 1..Len(Rest) : s[9 + i] = Rest[i]
      /\ Len(s) = 9 + Len(Rest) /\ Len(Rest) \in Nat /\ Len(Rest) > 2
  BY <1>1, <1>2
<1>7. s[10] = Rest[1] /\ s[11] = Rest[2] /\ s[12] = Rest[3]
  <2>1. 1 \in 1..Len(Rest) /\ 2 \in 1..Len(Rest) /\ 3 \in 1..Len(Rest)
    BY <1>6
  <2>2. s[9 + 1] = Rest[1] /\ s[9 + 2] = Rest[2] /\ s[9 + 3] = Rest[3]
    BY <2>1, <1>6
  <2> QED
    BY <2>2
<1>8. \A k \in 10..Len(s) :
          /\ s[k].do \notin {"begin", "identify"}
          /\ s[k].do = "merge" /\ s[k].reg = PwrMgmt1 =>
                s[k].bits = 1 /\ s[k].shift = 6 /\ s[k].value = 0
  <2> TAKE k \in 10..Len(s)
  <2>1. k - 9 \in 1..Len(Rest) /\ 9 + (k - 9) = k
    BY <1>6
  <2>2. s[k] = Rest[k - 9]
    BY <2>1, <1>6
  <2> QED
    BY <2>1, <2>2, <1>1 DEF Late
<1>9. BeginI2C = s
  BY BeginIsFrontRest DEF s
<1>10. s \in Seq(Steps) /\ Len(s) \in Nat /\ Len(s) >= 12
  BY <1>2, <1>6
<1>11. s[10] = Fetch(PwrMgmt1) /\ s[11] = Merge(PwrMgmt1, 1, 6, 0, Ignore) /\ s[12] = Select(2)
  BY <1>7, RestMade
<1>12. \A k \in 1..9 : s[k] = Opening[k]
  BY <1>6
<1> QED
  BY <1>3, <1>4, <1>5, <1>8, <1>9, <1>10, <1>11, <1>12

-----------------------------------------------------------------------------
(* What a sequence that is sound leaves when its first i steps are gone.   *)
LEMMA FromOn ==
    ASSUME NEW s \in Seq(Steps), NEW i \in 1..Len(s), NEW t \in Seq(Steps),
           Len(t) = Len(s) - i, \A k \in 1..Len(t) : t[k] = s[k + i],
           Sound(s), NEW k \in 1..Len(t), Accesses(t[k])
    PROVE  \/ Bound(t, k)
           \/ /\ Loose(t, k)
              /\ \/ \E j \in 1..i : /\ s[j] = Select(t[k].reg[1])
                                    /\ \A m \in (j + 1)..i : ~Turns(s[m])
                 \/ Loose(s, k + i) /\ \A m \in 1..i : ~Turns(s[m])
<1>0. Len(s) \in Nat /\ Len(t) \in Nat /\ i \in Nat /\ k \in Nat
  BY LenProperties
<1>1. k + i \in 1..Len(s) /\ t[k] = s[k + i]
  BY <1>0
<1>2. \A m \in 1..(k - 1) : m + i \in (i + 1)..(k + i - 1) /\ t[m] = s[m + i]
  BY <1>0
<1>3. Bound(s, k + i) \/ Loose(s, k + i)
  BY <1>1 DEF Sound
<1>4. CASE Loose(s, k + i)
  <2>1. \A m \in 1..(k - 1) : ~Turns(t[m])
    <3> TAKE m \in 1..(k - 1)
    <3>1. m + i \in 1..(k + i - 1)
      BY <1>0
    <3> QED
      BY <3>1, <1>2, <1>4, SMTT(20) DEF Loose
  <2>2. \A m \in 1..i : ~Turns(s[m])
    <3> TAKE m \in 1..i
    <3>1. m \in 1..(k + i - 1)
      BY <1>0
    <3> QED
      BY <3>1, <1>4 DEF Loose
  <2> QED
    BY <2>1, <2>2, <1>4 DEF Loose
<1>5. CASE Bound(s, k + i)
  <2>1. PICK j \in 1..(k + i - 1) : /\ s[j] = Select(t[k].reg[1])
                                    /\ \A m \in (j + 1)..(k + i - 1) : ~Turns(s[m])
    BY <1>1, <1>5, SMTT(20) DEF Bound
  <2>2. CASE j > i
    <3>1. j - i \in 1..(k - 1) /\ (j - i) + i = j
      BY <2>2, <1>0
    <3>2. t[j - i] = Select(t[k].reg[1])
      BY <3>1, <1>2, <2>1
    <3>3. \A m \in (j - i + 1)..(k - 1) : ~Turns(t[m])
      <4> TAKE m \in (j - i + 1)..(k - 1)
      <4>1. m + i \in (j + 1)..(k + i - 1) /\ m \in 1..(k - 1)
        BY <3>1, <1>0
      <4> QED
        BY <4>1, <1>2, <2>1
    <3> QED
      BY <3>1, <3>2, <3>3 DEF Bound
  <2>3. CASE ~(j > i)
    <3>1. j \in 1..i
      BY <2>3, <1>0
    <3>2. \A m \in (j + 1)..i : ~Turns(s[m])
      <4> TAKE m \in (j + 1)..i
      <4>1. m \in (j + 1)..(k + i - 1)
        BY <1>0
      <4> QED
        BY <4>1, <2>1
    <3>3. \A m \in 1..(k - 1) : ~Turns(t[m])
      <4> TAKE m \in 1..(k - 1)
      <4>1. m + i \in (j + 1)..(k + i - 1)
        BY <3>1, <1>0
      <4> QED
        BY <4>1, <1>2, <2>1
    <3> QED
      BY <3>1, <3>2, <3>3, <2>1 DEF Loose
  <2> QED
    BY <2>2, <2>3
<1> QED
  BY <1>3, <1>4, <1>5

Marks(x) == x.do \in {"join", "tryMag", "begin"}

LEMMA SuffixKept ==
    ASSUME NEW s \in Seq(Steps), NEW i \in 1..Len(s), NEW t \in Seq(Steps),
           Len(t) = Len(s) - i, \A k \in 1..Len(t) : t[k] = s[k + i],
           Sound(s), Paired(s)
    PROVE  /\ Sound(t) /\ Paired(t)
           /\ Late(s) => Late(t)
           /\ Marks(s[i]) => Closed(t) /\ (Len(t) > 0 => t[1].do # "merge")
<1>0. Len(s) \in Nat /\ Len(t) \in Nat /\ i \in Nat
  BY LenProperties
<1>1. Sound(t)
  BY FromOn DEF Sound
<1>2. Paired(t)
  <2> SUFFICES ASSUME NEW k \in 2..Len(t), t[k].do = "merge"
               PROVE  t[k - 1] = Fetch(t[k].reg)
    BY DEF Paired
  <2>1. k + i \in 2..Len(s) /\ t[k] = s[k + i] /\ t[k - 1] = s[k + i - 1]
    <3>1. k - 1 \in 1..Len(t) /\ k \in 1..Len(t) /\ k - 1 + i = k + i - 1 /\ k + i \in 2..Len(s)
      BY <1>0
    <3> QED
      BY <3>1
  <2> QED
    BY <2>1 DEF Paired
<1>3. Late(s) => Late(t)
  <2>1. \A k \in 1..Len(t) : k + i \in 1..Len(s) /\ t[k] = s[k + i]
    BY <1>0
  <2> QED
    BY <2>1, SMTT(20) DEF Late
<1>4. ASSUME Marks(s[i]) PROVE Closed(t)
  <2> SUFFICES ASSUME NEW k \in 1..Len(t), Accesses(t[k]) PROVE Bound(t, k)
    BY DEF Closed
  <2>1. Turns(s[i]) /\ s[i].do # "select"
    BY <1>4 DEF Turns, Marks
  <2>2. \A b : Select(b).do = "select"
    BY DEF Select
  <2>3. ~ \A m \in 1..i : ~Turns(s[m])
    BY <2>1
  <2>4. \A j \in 1..i : ~ (s[j] = Select(t[k].reg[1]) /\ \A m \in (j + 1)..i : ~Turns(s[m]))
    <3> TAKE j \in 1..i
    <3>1. j = i \/ i \in (j + 1)..i
      BY <1>0
    <3> QED
      BY <3>1, <2>1, <2>2
  <2> QED
    BY <2>3, <2>4, FromOn
<1>5. ASSUME Marks(s[i]), Len(t) > 0 PROVE t[1].do # "merge"
  <2>1. 1 \in 1..Len(t) /\ t[1] = s[1 + i] /\ 1 + i \in 2..Len(s) /\ (1 + i) - 1 = i
    BY <1>0, <1>5
  <2>2. s[i].do # "fetch"
    BY <1>5 DEF Marks
  <2>3. \A r : Fetch(r).do = "fetch"
    BY DEF Fetch
  <2> QED
    BY <2>1, <2>2, <2>3 DEF Paired
<1> QED
  BY <1>1, <1>2, <1>3, <1>4, <1>5

LEMMA TailIndex ==
    ASSUME NEW s \in Seq(Steps), s # <<>>
    PROVE  /\ Tail(s) \in Seq(Steps) /\ Len(s) \in Nat /\ Len(s) > 0 /\ 1 \in 1..Len(s)
           /\ Len(Tail(s)) = Len(s) - 1
           /\ \A k \in 1..Len(Tail(s)) : Tail(s)[k] = s[k + 1]
           /\ Head(s) = s[1] /\ s[1] \in Steps
<1>1. Len(s) \in Nat /\ Len(s) > 0
  BY LenProperties, EmptySeq
<1>2. /\ Tail(s) \in Seq(Steps) /\ Len(Tail(s)) = Len(s) - 1
      /\ \A k \in 1..Len(Tail(s)) : Tail(s)[k] = s[k + 1]
      /\ Head(s) \in Steps
  BY HeadTailProperties, Zenon
<1>3. Head(s) = s[1]
  OBVIOUS
<1> QED
  BY <1>1, <1>2, <1>3

LEMMA TailFits ==
    ASSUME NEW s \in Seq(Steps), s # <<>>, Sound(s), NEW b
    PROVE  /\ Fit(s, b) /\ ~Turns(s[1]) => Fit(Tail(s), b)
           /\ s[1] = Select(b) => Fit(Tail(s), b)
           /\ Marks(s[1]) => Closed(Tail(s))
           /\ Marks(s[1]) => Fit(Tail(s), b)
<1> DEFINE t == Tail(s)
<1>1. t \in Seq(Steps) /\ Len(s) \in Nat /\ Len(s) > 0 /\ 1 \in 1..Len(s)
      /\ Len(t) = Len(s) - 1 /\ \A k \in 1..Len(t) : t[k] = s[k + 1]
  BY TailIndex
<1>2. /\ \A c : Select(c).do = "select" /\ Select(c).to = c
  BY DEF Select
<1> HIDE DEF t
<1>3. ASSUME NEW k \in 1..Len(t), Accesses(t[k])
      PROVE  \/ Bound(t, k)
             \/ /\ Loose(t, k)
                /\ \/ s[1] = Select(t[k].reg[1])
                   \/ Loose(s, k + 1) /\ ~Turns(s[1])
  <2>1. \/ Bound(t, k)
        \/ /\ Loose(t, k)
           /\ \/ \E j \in 1..1 : /\ s[j] = Select(t[k].reg[1])
                                 /\ \A m \in (j + 1)..1 : ~Turns(s[m])
              \/ Loose(s, k + 1) /\ \A m \in 1..1 : ~Turns(s[m])
    BY <1>1, <1>3, FromOn
  <2> QED
    BY <2>1
<1>4. ASSUME Fit(s, b), ~Turns(s[1]) PROVE Fit(t, b)
  <2> SUFFICES ASSUME NEW k \in 1..Len(t), Accesses(t[k])
               PROVE  Bound(t, k) \/ (Loose(t, k) /\ t[k].reg[1] = b)
    BY DEF Fit
  <2>1. k + 1 \in 1..Len(s) /\ t[k] = s[k + 1] /\ k \in Nat
    BY <1>1
  <2>2. Bound(s, k + 1) \/ (Loose(s, k + 1) /\ t[k].reg[1] = b)
    BY <2>1, <1>4 DEF Fit
  <2>3. s[1] # Select(t[k].reg[1])
    BY <1>2, <1>4 DEF Turns
  <2>4. CASE Loose(t, k) /\ Loose(s, k + 1)
    <3>1. ~Bound(s, k + 1)
      <4> SUFFICES ASSUME Bound(s, k + 1) PROVE FALSE
        OBVIOUS
      <4>1. PICK j \in 1..(k + 1 - 1) : s[j] = Select(s[k + 1].reg[1])
        BY DEF Bound
      <4>2. ~Turns(s[j])
        BY <2>4, <4>1 DEF Loose
      <4> QED
        BY <4>1, <4>2, <1>2 DEF Turns
    <3> QED
      BY <3>1, <2>2, <2>4
  <2> QED
    BY <1>3, <2>3, <2>4
<1>5. ASSUME s[1] = Select(b) PROVE Fit(t, b)
  <2>1. Turns(s[1])
    BY <1>2, <1>5 DEF Turns
  <2>2. \A k \in 1..Len(t) : Accesses(t[k]) => Bound(t, k) \/ (Loose(t, k) /\ t[k].reg[1] = b)
    BY <1>2, <1>3, <1>5, <2>1
  <2> QED
    BY <2>2 DEF Fit
<1>6. ASSUME Marks(s[1]) PROVE Closed(t)
  <2>1. Turns(s[1]) /\ s[1].do # "select"
    BY <1>6 DEF Turns, Marks
  <2>2. \A k \in 1..Len(t) : Accesses(t[k]) => Bound(t, k)
    BY <1>2, <1>3, <2>1
  <2> QED
    BY <2>2 DEF Closed
<1>7. Closed(t) => Fit(t, b)
  BY DEF Closed, Fit
<1> QED
  BY <1>4, <1>5, <1>6, <1>7 DEF t

LEMMA TailKept ==
    ASSUME NEW s \in Seq(Steps), s # <<>>, Sound(s), Paired(s)
    PROVE  /\ Sound(Tail(s)) /\ Paired(Tail(s))
           /\ Late(s) => Late(Tail(s))
           /\ Tail(s) # <<>> /\ Tail(s)[1].do = "merge" => s[1] = Fetch(Tail(s)[1].reg)
           /\ Tail(s) # <<>> => Tail(s)[1] = s[2] /\ Len(s) > 1
<1>1. Tail(s) \in Seq(Steps) /\ Len(s) \in Nat /\ 1 \in 1..Len(s)
      /\ Len(Tail(s)) = Len(s) - 1 /\ \A k \in 1..Len(Tail(s)) : Tail(s)[k] = s[k + 1]
  BY TailIndex
<1>2. /\ Sound(Tail(s)) /\ Paired(Tail(s))
      /\ Late(s) => Late(Tail(s))
  BY <1>1, SuffixKept
<1>3. ASSUME Tail(s) # <<>>
      PROVE  Tail(s)[1] = s[2] /\ Len(s) > 1 /\ (s[2].do = "merge" => s[1] = Fetch(s[2].reg))
  <2>1. Len(Tail(s)) > 0
    BY <1>1, <1>3, EmptySeq
  <2>2. 1 \in 1..Len(Tail(s)) /\ 2 \in 2..Len(s)
    BY <2>1, <1>1
  <2>3. Tail(s)[1] = s[1 + 1]
    BY <2>2, <1>1
  <2>4. s[2].do = "merge" => s[2 - 1] = Fetch(s[2].reg)
    BY <2>2 DEF Paired
  <2> QED
    BY <2>1, <2>3, <2>4, <1>1
<1> QED
  BY <1>2, <1>3

-----------------------------------------------------------------------------
(* Bytes and their bit fields.                                             *)
LEMMA Powers == 2^0=1 /\ 2^1=2 /\ 2^2=4 /\ 2^3=8 /\ 2^4=16 /\ 2^5=32 /\ 2^6=64 /\ 2^7=128
OBVIOUS

Units == {1, 2, 4, 8, 16, 32, 64, 128}
Widths == {2, 4, 8}

LEMMA Group ==
    ASSUME NEW v \in Byte, NEW p \in Units, NEW q \in Widths,
           p * q <= 256, NEW d \in Byte
    PROVE  v + ((d % q) - ((v \div p) % q)) * p \in Byte
<1>1. CASE q = 2
  <2>1. CASE p = 1
    BY <1>1, <2>1 DEF Byte
  <2>2. CASE p = 2
    BY <1>1, <2>2 DEF Byte
  <2>3. CASE p = 4
    BY <1>1, <2>3 DEF Byte
  <2>4. CASE p = 8
    BY <1>1, <2>4 DEF Byte
  <2>5. CASE p = 16
    BY <1>1, <2>5 DEF Byte
  <2>6. CASE p = 32
    BY <1>1, <2>6 DEF Byte
  <2>7. CASE p = 64
    BY <1>1, <2>7 DEF Byte
  <2>8. CASE p = 128
    BY <1>1, <2>8 DEF Byte
  <2> QED
    BY <1>1, <2>1, <2>2, <2>3, <2>4, <2>5, <2>6, <2>7, <2>8 DEF Units
<1>2. CASE q = 4
  <2>1. CASE p = 1
    BY <1>2, <2>1 DEF Byte
  <2>2. CASE p = 2
    BY <1>2, <2>2 DEF Byte
  <2>3. CASE p = 4
    BY <1>2, <2>3 DEF Byte
  <2>4. CASE p = 8
    BY <1>2, <2>4 DEF Byte
  <2>5. CASE p = 16
    BY <1>2, <2>5 DEF Byte
  <2>6. CASE p = 32
    BY <1>2, <2>6 DEF Byte
  <2>7. CASE p = 64
    BY <1>2, <2>7 DEF Byte
  <2> QED
    BY <1>2, <2>1, <2>2, <2>3, <2>4, <2>5, <2>6, <2>7 DEF Units
<1>3. CASE q = 8
  <2>1. CASE p = 1
    BY <1>3, <2>1 DEF Byte
  <2>2. CASE p = 2
    BY <1>3, <2>2 DEF Byte
  <2>3. CASE p = 4
    BY <1>3, <2>3 DEF Byte
  <2>4. CASE p = 8
    BY <1>3, <2>4 DEF Byte
  <2>5. CASE p = 16
    BY <1>3, <2>5 DEF Byte
  <2>6. CASE p = 32
    BY <1>3, <2>6 DEF Byte
  <2> QED
    BY <1>3, <2>1, <2>2, <2>3, <2>4, <2>5, <2>6 DEF Units
<1> QED
  BY <1>1, <1>2, <1>3 DEF Widths

LEMMA WithBitsByte ==
    ASSUME NEW v \in Byte, NEW n \in 1..3, NEW i \in 0..7, n + i <= 8, NEW d \in Byte
    PROVE  WithBits(v, n, i, d) \in Byte
<1> DEFINE p == 2 ^ i
<1> DEFINE q == 2 ^ n
<1>1. p \in Units /\ q \in Widths /\ p * q <= 256
  <2>1. n \in {1, 2, 3} /\ i \in {0, 1, 2, 3, 4, 5, 6, 7}
    OBVIOUS
  <2>2. \/ n = 1 /\ q = 2
        \/ n = 2 /\ q = 4
        \/ n = 3 /\ q = 8
    BY <2>1, Powers
  <2>3. \/ i = 0 /\ p = 1
        \/ i = 1 /\ p = 2
        \/ i = 2 /\ p = 4
        \/ i = 3 /\ p = 8
        \/ i = 4 /\ p = 16
        \/ i = 5 /\ p = 32
        \/ i = 6 /\ p = 64
        \/ i = 7 /\ p = 128
    <3>1. /\ i = 0 => p = 1
          /\ i = 1 => p = 2
          /\ i = 2 => p = 4
          /\ i = 3 => p = 8
      BY Powers
    <3>2. /\ i = 4 => p = 16
          /\ i = 5 => p = 32
          /\ i = 6 => p = 64
          /\ i = 7 => p = 128
      BY Powers, ZenonT(30)
    <3> HIDE DEF p
    <3> QED
      BY <2>1, <3>1, <3>2
  <2> HIDE DEF p, q
  <2> QED
    BY <2>2, <2>3 DEF Units, Widths
<1> HIDE DEF p, q
<1>2. v + ((d % q) - ((v \div p) % q)) * p \in Byte
  BY <1>1, Group, Zenon
<1> QED
  BY <1>2 DEF WithBits, Bits, p, q

LEMMA ClearSix ==
    ASSUME NEW v \in Byte, Bits(v, 1, 7) = 0
    PROVE  Bits(WithBits(v, 1, 6, 0), 1, 7) = 0
<1>1. (v \div 128) % 2 = 0
  BY Powers DEF Bits
<1>2. ((v + ((0 % 2) - ((v \div 64) % 2)) * 64) \div 128) % 2 = 0
  BY <1>1 DEF Byte
<1> QED
  BY <1>2, Powers DEF Bits, WithBits

-----------------------------------------------------------------------------
(* What is left of begin_I2C after its first k steps.                      *)
Cut(k) == SubSeq(BeginI2C, k + 1, Len(BeginI2C))
Early(s) == \E k \in 0..8 : s = Cut(k)

LEMMA BeginDoes ==
    /\ BeginI2C[1] = Op("begin") /\ BeginI2C[3] = Select(0) /\ BeginI2C[4] = Fetch(WhoAmI)
    /\ BeginI2C[7] = Fetch(PwrMgmt1) /\ BeginI2C[8] = Merge(PwrMgmt1, 1, 7, 1, Ignore)
    /\ BeginI2C[9] = Cleared(PwrMgmt1, 7)
    /\ BeginI2C[1].do = "begin" /\ BeginI2C[2].do = "detect" /\ BeginI2C[3].do = "select"
    /\ BeginI2C[4].do = "fetch" /\ BeginI2C[5].do = "identify" /\ BeginI2C[6].do = "select"
    /\ BeginI2C[7].do = "fetch" /\ BeginI2C[8].do = "merge" /\ BeginI2C[9].do = "cleared"
    /\ BeginI2C[10].do = "fetch" /\ BeginI2C[11].do = "merge" /\ BeginI2C[12].do = "select"
    /\ BeginI2C[4].reg[1] = 0 /\ BeginI2C[7].reg[1] = 0 /\ BeginI2C[8].reg[1] = 0
    /\ BeginI2C[9].reg[1] = 0 /\ BeginI2C[10].reg[1] = 0 /\ BeginI2C[11].reg[1] = 0
<1>1. /\ Op("begin").do = "begin" /\ Detect.do = "detect" /\ Select(0).do = "select"
      /\ Select(2).do = "select" /\ Fetch(WhoAmI).do = "fetch" /\ Fetch(WhoAmI).reg[1] = 0
      /\ Op("identify").do = "identify"
      /\ Fetch(PwrMgmt1).do = "fetch" /\ Fetch(PwrMgmt1).reg[1] = 0
      /\ Merge(PwrMgmt1, 1, 7, 1, Ignore).do = "merge"
      /\ Merge(PwrMgmt1, 1, 7, 1, Ignore).reg[1] = 0
      /\ Merge(PwrMgmt1, 1, 6, 0, Ignore).do = "merge"
      /\ Merge(PwrMgmt1, 1, 6, 0, Ignore).reg[1] = 0
      /\ Cleared(PwrMgmt1, 7).do = "cleared" /\ Cleared(PwrMgmt1, 7).reg[1] = 0
  BY CellFacts DEF Op, Detect, Select, Fetch, Merge, Cleared
<1>2. \A k \in {1, 2, 3, 4, 5, 6, 7, 8, 9} : BeginI2C[k] = Opening[k]
  BY BeginShape, SMTT(20)
<1>3. /\ BeginI2C[1] = Op("begin") /\ BeginI2C[2] = Detect /\ BeginI2C[3] = Select(0)
      /\ BeginI2C[4] = Fetch(WhoAmI) /\ BeginI2C[5] = Op("identify")
      /\ BeginI2C[6] = Select(0) /\ BeginI2C[7] = Fetch(PwrMgmt1)
      /\ BeginI2C[8] = Merge(PwrMgmt1, 1, 7, 1, Ignore)
      /\ BeginI2C[9] = Cleared(PwrMgmt1, 7)
  BY <1>2, FrontElements
<1>4. /\ BeginI2C[10] = Fetch(PwrMgmt1)
      /\ BeginI2C[11] = Merge(PwrMgmt1, 1, 6, 0, Ignore)
      /\ BeginI2C[12] = Select(2)
  BY BeginShape
<1> QED
  BY <1>1, <1>3, <1>4

LEMMA CutIndex ==
    ASSUME NEW k \in 0..9
    PROVE  /\ Cut(k) \in Seq(Steps)
           /\ Len(Cut(k)) = Len(BeginI2C) - k /\ Len(Cut(k)) \in Nat /\ Len(Cut(k)) > 2
           /\ \A i \in 1..Len(Cut(k)) : k + i \in 1..Len(BeginI2C) /\ Cut(k)[i] = BeginI2C[k + i]
           /\ Cut(k) # <<>> /\ Head(Cut(k)) = BeginI2C[k + 1]
<1> DEFINE n == Len(BeginI2C)
<1>1. n \in Nat /\ n >= 12 /\ BeginI2C \in Seq(Steps) /\ \A i \in 1..n : BeginI2C[i] \in Steps
  BY BeginShape, ElementOfSeq
<1> HIDE DEF n
<1> DEFINE m == k + 1
<1>2. m \in Int /\ n \in Int /\ m <= n /\ \A i \in m..n : BeginI2C[i] \in Steps
  BY <1>1
<1> DEFINE t == SubSeq(BeginI2C, m, n)
<1> HIDE DEF m
<1>3. /\ t \in Seq(Steps) /\ Len(t) = n - m + 1
      /\ \A i \in 1..(n - m + 1) : t[i] = BeginI2C[m + i - 1]
  BY <1>2, SubSeqProperties
<1>4. Cut(k) = t
  BY DEF Cut, n, m
<1> HIDE DEF t
<1>5. n - m + 1 = n - k /\ n - k \in Nat /\ n - k > 2 /\ m = k + 1
  BY <1>1 DEF m
<1>6. \A i \in 1..Len(t) : k + i \in 1..n /\ t[i] = BeginI2C[k + i]
  <2> TAKE i \in 1..Len(t)
  <2>1. i \in 1..(n - m + 1) /\ m + i - 1 = k + i /\ k + i \in 1..n
    BY <1>1, <1>3, <1>5
  <2> QED
    BY <2>1, <1>3
<1>7. t # <<>> /\ Head(t) = BeginI2C[k + 1]
  <2>1. Len(t) > 2 /\ 1 \in 1..Len(t)
    BY <1>3, <1>5
  <2>2. t # <<>>
    BY <2>1, <1>3, EmptySeq
  <2>3. Head(t) = t[1]
    BY <2>2, <1>3, TailIndex
  <2> QED
    BY <2>1, <2>2, <2>3, <1>6
<1> QED
  BY <1>3, <1>4, <1>5, <1>6, <1>7 DEF n

LEMMA CutZero == Cut(0) = BeginI2C
<1>1. 0 \in 0..9
  OBVIOUS
<1>2. /\ Cut(0) \in Seq(Steps) /\ Len(Cut(0)) = Len(BeginI2C) - 0
      /\ \A i \in 1..Len(Cut(0)) : Cut(0)[i] = BeginI2C[0 + i]
  BY <1>1, CutIndex, Zenon
<1>3. BeginI2C \in Seq(Steps) /\ Len(BeginI2C) \in Nat
  BY BeginShape
<1>4. Len(Cut(0)) = Len(BeginI2C) /\ \A i \in 1..Len(Cut(0)) : Cut(0)[i] = BeginI2C[i]
  BY <1>2, <1>3
<1> QED
  BY <1>2, <1>3, <1>4, SeqEqual

LEMMA CutTail ==
    ASSUME NEW k \in 0..8
    PROVE  Tail(Cut(k)) = Cut(k + 1)
<1>1. k \in 0..9 /\ k + 1 \in 0..9
  OBVIOUS
<1> DEFINE s == Cut(k)
<1> DEFINE t == Cut(k + 1)
<1>2. /\ s \in Seq(Steps) /\ s # <<>> /\ Len(s) = Len(BeginI2C) - k /\ Len(s) \in Nat
      /\ \A i \in 1..Len(s) : s[i] = BeginI2C[k + i]
  BY <1>1, CutIndex
<1>3. /\ t \in Seq(Steps) /\ Len(t) = Len(BeginI2C) - (k + 1) /\ Len(t) \in Nat
      /\ \A i \in 1..Len(t) : t[i] = BeginI2C[(k + 1) + i]
  BY <1>1, CutIndex
<1> HIDE DEF s, t
<1>4. /\ Tail(s) \in Seq(Steps) /\ Len(Tail(s)) = Len(s) - 1
      /\ \A i \in 1..Len(Tail(s)) : Tail(s)[i] = s[i + 1]
  BY <1>2, TailIndex
<1>5. Len(BeginI2C) \in Nat
  BY BeginShape
<1>6. Len(Tail(s)) = Len(t)
  BY <1>2, <1>3, <1>4, <1>5
<1>7. \A i \in 1..Len(Tail(s)) : Tail(s)[i] = t[i]
  <2> TAKE i \in 1..Len(Tail(s))
  <2>1. i \in 1..Len(t) /\ i + 1 \in 1..Len(s) /\ k + (i + 1) = (k + 1) + i
    BY <1>2, <1>4, <1>6
  <2>2. Tail(s)[i] = BeginI2C[k + (i + 1)]
    BY <2>1, <1>2, <1>4
  <2>3. t[i] = BeginI2C[(k + 1) + i]
    BY <2>1, <1>3
  <2> QED
    BY <2>1, <2>2, <2>3
<1> QED
  BY <1>3, <1>4, <1>6, <1>7, SeqEqual DEF s, t

LEMMA CutLate == Late(Cut(9))
<1>1. 9 \in 0..9
  OBVIOUS
<1>2. \A i \in 1..Len(Cut(9)) :
        9 + i \in 1..Len(BeginI2C) /\ Cut(9)[i] = BeginI2C[9 + i]
  BY <1>1, CutIndex
<1>3. Len(BeginI2C) \in Nat
  BY BeginShape
<1>4. \A i \in 1..Len(Cut(9)) : 9 + i \in 10..Len(BeginI2C) /\ Cut(9)[i] = BeginI2C[9 + i]
  BY <1>2, <1>3
<1> QED
  BY <1>4, BeginShape, SMTT(20) DEF Late

(* Up to there begin_I2C counts on bank 0 alone.                           *)
LEMMA CutFits ==
    ASSUME NEW k \in 0..8, NEW b, Fit(Cut(k), b)
    PROVE  Fit(Cut(k), 0)
<1> DEFINE s == Cut(k)
<1>0. k \in 0..9
  OBVIOUS
<1>1. /\ Len(s) \in Nat /\ Len(s) = Len(BeginI2C) - k
      /\ \A i \in 1..Len(s) : k + i \in 1..Len(BeginI2C) /\ s[i] = BeginI2C[k + i]
  BY <1>0, CutIndex
<1>2. Len(BeginI2C) \in Nat /\ Len(BeginI2C) >= 12
  BY BeginShape
<1>3. Fit(s, b)
  OBVIOUS
<1> HIDE DEF s
<1>4. ASSUME NEW i \in 1..Len(s), Accesses(s[i]), Loose(s, i)
      PROVE  s[i].reg[1] = 0
  <2>1. k + i <= 12
    <3> SUFFICES ASSUME k + i > 12 PROVE FALSE
      BY <1>1
    <3>1. 12 - k \in 1..(i - 1) /\ 12 - k \in 1..Len(s) /\ k + (12 - k) = 12
      BY <1>1, <1>2
    <3>2. s[12 - k].do = "select"
      BY <3>1, <1>1, BeginDoes
    <3> QED
      BY <3>1, <3>2, <1>4 DEF Loose, Turns
  <2>2. k + i \in {1, 2, 3, 4, 5, 6, 7, 8, 9, 10, 11, 12}
    BY <2>1, <1>1
  <2>3. BeginI2C[k + i] = s[i]
    BY <1>1
  <2>4. k + i \in {4, 7, 8, 9, 10, 11}
    BY <2>2, <2>3, <1>4, BeginDoes DEF Accesses
  <2> QED
    BY <2>3, <2>4, BeginDoes
<1>5. Fit(s, 0)
  BY <1>3, <1>4 DEF Fit
<1> QED
  BY <1>5 DEF s

(***************************************************************************)
(* The invariant of the motion sensor.                                     *)
(***************************************************************************)
IcmTypeOK ==
    /\ bank \in Banks
    /\ cells \in [Cells -> Byte]
    /\ slave4 \in {"idle", "busy"}
    /\ magRate \in Byte
    /\ accelRange \in 0..3 /\ gyroRange \in 0..3
    /\ todo \in Seq(Steps)
    /\ got \in Byte
    /\ ok \in BOOLEAN /\ held \in BOOLEAN /\ known \in BOOLEAN
    /\ begun \in BOOLEAN /\ clean \in BOOLEAN
    /\ faults \in Nat

(* What is left of a call is well made, whatever has failed; nothing but   *)
(* begin_I2C before the end of its reset writes the reset bit.             *)
Shape(s) == Sound(s) /\ Paired(s) /\ (Early(s) \/ Late(s))

Pending == Bits(cells[PwrMgmt1], 1, 7) = 1
Resting == todo = <<>> /\ at \notin {"beginIcm", "show", "loop"}

(* While nothing has failed: the banks are those the call counts on, and a *)
(* reset may be pending only before the call, or a restart, has gone past  *)
(* the wait for it.                                                        *)
Orderly ==
    /\ Fit(todo, bank)
    /\ Pending => Early(todo) \/ Resting
    /\ todo # <<>> /\ todo[1].do = "merge" /\ todo[1].reg = PwrMgmt1 /\ todo[1].shift = 6 =>
          Bits(got, 1, 7) = 0
    /\ todo # <<>> /\ todo[1].do = "identify" => got = 234

BusInv ==
    /\ IcmTypeOK
    /\ cells[WhoAmI] = 234
    /\ Shape(todo)
    /\ clean => Orderly

-----------------------------------------------------------------------------
(* How a step changes what is left.                                        *)
LEMMA EarlyHead ==
    ASSUME NEW s, Early(s)
    PROVE  /\ s \in Seq(Steps) /\ s # <<>>
           /\ s[1].do \in {"begin", "detect", "select", "fetch", "identify", "merge", "cleared"}
           /\ s[1].do = "identify" => s = Cut(4)
           /\ s[1].do = "begin" => s = BeginI2C
           /\ s[1].do = "cleared" => s = Cut(8) /\ s[1] = Cleared(PwrMgmt1, 7)
           /\ s[1].do = "merge" => s = Cut(7) /\ s[1].shift = 7 /\ s[1].reg = PwrMgmt1
           /\ s[1].do # "cleared" => Early(Tail(s))
           /\ s[1].do # "cleared" /\ Tail(s)[1].do = "identify" => s[1] = Fetch(WhoAmI)
<1>1. PICK k \in 0..8 : s = Cut(k)
  BY DEF Early
<1>2. k \in 0..9 /\ k \in {0, 1, 2, 3, 4, 5, 6, 7, 8}
  OBVIOUS
<1>3. /\ s \in Seq(Steps) /\ s # <<>> /\ Len(s) \in Nat /\ Len(s) > 2
      /\ \A i \in 1..Len(s) : s[i] = BeginI2C[k + i]
  BY <1>1, <1>2, CutIndex
<1>4. 1 \in 1..Len(s) /\ s[1] = BeginI2C[k + 1]
  BY <1>3
<1>5. s[1].do \in {"begin", "detect", "select", "fetch", "identify", "merge", "cleared"}
  BY <1>2, <1>4, BeginDoes
<1>6. s[1].do = "identify" => k = 4
  BY <1>2, <1>4, BeginDoes
<1>7. s[1].do = "begin" => k = 0
  BY <1>2, <1>4, BeginDoes
<1>8. s[1].do = "cleared" => k = 8
  BY <1>2, <1>4, BeginDoes
<1>9. k = 8 => s[1].do = "cleared"
  BY <1>4, BeginDoes
<1>10. s[1].do = "merge" => k = 7
  BY <1>2, <1>4, BeginDoes
<1>11. s[1].do = "merge" => s[1].shift = 7 /\ s[1].reg = PwrMgmt1
  <2>1. Merge(PwrMgmt1, 1, 7, 1, Ignore).shift = 7 /\ Merge(PwrMgmt1, 1, 7, 1, Ignore).reg = PwrMgmt1
    BY DEF Merge
  <2> QED
    BY <2>1, <1>4, <1>10, BeginDoes
<1>12. s[1].do = "cleared" => s[1] = Cleared(PwrMgmt1, 7)
  BY <1>4, <1>8, BeginDoes
<1>13. ASSUME s[1].do # "cleared"
       PROVE  /\ Early(Tail(s))
              /\ Tail(s)[1].do = "identify" => s[1] = Fetch(WhoAmI)
  <2>1. k \in 0..7 /\ k + 1 \in 0..8 /\ k + 1 \in 0..9
    BY <1>2, <1>9, <1>13
  <2>2. Tail(s) = Cut(k + 1)
    BY <1>1, CutTail
  <2> DEFINE m == k + 1
  <2>7. m \in 0..9 /\ Tail(s) = Cut(m) /\ m + 1 = k + 2
    BY <2>1, <2>2
  <2> HIDE DEF m
  <2>8. /\ Cut(m) \in Seq(Steps) /\ Cut(m) # <<>>
        /\ \A i \in 1..Len(Cut(m)) : Cut(m)[i] = BeginI2C[m + i]
    BY <2>7, CutIndex, Zenon
  <2>9. 1 \in 1..Len(Cut(m))
    BY <2>8, TailIndex
  <2>3. Tail(s)[1] = BeginI2C[k + 2]
    BY <2>7, <2>8, <2>9
  <2>4. k \in {0, 1, 2, 3, 4, 5, 6, 7}
    BY <2>1
  <2>10. /\ 0 + 2 = 2 /\ 1 + 2 = 3 /\ 2 + 2 = 4 /\ 3 + 2 = 5 /\ 4 + 2 = 6 /\ 5 + 2 = 7
         /\ 6 + 2 = 8 /\ 7 + 2 = 9
    OBVIOUS
  <2>5. Tail(s)[1].do = "identify" => k = 3
    BY <2>3, <2>4, <2>10, BeginDoes, ZenonT(30)
  <2>6. k = 3 => s[1] = Fetch(WhoAmI)
    BY <1>4, BeginDoes
  <2> QED
    BY <2>1, <2>2, <2>5, <2>6 DEF Early
<1> QED
  BY <1>1, <1>3, <1>5, <1>6, <1>7, <1>8, <1>10, <1>11, <1>12, <1>13, CutZero

LEMMA TailShape ==
    ASSUME NEW s \in Seq(Steps), s # <<>>, Shape(s)
    PROVE  Tail(s) \in Seq(Steps) /\ Shape(Tail(s))
<1>1. Tail(s) \in Seq(Steps)
  BY TailIndex
<1>2. Sound(Tail(s)) /\ Paired(Tail(s)) /\ (Late(s) => Late(Tail(s)))
  BY TailKept DEF Shape
<1>3. ASSUME Early(s) PROVE Early(Tail(s)) \/ Late(Tail(s))
  <2>1. CASE s[1].do # "cleared"
    BY <1>3, <2>1, EarlyHead
  <2>2. CASE s[1].do = "cleared"
    <3>1. s = Cut(8) /\ 8 \in 0..8 /\ 8 + 1 = 9
      BY <1>3, <2>2, EarlyHead
    <3>2. Tail(s) = Cut(9)
      BY <3>1, CutTail
    <3> QED
      BY <3>2, CutLate
  <2> QED
    BY <2>1, <2>2
<1> QED
  BY <1>1, <1>2, <1>3 DEF Shape

(* A jump to a label.                                                      *)
LEMMA LeastIn ==
    ASSUME NEW S, S \subseteq Nat, S # {}
    PROVE  Min(S) \in S /\ \A t \in S : Min(S) <= t
<1>1. \E s \in S : \A t \in S : ~ (<<t, s>> \in OpToRel(<, Nat))
  BY NatLessThanWellFounded, WFMin
<1>2. PICK s \in S : \A t \in S : ~ (<<t, s>> \in OpToRel(<, Nat))
  BY <1>1
<1>3. \A t \in S : s <= t
  <2> TAKE t \in S
  <2>1. s \in Nat /\ t \in Nat /\ <<t, s>> \in Nat \X Nat
    OBVIOUS
  <2>2. ~ (t < s)
    BY <1>2, <2>1 DEF OpToRel
  <2> QED
    BY <2>1, <2>2
<1> QED
  BY <1>3 DEF Min

Suffix(s, i) == SubSeq(s, i + 1, Len(s))

LEMMA JumpTo ==
    ASSUME todo \in Seq(Steps), NEW l, ReturnFalse(l)
    PROVE  /\ ok' = FALSE /\ got' = 0
           /\ \/ todo' = todo
              \/ \E i \in 1..Len(todo) : todo[i].do = "join" /\ todo' = Suffix(todo, i)
<1> DEFINE I == {i \in 1..Len(todo) : todo[i] = Join(l)}
<1> DEFINE j == SelectInSeq(todo, LAMBDA o : o = Join(l))
<1>0. Len(todo) \in Nat
  BY LenProperties
<1>1. j = IF I # {} THEN Min(I) ELSE 0
  BY DEF SelectInSeq
<1>2. ok' = FALSE /\ got' = 0 /\ todo' = SubSeq(todo, 1 + j, Len(todo))
  BY DEF ReturnFalse
<1> HIDE DEF j
<1>3. CASE I # {}
  <2>1. I \subseteq Nat
    BY <1>0
  <2>2. Min(I) \in I
    BY <2>1, <1>3, LeastIn
  <2>3. j \in 1..Len(todo) /\ todo[j] = Join(l)
    BY <2>2, <1>1, <1>3
  <2>4. todo[j].do = "join"
    BY <2>3 DEF Join
  <2>5. 1 + j = j + 1
    BY <2>3, <1>0
  <2> QED
    BY <1>2, <2>3, <2>4, <2>5 DEF Suffix
<1>4. CASE I = {}
  <2>1. todo' = SubSeq(todo, 1, Len(todo))
    BY <1>1, <1>2, <1>4
  <2>2. \A i \in 1..Len(todo) : todo[i] \in Steps
    BY ElementOfSeq
  <2>3. /\ todo' \in Seq(Steps)
        /\ Len(todo') = IF 1 <= Len(todo) THEN Len(todo) - 1 + 1 ELSE 0
        /\ \A i \in 1..(Len(todo) - 1 + 1) : todo'[i] = todo[1 + i - 1]
    BY <1>0, <2>1, <2>2, SubSeqProperties
  <2>4. Len(todo') = Len(todo) /\ \A i \in 1..Len(todo') : todo'[i] = todo[i]
    BY <1>0, <2>3
  <2> QED
    BY <1>2, <2>3, <2>4, SeqEqual
<1> QED
  BY <1>3, <1>4

LEMMA SuffixIndex ==
    ASSUME NEW s \in Seq(Steps), NEW i \in 1..Len(s)
    PROVE  /\ Suffix(s, i) \in Seq(Steps)
           /\ Len(Suffix(s, i)) = Len(s) - i
           /\ \A k \in 1..Len(Suffix(s, i)) : Suffix(s, i)[k] = s[k + i]
<1>0. Len(s) \in Nat /\ i \in Nat /\ \A k \in 1..Len(s) : s[k] \in Steps
  BY LenProperties, ElementOfSeq
<1> DEFINE m == i + 1
<1> DEFINE n == Len(s)
<1>1. m \in Int /\ n \in Int /\ \A k \in m..n : s[k] \in Steps
  BY <1>0
<1> HIDE DEF m, n
<1> DEFINE t == SubSeq(s, m, n)
<1>2. /\ t \in Seq(Steps)
      /\ Len(t) = IF m <= n THEN n - m + 1 ELSE 0
      /\ \A k \in 1..(n - m + 1) : t[k] = s[m + k - 1]
  BY <1>1, SubSeqProperties
<1>3. Suffix(s, i) = t
  BY DEF Suffix, m, n
<1> HIDE DEF t
<1>4. Len(t) = n - i
  BY <1>0, <1>2 DEF m, n
<1>5. \A k \in 1..Len(t) : t[k] = s[k + i]
  <2> TAKE k \in 1..Len(t)
  <2>1. k \in 1..(n - m + 1) /\ m + k - 1 = k + i
    BY <1>0, <1>4 DEF m, n
  <2> QED
    BY <2>1, <1>2
<1> QED
  BY <1>2, <1>3, <1>4, <1>5 DEF n

LEMMA JumpShape ==
    ASSUME NEW s \in Seq(Steps), Shape(s), NEW i \in 1..Len(s), s[i].do = "join"
    PROVE  /\ Suffix(s, i) \in Seq(Steps)
           /\ Shape(Suffix(s, i)) /\ Late(Suffix(s, i)) /\ Closed(Suffix(s, i))
           /\ Suffix(s, i) # <<>> => Suffix(s, i)[1].do \notin {"merge", "identify"}
<1> DEFINE t == Suffix(s, i)
<1>1. t \in Seq(Steps) /\ Len(t) = Len(s) - i /\ \A k \in 1..Len(t) : t[k] = s[k + i]
  BY SuffixIndex
<1> HIDE DEF t
<1>2. Marks(s[i])
  BY DEF Marks
<1>3. Sound(s) /\ Paired(s)
  BY DEF Shape
<1>4. /\ Sound(t) /\ Paired(t) /\ (Late(s) => Late(t)) /\ Closed(t)
      /\ (Len(t) > 0 => t[1].do # "merge")
  BY <1>1, <1>2, <1>3, SuffixKept
<1>5. ASSUME Early(s) PROVE Late(t)
  <2>1. PICK k \in 0..8 : s = Cut(k)
    BY <1>5 DEF Early
  <2>2. /\ Len(s) \in Nat /\ Len(s) = Len(BeginI2C) - k
        /\ \A n \in 1..Len(s) : k + n \in 1..Len(BeginI2C) /\ s[n] = BeginI2C[k + n]
    <3>1. k \in 0..9
      OBVIOUS
    <3> QED
      BY <2>1, <3>1, CutIndex
  <2>3. Len(BeginI2C) \in Nat
    BY BeginShape
  <2>4. k + i > 9
    <3> SUFFICES ASSUME k + i <= 9 PROVE FALSE
      BY <2>2
    <3>1. k + i \in {1, 2, 3, 4, 5, 6, 7, 8, 9} /\ BeginI2C[k + i].do = "join"
      BY <2>2
    <3> QED
      BY <3>1, BeginDoes
  <2>5. \A n \in 1..Len(t) :
          k + (n + i) \in 10..Len(BeginI2C) /\ t[n] = BeginI2C[k + (n + i)]
    <3> TAKE n \in 1..Len(t)
    <3>1. Len(t) = Len(s) - i /\ Len(s) = Len(BeginI2C) - k /\ Len(s) \in Nat
      BY <1>1, <2>2
    <3>2. n + i \in 1..Len(s)
      BY <3>1
    <3>3. k + (n + i) \in 10..Len(BeginI2C)
      BY <2>3, <2>4, <3>1
    <3>4. t[n] = s[n + i] /\ s[n + i] = BeginI2C[k + (n + i)]
      BY <1>1, <2>2, <3>2
    <3> QED
      BY <3>3, <3>4
  <2>6. \A m \in 10..Len(BeginI2C) :
          /\ BeginI2C[m].do \notin {"begin", "identify"}
          /\ BeginI2C[m].do = "merge" /\ BeginI2C[m].reg = PwrMgmt1 =>
                BeginI2C[m].bits = 1 /\ BeginI2C[m].shift = 6 /\ BeginI2C[m].value = 0
    BY BeginShape
  <2> QED
    BY <2>5, <2>6 DEF Late
<1>6. Late(t)
  BY <1>4, <1>5 DEF Shape
<1>7. t # <<>> => Len(t) > 0 /\ 1 \in 1..Len(t)
  BY <1>1, EmptySeq, LenProperties
<1>8. t # <<>> => t[1].do # "identify"
  BY <1>6, <1>7 DEF Late
<1> QED
  BY <1>1, <1>4, <1>6, <1>7, <1>8 DEF t, Shape

(* A sequence that any bank may precede.                                   *)
LEMMA WholeShape ==
    ASSUME NEW s, Whole(s)
    PROVE  /\ s \in Seq(Steps) /\ Shape(s) /\ \A b : Fit(s, b)
           /\ s # <<>> => s[1].do \notin {"merge", "identify"}
<1>1. s \in Seq(Steps) /\ Closed(s)
  BY WholeClosed
<1>2. Paired(s) /\ Late(s) /\ (Len(s) > 0 => s[1].do # "merge")
  BY DEF Whole, Made, Banks
<1>3. s # <<>> => Len(s) > 0 /\ 1 \in 1..Len(s)
  BY <1>1, EmptySeq, LenProperties
<1>4. s # <<>> => s[1].do # "identify"
  BY <1>2, <1>3 DEF Late
<1>5. Sound(s) /\ \A b : Fit(s, b)
  BY <1>1 DEF Closed, Sound, Fit
<1> QED
  BY <1>1, <1>2, <1>3, <1>4, <1>5 DEF Shape

LEMMA ClosedWhole ==
    ASSUME NEW s \in Seq(Steps), Closed(s), Paired(s), Late(s)
    PROVE  Whole(s)
<1>1. Len(s) > 0 => s[1].do # "merge"
  <2> SUFFICES ASSUME Len(s) > 0, s[1].do = "merge" PROVE FALSE
    OBVIOUS
  <2>1. 1 \in 1..Len(s)
    BY LenProperties
  <2>2. Bound(s, 1)
    BY <2>1 DEF Closed, Accesses
  <2> QED
    BY <2>2 DEF Bound
<1>2. \A b \in Banks : Fit(s, b)
  BY DEF Closed, Fit
<1> QED
  BY <1>1, <1>2 DEF Whole, Made

-----------------------------------------------------------------------------
(* What a step is made of.                                                 *)
LEMMA StepKinds ==
    ASSUME NEW x \in Steps
    PROVE  /\ x.do = "select" => x.to \in Banks /\ x = Select(x.to)
           /\ x.do = "detect" => x = Detect
           /\ x.do = "fetch" => x.reg \in Cells
           /\ x.do = "put" => x.reg \in Cells /\ x.reg # PwrMgmt1 /\ x.value \in Byte
           /\ x.do = "put2" => x.reg = AccelSmplrtDiv1 /\ x.value \in Word
           /\ x.do = "merge" => /\ x.reg \in Cells /\ x.bits \in 1..3 /\ x.shift \in 0..7
                                /\ x.bits + x.shift <= 8 /\ x.value \in Byte
           /\ x.do = "poll" => x.reg = MstStatus /\ x.try \in Nat
           /\ x.do = "cleared" => x.reg \in Cells
           /\ x.do = "cache" => x.value \in 0..3
           /\ x.do = "tryMag" => x.try \in Nat
<1>1. \/ x \in Selections \/ x = Detect \/ x \in Fetches \/ x \in Puts \/ x \in Puts2
      \/ x \in Merges \/ x \in Joins \/ x \in Polls \/ x \in Waits \/ x \in Caches
      \/ x \in Tries \/ x \in Ops
  BY Zenon DEF Steps
<1>2. CASE x \in Selections
  <2>1. x.do = "select" /\ x.to \in Banks /\ x = [do |-> "select", to |-> x.to]
    BY <1>2 DEF Selections
  <2> QED
    BY <2>1 DEF Select
<1>3. CASE x = Detect
  <2>1. x.do = "detect"
    BY <1>3 DEF Detect
  <2> QED
    BY <2>1, <1>3
<1>4. CASE x \in Fetches
  <2>1. x.do = "fetch" /\ x.reg \in Cells
    BY <1>4 DEF Fetches
  <2> QED
    BY <2>1
<1>5. CASE x \in Puts
  <2>1. x.do = "put" /\ x.reg \in Cells \ {PwrMgmt1} /\ x.value \in Byte
    BY <1>5 DEF Puts
  <2> QED
    BY <2>1
<1>6. CASE x \in Puts2
  <2>1. x.do = "put2" /\ x.reg = AccelSmplrtDiv1 /\ x.value \in Word
    BY <1>6 DEF Puts2
  <2> QED
    BY <2>1
<1>7. CASE x \in Merges
  <2>1. /\ x.do = "merge" /\ x.reg \in Cells /\ x.bits \in 1..3 /\ x.shift \in 0..7
        /\ x.bits + x.shift <= 8 /\ x.value \in Byte
    BY <1>7 DEF Merges
  <2> QED
    BY <2>1
<1>8. CASE x \in Joins
  <2>1. x.do = "join"
    BY <1>8 DEF Joins
  <2> QED
    BY <2>1
<1>9. CASE x \in Polls
  <2>1. x.do = "poll" /\ x.reg = MstStatus /\ x.try \in Nat
    BY <1>9 DEF Polls
  <2> QED
    BY <2>1
<1>10. CASE x \in Waits
  <2>1. x.do = "cleared" /\ x.reg \in Cells
    BY <1>10 DEF Waits
  <2> QED
    BY <2>1
<1>11. CASE x \in Caches
  <2>1. x.do = "cache" /\ x.value \in 0..3
    BY <1>11 DEF Caches
  <2> QED
    BY <2>1
<1>12. CASE x \in Tries
  <2>1. x.do = "tryMag" /\ x.try \in Nat
    BY <1>12 DEF Tries
  <2> QED
    BY <2>1
<1>13. CASE x \in Ops
  <2>1. x.do \in {"begin", "identify", "begun", "aux", "hold", "both", "orEnd", "giveUp"}
    BY <1>13 DEF Ops
  <2> QED
    BY <2>1
<1> QED
  BY <1>1, <1>2, <1>3, <1>4, <1>5, <1>6, <1>7, <1>8, <1>9, <1>10, <1>11, <1>12, <1>13

LEMMA CellPairs ==
    /\ \A r \in Cells : r = <<r[1], r[2]>>
    /\ AccelSmplrtDiv1 = <<2, 16>>
    /\ {WhoAmI, MstStatus} \subseteq ReadOnly
    /\ PwrMgmt1 \notin ReadOnly
    /\ \A b : <<b, 16>> # PwrMgmt1 /\ <<b, 17>> # PwrMgmt1
    /\ WhoAmI # UserCtrl /\ WhoAmI # MstStatus /\ WhoAmI # Slv4Di
    /\ PwrMgmt1 # UserCtrl /\ PwrMgmt1 # MstStatus /\ PwrMgmt1 # Slv4Di /\ PwrMgmt1 # WhoAmI
BY DEF Cells, WhoAmI, UserCtrl, PwrMgmt1, IntPinCfg, IntEnable1, MstStatus,
       AccelXoutH, GyroSmplrtDiv, GyroConfig1, AccelSmplrtDiv1, AccelSmplrtDiv2,
       AccelConfig1, MstCtrl, Slv0Addr, Slv0Reg, Slv0Ctrl, Slv4Addr, Slv4Reg,
       Slv4Ctrl, Slv4Do, Slv4Di, ReadOnly

LEMMA OneBit == \A v \in Byte, i \in 0..7 : Bits(v, 1, i) \in {0, 1}
<1> TAKE v \in Byte, i \in 0..7
<1> DEFINE w == v \div 2 ^ i
<1>1. i \in {0, 1, 2, 3, 4, 5, 6, 7}
  OBVIOUS
<1>2. 2 ^ i \in Units
  <2> DEFINE p == 2 ^ i
  <2>1. /\ i = 0 => p = 1
        /\ i = 1 => p = 2
        /\ i = 2 => p = 4
        /\ i = 3 => p = 8
    BY Powers
  <2>2. /\ i = 4 => p = 16
        /\ i = 5 => p = 32
        /\ i = 6 => p = 64
        /\ i = 7 => p = 128
    BY Powers, ZenonT(30)
  <2> HIDE DEF p
  <2>3. p \in Units
    BY <1>1, <2>1, <2>2 DEF Units
  <2> QED
    BY <2>3 DEF p
<1>3. \A q \in Units : v \div q \in Int
  BY DEF Units, Byte
<1>4. w \in Int
  BY <1>2, <1>3
<1> HIDE DEF w
<1>5. w % 2 \in {0, 1}
  BY <1>4
<1> QED
  BY <1>5, Powers DEF Bits, w

(* The chip's registers after a transaction.                               *)
LEMMA Stored ==
    ASSUME IcmTypeOK, NEW a, NEW v \in Byte, Store(a, v)
    PROVE  /\ cells' \in [Cells -> Byte] /\ slave4' \in {"idle", "busy"}
           /\ bank' = bank /\ magRate' = magRate
           /\ cells'[WhoAmI] = cells[WhoAmI]
           /\ cells'[PwrMgmt1] = IF <<bank, a>> = PwrMgmt1 THEN v ELSE cells[PwrMgmt1]
<1>1. cells' = [c \in Cells |-> IF c = <<bank, a>> /\ c \notin ReadOnly THEN v ELSE cells[c]]
  BY DEF Store
<1>2. cells \in [Cells -> Byte]
  BY DEF IcmTypeOK
<1>3. WhoAmI \in Cells /\ PwrMgmt1 \in Cells /\ WhoAmI \in ReadOnly /\ PwrMgmt1 \notin ReadOnly
  BY CellFacts, CellPairs
<1>4. cells' \in [Cells -> Byte]
  BY <1>1, <1>2
<1>5. /\ cells'[WhoAmI] = cells[WhoAmI]
      /\ cells'[PwrMgmt1] = IF <<bank, a>> = PwrMgmt1 THEN v ELSE cells[PwrMgmt1]
  BY <1>1, <1>3
<1>6. slave4' \in {"idle", "busy"} /\ bank' = bank /\ magRate' = magRate
  BY DEF Store, IcmTypeOK
<1> QED
  BY <1>4, <1>5, <1>6

LEMMA Stored2 ==
    ASSUME IcmTypeOK, NEW v \in Word, Store2(16, v)
    PROVE  /\ cells' \in [Cells -> Byte] /\ slave4' = slave4
           /\ bank' = bank /\ magRate' = magRate
           /\ cells'[WhoAmI] = cells[WhoAmI]
           /\ cells'[PwrMgmt1] = cells[PwrMgmt1]
<1>1. cells' = [c \in Cells |-> CASE c \in ReadOnly -> cells[c]
                                  [] c = <<bank, 16>> /\ c \notin ReadOnly -> v \div 256
                                  [] c = <<bank, 16 + 1>> /\ c \notin ReadOnly -> v % 256
                                  [] OTHER -> cells[c]]
  BY DEF Store2
<1>2. cells \in [Cells -> Byte]
  BY DEF IcmTypeOK
<1>3. WhoAmI \in Cells /\ PwrMgmt1 \in Cells /\ WhoAmI \in ReadOnly /\ PwrMgmt1 \notin ReadOnly
      /\ PwrMgmt1 # <<bank, 16>> /\ PwrMgmt1 # <<bank, 17>>
  BY CellFacts, CellPairs
<1>4. v \div 256 \in Byte /\ v % 256 \in Byte
  <2>1. v \in Nat /\ v \div 256 \in Byte
    BY DEF Word
  <2>2. v % 256 \in 0..255
    BY <2>1
  <2> QED
    BY <2>1, <2>2 DEF Byte
<1>5. \A c \in Cells : cells'[c] \in Byte
  BY <1>1, <1>2, <1>4
<1>6. DOMAIN cells' = Cells /\ cells' = [c \in Cells |-> cells'[c]]
  BY <1>1
<1>7. cells' \in [Cells -> Byte]
  BY <1>5, <1>6
<1>8. cells'[WhoAmI] = cells[WhoAmI]
  BY <1>1, <1>3
<1>9. cells'[PwrMgmt1] = cells[PwrMgmt1]
  <2>1. 16 + 1 = 17
    OBVIOUS
  <2> QED
    BY <1>1, <1>3, <2>1
<1>10. slave4' = slave4 /\ bank' = bank /\ magRate' = magRate
  BY DEF Store2
<1> QED
  BY <1>7, <1>8, <1>9, <1>10

LEMMA LoadedKept ==
    ASSUME IcmTypeOK, NEW a, Loaded(a)
    PROVE  /\ cells' \in [Cells -> Byte] /\ slave4' = slave4
           /\ bank' = bank /\ magRate' = magRate
           /\ cells'[WhoAmI] = cells[WhoAmI]
           /\ cells'[PwrMgmt1] = cells[PwrMgmt1]
           /\ At(a) \in Byte
<1>1. cells \in [Cells -> Byte]
  BY DEF IcmTypeOK
<1>2. WhoAmI \in Cells /\ PwrMgmt1 \in Cells /\ MstStatus \in Cells
      /\ WhoAmI # MstStatus /\ PwrMgmt1 # MstStatus
  BY CellFacts, CellPairs
<1>3. 0 \in Byte
  BY DEF Byte
<1>4. At(a) \in Byte
  BY <1>1, <1>3 DEF At
<1>5. cells' = cells \/ cells' = [cells EXCEPT ![MstStatus] = 0]
  BY DEF Loaded
<1>6. /\ cells' \in [Cells -> Byte] /\ cells'[WhoAmI] = cells[WhoAmI]
      /\ cells'[PwrMgmt1] = cells[PwrMgmt1]
  BY <1>1, <1>2, <1>3, <1>5
<1>7. slave4' = slave4 /\ bank' = bank /\ magRate' = magRate
  BY DEF Loaded
<1> QED
  BY <1>4, <1>6, <1>7

(***************************************************************************)
(* Each step of the driver, of the chip and of the sketch.                 *)
(***************************************************************************)
LEMMA FirstStep ==
    ASSUME BusInv, ~Idle
    PROVE  /\ todo # <<>> /\ todo \in Seq(Steps) /\ Next1 = todo[1] /\ todo[1] \in Steps
           /\ 1 \in 1..Len(todo)
           /\ Tail(todo) \in Seq(Steps) /\ Shape(Tail(todo))
           /\ Shape(todo) /\ Sound(todo) /\ Paired(todo) /\ IcmTypeOK
<1>1. todo # <<>> /\ todo \in Seq(Steps) /\ Shape(todo) /\ IcmTypeOK
  BY DEF BusInv, IcmTypeOK, Idle
<1>2. todo[1] \in Steps /\ Next1 = todo[1] /\ 1 \in 1..Len(todo)
  BY <1>1, TailIndex DEF Next1
<1>3. Tail(todo) \in Seq(Steps) /\ Shape(Tail(todo))
  BY <1>1, TailShape
<1> QED
  BY <1>1, <1>2, <1>3 DEF Shape

LEMMA Failed == ASSUME IcmTypeOK, Fails PROVE clean' = FALSE /\ faults' \in Nat
BY DEF IcmTypeOK, Fails

(* The bank a step counts on is the one selected.                          *)
LEMMA BankMeant ==
    ASSUME BusInv, clean, ~Idle, Accesses(todo[1])
    PROVE  bank = todo[1].reg[1]
<1>1. Fit(todo, bank) /\ 1 \in 1..Len(todo)
  BY FirstStep DEF BusInv, Orderly
<1>2. Bound(todo, 1) \/ (Loose(todo, 1) /\ todo[1].reg[1] = bank)
  BY <1>1 DEF Fit
<1>3. ~Bound(todo, 1)
  BY DEF Bound
<1> QED
  BY <1>2, <1>3

(* After a step that neither reads nor waits the next one neither writes   *)
(* bits nor looks at the identity.                                         *)
LEMMA AfterStep ==
    ASSUME BusInv, ~Idle, Tail(todo) # <<>>
    PROVE  /\ Tail(todo)[1].do = "merge" => todo[1] = Fetch(Tail(todo)[1].reg)
           /\ Tail(todo)[1].do = "identify" => Early(todo) /\ todo[1] = Fetch(WhoAmI)
<1>1. /\ todo # <<>> /\ todo \in Seq(Steps) /\ Sound(todo) /\ Paired(todo) /\ Shape(todo)
      /\ Tail(todo) \in Seq(Steps)
  BY FirstStep
<1>2. Tail(todo)[1].do = "merge" => todo[1] = Fetch(Tail(todo)[1].reg)
  BY <1>1, TailKept
<1>3. 1 \in 1..Len(Tail(todo))
  BY <1>1, TailIndex
<1>4. ASSUME Tail(todo)[1].do = "identify" PROVE Early(todo) /\ todo[1] = Fetch(WhoAmI)
  <2>1. ~Late(Tail(todo))
    BY <1>3, <1>4 DEF Late
  <2>2. ~Late(todo)
    BY <1>1, <2>1, TailKept
  <2>3. Early(todo)
    BY <1>1, <2>2 DEF Shape
  <2>4. todo[1].do # "cleared"
    <3> SUFFICES ASSUME todo[1].do = "cleared" PROVE FALSE
      OBVIOUS
    <3>1. todo = Cut(8) /\ 8 \in 0..8 /\ 8 + 1 = 9
      BY <2>3, EarlyHead
    <3>2. Tail(todo) = Cut(9)
      BY <3>1, CutTail
    <3> QED
      BY <3>2, <2>1, CutLate
  <2> QED
    BY <1>4, <2>3, <2>4, EarlyHead
<1> QED
  BY <1>2, <1>4

(* On to the next step.                                                    *)
LEMMA GoOn ==
    ASSUME BusInv, ~Idle, Advance, clean,
           \/ ~Turns(todo[1]) /\ bank' = bank
           \/ todo[1] = Select(bank')
           \/ Marks(todo[1]),
           todo[1].do \notin {"fetch", "merge", "cleared"},
           cells'[PwrMgmt1] = cells[PwrMgmt1]
    PROVE  Orderly'
<1>1. /\ todo # <<>> /\ todo \in Seq(Steps) /\ Sound(todo) /\ Paired(todo) /\ Shape(todo)
  BY FirstStep
<1>2. todo' = Tail(todo)
  BY DEF Advance
<1>3. Orderly
  BY DEF BusInv
<1>4. Fit(todo, bank)
  BY <1>3 DEF Orderly
<1>5. Fit(Tail(todo), bank')
  BY <1>1, <1>4, TailFits
<1>6. Fit(todo', bank')
  BY <1>2, <1>5
<1>7. Pending' => Early(todo')
  <2> SUFFICES ASSUME Pending' PROVE Early(todo')
    OBVIOUS
  <2>1. Pending
    BY DEF Pending
  <2>2. Early(todo)
    BY <1>1, <1>3, <2>1 DEF Orderly, Resting
  <2> QED
    BY <1>2, <2>2, EarlyHead
<1>8. \A r : Fetch(r).do = "fetch"
  BY DEF Fetch
<1>9. todo' # <<>> => todo'[1].do \notin {"merge", "identify"}
  BY <1>2, <1>8, AfterStep
<1> QED
  BY <1>6, <1>7, <1>9 DEF Orderly

(* A method that has returned false, or that goes on past a label.         *)
LEMMA GoOut ==
    ASSUME BusInv, ~Idle, NEW l, ReturnFalse(l)
    PROVE  /\ todo' \in Seq(Steps) /\ Shape(todo') /\ ok' \in BOOLEAN /\ got' \in Byte
           /\ /\ clean /\ todo[1].do \in {"poll", "orEnd", "giveUp"}
              /\ bank' = bank /\ cells'[PwrMgmt1] = cells[PwrMgmt1]
              => Orderly'
<1>1. /\ todo # <<>> /\ todo \in Seq(Steps) /\ Shape(todo) /\ 1 \in 1..Len(todo)
  BY FirstStep
<1>2. /\ ok' = FALSE /\ got' = 0
      /\ \/ todo' = todo
         \/ \E i \in 1..Len(todo) : todo[i].do = "join" /\ todo' = Suffix(todo, i)
  BY <1>1, JumpTo
<1>0. ok' = FALSE /\ got' = 0 /\ 0 \in Byte /\ FALSE \in BOOLEAN
  BY <1>2 DEF Byte
<1>3. ok' \in BOOLEAN /\ got' \in Byte
  BY <1>0
<1>4. \/ todo' = todo
      \/ /\ todo' \in Seq(Steps) /\ Shape(todo') /\ Closed(todo')
         /\ todo' # <<>> => todo'[1].do \notin {"merge", "identify"}
  BY <1>1, <1>2, JumpShape
<1>5. todo' \in Seq(Steps) /\ Shape(todo')
  BY <1>1, <1>4
<1>6. ASSUME clean, todo[1].do \in {"poll", "orEnd", "giveUp"},
             bank' = bank, cells'[PwrMgmt1] = cells[PwrMgmt1]
      PROVE  Orderly'
  <2>1. Orderly
    BY <1>6 DEF BusInv
  <2>2. ~Early(todo)
    BY <1>6, EarlyHead
  <2>3. ~Pending'
    BY <1>1, <1>6, <2>1, <2>2 DEF Orderly, Pending, Resting
  <2>4. \A s : Closed(s) => \A b : Fit(s, b)
    BY DEF Closed, Fit
  <2>5. Fit(todo', bank')
    <3>1. Fit(todo, bank)
      BY <2>1 DEF Orderly
    <3> QED
      BY <3>1, <2>4, <1>4, <1>6
  <2>6. todo' # <<>> => todo'[1].do \notin {"merge", "identify"}
    BY <1>4, <1>6
  <2> QED
    BY <2>3, <2>5, <2>6 DEF Orderly
<1> QED
  BY <1>3, <1>5, <1>6

LEMMA SelectKeeps == ASSUME BusInv, DoSelect, at' = at PROVE BusInv'
<1>1. ~Idle /\ Next1.do = "select" /\ Advance
  BY DEF DoSelect, Doing
<1>2. todo[1].do = "select" /\ todo[1].to \in Banks /\ todo[1] = Select(todo[1].to)
  BY <1>1, FirstStep, StepKinds
<1>3. IcmTypeOK /\ todo' \in Seq(Steps) /\ Shape(todo')
  BY <1>1, FirstStep DEF Advance
<1>4. UNCHANGED <<cells, slave4, magRate, accelRange, gyroRange, got, ok, held, known, begun>>
  BY DEF DoSelect, rangeVars
<1>5. CASE Works /\ bank' = Next1.to
  <2>1. bank' = todo[1].to /\ clean' = clean /\ faults' = faults
    BY <1>1, <1>5, FirstStep DEF Works, faultVars
  <2>2. IcmTypeOK'
    BY <1>2, <1>3, <1>4, <2>1 DEF IcmTypeOK
  <2>3. clean => Orderly'
    BY <1>1, <1>2, <1>4, <2>1, GoOn
  <2> QED
    BY <1>3, <1>4, <2>1, <2>2, <2>3 DEF BusInv
<1>6. CASE Fails /\ UNCHANGED bank
  <2>1. clean' = FALSE /\ faults' \in Nat /\ bank' = bank
    BY <1>3, <1>6, Failed
  <2>2. IcmTypeOK'
    BY <1>3, <1>4, <2>1 DEF IcmTypeOK
  <2> QED
    BY <1>3, <1>4, <2>1, <2>2 DEF BusInv
<1> QED
  BY <1>5, <1>6 DEF DoSelect

LEMMA DetectKeeps == ASSUME BusInv, DoDetect, at' = at PROVE BusInv'
<1>1. ~Idle /\ Next1.do = "detect"
  BY DEF DoDetect, Doing
<1>2. todo[1].do = "detect"
  BY <1>1, FirstStep
<1>3. UNCHANGED <<bank, cells, slave4, magRate, accelRange, gyroRange, held, known, begun>>
  BY DEF DoDetect, chipVars, rangeVars
<1>4. IcmTypeOK
  BY <1>1, FirstStep
<1>5. CASE Works /\ Advance /\ UNCHANGED <<ok, got>>
  <2>1. clean' = clean /\ faults' = faults /\ ok' = ok /\ got' = got
    BY <1>5 DEF Works, faultVars
  <2>2. todo' \in Seq(Steps) /\ Shape(todo')
    BY <1>1, <1>5, FirstStep DEF Advance
  <2>3. IcmTypeOK'
    BY <1>3, <1>4, <2>1, <2>2 DEF IcmTypeOK
  <2>4. clean => Orderly'
    BY <1>1, <1>2, <1>3, <1>5, GoOn DEF Turns
  <2> QED
    BY <1>3, <2>1, <2>2, <2>3, <2>4 DEF BusInv
<1>6. CASE Fails /\ ReturnFalse(Next1.else)
  <2>1. clean' = FALSE /\ faults' \in Nat
    BY <1>4, <1>6, Failed
  <2>2. todo' \in Seq(Steps) /\ Shape(todo') /\ ok' \in BOOLEAN /\ got' \in Byte
    BY <1>1, <1>6, GoOut
  <2>3. IcmTypeOK'
    BY <1>3, <1>4, <2>1, <2>2 DEF IcmTypeOK
  <2> QED
    BY <1>3, <2>1, <2>2, <2>3 DEF BusInv
<1> QED
  BY <1>5, <1>6 DEF DoDetect

LEMMA FetchKeeps == ASSUME BusInv, DoFetch, at' = at PROVE BusInv'
<1>1. ~Idle /\ Next1.do = "fetch" /\ Advance
  BY DEF DoFetch, Doing
<1>2. /\ Next1 = todo[1] /\ todo[1].do = "fetch" /\ todo[1].reg \in Cells
      /\ ~Turns(todo[1]) /\ Accesses(todo[1]) /\ todo # <<>>
  BY <1>1, FirstStep, StepKinds DEF Turns, Accesses
<1>3. IcmTypeOK /\ todo' \in Seq(Steps) /\ Shape(todo') /\ todo' = Tail(todo)
  BY <1>1, FirstStep DEF Advance
<1>4. UNCHANGED <<accelRange, gyroRange, ok, held, known, begun>>
  BY DEF DoFetch, rangeVars
<1>5. CASE Works /\ got' = At(Next1.reg[2]) /\ Loaded(Next1.reg[2])
  <2>1. clean' = clean /\ faults' = faults
    BY <1>5 DEF Works, faultVars
  <2>2. /\ cells' \in [Cells -> Byte] /\ slave4' = slave4 /\ bank' = bank
        /\ magRate' = magRate /\ cells'[WhoAmI] = cells[WhoAmI]
        /\ cells'[PwrMgmt1] = cells[PwrMgmt1] /\ got' \in Byte
    BY <1>3, <1>5, LoadedKept
  <2>3. IcmTypeOK'
    BY <1>3, <1>4, <2>1, <2>2 DEF IcmTypeOK
  <2>4. ASSUME clean PROVE Orderly'
    <3>1. Orderly /\ cells[WhoAmI] = 234
      BY <2>4 DEF BusInv
    <3>2. Fit(Tail(todo), bank)
      BY <1>1, <1>2, <3>1, FirstStep, TailFits DEF Orderly
    <3>3. Fit(todo', bank')
      BY <1>3, <2>2, <3>2
    <3>4. Pending => Early(todo) /\ Early(todo')
      <4>1. Pending => Early(todo)
        BY <1>2, <3>1 DEF Orderly, Resting
      <4> QED
        BY <4>1, <1>2, <1>3, EarlyHead
    <3>5. Pending' <=> Pending
      BY <2>2 DEF Pending
    <3>6. bank = todo[1].reg[1]
      BY <1>1, <1>2, <2>4, BankMeant
    <3>7. got' = cells[todo[1].reg]
      <4>1. <<bank, todo[1].reg[2]>> = todo[1].reg
        BY <1>2, <3>6, CellPairs
      <4>2. At(todo[1].reg[2]) = cells[todo[1].reg]
        BY <1>2, <4>1 DEF At
      <4> QED
        BY <1>2, <1>5, <4>2
    <3>8. \A r : Fetch(r).reg = r
      BY DEF Fetch
    <3>9. ASSUME todo' # <<>>, todo'[1].do = "merge", todo'[1].reg = PwrMgmt1,
                 todo'[1].shift = 6
          PROVE  Bits(got', 1, 7) = 0
      <4>1. todo[1] = Fetch(PwrMgmt1)
        BY <1>1, <1>3, <3>9, AfterStep
      <4>2. got' = cells[PwrMgmt1]
        BY <3>7, <3>8, <4>1
      <4>3. ~Early(todo')
        BY <3>9, EarlyHead
      <4>4. ~Pending
        BY <3>4, <4>3
      <4>5. cells[PwrMgmt1] \in Byte /\ 7 \in 0..7
        BY <1>3, CellFacts DEF IcmTypeOK
      <4>6. Bits(cells[PwrMgmt1], 1, 7) \in {0, 1}
        BY <4>5, OneBit
      <4> QED
        BY <4>2, <4>4, <4>6 DEF Pending
    <3>10. ASSUME todo' # <<>>, todo'[1].do = "identify" PROVE got' = 234
      <4>1. todo[1] = Fetch(WhoAmI)
        BY <1>1, <1>3, <3>10, AfterStep
      <4> QED
        BY <3>1, <3>7, <3>8, <4>1
    <3> QED
      BY <3>3, <3>4, <3>5, <3>9, <3>10 DEF Orderly
  <2> QED
    BY <1>3, <2>1, <2>2, <2>3, <2>4 DEF BusInv
<1>6. CASE Fails /\ got' = AllOnes /\ UNCHANGED chipVars
  <2>1. clean' = FALSE /\ faults' \in Nat
    BY <1>3, <1>6, Failed
  <2>2. got' \in Byte /\ UNCHANGED <<bank, cells, slave4, magRate>>
    BY <1>6 DEF AllOnes, Byte, chipVars
  <2>3. IcmTypeOK'
    BY <1>3, <1>4, <2>1, <2>2 DEF IcmTypeOK
  <2> QED
    BY <1>3, <2>1, <2>2, <2>3 DEF BusInv
<1> QED
  BY <1>5, <1>6 DEF DoFetch

LEMMA WriteFailsKeeps ==
    ASSUME BusInv, ~Idle, WriteFails, UNCHANGED <<rangeVars, held, known, begun>>
    PROVE  BusInv'
<1>1. IcmTypeOK /\ Tail(todo) \in Seq(Steps) /\ Shape(Tail(todo)) /\ Fails
  BY FirstStep DEF WriteFails
<1>2. clean' = FALSE /\ faults' \in Nat
  BY <1>1, Failed
<1>3. UNCHANGED <<bank, cells, slave4, magRate, accelRange, gyroRange, held, known, begun>>
  BY DEF WriteFails, chipVars, rangeVars
<1>4. todo' \in Seq(Steps) /\ Shape(todo') /\ ok' \in BOOLEAN /\ got' \in Byte
  <2>1. CASE Advance /\ UNCHANGED <<ok, got>>
    <3>1. todo' = Tail(todo) /\ ok' = ok /\ got' = got
      BY <2>1 DEF Advance
    <3>2. ok \in BOOLEAN /\ got \in Byte
      BY <1>1 DEF IcmTypeOK
    <3> QED
      BY <1>1, <3>1, <3>2
  <2>2. CASE ReturnFalse(Next1.else)
    BY <2>2, GoOut
  <2> QED
    BY <2>1, <2>2 DEF WriteFails
<1>5. IcmTypeOK'
  BY <1>1, <1>2, <1>3, <1>4 DEF IcmTypeOK
<1> QED
  BY <1>2, <1>3, <1>4, <1>5 DEF BusInv

LEMMA PutKeeps == ASSUME BusInv, DoPut, at' = at PROVE BusInv'
<1>1. ~Idle /\ Next1.do = "put"
  BY DEF DoPut, Doing
<1>2. /\ Next1 = todo[1] /\ todo[1].do = "put" /\ todo[1].reg \in Cells
      /\ todo[1].reg # PwrMgmt1 /\ todo[1].value \in Byte /\ IcmTypeOK
  BY <1>1, FirstStep, StepKinds
<1>3. UNCHANGED <<rangeVars, held, known, begun>>
  BY DEF DoPut
<1>4. CASE Works /\ Store(Next1.reg[2], Next1.value) /\ Advance /\ UNCHANGED <<ok, got>>
  <2>1. clean' = clean /\ faults' = faults /\ ok' = ok /\ got' = got
    BY <1>4 DEF Works, faultVars
  <2>2. /\ cells' \in [Cells -> Byte] /\ slave4' \in {"idle", "busy"} /\ bank' = bank
        /\ magRate' = magRate /\ cells'[WhoAmI] = cells[WhoAmI]
        /\ cells'[PwrMgmt1] = IF <<bank, todo[1].reg[2]>> = PwrMgmt1 THEN todo[1].value
                                                                   ELSE cells[PwrMgmt1]
    BY <1>2, <1>4, Stored
  <2>3. <<bank, todo[1].reg[2]>> # PwrMgmt1
    <3>1. todo[1].reg[2] # 6
      BY <1>2, CellFacts
    <3> QED
      BY <3>1, CellFacts
  <2>4. todo' \in Seq(Steps) /\ Shape(todo')
    BY <1>1, <1>4, FirstStep DEF Advance
  <2>5. IcmTypeOK'
    BY <1>2, <1>3, <2>1, <2>2, <2>4 DEF IcmTypeOK, rangeVars
  <2>6. clean => Orderly'
    BY <1>1, <1>2, <1>4, <2>2, <2>3, GoOn DEF Turns
  <2> QED
    BY <2>1, <2>2, <2>4, <2>5, <2>6 DEF BusInv
<1>5. CASE WriteFails
  BY <1>1, <1>3, <1>5, WriteFailsKeeps
<1> QED
  BY <1>4, <1>5 DEF DoPut

LEMMA Put2Keeps == ASSUME BusInv, DoPut2, at' = at PROVE BusInv'
<1>1. ~Idle /\ Next1.do = "put2"
  BY DEF DoPut2, Doing
<1>2. /\ Next1 = todo[1] /\ todo[1].do = "put2" /\ todo[1].reg = AccelSmplrtDiv1
      /\ todo[1].value \in Word /\ IcmTypeOK
  BY <1>1, FirstStep, StepKinds
<1>3. UNCHANGED <<rangeVars, held, known, begun>>
  BY DEF DoPut2
<1>4. CASE Works /\ Store2(Next1.reg[2], Next1.value) /\ Advance /\ UNCHANGED <<ok, got>>
  <2>1. clean' = clean /\ faults' = faults /\ ok' = ok /\ got' = got
    BY <1>4 DEF Works, faultVars
  <2>2. todo[1].reg[2] = 16
    BY <1>2, CellPairs
  <2>3. Store2(16, todo[1].value)
    BY <1>2, <1>4, <2>2
  <2>4. /\ cells' \in [Cells -> Byte] /\ slave4' = slave4 /\ bank' = bank
        /\ magRate' = magRate /\ cells'[WhoAmI] = cells[WhoAmI]
        /\ cells'[PwrMgmt1] = cells[PwrMgmt1]
    BY <1>2, <2>3, Stored2
  <2>5. todo' \in Seq(Steps) /\ Shape(todo')
    BY <1>1, <1>4, FirstStep DEF Advance
  <2>6. IcmTypeOK'
    BY <1>2, <1>3, <2>1, <2>4, <2>5 DEF IcmTypeOK, rangeVars
  <2>7. clean => Orderly'
    BY <1>1, <1>2, <1>4, <2>4, GoOn DEF Turns
  <2> QED
    BY <2>1, <2>4, <2>5, <2>6, <2>7 DEF BusInv
<1>5. CASE WriteFails
  BY <1>1, <1>3, <1>5, WriteFailsKeeps
<1> QED
  BY <1>4, <1>5 DEF DoPut2

(* RegisterBits::write: of the power register it writes the reset bit, or  *)
(* the sleep bit with the reset bit as it was read, unset.                 *)
LEMMA MergeKeeps == ASSUME BusInv, DoMerge, at' = at PROVE BusInv'
<1>1. ~Idle /\ Next1.do = "merge"
  BY DEF DoMerge, Doing
<1>2. /\ Next1 = todo[1] /\ todo[1].do = "merge" /\ todo # <<>> /\ 1 \in 1..Len(todo)
      /\ Shape(todo) /\ Sound(todo) /\ todo \in Seq(Steps) /\ todo[1] \in Steps /\ IcmTypeOK
  BY <1>1, FirstStep
<1>3. /\ todo[1].reg \in Cells /\ todo[1].bits \in 1..3 /\ todo[1].shift \in 0..7
      /\ todo[1].bits + todo[1].shift <= 8 /\ todo[1].value \in Byte
      /\ Accesses(todo[1]) /\ ~Turns(todo[1])
  BY <1>2, StepKinds DEF Accesses, Turns
<1>4. UNCHANGED <<rangeVars, held, known, begun>>
  BY DEF DoMerge
<1> DEFINE v == WithBits(got, todo[1].bits, todo[1].shift, todo[1].value)
<1>5. got \in Byte
  BY <1>2 DEF IcmTypeOK
<1>6. v \in Byte
  BY <1>3, <1>5, WithBitsByte
<1>7. CASE /\ Works /\ Advance /\ UNCHANGED <<ok, got>>
           /\ Store(Next1.reg[2], WithBits(got, Next1.bits, Next1.shift, Next1.value))
  <2>1. clean' = clean /\ faults' = faults /\ ok' = ok /\ got' = got
    BY <1>7 DEF Works, faultVars
  <2>2. Store(todo[1].reg[2], v)
    BY <1>2, <1>7
  <2> HIDE DEF v
  <2>3. /\ cells' \in [Cells -> Byte] /\ slave4' \in {"idle", "busy"} /\ bank' = bank
        /\ magRate' = magRate /\ cells'[WhoAmI] = cells[WhoAmI]
        /\ cells'[PwrMgmt1] = IF <<bank, todo[1].reg[2]>> = PwrMgmt1 THEN v ELSE cells[PwrMgmt1]
    BY <1>2, <1>6, <2>2, Stored
  <2>4. todo' \in Seq(Steps) /\ Shape(todo') /\ todo' = Tail(todo)
    BY <1>1, <1>7, FirstStep DEF Advance
  <2>5. IcmTypeOK'
    BY <1>2, <1>4, <2>1, <2>3, <2>4 DEF IcmTypeOK, rangeVars
  <2>6. ASSUME clean PROVE Orderly'
    <3>1. Orderly
      BY <2>6 DEF BusInv
    <3>2. Fit(Tail(todo), bank)
      BY <1>2, <1>3, <3>1, TailFits DEF Orderly
    <3>3. Fit(todo', bank')
      BY <2>3, <2>4, <3>2
    <3>4. \A r : Fetch(r).do = "fetch"
      BY DEF Fetch
    <3>5. todo' # <<>> => todo'[1].do \notin {"merge", "identify"}
      BY <1>1, <1>2, <2>4, <3>4, AfterStep
    <3>6. Early(todo) => Early(todo')
      BY <1>2, <2>4, EarlyHead
    <3>7. ASSUME Pending', ~Early(todo) PROVE FALSE
      <4>1. Late(todo)
        BY <1>2, <3>7 DEF Shape
      <4>2. ~Pending
        BY <1>2, <3>1, <3>7 DEF Orderly, Resting
      <4>3. cells'[PwrMgmt1] # cells[PwrMgmt1]
        BY <3>7, <4>2 DEF Pending
      <4>4. <<bank, todo[1].reg[2]>> = PwrMgmt1 /\ cells'[PwrMgmt1] = v
        BY <2>3, <4>3
      <4>5. todo[1].reg = PwrMgmt1
        <5>1. todo[1].reg[2] = 6
          BY <4>4, CellFacts
        <5> QED
          BY <1>3, <5>1, CellFacts
      <4>6. todo[1].bits = 1 /\ todo[1].shift = 6 /\ todo[1].value = 0
        BY <1>2, <4>1, <4>5 DEF Late
      <4>7. Bits(got, 1, 7) = 0
        BY <1>2, <3>1, <4>5, <4>6 DEF Orderly
      <4>8. v = WithBits(got, 1, 6, 0)
        BY <4>6 DEF v
      <4>9. Bits(v, 1, 7) = 0
        BY <1>5, <4>7, <4>8, ClearSix
      <4> QED
        BY <3>7, <4>4, <4>9 DEF Pending
    <3> QED
      BY <3>3, <3>5, <3>6, <3>7 DEF Orderly
  <2> QED
    BY <2>1, <2>3, <2>4, <2>5, <2>6 DEF BusInv
<1>8. CASE WriteFails
  BY <1>1, <1>4, <1>8, WriteFailsKeeps
<1> QED
  BY <1>7, <1>8 DEF DoMerge

LEMMA CacheKeeps == ASSUME BusInv, DoCache, at' = at PROVE BusInv'
<1>1. ~Idle /\ Next1.do = "cache" /\ Advance
  BY DEF DoCache, Doing
<1>2. Next1 = todo[1] /\ todo[1].do = "cache" /\ todo[1].value \in 0..3 /\ IcmTypeOK
  BY <1>1, FirstStep, StepKinds
<1>3. UNCHANGED <<bank, cells, slave4, magRate, got, ok, held, known, begun, clean, faults>>
  BY DEF DoCache, chipVars, faultVars
<1>4. todo' \in Seq(Steps) /\ Shape(todo')
  BY <1>1, FirstStep DEF Advance
<1>5. accelRange' \in 0..3 /\ gyroRange' \in 0..3
  BY <1>2 DEF DoCache, IcmTypeOK
<1>6. IcmTypeOK'
  BY <1>2, <1>3, <1>4, <1>5 DEF IcmTypeOK
<1>7. clean => Orderly'
  BY <1>1, <1>2, <1>3, GoOn DEF Turns
<1> QED
  BY <1>3, <1>4, <1>6, <1>7 DEF BusInv

(* The wait ends when the bit is seen unset: the reset is over.            *)
LEMMA ClearedKeeps == ASSUME BusInv, DoCleared, at' = at PROVE BusInv'
<1>1. ~Idle /\ Next1.do = "cleared"
  BY DEF DoCleared, Doing
<1>2. /\ Next1 = todo[1] /\ todo[1].do = "cleared" /\ todo # <<>> /\ todo \in Seq(Steps)
      /\ Sound(todo) /\ Shape(todo) /\ IcmTypeOK /\ Accesses(todo[1]) /\ ~Turns(todo[1])
  BY <1>1, FirstStep DEF Accesses, Turns
<1>3. UNCHANGED <<bank, cells, slave4, magRate, accelRange, gyroRange, got, ok, held, known,
                  begun>>
  BY DEF DoCleared, chipVars, rangeVars
<1>4. CASE Works /\ Bits(At(Next1.reg[2]), 1, Next1.shift) = 0 /\ Advance
  <2>1. clean' = clean /\ faults' = faults /\ todo' = Tail(todo)
    BY <1>4 DEF Works, faultVars, Advance
  <2>2. todo' \in Seq(Steps) /\ Shape(todo')
    BY <1>1, <2>1, FirstStep
  <2>3. IcmTypeOK'
    BY <1>2, <1>3, <2>1, <2>2 DEF IcmTypeOK
  <2>4. ASSUME clean PROVE Orderly'
    <3>1. Orderly
      BY <2>4 DEF BusInv
    <3>2. Fit(Tail(todo), bank)
      BY <1>2, <3>1, TailFits DEF Orderly
    <3>3. Fit(todo', bank')
      BY <1>3, <2>1, <3>2
    <3>4. \A r : Fetch(r).do = "fetch"
      BY DEF Fetch
    <3>5. todo' # <<>> => todo'[1].do \notin {"merge", "identify"}
      BY <1>1, <1>2, <2>1, <3>4, AfterStep
    <3>6. ASSUME Pending PROVE FALSE
      <4>1. Early(todo)
        BY <1>2, <3>1, <3>6 DEF Orderly, Resting
      <4>2. todo[1] = Cleared(PwrMgmt1, 7)
        BY <1>2, <4>1, EarlyHead
      <4>3. todo[1].reg = PwrMgmt1 /\ todo[1].shift = 7
        BY <4>2 DEF Cleared
      <4>4. bank = todo[1].reg[1]
        BY <1>1, <1>2, <2>4, BankMeant
      <4>5. <<bank, todo[1].reg[2]>> = PwrMgmt1 /\ PwrMgmt1 \in Cells
        BY <4>3, <4>4, CellFacts
      <4>6. At(todo[1].reg[2]) = cells[PwrMgmt1]
        BY <4>5 DEF At
      <4> QED
        BY <1>2, <1>4, <3>6, <4>3, <4>6 DEF Pending
    <3>7. ~Pending'
      BY <1>3, <3>6 DEF Pending
    <3> QED
      BY <3>3, <3>5, <3>7 DEF Orderly
  <2> QED
    BY <1>3, <2>1, <2>2, <2>3, <2>4 DEF BusInv
<1>5. CASE Fails /\ UNCHANGED todo
  <2>1. clean' = FALSE /\ faults' \in Nat /\ todo' = todo
    BY <1>2, <1>5, Failed
  <2>2. IcmTypeOK'
    BY <1>2, <1>3, <2>1 DEF IcmTypeOK
  <2> QED
    BY <1>2, <1>3, <2>1, <2>2 DEF BusInv
<1> QED
  BY <1>4, <1>5 DEF DoCleared

LEMMA BeginKeeps == ASSUME BusInv, DoBegin, at' = at PROVE BusInv'
<1>1. ~Idle /\ Next1.do = "begin" /\ Advance
  BY DEF DoBegin, Doing
<1>2. /\ todo[1].do = "begin" /\ todo # <<>> /\ todo \in Seq(Steps) /\ 1 \in 1..Len(todo)
      /\ Sound(todo) /\ Shape(todo) /\ IcmTypeOK /\ Marks(todo[1])
  BY <1>1, FirstStep DEF Marks
<1>3. UNCHANGED <<bank, cells, slave4, magRate, accelRange, gyroRange, got, ok, held, known,
                  faults>>
  BY DEF DoBegin, chipVars, rangeVars
<1>4. begun' = FALSE /\ clean' = TRUE /\ todo' = Tail(todo)
  BY DEF DoBegin, Advance
<1>5. todo' \in Seq(Steps) /\ Shape(todo')
  BY <1>1, <1>4, FirstStep
<1>6. IcmTypeOK'
  BY <1>2, <1>3, <1>4, <1>5 DEF IcmTypeOK
<1>7. Early(todo)
  <2>1. ~Late(todo)
    BY <1>2 DEF Late
  <2> QED
    BY <1>2, <2>1 DEF Shape
<1>8. Early(todo')
  BY <1>2, <1>4, <1>7, EarlyHead
<1>9. Fit(Tail(todo), bank)
  BY <1>2, TailFits
<1>10. \A r : Fetch(r).do = "fetch"
  BY DEF Fetch
<1>11. todo' # <<>> => todo'[1].do \notin {"merge", "identify"}
  BY <1>1, <1>2, <1>4, <1>10, AfterStep
<1>12. Fit(todo', bank')
  BY <1>3, <1>4, <1>9
<1>13. Orderly'
  BY <1>8, <1>11, <1>12 DEF Orderly
<1> QED
  BY <1>3, <1>5, <1>6, <1>13 DEF BusInv

(* A poll that is tried again takes the place of the one before.           *)
LEMMA Repolled ==
    ASSUME NEW s \in Seq(Steps), NEW t \in Seq(Steps), Len(t) = Len(s), Len(s) > 0,
           s[1].do = "poll", t[1].do = "poll", t[1].reg = s[1].reg,
           \A k \in 2..Len(s) : t[k] = s[k], Shape(s)
    PROVE  Shape(t) /\ \A b : Fit(s, b) => Fit(t, b)
<1>0. Len(s) \in Nat
  BY LenProperties
<1>1. \A k \in 1..Len(s) : k = 1 \/ k \in 2..Len(s)
  BY <1>0
<1>2. \A b : Select(b).do = "select"
  BY DEF Select
<1>3. \A k \in 1..Len(s) :
        /\ Turns(t[k]) <=> Turns(s[k])
        /\ Accesses(t[k]) <=> Accesses(s[k])
        /\ Accesses(s[k]) => t[k].reg = s[k].reg
        /\ \A b : t[k] = Select(b) <=> s[k] = Select(b)
  BY <1>1, <1>2 DEF Turns, Accesses
<1>4. ASSUME NEW k \in 1..Len(s), Accesses(s[k])
      PROVE  (Bound(s, k) => Bound(t, k)) /\ (Loose(s, k) => Loose(t, k))
  <2>1. \A m \in 1..(k - 1) : m \in 1..Len(s)
    BY <1>0
  <2>2. t[k].reg = s[k].reg
    BY <1>3, <1>4
  <2>3. Loose(s, k) => Loose(t, k)
    BY <1>3, <2>1 DEF Loose
  <2>4. ASSUME Bound(s, k) PROVE Bound(t, k)
    <3>1. PICK j \in 1..(k - 1) : /\ s[j] = Select(s[k].reg[1])
                                  /\ \A m \in (j + 1)..(k - 1) : ~Turns(s[m])
      BY <2>4 DEF Bound
    <3>2. t[j] = Select(t[k].reg[1])
      BY <1>3, <2>1, <2>2, <3>1
    <3>3. \A m \in (j + 1)..(k - 1) : m \in 1..(k - 1)
      BY <1>0
    <3>4. \A m \in (j + 1)..(k - 1) : ~Turns(t[m])
      BY <1>3, <2>1, <3>1, <3>3
    <3> QED
      BY <3>2, <3>4 DEF Bound
  <2> QED
    BY <2>3, <2>4
<1>5. Sound(t)
  BY <1>3, <1>4 DEF Sound, Shape
<1>6. ASSUME NEW b, Fit(s, b) PROVE Fit(t, b)
  <2> SUFFICES ASSUME NEW k \in 1..Len(s), Accesses(s[k])
               PROVE  Bound(t, k) \/ (Loose(t, k) /\ t[k].reg[1] = b)
    BY <1>3 DEF Fit
  <2>1. Bound(s, k) \/ (Loose(s, k) /\ s[k].reg[1] = b)
    BY <1>6 DEF Fit
  <2> QED
    BY <1>3, <1>4, <2>1
<1>7. Paired(t)
  <2> SUFFICES ASSUME NEW k \in 2..Len(s), s[k].do = "merge" PROVE t[k - 1] = Fetch(s[k].reg)
    BY DEF Paired
  <2>1. s[k - 1] = Fetch(s[k].reg)
    BY DEF Shape, Paired
  <2>2. s[k - 1].do = "fetch"
    BY <2>1 DEF Fetch
  <2>3. k - 1 \in 2..Len(s)
    <3>1. k - 1 # 1
      BY <2>2
    <3> QED
      BY <3>1, <1>0
  <2> QED
    BY <2>1, <2>3
<1>8. Late(t)
  <2>1. ~Early(s)
    BY EarlyHead
  <2>2. Late(s)
    BY <2>1 DEF Shape
  <2> QED
    BY <1>1, <2>2 DEF Late
<1> QED
  BY <1>5, <1>6, <1>7, <1>8 DEF Shape

LEMMA PollKeeps == ASSUME BusInv, DoPoll, at' = at PROVE BusInv'
<1>1. ~Idle /\ Next1.do = "poll"
  BY DEF DoPoll, Doing
<1>2. /\ Next1 = todo[1] /\ todo[1].do = "poll" /\ todo # <<>> /\ todo \in Seq(Steps)
      /\ Tail(todo) \in Seq(Steps) /\ Shape(Tail(todo))
      /\ todo[1] \in Steps /\ Shape(todo) /\ IcmTypeOK /\ ~Turns(todo[1])
  BY <1>1, FirstStep DEF Turns
<1>3. todo[1].reg = MstStatus /\ todo[1].try \in Nat
  BY <1>2, StepKinds
<1>4. UNCHANGED <<accelRange, gyroRange, held, known, begun>>
  BY DEF DoPoll, rangeVars
<1>5. CASE PollFinds /\ Advance /\ UNCHANGED <<ok, got>>
  <2>1. todo' = Tail(todo) /\ ok' = ok /\ got' = got
    BY <1>5 DEF Advance
  <2>2. todo' \in Seq(Steps) /\ Shape(todo')
    BY <1>2, <2>1
  <2>3. CASE Works /\ Loaded(MstStatus[2])
    <3>1. clean' = clean /\ faults' = faults
      BY <2>3 DEF Works, faultVars
    <3>2. /\ cells' \in [Cells -> Byte] /\ slave4' = slave4 /\ bank' = bank
          /\ magRate' = magRate /\ cells'[WhoAmI] = cells[WhoAmI]
          /\ cells'[PwrMgmt1] = cells[PwrMgmt1]
      BY <1>2, <2>3, LoadedKept
    <3>3. IcmTypeOK'
      BY <1>2, <1>4, <2>1, <2>2, <3>1, <3>2 DEF IcmTypeOK
    <3>4. clean => Orderly'
      BY <1>1, <1>2, <1>5, <3>2, GoOn
    <3> QED
      BY <2>2, <3>1, <3>2, <3>3, <3>4 DEF BusInv
  <2>4. CASE Fails /\ UNCHANGED chipVars
    <3>1. clean' = FALSE /\ faults' \in Nat
      BY <1>2, <2>4, Failed
    <3>2. UNCHANGED <<bank, cells, slave4, magRate>>
      BY <2>4 DEF chipVars
    <3>3. IcmTypeOK'
      BY <1>2, <1>4, <2>1, <2>2, <3>1, <3>2 DEF IcmTypeOK
    <3> QED
      BY <2>2, <3>1, <3>2, <3>3 DEF BusInv
  <2> QED
    BY <1>5, <2>3, <2>4 DEF PollFinds
<1>6. CASE Works /\ UNCHANGED chipVars /\ ReturnFalse("aux")
  <2>1. UNCHANGED <<bank, cells, slave4, magRate, clean, faults>>
    BY <1>6 DEF chipVars, Works, faultVars
  <2>2. todo' \in Seq(Steps) /\ Shape(todo') /\ ok' \in BOOLEAN /\ got' \in Byte
    BY <1>1, <1>6, GoOut
  <2>3. clean => Orderly'
    BY <1>1, <1>2, <1>6, <2>1, GoOut
  <2>4. IcmTypeOK'
    BY <1>2, <1>4, <2>1, <2>2 DEF IcmTypeOK
  <2> QED
    BY <2>1, <2>2, <2>3, <2>4 DEF BusInv
<1>7. CASE /\ Works /\ UNCHANGED chipVars /\ UNCHANGED <<ok, got>>
           /\ todo' = <<Poll(Next1.try + 1)>> \o Tail(todo)
  <2>1. UNCHANGED <<bank, cells, slave4, magRate, clean, faults, ok, got>>
    BY <1>7 DEF chipVars, Works, faultVars
  <2> DEFINE x == Poll(todo[1].try + 1)
  <2>2. x \in Steps /\ x.do = "poll" /\ x.reg = MstStatus
    <3>1. todo[1].try + 1 \in Nat
      BY <1>3
    <3> QED
      BY <3>1, FlowStep DEF Poll
  <2>3. todo' = <<x>> \o Tail(todo)
    BY <1>2, <1>7
  <2> HIDE DEF x
  <2> DEFINE u == <<x>>
  <2>4. u \in Seq(Steps) /\ Len(u) = 1 /\ u[1] = x
    BY <2>2
  <2> HIDE DEF u
  <2>5. /\ todo' \in Seq(Steps) /\ Len(todo') = Len(u) + Len(Tail(todo))
        /\ \A i \in 1..Len(u) : todo'[i] = u[i]
        /\ \A i \in 1..Len(Tail(todo)) : todo'[Len(u) + i] = Tail(todo)[i]
    BY <1>2, <2>3, <2>4, ConcatIndex DEF u
  <2>6. /\ Len(todo) \in Nat /\ Len(todo) > 0 /\ Len(Tail(todo)) = Len(todo) - 1
        /\ \A k \in 1..Len(Tail(todo)) : Tail(todo)[k] = todo[k + 1]
    BY <1>2, TailIndex
  <2>7. Len(todo') = Len(todo) /\ todo'[1] = x
    BY <2>4, <2>5, <2>6
  <2>8. \A k \in 2..Len(todo) : todo'[k] = todo[k]
    <3> TAKE k \in 2..Len(todo)
    <3>1. k - 1 \in 1..Len(Tail(todo)) /\ 1 + (k - 1) = k /\ (k - 1) + 1 = k
      BY <2>6
    <3>2. todo'[1 + (k - 1)] = Tail(todo)[k - 1]
      BY <3>1, <2>4, <2>5
    <3> QED
      BY <3>1, <3>2, <2>6
  <2>9. Shape(todo') /\ \A b : Fit(todo, b) => Fit(todo', b)
    BY <1>2, <1>3, <2>2, <2>5, <2>6, <2>7, <2>8, Repolled
  <2>10. IcmTypeOK'
    BY <1>2, <1>4, <2>1, <2>5 DEF IcmTypeOK
  <2>11. ASSUME clean PROVE Orderly'
    <3>1. Orderly
      BY <2>11 DEF BusInv
    <3>2. Fit(todo', bank')
      BY <2>1, <2>9, <3>1 DEF Orderly
    <3>3. ~Early(todo)
      BY <1>2, EarlyHead
    <3>4. ~Pending'
      BY <1>2, <2>1, <3>1, <3>3 DEF Orderly, Pending, Resting
    <3>5. todo'[1].do = "poll"
      BY <2>2, <2>7
    <3> QED
      BY <3>2, <3>4, <3>5 DEF Orderly
  <2> QED
    BY <2>1, <2>5, <2>9, <2>10, <2>11 DEF BusInv
<1> QED
  BY <1>5, <1>6, <1>7 DEF DoPoll

LEMMA GiveUpWhole == Whole(<<Op("giveUp"), Join("end")>>)
<1>1. Whole(<<Op("giveUp")>>) /\ Whole(<<Join("end")>>)
  BY JoinWhole
<1>2. <<Op("giveUp"), Join("end")>> = <<Op("giveUp")>> \o <<Join("end")>>
  OBVIOUS
<1> QED
  BY <1>1, <1>2, WholeConcat

(* Another try, after a reset of the I2C master, or none.                  *)
LEMMA TryMagWhole == ASSUME BusInv, DoTryMag PROVE Whole(todo')
<1>1. ~Idle /\ Next1.do = "tryMag"
  BY DEF DoTryMag, Doing
<1>2. /\ Next1 = todo[1] /\ todo[1].do = "tryMag" /\ todo # <<>> /\ todo \in Seq(Steps)
      /\ Tail(todo) \in Seq(Steps) /\ Sound(todo) /\ Paired(todo)
      /\ todo[1] \in Steps /\ Shape(todo) /\ Marks(todo[1])
  BY <1>1, FirstStep DEF Marks
<1>3. todo[1].try + 1 \in Nat
  <2>1. todo[1].try \in Nat
    BY <1>2, StepKinds
  <2> QED
    BY <2>1
<1>4. Whole(Tail(todo))
  <2>1. ~Early(todo)
    BY <1>2, EarlyHead
  <2>2. Late(todo)
    BY <1>2, <2>1 DEF Shape
  <2>3. Closed(Tail(todo)) /\ Paired(Tail(todo)) /\ Late(Tail(todo))
    BY <1>2, <2>2, TailFits, TailKept
  <2> QED
    BY <1>2, <2>3, ClosedWhole
<1>5. CASE todo' = Tail(todo)
  BY <1>4, <1>5
<1>6. CASE todo' = ResetI2CMaster \o MagTry(Next1.try + 1) \o Tail(todo)
  <2>1. Whole(MagTry(todo[1].try + 1))
    BY <1>3, MagWhole
  <2>2. Whole(ResetI2CMaster \o MagTry(todo[1].try + 1))
    BY <2>1, MasterWhole, WholeConcat
  <2>3. Whole((ResetI2CMaster \o MagTry(todo[1].try + 1)) \o Tail(todo))
    BY <1>4, <2>2, WholeConcat
  <2> QED
    BY <1>2, <1>6, <2>3
<1>7. CASE todo' = ResetI2CMaster \o <<Op("giveUp"), Join("end")>>
  <2>1. Whole(ResetI2CMaster \o <<Op("giveUp"), Join("end")>>)
    BY GiveUpWhole, MasterWhole, WholeConcat
  <2> QED
    BY <1>7, <2>1
<1> QED
  BY <1>5, <1>6, <1>7 DEF DoTryMag, Advance

LEMMA TryMagKeeps == ASSUME BusInv, DoTryMag, at' = at PROVE BusInv'
<1>1. ~Idle /\ Next1.do = "tryMag"
  BY DEF DoTryMag, Doing
<1>2. /\ Next1 = todo[1] /\ todo[1].do = "tryMag" /\ todo # <<>> /\ todo \in Seq(Steps)
      /\ Shape(todo) /\ IcmTypeOK
  BY <1>1, FirstStep
<1>3. /\ UNCHANGED <<bank, cells, slave4, magRate, accelRange, gyroRange, held, known, begun,
                     clean, faults>>
      /\ UNCHANGED <<ok, got>>
  BY DEF DoTryMag, chipVars, rangeVars, faultVars
<1>4. ~Early(todo)
  BY <1>2, EarlyHead
<1>5. Whole(todo')
  BY TryMagWhole
<1>6. /\ todo' \in Seq(Steps) /\ Shape(todo') /\ \A b : Fit(todo', b)
      /\ todo' # <<>> => todo'[1].do \notin {"merge", "identify"}
  BY <1>5, WholeShape
<1>7. IcmTypeOK'
  BY <1>2, <1>3, <1>6 DEF IcmTypeOK
<1>8. ASSUME clean PROVE Orderly'
  <2>1. Orderly
    BY <1>8 DEF BusInv
  <2>2. ~Pending'
    BY <1>2, <1>3, <1>4, <2>1 DEF Orderly, Pending, Resting
  <2> QED
    BY <1>6, <2>2 DEF Orderly
<1> QED
  BY <1>3, <1>6, <1>7, <1>8 DEF BusInv

LEMMA FlowKeeps == ASSUME BusInv, DoFlow, at' = at PROVE BusInv'
<1>1. ~Idle
  BY DEF DoFlow
<1>2. /\ Next1 = todo[1] /\ todo # <<>> /\ todo \in Seq(Steps) /\ Shape(todo) /\ IcmTypeOK
      /\ Tail(todo) \in Seq(Steps) /\ Shape(Tail(todo))
  BY <1>1, FirstStep
<1>3. UNCHANGED <<bank, cells, slave4, magRate, accelRange, gyroRange, clean, faults>>
  BY DEF DoFlow, chipVars, rangeVars, faultVars
<1>4. \/ /\ Advance /\ got' = got /\ ok' \in BOOLEAN
         /\ todo[1].do \in {"join", "aux", "hold", "both", "orEnd", "identify", "begun"}
      \/ \E l : ReturnFalse(l) /\ todo[1].do \in {"orEnd", "giveUp"}
      \/ todo[1].do = "identify" /\ got \notin ChipIds /\ ReturnFalse("init")
  BY <1>2 DEF DoFlow, Doing, IcmTypeOK
<1>5. held' \in BOOLEAN /\ known' \in BOOLEAN /\ begun' \in BOOLEAN
  BY <1>2 DEF DoFlow, IcmTypeOK
<1>6. CASE /\ Advance /\ got' = got /\ ok' \in BOOLEAN
           /\ todo[1].do \in {"join", "aux", "hold", "both", "orEnd", "identify", "begun"}
  <2>1. todo' \in Seq(Steps) /\ Shape(todo')
    BY <1>2, <1>6 DEF Advance
  <2>2. IcmTypeOK'
    BY <1>2, <1>3, <1>5, <1>6, <2>1 DEF IcmTypeOK
  <2>3. ~Turns(todo[1]) \/ Marks(todo[1])
    BY <1>6 DEF Turns, Marks
  <2>4. clean => Orderly'
    BY <1>1, <1>3, <1>6, <2>3, GoOn
  <2> QED
    BY <1>3, <2>1, <2>2, <2>4 DEF BusInv
<1>7. CASE \E l : ReturnFalse(l) /\ todo[1].do \in {"orEnd", "giveUp"}
  <2>1. PICK l : ReturnFalse(l) /\ todo[1].do \in {"orEnd", "giveUp"}
    BY <1>7
  <2>2. /\ todo' \in Seq(Steps) /\ Shape(todo') /\ ok' \in BOOLEAN /\ got' \in Byte
        /\ clean => Orderly'
    BY <1>1, <1>3, <2>1, GoOut
  <2>3. IcmTypeOK'
    BY <1>2, <1>3, <1>5, <2>2 DEF IcmTypeOK
  <2> QED
    BY <1>3, <2>2, <2>3 DEF BusInv
<1>8. CASE todo[1].do = "identify" /\ got \notin ChipIds /\ ReturnFalse("init")
  <2>1. todo' \in Seq(Steps) /\ Shape(todo') /\ ok' \in BOOLEAN /\ got' \in Byte
    BY <1>1, <1>8, GoOut
  <2>2. IcmTypeOK'
    BY <1>2, <1>3, <1>5, <2>1 DEF IcmTypeOK
  <2>3. ~clean
    <3>1. 234 \in ChipIds
      BY DEF ChipIds
    <3> QED
      BY <1>2, <1>8, <3>1 DEF BusInv, Orderly
  <2> QED
    BY <1>3, <2>1, <2>2, <2>3 DEF BusInv
<1> QED
  BY <1>4, <1>6, <1>7, <1>8

LEMMA DriverKeeps == ASSUME BusInv, DriverStep, at' = at PROVE BusInv'
BY SelectKeeps, DetectKeeps, FetchKeeps, PutKeeps, Put2Keeps, MergeKeeps, CacheKeeps,
   ClearedKeeps, PollKeeps, TryMagKeeps, FlowKeeps, BeginKeeps DEF DriverStep

LEMMA DefaultBytes ==
    Defaults \in [Cells -> Byte] /\ Defaults[WhoAmI] = 234 /\ Defaults[PwrMgmt1] = 65
<1>1. WhoAmI \in Cells /\ PwrMgmt1 \in Cells /\ PwrMgmt1 # WhoAmI
  BY CellFacts, CellPairs
<1>2. 234 \in Byte /\ 65 \in Byte /\ 1 \in Byte /\ 0 \in Byte
  BY DEF Byte
<1> HIDE DEF Byte
<1>3. \A c \in Cells : Defaults[c] \in Byte
  <2> TAKE c \in Cells
  <2>1. Defaults[c] = CASE c = WhoAmI -> 234
                        [] c = PwrMgmt1 -> 65
                        [] c \in {GyroConfig1, AccelConfig1} -> 1
                        [] OTHER -> 0
    BY DEF Defaults
  <2>2. Defaults[c] \in {234, 65, 1, 0}
    BY <2>1
  <2> QED
    BY <1>2, <2>2
<1>4. Defaults = [c \in Cells |-> Defaults[c]]
  BY DEF Defaults
<1>5. Defaults \in [Cells -> Byte]
  BY <1>3, <1>4
<1>6. PwrMgmt1 \notin {GyroConfig1, AccelConfig1} /\ WhoAmI \notin {GyroConfig1, AccelConfig1}
  BY DEF PwrMgmt1, WhoAmI, GyroConfig1, AccelConfig1
<1>7. Defaults[WhoAmI] = 234
  BY <1>1, <1>6 DEF Defaults
<1>8. Defaults[PwrMgmt1] = 65
  BY <1>1, <1>6 DEF Defaults
<1> QED
  BY <1>5, <1>7, <1>8

LEMMA ChipKeeps == ASSUME BusInv, ChipStep, at' = at PROVE BusInv'
<1>1. IcmTypeOK /\ Shape(todo) /\ todo \in Seq(Steps) /\ cells \in [Cells -> Byte]
      /\ cells[WhoAmI] = 234
  BY DEF BusInv, IcmTypeOK
<1>2. {WhoAmI, UserCtrl, PwrMgmt1, MstStatus, Slv4Di, Slv4Addr, Slv4Reg, Slv4Do} \subseteq Cells
  BY CellFacts
<1>3. /\ WhoAmI # UserCtrl /\ WhoAmI # MstStatus /\ WhoAmI # Slv4Di
      /\ PwrMgmt1 # UserCtrl /\ PwrMgmt1 # MstStatus /\ PwrMgmt1 # Slv4Di
      /\ PwrMgmt1 # WhoAmI
  BY CellPairs
<1>4. /\ todo' = todo /\ got' = got
      /\ UNCHANGED <<accelRange, gyroRange, ok, held, known, begun, clean, faults>>
  BY DEF ChipStep, ChipResets, MasterResets, AuxFinishes, rangeVars, callVars, faultVars
<1>5. CASE ChipResets
  <2>1. cells' = Defaults /\ bank' = 0 /\ slave4' = "idle" /\ magRate' = magRate /\ Pending
    BY <1>5 DEF ChipResets, Pending
  <2>2. /\ Defaults \in [Cells -> Byte] /\ Defaults[WhoAmI] = 234
        /\ Defaults[PwrMgmt1] = 65
    BY DefaultBytes
  <2>3. IcmTypeOK'
    BY <1>1, <1>4, <2>1, <2>2 DEF IcmTypeOK, Banks
  <2>4. ASSUME clean PROVE Orderly'
    <3>1. Orderly
      BY <2>4 DEF BusInv
    <3>2. Bits(65, 1, 7) = 0
      BY Powers DEF Bits
    <3>3. ~Pending'
      BY <2>1, <2>2, <3>2 DEF Pending
    <3>4. Fit(todo, 0)
      <4>1. CASE Early(todo)
        <5>1. PICK k \in 0..8 : todo = Cut(k)
          BY <4>1 DEF Early
        <5>2. Fit(Cut(k), bank)
          BY <3>1, <5>1 DEF Orderly
        <5> QED
          BY <5>1, <5>2, CutFits
      <4>2. CASE todo = <<>>
        BY <4>2 DEF Fit
      <4> QED
        BY <2>1, <3>1, <4>1, <4>2 DEF Orderly, Resting
    <3>5. Fit(todo', bank')
      BY <1>4, <2>1, <3>4
    <3> QED
      BY <1>4, <3>1, <3>3, <3>5 DEF Orderly
  <2> QED
    BY <1>1, <1>4, <2>1, <2>2, <2>3, <2>4 DEF BusInv
<1>6. ASSUME cells' \in [Cells -> Byte], cells'[WhoAmI] = cells[WhoAmI],
             cells'[PwrMgmt1] = cells[PwrMgmt1], bank' = bank, magRate' \in Byte,
             slave4' = "idle"
      PROVE  BusInv'
  <2>1. IcmTypeOK'
    BY <1>1, <1>4, <1>6 DEF IcmTypeOK
  <2>2. ASSUME clean PROVE Orderly'
    <3>1. Orderly
      BY <2>2 DEF BusInv
    <3>2. Pending' <=> Pending
      BY <1>6 DEF Pending
    <3>3. Resting' <=> Resting
      BY <1>4 DEF Resting
    <3>4. Fit(todo', bank')
      BY <1>4, <1>6, <3>1 DEF Orderly
    <3> QED
      BY <1>4, <3>1, <3>2, <3>3, <3>4 DEF Orderly
  <2> QED
    BY <1>1, <1>4, <1>6, <2>1, <2>2 DEF BusInv
<1>7. CASE MasterResets
  <2> DEFINE v == WithBits(cells[UserCtrl], 1, 1, 0)
  <2>1. v \in Byte
    <3>1. cells[UserCtrl] \in Byte /\ 0 \in Byte /\ 1 \in 1..3 /\ 1 \in 0..7 /\ 1 + 1 <= 8
      BY <1>1, <1>2 DEF Byte
    <3> QED
      BY <3>1, WithBitsByte
  <2>2. cells' = [cells EXCEPT ![UserCtrl] = v]
    BY <1>7 DEF MasterResets
  <2> HIDE DEF v
  <2>3. /\ cells' \in [Cells -> Byte] /\ cells'[WhoAmI] = cells[WhoAmI]
        /\ cells'[PwrMgmt1] = cells[PwrMgmt1]
    BY <1>1, <1>2, <1>3, <2>1, <2>2
  <2>4. bank' = bank /\ magRate' \in Byte /\ slave4' = "idle"
    BY <1>1, <1>7 DEF MasterResets, IcmTypeOK
  <2> QED
    BY <1>6, <2>3, <2>4
<1>8. CASE AuxFinishes
  <2> DEFINE answers == cells[Slv4Addr] % 128 = MagAddress
  <2> DEFINE reading == cells[Slv4Addr] >= 128
  <2> DEFINE value == CASE cells[Slv4Reg] = Wia2 -> MagId
                        [] cells[Slv4Reg] = Cntl2 -> magRate
                        [] OTHER -> 0
  <2> DEFINE v == WithBits(cells[MstStatus], 1, 6, 1)
  <2> DEFINE w == IF answers /\ reading THEN value ELSE cells[Slv4Di]
  <2>1. v \in Byte
    <3>1. cells[MstStatus] \in Byte /\ 1 \in Byte /\ 1 \in 1..3 /\ 6 \in 0..7 /\ 1 + 6 <= 8
      BY <1>1, <1>2 DEF Byte
    <3> QED
      BY <3>1, WithBitsByte
  <2>2. value \in Byte
    <3>1. MagId \in Byte /\ 0 \in Byte /\ magRate \in Byte
      BY <1>1 DEF MagId, Byte, IcmTypeOK
    <3>2. value = MagId \/ value = magRate \/ value = 0
      BY DEF Wia2, Cntl2
    <3> QED
      BY <3>1, <3>2
  <2>3. /\ cells' = [cells EXCEPT ![MstStatus] = v, ![Slv4Di] = w]
        /\ magRate' = IF answers /\ ~reading /\ cells[Slv4Reg] = Cntl2
                      THEN cells[Slv4Do] ELSE magRate
        /\ bank' = bank /\ slave4' = "idle"
    <3>1. MstStatus # Slv4Di
      BY DEF MstStatus, Slv4Di
    <3> QED
      BY <1>8, <3>1 DEF AuxFinishes
  <2> HIDE DEF answers, reading, value, v
  <2>4. w \in Byte
    BY <1>1, <1>2, <2>2
  <2> HIDE DEF w
  <2>5. /\ cells' \in [Cells -> Byte] /\ cells'[WhoAmI] = cells[WhoAmI]
        /\ cells'[PwrMgmt1] = cells[PwrMgmt1]
    BY <1>1, <1>2, <1>3, <2>1, <2>3, <2>4
  <2>6. magRate' \in Byte
    BY <1>1, <1>2, <2>3 DEF IcmTypeOK
  <2> QED
    BY <1>6, <2>3, <2>5, <2>6
<1> QED
  BY <1>5, <1>7, <1>8 DEF ChipStep

-----------------------------------------------------------------------------
(* The sketch starts a call only when the one before is over.              *)
LEMMA CallKeeps ==
    ASSUME BusInv, NEW method, method \in Seq(Steps), Shape(method),
           \A b \in Banks : Fit(method, b),
           method # <<>> => method[1].do \notin {"merge", "identify"},
           Early(method) \/ at \in {"beginIcm", "show", "loop"},
           Call(method),
           UNCHANGED <<chipVars, rangeVars, got, held, known, begun, faultVars>>
    PROVE  BusInv'
<1>1. todo = <<>> /\ todo' = method /\ ok' = TRUE
  BY DEF Call, Idle
<1>2. UNCHANGED <<bank, cells, slave4, magRate, accelRange, gyroRange, got, held, known, begun,
                  clean, faults>>
  BY DEF chipVars, rangeVars, faultVars
<1>3. IcmTypeOK
  BY DEF BusInv
<1>4. IcmTypeOK'
  BY <1>1, <1>2, <1>3 DEF IcmTypeOK
<1>5. ASSUME clean PROVE Orderly'
  <2>1. Orderly
    BY <1>5 DEF BusInv
  <2>2. Fit(todo', bank')
    BY <1>1, <1>2, <1>3 DEF IcmTypeOK
  <2>3. Pending' => Early(todo')
    <3> SUFFICES ASSUME Pending', ~Early(method) PROVE FALSE
      BY <1>1
    <3>1. Pending /\ at \in {"beginIcm", "show", "loop"}
      BY <1>2 DEF Pending
    <3>2. Early(todo)
      BY <2>1, <3>1 DEF Orderly, Resting
    <3> QED
      BY <1>1, <3>2, EarlyHead
  <2> QED
    BY <1>1, <2>2, <2>3 DEF Orderly
<1> QED
  BY <1>1, <1>2, <1>4, <1>5 DEF BusInv

LEMMA BeginCalled ==
    /\ BeginI2C \in Seq(Steps) /\ Shape(BeginI2C) /\ \A b \in Banks : Fit(BeginI2C, b)
    /\ Early(BeginI2C) /\ BeginI2C[1].do \notin {"merge", "identify"}
<1>1. Early(BeginI2C)
  <2>1. 0 \in 0..8 /\ BeginI2C = Cut(0)
    BY CutZero
  <2> QED
    BY <2>1 DEF Early
<1> QED
  BY <1>1, BeginShape, BeginDoes DEF Shape

LEMMA CalibrateKeeps == ASSUME BusInv, CalibrateICM PROVE BusInv'
<1>1. Call(BeginI2C) /\ UNCHANGED <<chipVars, rangeVars, got, held, known, begun, faultVars>>
  BY DEF CalibrateICM
<1> QED
  BY <1>1, BeginCalled, CallKeeps

LEMMA ShowWhole ==
    ASSUME NEW s,
           s = ReadRange(AccelConfig1) \o ReadRange(GyroConfig1) \o ReadRange(AccelSmplrtDiv1)
    PROVE  Whole(s)
<1>1. /\ Whole(ReadRange(AccelConfig1)) /\ Whole(ReadRange(GyroConfig1))
      /\ Whole(ReadRange(AccelSmplrtDiv1))
  BY ReadsWhole
<1>2. Whole(ReadRange(AccelConfig1) \o ReadRange(GyroConfig1))
  BY <1>1, WholeConcat
<1> QED
  BY <1>1, <1>2, WholeConcat

LEMMA ShowKeeps == ASSUME BusInv, ShowICM PROVE BusInv'
<1> DEFINE method == ReadRange(AccelConfig1) \o ReadRange(GyroConfig1) \o ReadRange(AccelSmplrtDiv1)
<1>1. Call(method) /\ UNCHANGED <<chipVars, rangeVars, got, held, known, begun, faultVars>>
      /\ at = "beginIcm"
  BY DEF ShowICM, Goes
<1>2. Whole(method)
  BY ShowWhole
<1> HIDE DEF method
<1>3. /\ method \in Seq(Steps) /\ Shape(method) /\ \A b : Fit(method, b)
      /\ method # <<>> => method[1].do \notin {"merge", "identify"}
  BY <1>2, WholeShape
<1> QED
  BY <1>1, <1>3, CallKeeps

LEMMA MethodKeeps == ASSUME BusInv, CallMethod PROVE BusInv'
<1>1. PICK method \in Methods : Call(method)
  BY DEF CallMethod
<1>2. UNCHANGED <<chipVars, rangeVars, got, held, known, begun, faultVars>> /\ at = "loop"
  BY DEF CallMethod, Goes
<1>3. /\ method \in Seq(Steps) /\ Shape(method) /\ \A b : Fit(method, b)
      /\ method # <<>> => method[1].do \notin {"merge", "identify"}
  BY <1>1, MethodsWhole, WholeShape
<1> QED
  BY <1>1, <1>2, <1>3, CallKeeps

(* The rest of setup(), and steps that change nothing of the driver.       *)
LEMMA SetupKeeps ==
    ASSUME BusInv, UNCHANGED icmVars, Resting => Resting'
    PROVE  BusInv'
<1>1. /\ UNCHANGED <<bank, cells, slave4, magRate, accelRange, gyroRange>>
      /\ UNCHANGED <<todo, got, ok, held, known, begun, clean, faults>>
  BY DEF icmVars, chipVars, rangeVars, callVars, faultVars
<1>2. IcmTypeOK'
  BY <1>1 DEF BusInv, IcmTypeOK
<1>3. ASSUME clean PROVE Orderly'
  <2>1. Orderly
    BY <1>3 DEF BusInv
  <2>2. Pending' <=> Pending
    BY <1>1 DEF Pending
  <2> QED
    BY <1>1, <2>1, <2>2 DEF Orderly
<1> QED
  BY <1>1, <1>2, <1>3 DEF BusInv

(* A restart finds the chip as it is, a reset pending or not.              *)
LEMMA RestartKeeps ==
    ASSUME BusInv, Restarted, clean' = clean, faults' \in Nat
    PROVE  BusInv'
<1>1. /\ at' = "pinMode" /\ todo' = <<>> /\ got' = 0 /\ ok' = FALSE /\ held' = FALSE
      /\ known' = FALSE /\ begun' = FALSE /\ accelRange' = 0 /\ gyroRange' = 0
      /\ UNCHANGED <<bank, cells, slave4, magRate>>
  BY DEF Restarted, DriverRestarts, chipVars
<1>2. 0 \in Byte /\ 0 \in 0..3 /\ FALSE \in BOOLEAN
  BY DEF Byte
<1>3. /\ todo' \in Seq(Steps) /\ Shape(todo') /\ \A b : Fit(todo', b)
  BY <1>1, EmptyWhole, WholeShape
<1>4. IcmTypeOK
  BY DEF BusInv
<1>5. IcmTypeOK'
  BY <1>1, <1>2, <1>3, <1>4 DEF IcmTypeOK
<1>6. Resting'
  BY <1>1 DEF Resting
<1>7. Orderly'
  BY <1>1, <1>3, <1>6 DEF Orderly
<1> QED
  BY <1>1, <1>3, <1>5, <1>7 DEF BusInv

LEMMA BusInvInit == BootInit => BusInv
<1> SUFFICES ASSUME BootInit PROVE BusInv
  OBVIOUS
<1>1. /\ bank = 0 /\ cells = Defaults /\ slave4 = "idle" /\ magRate = 0
      /\ accelRange = 0 /\ gyroRange = 0
      /\ todo = <<>> /\ got = 0 /\ ok = FALSE /\ held = FALSE /\ known = FALSE
      /\ begun = FALSE /\ clean = TRUE /\ faults = 0 /\ at = "pinMode"
  BY DEF BootInit, IcmInit
<1>3. Defaults \in [Cells -> Byte] /\ Defaults[WhoAmI] = 234
  BY DefaultBytes
<1>4. 0 \in Byte /\ 0 \in Banks /\ 0 \in 0..3 /\ 0 \in Nat
  BY DEF Byte, Banks
<1>5. todo \in Seq(Steps) /\ Shape(todo) /\ \A b : Fit(todo, b)
  BY <1>1, EmptyWhole, WholeShape
<1>6. IcmTypeOK
  BY <1>1, <1>3, <1>4, <1>5 DEF IcmTypeOK
<1>7. Orderly
  BY <1>1, <1>5 DEF Orderly, Resting
<1> QED
  BY <1>1, <1>3, <1>5, <1>6, <1>7 DEF BusInv

LEMMA BusInvNext == BusInv /\ [BootNext]_bootVars => BusInv'
<1> SUFFICES ASSUME BusInv, [BootNext]_bootVars PROVE BusInv'
  OBVIOUS
<1>1. CASE RangeSetup
  <2>1. UNCHANGED icmVars /\ at' \notin {"beginIcm", "show", "loop"}
    BY <1>1 DEF RangeSetup, DriveLines, PowerOff, PowerOn, HoldSecond, BeginFirst, WakeSecond,
                BeginSecond, Goes
  <2>2. Resting => Resting'
    BY <2>1 DEF Resting, icmVars, callVars
  <2> QED
    BY <2>1, <2>2, SetupKeeps
<1>2. CASE BeginFails
  <2>1. UNCHANGED icmVars /\ at' \notin {"beginIcm", "show", "loop"}
    BY <1>2 DEF BeginFails
  <2>2. Resting => Resting'
    BY <2>1 DEF Resting, icmVars, callVars
  <2> QED
    BY <2>1, <2>2, SetupKeeps
<1>3. CASE MotionSetup
  <2>1. CASE CalibrateFails \/ SetupReturns
    <3>1. UNCHANGED icmVars /\ at \in {"beginIcm", "show"}
      BY <2>1 DEF CalibrateFails, SetupReturns, Goes
    <3>2. ~Resting
      BY <3>1 DEF Resting
    <3> QED
      BY <3>1, <3>2, SetupKeeps
  <2> QED
    BY <1>3, <2>1, CalibrateKeeps, ShowKeeps DEF MotionSetup
<1>4. CASE CallMethod
  BY <1>4, MethodKeeps
<1>5. CASE WatchdogRestart
  <2>1. Restarted /\ clean' = clean /\ faults' = faults
    BY <1>5 DEF WatchdogRestart, faultVars
  <2>2. faults' \in Nat
    BY <2>1 DEF BusInv, IcmTypeOK
  <2> QED
    BY <2>1, <2>2, RestartKeeps
<1>6. CASE OtherRestart
  <2>1. Restarted /\ clean' = clean /\ faults' = faults + 1
    BY <1>6 DEF OtherRestart
  <2>2. faults' \in Nat
    BY <2>1 DEF BusInv, IcmTypeOK
  <2> QED
    BY <2>1, <2>2, RestartKeeps
<1>7. CASE (DriverStep \/ ChipStep) /\ UNCHANGED <<at, loxVars, calls>>
  BY <1>7, DriverKeeps, ChipKeeps
<1>8. CASE UNCHANGED bootVars
  <2>1. UNCHANGED icmVars /\ at' = at
    BY <1>8 DEF bootVars
  <2>2. Resting => Resting'
    BY <2>1 DEF Resting, icmVars, callVars
  <2> QED
    BY <2>1, <2>2, SetupKeeps
<1> QED
  BY <1>1, <1>2, <1>3, <1>4, <1>5, <1>6, <1>7, <1>8 DEF BootNext

LEMMA BusInvHolds == BootSpec => []BusInv
<1>1. BootInit => BusInv
  BY BusInvInit
<1>2. BusInv /\ [BootNext]_bootVars => BusInv'
  BY BusInvNext
<1> QED
  BY <1>1, <1>2, PTL DEF BootSpec

-----------------------------------------------------------------------------
(* While nothing fails on the bus every access of the driver is made in    *)
(* the bank whose register it is meant for: whichever methods were called  *)
(* before, wherever the processor restarted, and whenever the chip ends a  *)
(* reset.                                                                  *)
THEOREM RegistersAreMeant == BootSpec => []MeantRegister
<1>1. BusInv => MeantRegister
  <2> SUFFICES ASSUME BusInv, clean, ~Idle,
                      Next1.do \in {"fetch", "put", "put2", "merge", "cleared", "poll"}
               PROVE  bank = Next1.reg[1]
    BY DEF MeantRegister
  <2>1. Next1 = todo[1]
    BY FirstStep
  <2> QED
    BY <2>1, BankMeant DEF Accesses
<1> QED
  BY <1>1, BusInvHolds, PTL

-----------------------------------------------------------------------------
(* What begin_I2C leaves behind.  A range, its register, the member the    *)
(* driver scales by, and the bits the chip does.                           *)
Ranges == {"gyro", "accel"}
RangeReg(R) == IF R = "gyro" THEN GyroConfig1 ELSE AccelConfig1
Scale(R) == IF R = "gyro" THEN gyroRange ELSE accelRange
Field(R) == Bits(cells[RangeReg(R)], 2, 1)

(* The steps that wake the chip, enable the I2C master, aim slave 0 at the *)
(* magnetometer and let it feed.                                           *)
Wake == Merge(PwrMgmt1, 1, 6, 0, Ignore)
Enable == Merge(UserCtrl, 1, 5, 1, Ignore)
Aim == Put(Slv0Addr, 128 + MagAddress, "end")
Feed == Put(Slv0Ctrl, 137, "end")

(* A range is set in the chip by one step and remembered by the next.      *)
Sets(x, R) == x.do = "merge" /\ x.reg = RangeReg(R) /\ x.bits = 2
Remembers(x, R) == x.do = "cache" /\ x.range = R

(* A step that writes one of these registers writes what begin_I2C does,   *)
(* or other bits of it.                                                    *)
Mild(x) ==
    /\ x.do = "put" => /\ x.reg \notin {UserCtrl, AccelConfig1, GyroConfig1}
                       /\ x.reg = Slv0Addr => x.value = 128 + MagAddress
                       /\ x.reg = Slv0Ctrl => x.value = 137
    /\ x.do = "merge" =>
          /\ x.reg \notin {Slv0Addr, Slv0Ctrl}
          /\ x.reg = UserCtrl => /\ x.bits = 1 /\ x.value = 1
                                 /\ x.shift \in {1, 5}
          /\ x.reg \in {AccelConfig1, GyroConfig1} =>
                \/ x.bits = 1 /\ x.shift = 0
                \/ x.bits = 3 /\ x.shift = 3
                \/ x.bits = 2 /\ x.shift = 1 /\ x.value \in 0..3

(* A poll comes before the end of its auxiliary transaction.               *)
Answered(s, k) ==
    \/ k + 1 <= Len(s) /\ s[k + 1] = Join("aux")
    \/ /\ k + 3 <= Len(s) /\ s[k + 1].do = "select" /\ s[k + 2].do = "fetch"
       /\ s[k + 3] = Join("aux")

(* What is left of a call: its writes are mild, a range that is set is     *)
(* remembered right away, each range once, and begin_I2C returns true only *)
(* at its very end.                                                        *)
Steady(s) ==
    \A k \in 1..Len(s) :
        /\ Mild(s[k])
        /\ s[k].do = "poll" => Answered(s, k)
        /\ \A R \in Ranges : Sets(s[k], R) =>
              k + 1 <= Len(s) /\ s[k + 1] = Cache(R, s[k].value)

Once(s) ==
    \A i, j \in 1..Len(s) :
        s[i].do = "cache" /\ s[j].do = "cache" /\ s[i].range = s[j].range => i = j

Ending(s) ==
    \A k \in 1..Len(s) :
        /\ s[k] = Join("end") => k = Len(s)
        /\ s[k].do = "begun" => k = Len(s) - 1 /\ s[Len(s)] = Join("end")

Tidy(s) == Steady(s) /\ Once(s) /\ Ending(s)

(* The steps that methods other than begin_I2C are made of.                *)
Ordinary(x) ==
    /\ x.do \notin {"begin", "identify", "tryMag", "orEnd", "giveUp", "begun"}
    /\ x \notin {Wake, Enable, Aim, Feed, Cleared(PwrMgmt1, 7)}

Plain(s) == \A k \in 1..Len(s) : Ordinary(s[k])

Els(s) == {s[k] : k \in 1..Len(s)}

Due == Els(todo)

(* The chip's range is the driver's, but for the moment between the write  *)
(* and the assignment.                                                     *)
Balanced(R) ==
    /\ \A x \in Due : Remembers(x, R) => Field(R) = x.value \/ \E y \in Due : Sets(y, R)
    /\ (\A x \in Due : ~Remembers(x, R)) => Field(R) = Scale(R)

(* Each result of begin_I2C is there, or is still to come.                 *)
Owed ==
    /\ Bits(cells[PwrMgmt1], 1, 6) = 0 \/ Wake \in Due
    /\ Bits(cells[UserCtrl], 1, 5) = 1 \/ Enable \in Due
    /\ cells[Slv0Addr] = 128 + MagAddress \/ Aim \in Due
    /\ cells[Slv0Ctrl] = 137 \/ Feed \in Due
    /\ \A R \in Ranges : Balanced(R)

Sites == {"beginIcm", "show", "loop"}

(* begin_I2C has returned true, or it is past its reset and still may.     *)
Live ==
    \/ begun
    \/ ~Early(todo) /\ \E k \in 1..Len(todo) : todo[k].do = "begun"

(* A write of bits starts from the byte that is in the register.           *)
ReadRight ==
    todo # <<>> /\ todo[1].do = "merge" =>
        /\ todo[1].reg = UserCtrl => Bits(got, 1, 5) = Bits(cells[UserCtrl], 1, 5)
        /\ \A R \in Ranges : todo[1].reg = RangeReg(R) => Bits(got, 2, 1) = Field(R)

(* Calls are made after the range sensors are up; once begun, only plain   *)
(* ones, after the end of begin_I2C.                                       *)
Form ==
    /\ Tidy(todo)
    /\ todo # <<>> => at \in Sites
    /\ begun => Plain(todo) /\ at \in Sites
    /\ begun /\ at = "beginIcm" => ok /\ \A k \in 1..Len(todo) : todo[k].do = "join"

(* What holds besides while nothing has failed on the bus.                 *)
Kept == ReadRight /\ (Live => Owed)

ConfInv == Form /\ (clean => Kept)

-----------------------------------------------------------------------------
(* A group of bits that is written, and those beside it.                   *)
LEMMA GroupKept ==
    ASSUME NEW v \in Byte
    PROVE  /\ Bits(WithBits(v, 1, 6, 0), 1, 6) = 0
           /\ Bits(WithBits(v, 1, 5, 1), 1, 5) = 1
           /\ Bits(WithBits(v, 1, 1, 1), 1, 5) = Bits(v, 1, 5)
           /\ Bits(WithBits(v, 1, 1, 0), 1, 5) = Bits(v, 1, 5)
<1>1. ((v + ((0 % 2) - ((v \div 64) % 2)) * 64) \div 64) % 2 = 0
  BY DEF Byte
<1>2. ((v + ((1 % 2) - ((v \div 32) % 2)) * 32) \div 32) % 2 = 1
  BY DEF Byte
<1>3. ((v + ((1 % 2) - ((v \div 2) % 2)) * 2) \div 32) % 2 = (v \div 32) % 2
  BY DEF Byte
<1>4. ((v + ((0 % 2) - ((v \div 2) % 2)) * 2) \div 32) % 2 = (v \div 32) % 2
  BY DEF Byte
<1> QED
  BY <1>1, <1>2, <1>3, <1>4, Powers DEF Bits, WithBits

LEMMA RangeKept ==
    ASSUME NEW v \in Byte, NEW d \in Byte
    PROVE  /\ d \in 0..3 => Bits(WithBits(v, 2, 1, d), 2, 1) = d
           /\ Bits(WithBits(v, 1, 0, d), 2, 1) = Bits(v, 2, 1)
           /\ Bits(WithBits(v, 3, 3, d), 2, 1) = Bits(v, 2, 1)
<1>1. ASSUME d \in 0..3 PROVE ((v + ((d % 4) - ((v \div 2) % 4)) * 2) \div 2) % 4 = d
  BY <1>1 DEF Byte
<1>2. ((v + ((d % 2) - ((v \div 1) % 2)) * 1) \div 2) % 4 = (v \div 2) % 4
  BY DEF Byte
<1>3. ((v + ((d % 8) - ((v \div 8) % 8)) * 8) \div 2) % 4 = (v \div 2) % 4
  BY DEF Byte
<1> QED
  BY <1>1, <1>2, <1>3, Powers DEF Bits, WithBits

(* What is left of a tidy sequence is tidy.                                *)
LEMMA SuffixTidy ==
    ASSUME NEW s \in Seq(Steps), NEW i \in 0..Len(s), NEW t \in Seq(Steps),
           Len(t) = Len(s) - i, \A k \in 1..Len(t) : t[k] = s[k + i]
    PROVE  /\ Tidy(s) => Tidy(t)
           /\ Plain(s) => Plain(t)
<1>0. Len(s) \in Nat /\ Len(t) \in Nat
  BY LenProperties
<1>1. \A k \in 1..Len(t) : k + i \in 1..Len(s)
  BY <1>0
<1>2. ASSUME Steady(s) PROVE Steady(t)
  <2> SUFFICES ASSUME NEW k \in 1..Len(t)
               PROVE  /\ Mild(t[k])
                      /\ t[k].do = "poll" => Answered(t, k)
                      /\ \A R \in Ranges : Sets(t[k], R) =>
                            k + 1 <= Len(t) /\ t[k + 1] = Cache(R, t[k].value)
    BY DEF Steady
  <2>1. t[k] = s[k + i] /\ k + i \in 1..Len(s)
    BY <1>1
  <2>2. \A m \in {1, 2, 3} : (k + i) + m <= Len(s) =>
            k + m <= Len(t) /\ t[k + m] = s[(k + i) + m]
    <3> TAKE m \in {1, 2, 3}
    <3> HAVE (k + i) + m <= Len(s)
    <3>1. k + m \in 1..Len(t) /\ (k + m) + i = (k + i) + m
      BY <1>0
    <3> QED
      BY <3>1
  <2>3. /\ Mild(s[k + i])
        /\ s[k + i].do = "poll" => Answered(s, k + i)
        /\ \A R \in Ranges : Sets(s[k + i], R) =>
              (k + i) + 1 <= Len(s) /\ s[(k + i) + 1] = Cache(R, s[k + i].value)
    BY <1>2, <2>1 DEF Steady
  <2>4. t[k].do = "poll" => Answered(t, k)
    BY <2>1, <2>2, <2>3 DEF Answered
  <2>5. \A R \in Ranges : Sets(t[k], R) =>
            k + 1 <= Len(t) /\ t[k + 1] = Cache(R, t[k].value)
    BY <2>1, <2>2, <2>3
  <2> QED
    BY <2>1, <2>3, <2>4, <2>5
<1>3. ASSUME Once(s) PROVE Once(t)
  <2> SUFFICES ASSUME NEW m \in 1..Len(t), NEW n \in 1..Len(t),
                      t[m].do = "cache", t[n].do = "cache", t[m].range = t[n].range
               PROVE  m = n
    BY DEF Once
  <2>1. m + i = n + i
    BY <1>1, <1>3 DEF Once
  <2> QED
    BY <2>1, <1>0
<1>4. ASSUME Ending(s) PROVE Ending(t)
  <2> SUFFICES ASSUME NEW k \in 1..Len(t)
               PROVE  /\ t[k] = Join("end") => k = Len(t)
                      /\ t[k].do = "begun" => k = Len(t) - 1 /\ t[Len(t)] = Join("end")
    BY DEF Ending
  <2>1. /\ s[k + i] = Join("end") => k + i = Len(s)
        /\ s[k + i].do = "begun" => k + i = Len(s) - 1 /\ s[Len(s)] = Join("end")
    BY <1>1, <1>4 DEF Ending
  <2>2. t[k] = s[k + i] /\ t[Len(t)] = s[Len(t) + i] /\ Len(t) + i = Len(s)
    BY <1>0
  <2> QED
    BY <1>0, <2>1, <2>2
<1>5. ASSUME Plain(s) PROVE Plain(t)
  BY <1>1, <1>5 DEF Plain
<1> QED
  BY <1>2, <1>3, <1>4, <1>5 DEF Tidy

(* Fragments of methods, and what is put together of them.                 *)
Bare(s) == \A k \in 1..Len(s) : s[k].do # "begun" /\ s[k] # Join("end")
Only(s, S) == \A k \in 1..Len(s) : s[k].do = "cache" => s[k].range \in S
Prepared(s) ==
    \A k \in 1..Len(s), R \in Ranges : Remembers(s[k], R) => \E j \in 1..Len(s) : Sets(s[j], R)

Piece(s, S) ==
    s \in Seq(Steps) /\ Steady(s) /\ Once(s) /\ Bare(s) /\ Prepared(s) /\ Only(s, S)

LEMMA IndexIn ==
    ASSUME NEW s \in Seq(Steps), NEW t \in Seq(Steps)
    PROVE  /\ s \o t \in Seq(Steps) /\ Len(s) \in Nat /\ Len(t) \in Nat
           /\ Len(s \o t) = Len(s) + Len(t)
           /\ \A k \in 1..Len(s) : k \in 1..Len(s \o t) /\ (s \o t)[k] = s[k]
           /\ \A k \in 1..Len(t) :
                 Len(s) + k \in 1..Len(s \o t) /\ (s \o t)[Len(s) + k] = t[k]
           /\ \A k \in 1..Len(s \o t) :
                 k \in 1..Len(s) \/ \E j \in 1..Len(t) : k = Len(s) + j
<1>1. /\ s \o t \in Seq(Steps) /\ Len(s) \in Nat /\ Len(t) \in Nat
      /\ Len(s \o t) = Len(s) + Len(t)
      /\ \A i \in 1..Len(s) : (s \o t)[i] = s[i]
      /\ \A i \in 1..Len(t) : (s \o t)[Len(s) + i] = t[i]
  BY ConcatIndex
<1> DEFINE u == s \o t
<1> HIDE DEF u
<1>2. Len(u) = Len(s) + Len(t)
  BY <1>1 DEF u
<1>3. ASSUME NEW k \in 1..Len(u) PROVE k \in 1..Len(s) \/ \E j \in 1..Len(t) : k = Len(s) + j
  <2>1. CASE k <= Len(s)
    BY <1>1, <2>1
  <2>2. CASE ~(k <= Len(s))
    <3>1. k - Len(s) \in 1..Len(t) /\ k = Len(s) + (k - Len(s))
      BY <1>1, <1>2, <2>2
    <3> QED
      BY <3>1
  <2> QED
    BY <2>1, <2>2
<1>4. /\ \A k \in 1..Len(s) : k \in 1..Len(u)
      /\ \A k \in 1..Len(t) : Len(s) + k \in 1..Len(u)
  BY <1>1, <1>2
<1> QED
  BY <1>1, <1>3, <1>4 DEF u

LEMMA SteadyConcat ==
    ASSUME NEW s \in Seq(Steps), NEW t \in Seq(Steps), Steady(s), Steady(t)
    PROVE  Steady(s \o t)
<1> DEFINE u == s \o t
<1>1. /\ Len(s) \in Nat /\ Len(t) \in Nat /\ Len(u) = Len(s) + Len(t)
      /\ \A k \in 1..Len(s) : k \in 1..Len(u) /\ u[k] = s[k]
      /\ \A k \in 1..Len(t) : Len(s) + k \in 1..Len(u) /\ u[Len(s) + k] = t[k]
      /\ \A k \in 1..Len(u) : k \in 1..Len(s) \/ \E j \in 1..Len(t) : k = Len(s) + j
  BY IndexIn
<1> HIDE DEF u
<1> SUFFICES ASSUME NEW k \in 1..Len(u)
             PROVE  /\ Mild(u[k])
                    /\ u[k].do = "poll" => Answered(u, k)
                    /\ \A R \in Ranges : Sets(u[k], R) =>
                          k + 1 <= Len(u) /\ u[k + 1] = Cache(R, u[k].value)
  BY DEF Steady, u
<1>2. CASE k \in 1..Len(s)
  <2>1. /\ Mild(s[k])
        /\ s[k].do = "poll" => Answered(s, k)
        /\ \A R \in Ranges : Sets(s[k], R) =>
              k + 1 <= Len(s) /\ s[k + 1] = Cache(R, s[k].value)
    BY <1>2 DEF Steady
  <2>2. /\ k + 1 <= Len(s) => k + 1 <= Len(u) /\ u[k + 1] = s[k + 1]
        /\ k + 3 <= Len(s) => /\ k + 3 <= Len(u) /\ u[k + 1] = s[k + 1]
                              /\ u[k + 2] = s[k + 2] /\ u[k + 3] = s[k + 3]
    BY <1>1, <1>2
  <2>3. u[k] = s[k]
    BY <1>1, <1>2
  <2>4. u[k].do = "poll" => Answered(u, k)
    BY <2>1, <2>2, <2>3 DEF Answered
  <2>5. \A R \in Ranges : Sets(u[k], R) =>
            k + 1 <= Len(u) /\ u[k + 1] = Cache(R, u[k].value)
    BY <2>1, <2>2, <2>3
  <2> QED
    BY <2>1, <2>3, <2>4, <2>5
<1>3. CASE \E j \in 1..Len(t) : k = Len(s) + j
  <2>0. PICK j \in 1..Len(t) : k = Len(s) + j
    BY <1>3
  <2>1. /\ Mild(t[j])
        /\ t[j].do = "poll" => Answered(t, j)
        /\ \A R \in Ranges : Sets(t[j], R) =>
              j + 1 <= Len(t) /\ t[j + 1] = Cache(R, t[j].value)
    BY DEF Steady
  <2>2. /\ j + 1 <= Len(t) => k + 1 <= Len(u) /\ u[k + 1] = t[j + 1]
        /\ j + 3 <= Len(t) => /\ k + 3 <= Len(u) /\ u[k + 1] = t[j + 1]
                              /\ u[k + 2] = t[j + 2] /\ u[k + 3] = t[j + 3]
    <3>1. \A m \in {1, 2, 3} : j + m <= Len(t) =>
              k + m = Len(s) + (j + m) /\ Len(s) + (j + m) <= Len(u)
                /\ u[Len(s) + (j + m)] = t[j + m]
      <4> TAKE m \in {1, 2, 3}
      <4> HAVE j + m <= Len(t)
      <4>1. j + m \in 1..Len(t) /\ k + m = Len(s) + (j + m)
        BY <1>1, <2>0
      <4> QED
        BY <1>1, <4>1
    <3>2. j + 3 <= Len(t) => j + 2 <= Len(t) /\ j + 1 <= Len(t)
      BY <1>1
    <3> QED
      BY <3>1, <3>2
  <2>3. u[k] = t[j]
    BY <1>1, <2>0
  <2>4. u[k].do = "poll" => Answered(u, k)
    BY <2>1, <2>2, <2>3 DEF Answered
  <2>5. \A R \in Ranges : Sets(u[k], R) =>
            k + 1 <= Len(u) /\ u[k + 1] = Cache(R, u[k].value)
    BY <2>1, <2>2, <2>3
  <2> QED
    BY <2>1, <2>3, <2>4, <2>5
<1> QED
  BY <1>1, <1>2, <1>3

LEMMA OnceConcat ==
    ASSUME NEW s \in Seq(Steps), NEW t \in Seq(Steps), Once(s), Once(t),
           NEW S, Only(s, S), \A k \in 1..Len(t) : t[k].do = "cache" => t[k].range \notin S
    PROVE  Once(s \o t)
<1> DEFINE u == s \o t
<1>1. /\ Len(s) \in Nat /\ Len(t) \in Nat
      /\ \A k \in 1..Len(s) : u[k] = s[k]
      /\ \A k \in 1..Len(t) : u[Len(s) + k] = t[k]
      /\ \A k \in 1..Len(u) : k \in 1..Len(s) \/ \E j \in 1..Len(t) : k = Len(s) + j
  BY IndexIn
<1> HIDE DEF u
<1> SUFFICES ASSUME NEW i \in 1..Len(u), NEW j \in 1..Len(u),
                    u[i].do = "cache", u[j].do = "cache", u[i].range = u[j].range
             PROVE  i = j
  BY DEF Once, u
<1>2. CASE i \in 1..Len(s) /\ j \in 1..Len(s)
  BY <1>1, <1>2 DEF Once
<1>3. ASSUME NEW m \in 1..Len(t), i = Len(s) + m, NEW n \in 1..Len(t), j = Len(s) + n
      PROVE  i = j
  <2>1. u[i] = t[m] /\ u[j] = t[n]
    BY <1>1, <1>3
  <2>2. m = n
    BY <2>1 DEF Once
  <2> QED
    BY <1>3, <2>2
<1>4. ASSUME i \in 1..Len(s), NEW n \in 1..Len(t), j = Len(s) + n PROVE FALSE
  <2>1. u[i] = s[i] /\ u[j] = t[n]
    BY <1>1, <1>4
  <2> QED
    BY <1>4, <2>1 DEF Only
<1>5. ASSUME j \in 1..Len(s), NEW n \in 1..Len(t), i = Len(s) + n PROVE FALSE
  <2>1. u[j] = s[j] /\ u[i] = t[n]
    BY <1>1, <1>5
  <2> QED
    BY <1>5, <2>1 DEF Only
<1> QED
  BY <1>1, <1>2, <1>3, <1>4, <1>5

LEMMA PieceConcat ==
    ASSUME NEW S, NEW T, S \cap T = {}, NEW s, Piece(s, S), NEW t, Piece(t, T)
    PROVE  Piece(s \o t, S \union T)
<1> DEFINE u == s \o t
<1>0. s \in Seq(Steps) /\ t \in Seq(Steps)
  BY DEF Piece
<1>1. /\ u \in Seq(Steps) /\ Len(s) \in Nat /\ Len(t) \in Nat
      /\ \A k \in 1..Len(s) : k \in 1..Len(u) /\ u[k] = s[k]
      /\ \A k \in 1..Len(t) : Len(s) + k \in 1..Len(u) /\ u[Len(s) + k] = t[k]
      /\ \A k \in 1..Len(u) : k \in 1..Len(s) \/ \E j \in 1..Len(t) : k = Len(s) + j
  BY <1>0, IndexIn
<1>2. Steady(u)
  BY <1>0, SteadyConcat DEF Piece
<1>3. Once(u)
  <2>1. \A k \in 1..Len(t) : t[k].do = "cache" => t[k].range \notin S
    BY DEF Piece, Only
  <2> QED
    BY <1>0, <2>1, OnceConcat DEF Piece
<1> HIDE DEF u
<1>4. Bare(u) /\ Only(u, S \union T)
  <2>1. Bare(s) /\ Bare(t) /\ Only(s, S) /\ Only(t, T)
    BY DEF Piece
  <2>2. Bare(u)
    <3> SUFFICES ASSUME NEW k \in 1..Len(u) PROVE u[k].do # "begun" /\ u[k] # Join("end")
      BY DEF Bare
    <3>1. CASE k \in 1..Len(s)
      BY <1>1, <2>1, <3>1 DEF Bare
    <3>2. CASE \E j \in 1..Len(t) : k = Len(s) + j
      <4>1. PICK j \in 1..Len(t) : u[k] = t[j]
        BY <1>1, <3>2
      <4> QED
        BY <2>1, <4>1 DEF Bare
    <3> QED
      BY <1>1, <3>1, <3>2
  <2>3. Only(u, S \union T)
    BY <1>1, <2>1 DEF Only
  <2> QED
    BY <2>2, <2>3
<1>5. Prepared(u)
  <2> SUFFICES ASSUME NEW k \in 1..Len(u), NEW R \in Ranges, Remembers(u[k], R)
               PROVE  \E j \in 1..Len(u) : Sets(u[j], R)
    BY DEF Prepared
  <2>1. CASE k \in 1..Len(s)
    <3>1. PICK j \in 1..Len(s) : Sets(s[j], R)
      BY <1>1, <2>1 DEF Piece, Prepared
    <3> QED
      BY <1>1, <3>1
  <2>2. CASE \E j \in 1..Len(t) : k = Len(s) + j
    <3>1. PICK m \in 1..Len(t) : Remembers(t[m], R)
      BY <1>1, <2>2
    <3>2. PICK j \in 1..Len(t) : Sets(t[j], R)
      BY <3>1 DEF Piece, Prepared
    <3>3. Len(s) + j \in 1..Len(u) /\ Sets(u[Len(s) + j], R)
      BY <1>1, <3>2
    <3> QED
      BY <3>3
  <2> QED
    BY <1>1, <2>1, <2>2
<1> QED
  BY <1>1, <1>2, <1>3, <1>4, <1>5 DEF Piece, u

LEMMA QuietConcat ==
    ASSUME NEW S, NEW s, NEW t,
           \/ Piece(s, {}) /\ Piece(t, S)
           \/ Piece(s, S) /\ Piece(t, {})
    PROVE  Piece(s \o t, S)
<1>1. {} \cap S = {} /\ S \cap {} = {} /\ {} \union S = S /\ S \union {} = S
  OBVIOUS
<1> QED
  BY <1>1, PieceConcat

LEMMA PieceThen ==
    ASSUME NEW S, NEW s, Piece(s, S), NEW t \in Seq(Steps), Tidy(t),
           \A k \in 1..Len(t) : t[k].do = "cache" => t[k].range \notin S
    PROVE  s \o t \in Seq(Steps) /\ Tidy(s \o t)
<1> DEFINE u == s \o t
<1>0. s \in Seq(Steps)
  BY DEF Piece
<1>1. /\ u \in Seq(Steps) /\ Len(s) \in Nat /\ Len(t) \in Nat /\ Len(u) = Len(s) + Len(t)
      /\ \A k \in 1..Len(s) : u[k] = s[k]
      /\ \A k \in 1..Len(t) : u[Len(s) + k] = t[k]
      /\ \A k \in 1..Len(u) : k \in 1..Len(s) \/ \E j \in 1..Len(t) : k = Len(s) + j
  BY <1>0, IndexIn
<1>2. Steady(u)
  BY <1>0, SteadyConcat DEF Piece, Tidy
<1>3. Once(u)
  BY <1>0, OnceConcat DEF Piece, Tidy
<1> HIDE DEF u
<1>4. Ending(u)
  <2> SUFFICES ASSUME NEW k \in 1..Len(u)
               PROVE  /\ u[k] = Join("end") => k = Len(u)
                      /\ u[k].do = "begun" => k = Len(u) - 1 /\ u[Len(u)] = Join("end")
    BY DEF Ending
  <2>1. CASE k \in 1..Len(s)
    BY <1>1, <2>1 DEF Piece, Bare
  <2>2. CASE \E j \in 1..Len(t) : k = Len(s) + j
    <3>1. PICK j \in 1..Len(t) : k = Len(s) + j
      BY <2>2
    <3>2. /\ t[j] = Join("end") => j = Len(t)
          /\ t[j].do = "begun" => j = Len(t) - 1 /\ t[Len(t)] = Join("end")
      BY DEF Tidy, Ending
    <3>3. u[k] = t[j] /\ Len(t) \in 1..Len(t) /\ u[Len(u)] = t[Len(t)]
      BY <1>1, <3>1
    <3>4. /\ j = Len(t) => k = Len(u)
          /\ j = Len(t) - 1 => k = Len(u) - 1
      <4>1. Len(u) = Len(s) + Len(t) /\ Len(s) \in Nat /\ Len(t) \in Nat
        BY <1>1
      <4>2. \A m, n, i \in Nat : i = n - 1 => m + i = (m + n) - 1
        OBVIOUS
      <4>3. j = Len(t) => k = Len(u)
        BY <3>1, <4>1
      <4>4. j = Len(t) - 1 => k = Len(u) - 1
        <5>1. j \in Nat
          OBVIOUS
        <5> QED
          BY <3>1, <4>1, <4>2, <5>1
      <4> QED
        BY <4>3, <4>4
    <3> QED
      BY <3>2, <3>3, <3>4
  <2> QED
    BY <1>1, <2>1, <2>2
<1> QED
  BY <1>1, <1>2, <1>3, <1>4 DEF Tidy, u

LEMMA PieceTidy == ASSUME NEW S, NEW s, Piece(s, S) PROVE Tidy(s) /\ s \in Seq(Steps)
BY DEF Piece, Tidy, Ending, Bare

LEMMA PlainConcat ==
    ASSUME NEW s \in Seq(Steps), NEW t \in Seq(Steps), Plain(s), Plain(t)
    PROVE  Plain(s \o t)
<1> DEFINE u == s \o t
<1>1. /\ \A k \in 1..Len(s) : u[k] = s[k]
      /\ \A k \in 1..Len(t) : u[Len(s) + k] = t[k]
      /\ \A k \in 1..Len(u) : k \in 1..Len(s) \/ \E j \in 1..Len(t) : k = Len(s) + j
  BY IndexIn
<1> HIDE DEF u
<1>2. Plain(u)
  BY <1>1 DEF Plain
<1> QED
  BY <1>2 DEF u

(* The steps a fragment may be made of without further ado, and those a    *)
(* method may.                                                             *)
Calm(x) ==
    /\ x \in Steps
    /\ Mild(x)
    /\ x.do \notin {"poll", "cache", "begun"} /\ x # Join("end")
    /\ x.do = "merge" => x.bits # 2

AllCalm(s) == s \in Seq(Steps) /\ \A k \in 1..Len(s) : Calm(s[k])
Easy(x) == Calm(x) /\ Ordinary(x)
AllEasy(s) == s \in Seq(Steps) /\ \A k \in 1..Len(s) : Easy(s[k])

LEMMA CalmPiece == ASSUME NEW s, AllCalm(s) PROVE Piece(s, {})
<1>1. s \in Seq(Steps) /\ \A k \in 1..Len(s) : Calm(s[k])
  BY DEF AllCalm
<1>2. Steady(s)
  BY <1>1 DEF Steady, Calm, Sets
<1>3. Once(s) /\ Prepared(s) /\ Only(s, {})
  BY <1>1 DEF Once, Prepared, Only, Calm, Remembers
<1>4. Bare(s)
  BY <1>1 DEF Bare, Calm
<1> QED
  BY <1>1, <1>2, <1>3, <1>4 DEF Piece

LEMMA EasyPiece == ASSUME NEW s, AllEasy(s) PROVE Piece(s, {}) /\ Plain(s) /\ AllCalm(s)
<1>1. AllCalm(s) /\ Plain(s)
  BY DEF AllEasy, AllCalm, Easy, Plain
<1> QED
  BY <1>1, CalmPiece

LEMMA CalmConcat ==
    ASSUME NEW s, NEW t
    PROVE  /\ AllCalm(s) /\ AllCalm(t) => AllCalm(s \o t)
           /\ AllEasy(s) /\ AllEasy(t) => AllEasy(s \o t)
<1>1. ASSUME AllCalm(s), AllCalm(t) PROVE AllCalm(s \o t)
  <2> DEFINE u == s \o t
  <2>1. s \in Seq(Steps) /\ t \in Seq(Steps)
    BY <1>1 DEF AllCalm
  <2>2. /\ u \in Seq(Steps)
        /\ \A k \in 1..Len(s) : u[k] = s[k]
        /\ \A k \in 1..Len(t) : u[Len(s) + k] = t[k]
        /\ \A k \in 1..Len(u) : k \in 1..Len(s) \/ \E j \in 1..Len(t) : k = Len(s) + j
    BY <2>1, IndexIn
  <2> HIDE DEF u
  <2>3. AllCalm(u)
    BY <1>1, <2>2 DEF AllCalm
  <2> QED
    BY <2>3 DEF u
<1>2. ASSUME AllEasy(s), AllEasy(t) PROVE AllEasy(s \o t)
  <2> DEFINE u == s \o t
  <2>1. s \in Seq(Steps) /\ t \in Seq(Steps)
    BY <1>2 DEF AllEasy
  <2>2. /\ u \in Seq(Steps)
        /\ \A k \in 1..Len(s) : u[k] = s[k]
        /\ \A k \in 1..Len(t) : u[Len(s) + k] = t[k]
        /\ \A k \in 1..Len(u) : k \in 1..Len(s) \/ \E j \in 1..Len(t) : k = Len(s) + j
    BY <2>1, IndexIn
  <2> HIDE DEF u
  <2>3. AllEasy(u)
    BY <1>2, <2>2 DEF AllEasy
  <2> QED
    BY <2>3 DEF u
<1> QED
  BY <1>1, <1>2

LEMMA SmallEasy ==
    ASSUME NEW x, NEW y, NEW z
    PROVE  /\ Easy(x) => AllEasy(<<x>>)
           /\ Easy(x) /\ Easy(y) => AllEasy(<<x, y>>)
           /\ Easy(x) /\ Easy(y) /\ Easy(z) => AllEasy(<<x, y, z>>)
           /\ Calm(x) => AllCalm(<<x>>)
           /\ Calm(x) /\ Calm(y) => AllCalm(<<x, y>>)
           /\ Calm(x) /\ Calm(y) /\ Calm(z) => AllCalm(<<x, y, z>>)
<1>0. \A w : (Easy(w) => Calm(w)) /\ (Calm(w) => w \in Steps)
  BY DEF Easy, Calm
<1>1. /\ Calm(x) => AllCalm(<<x>>)
      /\ Easy(x) => AllEasy(<<x>>)
  BY <1>0 DEF AllCalm, AllEasy
<1>2. /\ Calm(x) /\ Calm(y) => AllCalm(<<x, y>>)
      /\ Easy(x) /\ Easy(y) => AllEasy(<<x, y>>)
  BY <1>0 DEF AllCalm, AllEasy
<1>3. /\ Calm(x) /\ Calm(y) /\ Calm(z) => AllCalm(<<x, y, z>>)
      /\ Easy(x) /\ Easy(y) /\ Easy(z) => AllEasy(<<x, y, z>>)
  BY <1>0 DEF AllCalm, AllEasy
<1> QED
  BY <1>1, <1>2, <1>3

(* The registers that matter are all different.                            *)
Matter == {PwrMgmt1, UserCtrl, AccelConfig1, GyroConfig1, Slv0Addr, Slv0Ctrl}
Scratch == {WhoAmI, IntPinCfg, IntEnable1, MstStatus, AccelXoutH, GyroSmplrtDiv,
            AccelSmplrtDiv1, AccelSmplrtDiv2, MstCtrl, Slv0Reg, Slv4Addr, Slv4Reg, Slv4Ctrl,
            Slv4Do, Slv4Di}

LEMMA CellsApart ==
    /\ Matter \subseteq Cells /\ Scratch \subseteq Cells /\ Matter \cap Scratch = {}
    /\ Matter \cap ReadOnly = {}
    /\ PwrMgmt1 \notin {UserCtrl, AccelConfig1, GyroConfig1, Slv0Addr, Slv0Ctrl}
    /\ UserCtrl \notin {AccelConfig1, GyroConfig1, Slv0Addr, Slv0Ctrl}
    /\ AccelConfig1 \notin {GyroConfig1, Slv0Addr, Slv0Ctrl}
    /\ GyroConfig1 \notin {Slv0Addr, Slv0Ctrl} /\ Slv0Addr # Slv0Ctrl
    /\ \A r \in Matter : r # <<2, 16>> /\ r # <<2, 17>>
BY DEF Matter, Scratch, Cells, WhoAmI, UserCtrl, PwrMgmt1, IntPinCfg, IntEnable1, MstStatus,
       AccelXoutH, GyroSmplrtDiv, GyroConfig1, AccelSmplrtDiv1, AccelSmplrtDiv2,
       AccelConfig1, MstCtrl, Slv0Addr, Slv0Reg, Slv0Ctrl, Slv4Addr, Slv4Reg,
       Slv4Ctrl, Slv4Do, Slv4Di, ReadOnly

LEMMA SettersAre ==
    /\ Wake.do = "merge" /\ Wake.reg = PwrMgmt1
    /\ Enable.do = "merge" /\ Enable.reg = UserCtrl /\ Enable.shift = 5
    /\ Aim.do = "put" /\ Aim.reg = Slv0Addr /\ Aim.value = 128 + MagAddress
    /\ Feed.do = "put" /\ Feed.reg = Slv0Ctrl /\ Feed.value = 137
    /\ Cleared(PwrMgmt1, 7).do = "cleared" /\ Cleared(PwrMgmt1, 7).shift = 7
    /\ Join("end").do = "join" /\ Join("end").label = "end"
BY DEF Wake, Enable, Aim, Feed, Merge, Put, Cleared, Join

LEMMA EasyFlow ==
    /\ \A b \in Banks : Easy(Select(b))
    /\ \A r \in Cells : Easy(Fetch(r))
    /\ \A l \in {"init", "aux"} : Easy(Join(l))
    /\ \A name \in {"aux", "hold", "both"} : Easy(Op(name))
    /\ \A name \in {"begin", "identify", "orEnd", "giveUp"} : Calm(Op(name))
    /\ Calm(Detect)
    /\ \A n \in Nat : Calm(TryMag(n))
    /\ \A r \in Cells : Easy(Cleared(r, 1)) /\ Calm(Cleared(r, 7))
<1>1. ASSUME NEW x \in Steps, x.do \notin {"poll", "cache", "begun", "merge", "put", "join"}
      PROVE  Calm(x)
  BY <1>1, SettersAre DEF Calm, Mild
<1>2. ASSUME NEW x, Calm(x), x.do \notin {"begin", "identify", "tryMag", "orEnd", "giveUp",
                                          "begun", "merge", "put", "cleared"}
      PROVE  Easy(x)
  BY <1>2, SettersAre DEF Easy, Ordinary
<1>3. \A b \in Banks : Easy(Select(b))
  <2> TAKE b \in Banks
  <2>1. Select(b) \in Steps /\ Select(b).do = "select"
    BY SelectStep DEF Select
  <2> QED
    BY <1>1, <1>2, <2>1
<1>4. \A r \in Cells : Easy(Fetch(r))
  <2> TAKE r \in Cells
  <2>1. Fetch(r) \in Steps /\ Fetch(r).do = "fetch"
    BY FetchStep DEF Fetch
  <2> QED
    BY <1>1, <1>2, <2>1
<1>5. \A l \in {"init", "aux"} : Easy(Join(l))
  <2> TAKE l \in {"init", "aux"}
  <2>1. Join(l) \in Steps /\ Join(l).do = "join" /\ Join(l).label = l /\ l # "end"
    BY FlowStep DEF Join
  <2>2. Join(l) # Join("end")
    BY <2>1, SettersAre
  <2>3. Calm(Join(l))
    BY <2>1, <2>2 DEF Calm, Mild
  <2> QED
    BY <1>2, <2>1, <2>3
<1>6. \A name \in {"aux", "hold", "both"} : Easy(Op(name))
  <2> TAKE name \in {"aux", "hold", "both"}
  <2>1. Op(name) \in Steps /\ Op(name).do = name
    BY FlowStep DEF Op
  <2> QED
    BY <1>1, <1>2, <2>1
<1>7. \A name \in {"begin", "identify", "orEnd", "giveUp"} : Calm(Op(name))
  <2> TAKE name \in {"begin", "identify", "orEnd", "giveUp"}
  <2>1. Op(name) \in Steps /\ Op(name).do = name
    BY FlowStep DEF Op
  <2> QED
    BY <1>1, <2>1
<1>8. Calm(Detect)
  <2>1. Detect \in Steps /\ Detect.do = "detect"
    BY FlowStep DEF Detect
  <2> QED
    BY <1>1, <2>1
<1>9. \A n \in Nat : Calm(TryMag(n))
  <2> TAKE n \in Nat
  <2>1. TryMag(n) \in Steps /\ TryMag(n).do = "tryMag"
    BY FlowStep DEF TryMag
  <2> QED
    BY <1>1, <2>1
<1>10. \A r \in Cells : Easy(Cleared(r, 1)) /\ Calm(Cleared(r, 7))
  <2> TAKE r \in Cells
  <2>1. /\ Cleared(r, 1) \in Steps /\ Cleared(r, 1).do = "cleared" /\ Cleared(r, 1).shift = 1
        /\ Cleared(r, 7) \in Steps /\ Cleared(r, 7).do = "cleared"
    BY FlowStep DEF Cleared
  <2>2. Calm(Cleared(r, 1)) /\ Calm(Cleared(r, 7))
    BY <1>1, <2>1
  <2>3. Ordinary(Cleared(r, 1))
    BY <2>1, SettersAre DEF Ordinary
  <2> QED
    BY <2>2, <2>3 DEF Easy
<1> QED
  BY <1>3, <1>4, <1>5, <1>6, <1>7, <1>8, <1>9, <1>10

LEMMA EasyWrites ==
    /\ \A r \in Scratch, v \in Byte, l \in {Ignore, "aux", "end"} : Easy(Put(r, v, l))
    /\ \A v \in Word : Easy(Put2(AccelSmplrtDiv1, v, Ignore))
    /\ \A r \in Scratch, i \in 0..7, v \in Byte, l \in {Ignore, "end"} :
          Easy(Merge(r, 1, i, v, l))
    /\ \A v \in Byte, l \in {Ignore, "end"} :
          Easy(Merge(AccelConfig1, 1, 0, v, l)) /\ Easy(Merge(AccelConfig1, 3, 3, v, l))
    /\ Easy(Merge(UserCtrl, 1, 1, 1, Ignore))
    /\ Calm(Merge(PwrMgmt1, 1, 7, 1, Ignore)) /\ Calm(Wake) /\ Calm(Enable)
    /\ Calm(Aim) /\ Calm(Feed)
<1>0. \A r \in Scratch : r \in Cells /\ r \notin Matter
  BY CellsApart
<1>1. ASSUME NEW r \in Scratch, NEW v \in Byte, NEW l \in {Ignore, "aux", "end"}
      PROVE  Easy(Put(r, v, l))
  <2>1. r \in Cells \ {PwrMgmt1} /\ r \notin Matter
    BY <1>0 DEF Matter
  <2>2. Put(r, v, l) \in Steps /\ Put(r, v, l).do = "put" /\ Put(r, v, l).reg = r
    BY <2>1, PutStep DEF Put
  <2>3. Calm(Put(r, v, l))
    BY <2>1, <2>2, SettersAre DEF Calm, Mild, Matter
  <2>4. Ordinary(Put(r, v, l))
    BY <2>1, <2>2, SettersAre DEF Ordinary, Matter
  <2> QED
    BY <2>3, <2>4 DEF Easy
<1>2. ASSUME NEW v \in Word PROVE Easy(Put2(AccelSmplrtDiv1, v, Ignore))
  <2> DEFINE x == Put2(AccelSmplrtDiv1, v, Ignore)
  <2>1. x \in Steps /\ x.do = "put2"
    BY Put2Step DEF Put2
  <2> HIDE DEF x
  <2>2. Easy(x)
    BY <2>1, SettersAre DEF Easy, Calm, Mild, Ordinary
  <2> QED
    BY <2>2 DEF x
<1>3. ASSUME NEW r \in Cells, NEW n \in 1..3, NEW i \in 0..7, n + i <= 8, NEW v \in Byte,
             NEW l \in {Ignore, "end"}
      PROVE  /\ Merge(r, n, i, v, l) \in Steps
             /\ \A x : x = Merge(r, n, i, v, l) =>
                   /\ x.do = "merge" /\ x.reg = r /\ x.bits = n /\ x.shift = i /\ x.value = v
  <2>1. Merge(r, n, i, v, l) \in Steps
    BY <1>3, MergeStep
  <2>2. \A x : x = Merge(r, n, i, v, l) =>
            x.do = "merge" /\ x.reg = r /\ x.bits = n /\ x.shift = i /\ x.value = v
    BY DEF Merge
  <2> QED
    BY <2>1, <2>2
<1>4. ASSUME NEW r \in Scratch, NEW i \in 0..7, NEW v \in Byte, NEW l \in {Ignore, "end"}
      PROVE  Easy(Merge(r, 1, i, v, l))
  <2> DEFINE x == Merge(r, 1, i, v, l)
  <2>1. r \in Cells /\ r \notin Matter /\ 1 + i <= 8
    BY <1>0
  <2>2. x \in Steps /\ x.do = "merge" /\ x.reg = r /\ x.bits = 1
    BY <2>1, <1>3
  <2> HIDE DEF x
  <2>3. Calm(x)
    BY <2>1, <2>2, SettersAre DEF Calm, Mild, Matter
  <2>4. Ordinary(x)
    BY <2>1, <2>2, SettersAre DEF Ordinary, Matter
  <2> QED
    BY <2>3, <2>4 DEF Easy, x
<1>5. ASSUME NEW v \in Byte, NEW l \in {Ignore, "end"}, NEW n \in {1, 3},
             NEW i \in {0, 3}, (n = 1 /\ i = 0) \/ (n = 3 /\ i = 3)
      PROVE  Easy(Merge(AccelConfig1, n, i, v, l))
  <2> DEFINE x == Merge(AccelConfig1, n, i, v, l)
  <2>0. n \in 1..3 /\ i \in 0..7 /\ n + i <= 8 /\ AccelConfig1 \in Cells
    BY <1>5, CellFacts
  <2>1. x \in Steps /\ x.do = "merge" /\ x.reg = AccelConfig1 /\ x.bits = n /\ x.shift = i
    BY <1>3, <2>0
  <2> HIDE DEF x
  <2>2. Calm(x)
    BY <2>1, <1>5, CellsApart, SettersAre DEF Calm, Mild
  <2>3. Ordinary(x)
    BY <2>1, CellsApart, SettersAre DEF Ordinary
  <2> QED
    BY <2>2, <2>3 DEF Easy, x
<1>6. 1 \in Byte /\ 0 \in Byte /\ Ignore \in {Ignore, "end"}
  BY DEF Byte
<1>7. Easy(Merge(UserCtrl, 1, 1, 1, Ignore))
  <2> DEFINE x == Merge(UserCtrl, 1, 1, 1, Ignore)
  <2>1. /\ x \in Steps /\ x.do = "merge" /\ x.reg = UserCtrl /\ x.bits = 1 /\ x.shift = 1
        /\ x.value = 1
    BY <1>3, <1>6, CellFacts
  <2> HIDE DEF x
  <2>2. Calm(x)
    BY <2>1, CellsApart, SettersAre DEF Calm, Mild
  <2>3. Ordinary(x)
    BY <2>1, CellsApart, SettersAre DEF Ordinary
  <2> QED
    BY <2>2, <2>3 DEF Easy, x
<1>8. Calm(Merge(PwrMgmt1, 1, 7, 1, Ignore)) /\ Calm(Wake)
  <2>1. ASSUME NEW x \in Steps, x.do = "merge", x.reg = PwrMgmt1, x.bits = 1 PROVE Calm(x)
    BY <2>1, CellsApart, SettersAre DEF Calm, Mild
  <2>0. PwrMgmt1 \in Cells /\ 1 \in 1..3 /\ 7 \in 0..7 /\ 6 \in 0..7 /\ 1 + 7 <= 8 /\ 1 + 6 <= 8
    BY CellFacts
  <2>2. ASSUME NEW x, x = Merge(PwrMgmt1, 1, 7, 1, Ignore) PROVE Calm(x)
    <3>1. x \in Steps /\ x.do = "merge" /\ x.reg = PwrMgmt1 /\ x.bits = 1
      BY <1>3, <1>6, <2>0, <2>2
    <3> QED
      BY <2>1, <3>1
  <2>3. ASSUME NEW x, x = Merge(PwrMgmt1, 1, 6, 0, Ignore) PROVE Calm(x)
    <3>1. x \in Steps /\ x.do = "merge" /\ x.reg = PwrMgmt1 /\ x.bits = 1
      BY <1>3, <1>6, <2>0, <2>3
    <3> QED
      BY <2>1, <3>1
  <2> QED
    BY <2>2, <2>3 DEF Wake
<1>9. Calm(Enable)
  <2>1. /\ Enable \in Steps /\ Enable.do = "merge" /\ Enable.reg = UserCtrl /\ Enable.bits = 1
        /\ Enable.shift = 5 /\ Enable.value = 1
    BY <1>3, <1>6, CellFacts DEF Enable
  <2> QED
    BY <2>1, CellsApart, SettersAre DEF Calm, Mild
<1>10. Calm(Aim) /\ Calm(Feed)
  <2>1. 128 + MagAddress \in Byte /\ 137 \in Byte
    BY DEF MagAddress, Byte
  <2>2. {Slv0Addr, Slv0Ctrl} \subseteq Cells \ {PwrMgmt1}
    BY CellFacts
  <2>3. Aim \in Steps /\ Feed \in Steps
    BY <2>1, <2>2, PutStep DEF Aim, Feed
  <2> QED
    BY <2>3, CellsApart, SettersAre DEF Calm, Mild
<1>11. \A r \in Scratch, i \in 0..7, v \in Byte, l \in {Ignore, "end"} :
          Easy(Merge(r, 1, i, v, l))
  BY <1>4
<1>12. \A v \in Byte, l \in {Ignore, "end"} :
          Easy(Merge(AccelConfig1, 1, 0, v, l)) /\ Easy(Merge(AccelConfig1, 3, 3, v, l))
  BY <1>5
<1> QED
  BY <1>1, <1>2, <1>11, <1>12, <1>7, <1>8, <1>9, <1>10

(* The fragments.                                                          *)
LEMMA RangePiece ==
    ASSUME NEW R \in Ranges, NEW v \in 0..3, NEW s,
           s = <<Select(2), Fetch(RangeReg(R)), Merge(RangeReg(R), 2, 1, v, Ignore),
                 Cache(R, v), Select(0)>>
    PROVE  /\ Piece(s, {R}) /\ Plain(s)
           /\ (\E k \in 1..Len(s) : Sets(s[k], R)) /\ (\E k \in 1..Len(s) : Remembers(s[k], R))
<1> DEFINE r == RangeReg(R)
<1>1. r \in Cells /\ r \in {AccelConfig1, GyroConfig1} /\ v \in Byte
  BY CellFacts DEF RangeReg, Byte
<1> DEFINE m == Merge(r, 2, 1, v, Ignore)
<1> DEFINE c == Cache(R, v)
<1>2. m \in Steps /\ m.do = "merge" /\ m.reg = r /\ m.bits = 2 /\ m.shift = 1 /\ m.value = v
  <2>1. m \in Steps
    BY <1>1, MergeStep
  <2>2. m.do = "merge" /\ m.reg = r /\ m.bits = 2 /\ m.shift = 1 /\ m.value = v
    BY DEF Merge
  <2> QED
    BY <2>1, <2>2
<1>3. c \in Steps /\ c.do = "cache" /\ c.range = R /\ c.value = v
  <2>1. R \in {"gyro", "accel"}
    BY DEF Ranges
  <2>2. c \in Steps
    BY <2>1, FlowStep
  <2>3. c.do = "cache" /\ c.range = R /\ c.value = v
    BY DEF Cache
  <2> QED
    BY <2>2, <2>3
<1>4. 2 \in Banks /\ 0 \in Banks
  BY DEF Banks
<1>5. Easy(Select(2)) /\ Easy(Select(0)) /\ Easy(Fetch(r))
  BY <1>1, <1>4, EasyFlow
<1>6. /\ Calm(Select(2)) /\ Calm(Select(0)) /\ Calm(Fetch(r))
      /\ Select(2) \in Steps /\ Select(0) \in Steps /\ Fetch(r) \in Steps
      /\ Select(2).do = "select" /\ Select(0).do = "select" /\ Fetch(r).do = "fetch"
  BY <1>5 DEF Easy, Calm, Select, Fetch
<1>7. c = Cache(R, m.value)
  BY <1>2
<1>8. s = <<Select(2), Fetch(r), m, c, Select(0)>>
  OBVIOUS
<1> HIDE DEF m, c
<1>9. /\ s \in Seq(Steps) /\ Len(s) = 5 /\ s[1] = Select(2) /\ s[2] = Fetch(r) /\ s[3] = m
      /\ s[4] = c /\ s[5] = Select(0)
  BY <1>2, <1>3, <1>6, <1>8
<1> HIDE DEF r
<1>10. \A k \in 1..Len(s) : k = 3 \/ k = 4 \/ (k \in {1, 2, 5} /\ Easy(s[k]) /\ Calm(s[k]))
  BY <1>5, <1>6, <1>9
<1>11. Mild(m) /\ Mild(c)
  BY <1>1, <1>2, <1>3, CellsApart DEF Mild
<1>12. Steady(s)
  <2> SUFFICES ASSUME NEW k \in 1..Len(s)
               PROVE  /\ Mild(s[k])
                      /\ s[k].do = "poll" => Answered(s, k)
                      /\ \A Q \in Ranges : Sets(s[k], Q) =>
                            k + 1 <= Len(s) /\ s[k + 1] = Cache(Q, s[k].value)
    BY DEF Steady
  <2>1. CASE k = 3
    <3>1. \A Q \in Ranges : Sets(m, Q) => Q = R
      BY <1>2, CellsApart DEF Ranges, Sets, RangeReg, r
    <3>2. s[k] = m /\ s[k + 1] = c /\ k + 1 <= Len(s)
      BY <1>9, <2>1
    <3> QED
      BY <3>1, <3>2, <1>2, <1>7, <1>11
  <2>2. CASE k = 4
    <3>1. \A Q : ~Sets(c, Q)
      BY <1>3 DEF Sets
    <3> QED
      BY <1>3, <1>9, <1>11, <2>2, <3>1
  <2>3. CASE Calm(s[k])
    BY <2>3 DEF Calm, Sets
  <2> QED
    BY <1>10, <2>1, <2>2, <2>3
<1>13. \A k \in 1..Len(s) : s[k].do = "cache" => k = 4
  BY <1>2, <1>9, <1>10 DEF Calm
<1>14. Once(s)
  BY <1>13 DEF Once
<1>15. Only(s, {R})
  BY <1>3, <1>9, <1>13 DEF Only
<1>16. Bare(s)
  <2>1. m.do # "begun" /\ m # Join("end") /\ c.do # "begun" /\ c # Join("end")
    BY <1>2, <1>3, SettersAre
  <2> QED
    BY <1>9, <1>10, <2>1 DEF Bare, Calm
<1>17. Sets(s[3], R) /\ Remembers(s[4], R) /\ 3 \in 1..Len(s) /\ 4 \in 1..Len(s)
  BY <1>2, <1>3, <1>9 DEF Sets, Remembers, r
<1>18. Prepared(s)
  <2>1. \A Q \in Ranges, k \in 1..Len(s) : Remembers(s[k], Q) => Q = R
    BY <1>3, <1>9, <1>13 DEF Remembers
  <2> QED
    BY <1>17, <2>1 DEF Prepared
<1>19. Plain(s)
  <2>1. Ordinary(m) /\ Ordinary(c)
    BY <1>1, <1>2, <1>3, SettersAre, CellsApart DEF Ordinary
  <2> QED
    BY <1>9, <1>10, <2>1 DEF Plain, Easy
<1> QED
  BY <1>9, <1>12, <1>14, <1>15, <1>16, <1>17, <1>18, <1>19 DEF Piece

(* The slot of a write that waits for slave 4.                             *)
LEMMA AuxPiece ==
    ASSUME NEW reg \in Byte, NEW value \in Byte
    PROVE  /\ Piece(AuxRead(reg), {}) /\ Plain(AuxRead(reg))
           /\ Piece(AuxWrite(reg, value), {}) /\ Plain(AuxWrite(reg, value))
<1> DEFINE a1 == Put(Slv4Addr, 128 + MagAddress, "aux")
           a2 == Put(Slv4Addr, MagAddress, "aux")
           a3 == Put(Slv4Reg, reg, "aux")
           a4 == Put(Slv4Ctrl, 128, "aux")
           a5 == Put(Slv4Do, value, "aux")
           p == Poll(1)
<1>1. /\ 128 + MagAddress \in Byte /\ MagAddress \in Byte /\ 128 \in Byte
      /\ "aux" \in {Ignore, "aux", "end"}
      /\ {Slv4Addr, Slv4Reg, Slv4Ctrl, Slv4Do} \subseteq Scratch
  BY DEF MagAddress, Byte, Scratch
<1>2. Easy(a1) /\ Easy(a2) /\ Easy(a3) /\ Easy(a4) /\ Easy(a5)
  BY <1>1, EasyWrites
<1>3. 3 \in Banks /\ 0 \in Banks /\ Slv4Di \in Cells
  BY CellFacts DEF Banks
<1>4. /\ Easy(Op("aux")) /\ Easy(Select(3)) /\ Easy(Select(0)) /\ Easy(Fetch(Slv4Di))
      /\ Easy(Join("aux"))
  BY <1>3, EasyFlow
<1>5. p \in Steps /\ p.do = "poll"
  BY FlowStep DEF Poll
<1>6. Select(3).do = "select" /\ Fetch(Slv4Di).do = "fetch"
  BY DEF Select, Fetch
<1>7. \A x : Easy(x) => x \in Steps /\ Calm(x) /\ Ordinary(x)
  BY DEF Easy, Calm
<1> HIDE DEF a1, a2, a3, a4, a5, p
<1>8. p.do # "begun" /\ p # Join("end") /\ Mild(p) /\ Ordinary(p) /\ (\A R : ~Sets(p, R))
  BY <1>5, SettersAre DEF Mild, Ordinary, Sets
<1>9. ASSUME NEW s \in Seq(Steps), NEW n \in 1..Len(s), s[n] = p, Answered(s, n),
             \A k \in 1..Len(s) : k = n \/ Easy(s[k])
      PROVE  Piece(s, {}) /\ Plain(s)
  <2>1. \A k \in 1..Len(s) :
            /\ Mild(s[k])
            /\ k = n \/ s[k].do # "poll"
            /\ s[k].do # "begun" /\ s[k].do # "cache" /\ s[k] # Join("end")
            /\ Ordinary(s[k])
            /\ \A R : ~Sets(s[k], R)
    <3> TAKE k \in 1..Len(s)
    <3>1. CASE k = n
      BY <1>5, <1>8, <1>9, <3>1
    <3>2. CASE Easy(s[k])
      BY <3>2 DEF Easy, Calm, Sets
    <3> QED
      BY <1>9, <3>1, <3>2
  <2>2. Steady(s)
    BY <1>9, <2>1 DEF Steady
  <2>3. Once(s) /\ Bare(s) /\ Prepared(s) /\ Only(s, {})
    BY <2>1 DEF Once, Bare, Prepared, Only, Remembers
  <2> QED
    BY <2>1, <2>2, <2>3 DEF Piece, Plain
<1>10. Piece(AuxRead(reg), {}) /\ Plain(AuxRead(reg))
  <2> DEFINE s == AuxRead(reg)
  <2>1. s = <<Op("aux"), Select(3), a1, a3, a4, Select(0), p, Select(3), Fetch(Slv4Di),
              Join("aux")>>
    BY DEF AuxRead, a1, a3, a4, p
  <2> HIDE DEF s
  <2>2. /\ s \in Seq(Steps) /\ Len(s) = 10
        /\ s[1] = Op("aux") /\ s[2] = Select(3) /\ s[3] = a1 /\ s[4] = a3 /\ s[5] = a4
        /\ s[6] = Select(0) /\ s[7] = p /\ s[8] = Select(3) /\ s[9] = Fetch(Slv4Di)
        /\ s[10] = Join("aux")
    BY <1>2, <1>4, <1>5, <1>7, <2>1
  <2>3. \A k \in 1..Len(s) : k = 7 \/ Easy(s[k])
    BY <1>2, <1>4, <2>2
  <2>4. 7 \in 1..Len(s) /\ Answered(s, 7)
    BY <1>6, <2>2 DEF Answered
  <2>5. Piece(s, {}) /\ Plain(s)
    BY <1>9, <2>2, <2>3, <2>4
  <2> QED
    BY <2>5 DEF s
<1>11. Piece(AuxWrite(reg, value), {}) /\ Plain(AuxWrite(reg, value))
  <2> DEFINE s == AuxWrite(reg, value)
  <2>1. s = <<Op("aux"), Select(3), a5, a2, a3, a4, Select(0), p, Join("aux")>>
    BY DEF AuxWrite, a2, a3, a4, a5, p
  <2> HIDE DEF s
  <2>2. /\ s \in Seq(Steps) /\ Len(s) = 9
        /\ s[1] = Op("aux") /\ s[2] = Select(3) /\ s[3] = a5 /\ s[4] = a2 /\ s[5] = a3
        /\ s[6] = a4 /\ s[7] = Select(0) /\ s[8] = p /\ s[9] = Join("aux")
    BY <1>2, <1>4, <1>5, <1>7, <2>1
  <2>3. \A k \in 1..Len(s) : k = 8 \/ Easy(s[k])
    BY <1>2, <1>4, <2>2
  <2>4. 8 \in 1..Len(s) /\ Answered(s, 8)
    BY <2>2 DEF Answered
  <2>5. Piece(s, {}) /\ Plain(s)
    BY <1>9, <2>2, <2>3, <2>4
  <2> QED
    BY <2>5 DEF s
<1> QED
  BY <1>10, <1>11

(* A fragment of a method.                                                 *)
Part(s, S) == Piece(s, S) /\ Plain(s)

LEMMA PartConcat ==
    ASSUME NEW S, NEW s, NEW t,
           \/ Part(s, {}) /\ Part(t, S)
           \/ Part(s, S) /\ Part(t, {})
    PROVE  Part(s \o t, S)
<1>1. s \in Seq(Steps) /\ t \in Seq(Steps)
  BY DEF Part, Piece
<1> QED
  BY <1>1, QuietConcat, PlainConcat DEF Part

LEMMA FieldPart ==
    /\ \A r \in Scratch, i \in 0..7, v \in Byte, l \in {Ignore, "end"} :
          Part(Write(r, 1, i, v, l), {})
    /\ \A v \in Byte, l \in {Ignore, "end"} :
          Part(Write(AccelConfig1, 1, 0, v, l), {}) /\ Part(Write(AccelConfig1, 3, 3, v, l), {})
    /\ Part(Write(UserCtrl, 1, 1, 1, Ignore), {})
    /\ \A b \in Banks : Part(<<Select(b)>>, {})
    /\ \A l \in {"init", "aux"} : Part(<<Join(l)>>, {})
    /\ \A r \in Cells : Part(<<Cleared(r, 1)>>, {})
    /\ \A name \in {"aux", "hold", "both"} : Part(<<Op(name)>>, {})
<1>1. ASSUME NEW x, Easy(x) PROVE Part(<<x>>, {})
  BY <1>1, SmallEasy, EasyPiece DEF Part
<1>2. ASSUME NEW r \in Cells, NEW n, NEW i, NEW v, NEW l, Easy(Merge(r, n, i, v, l))
      PROVE  Part(Write(r, n, i, v, l), {})
  <2>1. Easy(Fetch(r))
    BY EasyFlow
  <2>2. AllEasy(<<Fetch(r), Merge(r, n, i, v, l)>>)
    BY <1>2, <2>1, SmallEasy
  <2> QED
    BY <2>2, EasyPiece DEF Part, Write
<1>3. /\ \A r \in Scratch : r \in Cells
      /\ AccelConfig1 \in Cells /\ UserCtrl \in Cells
  BY CellsApart, CellFacts
<1>4. \A r \in Scratch, i \in 0..7, v \in Byte, l \in {Ignore, "end"} :
          Part(Write(r, 1, i, v, l), {})
  BY <1>2, <1>3, EasyWrites
<1>5. \A v \in Byte, l \in {Ignore, "end"} :
          Part(Write(AccelConfig1, 1, 0, v, l), {}) /\ Part(Write(AccelConfig1, 3, 3, v, l), {})
  BY <1>2, <1>3, EasyWrites
<1>6. Part(Write(UserCtrl, 1, 1, 1, Ignore), {})
  BY <1>2, <1>3, EasyWrites
<1>7. /\ \A b \in Banks : Part(<<Select(b)>>, {})
      /\ \A l \in {"init", "aux"} : Part(<<Join(l)>>, {})
      /\ \A r \in Cells : Part(<<Cleared(r, 1)>>, {})
      /\ \A name \in {"aux", "hold", "both"} : Part(<<Op(name)>>, {})
  BY <1>1, EasyFlow
<1> QED
  BY <1>4, <1>5, <1>6, <1>7
Covers(s, R) ==
    /\ \E k \in 1..Len(s) : Sets(s[k], R)
    /\ \E k \in 1..Len(s) : Remembers(s[k], R)

LEMMA ElsConcat ==
    ASSUME NEW s \in Seq(Steps), NEW t \in Seq(Steps)
    PROVE  Els(s \o t) = Els(s) \union Els(t)
<1> DEFINE u == s \o t
<1>1. /\ \A k \in 1..Len(s) : k \in 1..Len(u) /\ u[k] = s[k]
      /\ \A k \in 1..Len(t) : Len(s) + k \in 1..Len(u) /\ u[Len(s) + k] = t[k]
      /\ \A k \in 1..Len(u) : k \in 1..Len(s) \/ \E j \in 1..Len(t) : k = Len(s) + j
  BY IndexIn
<1> HIDE DEF u
<1>2. \A x \in Els(s) : x \in Els(u)
  BY <1>1 DEF Els
<1>3. \A x \in Els(t) : x \in Els(u)
  BY <1>1 DEF Els
<1>4. \A x \in Els(u) : x \in Els(s) \/ x \in Els(t)
  <2> SUFFICES ASSUME NEW k \in 1..Len(u) PROVE u[k] \in Els(s) \/ u[k] \in Els(t)
    BY DEF Els
  <2>1. CASE k \in 1..Len(s)
    BY <1>1, <2>1 DEF Els
  <2>2. CASE \E j \in 1..Len(t) : k = Len(s) + j
    BY <1>1, <2>2 DEF Els
  <2> QED
    BY <1>1, <2>1, <2>2
<1> QED
  BY <1>2, <1>3, <1>4 DEF u

LEMMA InEls ==
    ASSUME NEW s
    PROVE  /\ \A R : Covers(s, R) <=> /\ \E x \in Els(s) : Sets(x, R)
                                      /\ \E x \in Els(s) : Remembers(x, R)
           /\ Prepared(s) <=> \A x \in Els(s), R \in Ranges :
                                Remembers(x, R) => \E y \in Els(s) : Sets(y, R)
<1>2. ASSUME NEW R
      PROVE  /\ (\E k \in 1..Len(s) : Sets(s[k], R)) <=> \E x \in Els(s) : Sets(x, R)
             /\ (\E k \in 1..Len(s) : Remembers(s[k], R)) <=> \E x \in Els(s) : Remembers(x, R)
  BY DEF Els
<1>3. Prepared(s) <=> \A x \in Els(s), R \in Ranges :
                        Remembers(x, R) => \E y \in Els(s) : Sets(y, R)
  BY DEF Els, Prepared
<1> QED
  BY <1>2, <1>3 DEF Covers

LEMMA ResetMasterPart == Part(ResetI2CMaster, {})
<1> DEFINE a == <<Select(0)>>
           b == Write(UserCtrl, 1, 1, 1, Ignore)
           c == <<Cleared(UserCtrl, 1)>>
<1>1. Part(a, {}) /\ Part(b, {}) /\ Part(c, {})
  BY FieldPart, CellFacts DEF Banks
<1>2. ResetI2CMaster = (a \o b) \o c
  BY DEF ResetI2CMaster
<1> HIDE DEF a, b, c
<1>3. Part(a \o b, {})
  BY <1>1, PartConcat
<1>4. Part((a \o b) \o c, {})
  BY <1>1, <1>3, PartConcat
<1> QED
  BY <1>2, <1>4

LEMMA CoversConcat ==
    ASSUME NEW s \in Seq(Steps), NEW t \in Seq(Steps), NEW R, Covers(s, R) \/ Covers(t, R)
    PROVE  Covers(s \o t, R)
<1> DEFINE u == s \o t
<1>1. /\ \A k \in 1..Len(s) : k \in 1..Len(u) /\ u[k] = s[k]
      /\ \A k \in 1..Len(t) : Len(s) + k \in 1..Len(u) /\ u[Len(s) + k] = t[k]
  BY IndexIn
<1> HIDE DEF u
<1>2. ASSUME Covers(s, R) PROVE Covers(u, R)
  BY <1>1, <1>2 DEF Covers
<1>3. ASSUME Covers(t, R) PROVE Covers(u, R)
  BY <1>1, <1>3 DEF Covers
<1> QED
  BY <1>2, <1>3 DEF u

LEMMA RangesPart ==
    ASSUME NEW v \in 0..3
    PROVE  /\ Part(WriteGyroRange(v), {"gyro"}) /\ Covers(WriteGyroRange(v), "gyro")
           /\ Part(WriteAccelRange(v), {"accel"}) /\ Covers(WriteAccelRange(v), "accel")
<1>1. ASSUME NEW r \in Cells, NEW c \in Steps, NEW s,
             s = <<Select(2)>> \o Write(r, 2, 1, v, Ignore) \o <<c, Select(0)>>
      PROVE  s = <<Select(2), Fetch(r), Merge(r, 2, 1, v, Ignore), c, Select(0)>>
  <2> DEFINE x == Select(2)
             y == Select(0)
             f == Fetch(r)
             m == Merge(r, 2, 1, v, Ignore)
             t == <<x, f, m, c, y>>
             xs == <<x>>
             fm == <<f, m>>
             cy == <<c, y>>
             u == xs \o fm
  <2>1. s = u \o cy
    BY <1>1 DEF Write
  <2>2. x \in Steps /\ y \in Steps /\ f \in Steps /\ m \in Steps
    <3>1. 2 \in Banks /\ 0 \in Banks /\ v \in Byte
      BY DEF Banks, Byte
    <3> QED
      BY <3>1, SelectStep, FetchStep, MergeStep
  <2> HIDE DEF x, y, f, m
  <2>3. /\ xs \in Seq(Steps) /\ Len(xs) = 1 /\ xs[1] = x
        /\ fm \in Seq(Steps) /\ Len(fm) = 2 /\ fm[1] = f /\ fm[2] = m
        /\ cy \in Seq(Steps) /\ Len(cy) = 2 /\ cy[1] = c /\ cy[2] = y
        /\ t \in Seq(Steps) /\ Len(t) = 5
        /\ t[1] = x /\ t[2] = f /\ t[3] = m /\ t[4] = c /\ t[5] = y
    BY <1>1, <2>2
  <2>8. u = xs \o fm
    OBVIOUS
  <2> HIDE DEF xs, fm, cy, t, u
  <2>9. xs \in Seq(Steps) /\ fm \in Seq(Steps)
    BY <2>3
  <2>4. u \in Seq(Steps) /\ Len(u) = 3 /\ u[1] = x /\ u[2] = f /\ u[3] = m
    <3>1. /\ u \in Seq(Steps) /\ Len(u) = Len(xs) + Len(fm)
          /\ \A k \in 1..Len(xs) : u[k] = xs[k]
          /\ \A k \in 1..Len(fm) : u[Len(xs) + k] = fm[k]
      BY <2>8, <2>9, IndexIn
    <3>2. u[1] = x /\ u[1 + 1] = f /\ u[1 + 2] = m
      BY <2>3, <3>1
    <3> QED
      BY <2>3, <3>1, <3>2
  <2>5. s \in Seq(Steps) /\ Len(s) = 5 /\ s[1] = x /\ s[2] = f /\ s[3] = m /\ s[4] = c /\ s[5] = y
    <3>1. /\ s \in Seq(Steps) /\ Len(s) = Len(u) + Len(cy)
          /\ \A k \in 1..Len(u) : s[k] = u[k]
          /\ \A k \in 1..Len(cy) : s[Len(u) + k] = cy[k]
      BY <2>1, <2>3, <2>4, IndexIn
    <3>2. s[1] = x /\ s[2] = f /\ s[3] = m /\ s[3 + 1] = c /\ s[3 + 2] = y
      BY <2>3, <2>4, <3>1
    <3> QED
      BY <2>3, <2>4, <3>1, <3>2
  <2>6. \A k \in 1..Len(s) : s[k] = t[k]
    BY <2>3, <2>5
  <2>7. s = t
    BY <2>3, <2>5, <2>6, SeqEqual
  <2> QED
    BY <2>7 DEF t, x, y, f, m
<1>2. RangeReg("gyro") = GyroConfig1 /\ RangeReg("accel") = AccelConfig1
  BY DEF RangeReg
<1>3. "gyro" \in Ranges /\ "accel" \in Ranges
  BY DEF Ranges
<1> DEFINE g == WriteGyroRange(v)
           a == WriteAccelRange(v)
<1>8. /\ GyroConfig1 \in Cells /\ AccelConfig1 \in Cells
      /\ Cache("gyro", v) \in Steps /\ Cache("accel", v) \in Steps
  BY CellFacts, FlowStep
<1>4. g = <<Select(2), Fetch(RangeReg("gyro")), Merge(RangeReg("gyro"), 2, 1, v, Ignore),
            Cache("gyro", v), Select(0)>>
  BY <1>1, <1>2, <1>8 DEF WriteGyroRange
<1>5. a = <<Select(2), Fetch(RangeReg("accel")), Merge(RangeReg("accel"), 2, 1, v, Ignore),
            Cache("accel", v), Select(0)>>
  BY <1>1, <1>2, <1>8 DEF WriteAccelRange
<1> HIDE DEF g, a
<1>6. Part(g, {"gyro"}) /\ Covers(g, "gyro")
  BY <1>3, <1>4, RangePiece DEF Part, Covers
<1>7. Part(a, {"accel"}) /\ Covers(a, "accel")
  BY <1>3, <1>5, RangePiece DEF Part, Covers
<1> QED
  BY <1>6, <1>7 DEF g, a

LEMMA ThreePart ==
    ASSUME NEW x, NEW y, NEW z, Easy(x), Easy(y), Easy(z)
    PROVE  Part(<<x, y, z>>, {})
<1>1. AllEasy(<<x, y, z>>)
  BY SmallEasy
<1> QED
  BY <1>1, EasyPiece DEF Part

LEMMA RatesPart ==
    /\ \A v \in Byte : Part(SetGyroRateDivisor(v), {})
    /\ \A v \in Word : Part(SetAccelRateDivisor(v), {})
    /\ \A r \in Cells : Part(ReadRange(r), {})
    /\ Part(GetEvent, {})
<1>1. Easy(Select(2)) /\ Easy(Select(0)) /\ \A r \in Cells : Easy(Fetch(r))
  BY EasyFlow DEF Banks
<1>2. \A v \in Byte : Part(SetGyroRateDivisor(v), {})
  <2> TAKE v \in Byte
  <2>1. GyroSmplrtDiv \in Scratch
    BY DEF Scratch
  <2>2. Easy(Put(GyroSmplrtDiv, v, Ignore))
    BY <2>1, EasyWrites
  <2> QED
    BY <1>1, <2>2, ThreePart DEF SetGyroRateDivisor
<1>3. \A v \in Word : Part(SetAccelRateDivisor(v), {})
  <2> TAKE v \in Word
  <2>1. Easy(Put2(AccelSmplrtDiv1, v, Ignore))
    BY EasyWrites
  <2> QED
    BY <1>1, <2>1, ThreePart DEF SetAccelRateDivisor
<1>4. \A r \in Cells : Part(ReadRange(r), {})
  BY <1>1, ThreePart DEF ReadRange
<1>5. Part(GetEvent, {})
  BY <1>1, ThreePart, CellFacts DEF GetEvent
<1> QED
  BY <1>2, <1>3, <1>4, <1>5

LEMMA InterruptPart ==
    ASSUME NEW r \in Scratch, NEW low \in {0, 1} PROVE Part(IntActiveLow(r, low), {})
<1> DEFINE a == <<Select(0)>>
           b == Write(r, 1, 6, 1, Ignore)
           c == Write(r, 1, 7, low, Ignore)
<1>1. Part(a, {}) /\ Part(b, {}) /\ Part(c, {})
  <2>1. 1 \in Byte /\ low \in Byte /\ 6 \in 0..7 /\ 7 \in 0..7 /\ 0 \in Banks
    BY DEF Byte, Banks
  <2> QED
    BY <2>1, FieldPart
<1>2. IntActiveLow(r, low) = (a \o b) \o c
  BY DEF IntActiveLow
<1> HIDE DEF a, b, c
<1>3. Part(a \o b, {})
  BY <1>1, PartConcat
<1>4. Part((a \o b) \o c, {})
  BY <1>1, <1>3, PartConcat
<1> QED
  BY <1>2, <1>4

LEMMA MagRatePart ==
    ASSUME NEW rate \in Byte PROVE Part(SetMagDataRate(rate), {})
<1> DEFINE a == AuxWrite(Cntl2, 0)
           b == <<Op("hold")>>
           c == AuxWrite(Cntl2, rate)
           d == <<Op("both")>>
<1>1. Part(a, {}) /\ Part(b, {}) /\ Part(c, {}) /\ Part(d, {})
  <2>1. Cntl2 \in Byte /\ 0 \in Byte
    BY DEF Cntl2, Byte
  <2>2. Part(a, {}) /\ Part(c, {})
    BY <2>1, AuxPiece DEF Part
  <2>3. Part(b, {}) /\ Part(d, {})
    BY FieldPart
  <2> QED
    BY <2>2, <2>3
<1>2. SetMagDataRate(rate) = ((a \o b) \o c) \o d
  BY DEF SetMagDataRate
<1> HIDE DEF a, b, c, d
<1>3. Part(a \o b, {})
  BY <1>1, PartConcat
<1>4. Part((a \o b) \o c, {})
  BY <1>1, <1>3, PartConcat
<1>5. Part(((a \o b) \o c) \o d, {})
  BY <1>1, <1>4, PartConcat
<1> QED
  BY <1>2, <1>5

LEMMA EndTidy ==
    /\ <<Join("end")>> \in Seq(Steps) /\ Tidy(<<Join("end")>>) /\ Plain(<<Join("end")>>)
    /\ <<Op("giveUp"), Join("end")>> \in Seq(Steps) /\ Tidy(<<Op("giveUp"), Join("end")>>)
    /\ <<Op("begun"), Join("end")>> \in Seq(Steps) /\ Tidy(<<Op("begun"), Join("end")>>)
<1> DEFINE e == Join("end")
<1>1. e \in Steps /\ e.do = "join"
  BY FlowStep, SettersAre
<1>2. \A name \in {"giveUp", "begun"} : Op(name) \in Steps /\ Op(name).do = name
  BY FlowStep DEF Op
<1>3. Mild(e) /\ Ordinary(e) /\ \A R : ~Sets(e, R)
  BY <1>1, SettersAre DEF Mild, Ordinary, Sets
<1>4. e = Join("end")
  OBVIOUS
<1> HIDE DEF e
<1>5. <<e>> \in Seq(Steps) /\ Tidy(<<e>>) /\ Plain(<<e>>)
  <2> DEFINE s == <<e>>
  <2>1. s \in Seq(Steps) /\ Len(s) = 1 /\ s[1] = e
    BY <1>1
  <2> HIDE DEF s
  <2>2. Steady(s) /\ Once(s) /\ Ending(s) /\ Plain(s)
    BY <1>1, <1>3, <2>1 DEF Steady, Once, Ending, Plain
  <2> QED
    BY <2>1, <2>2 DEF s, Tidy
<1>6. ASSUME NEW name \in {"giveUp", "begun"}
      PROVE  <<Op(name), e>> \in Seq(Steps) /\ Tidy(<<Op(name), e>>)
  <2> DEFINE x == Op(name)
  <2>0. x \in Steps /\ x.do = name
    BY <1>2
  <2> HIDE DEF x
  <2>1. Mild(x) /\ (\A R : ~Sets(x, R)) /\ x # e
    BY <1>1, <2>0 DEF Mild, Sets
  <2> DEFINE s == <<x, e>>
  <2>2. s \in Seq(Steps) /\ Len(s) = 2 /\ s[1] = x /\ s[2] = e
    BY <1>1, <2>0
  <2> HIDE DEF s
  <2>3. Steady(s) /\ Once(s)
    BY <1>1, <1>3, <2>0, <2>1, <2>2 DEF Steady, Once
  <2>4. Ending(s)
    BY <1>1, <1>4, <2>0, <2>1, <2>2 DEF Ending
  <2> QED
    BY <2>2, <2>3, <2>4 DEF s, x, Tidy
<1> QED
  BY <1>5, <1>6 DEF e

LEMMA DLPFTidy ==
    ASSUME NEW enable \in BOOLEAN
    PROVE  /\ EnableDLPF(enable, 7) \in Seq(Steps)
           /\ Tidy(EnableDLPF(enable, 7)) /\ Plain(EnableDLPF(enable, 7))
           /\ Prepared(EnableDLPF(enable, 7))
<1> DEFINE a == <<Select(2)>>
           b == Write(AccelConfig1, 1, 0, IF enable THEN 1 ELSE 0, "end")
           c == Write(AccelConfig1, 3, 3, 7, "end")
           n == <<>>
           e == <<Join("end")>>
<1>1. Part(a, {}) /\ Part(b, {}) /\ Part(c, {})
  <2>1. (IF enable THEN 1 ELSE 0) \in Byte /\ 7 \in Byte /\ 2 \in Banks
    BY DEF Byte, Banks
  <2> QED
    BY <2>1, FieldPart
<1>2. Part(n, {})
  <2>1. AllEasy(n)
    BY DEF AllEasy
  <2> QED
    BY <2>1, EasyPiece DEF Part
<1>3. EnableDLPF(enable, 7) = ((a \o b) \o (IF enable THEN c ELSE n)) \o e
  BY DEF EnableDLPF
<1>4. e \in Seq(Steps) /\ Tidy(e) /\ Plain(e)
  BY EndTidy
<1> DEFINE d == IF enable THEN c ELSE n
<1>5. Part(d, {})
  BY <1>1, <1>2
<1>6. EnableDLPF(enable, 7) = ((a \o b) \o d) \o e
  BY <1>3
<1> HIDE DEF a, b, c, d, e, n
<1>7. Part(a \o b, {})
  BY <1>1, PartConcat
<1> DEFINE p == (a \o b) \o d
<1>8. Part(p, {})
  BY <1>5, <1>7, PartConcat
<1>9. EnableDLPF(enable, 7) = p \o e
  BY <1>6
<1> HIDE DEF p
<1>10. p \in Seq(Steps) /\ Piece(p, {}) /\ Plain(p)
  BY <1>8 DEF Part, Piece
<1>11. p \o e \in Seq(Steps) /\ Tidy(p \o e)
  BY <1>4, <1>10, PieceThen
<1>12. Plain(p \o e)
  BY <1>4, <1>10, PlainConcat
<1>13. Prepared(p \o e)
  <2>1. \A x \in Els(p) : x.do # "cache"
    BY <1>10 DEF Piece, Only, Els
  <2>2. \A x \in Els(e) : x.do # "cache"
    <3>1. Join("end").do # "cache"
      BY DEF Join
    <3>2. Els(e) = {Join("end")}
      BY DEF Els, e
    <3> QED
      BY <3>1, <3>2
  <2>3. Els(p \o e) = Els(p) \union Els(e)
    BY <1>4, <1>10, ElsConcat
  <2> QED
    BY <2>1, <2>2, <2>3, InEls DEF Remembers
<1> QED
  BY <1>9, <1>11, <1>12, <1>13

LEMMA PartTidy ==
    ASSUME NEW s, NEW S, Part(s, S) PROVE s \in Seq(Steps) /\ Tidy(s) /\ Plain(s) /\ Prepared(s)
BY PieceTidy DEF Part, Piece

LEMMA MethodsTidy ==
    \A method \in Methods : method \in Seq(Steps) /\ Tidy(method) /\ Plain(method) /\ Prepared(method)
<1>1. /\ 0 \in 0..3 /\ 1 \in 0..3 /\ 5 \in Byte /\ 300 \in Word /\ 2 \in Byte /\ Cntl2 \in Byte
      /\ GyroSmplrtDiv \in Cells /\ IntPinCfg \in Scratch /\ IntEnable1 \in Scratch
      /\ TRUE \in BOOLEAN /\ FALSE \in BOOLEAN /\ 1 \in {0, 1}
  BY CellFacts DEF Byte, Word, Scratch, Cntl2
<1>2. /\ Part(ReadRange(GyroSmplrtDiv), {}) /\ Part(GetEvent, {})
      /\ Part(SetGyroRateDivisor(5), {}) /\ Part(SetAccelRateDivisor(300), {})
  BY <1>1, RatesPart
<1>3. Part(WriteGyroRange(0), {"gyro"}) /\ Part(WriteAccelRange(1), {"accel"})
  BY <1>1, RangesPart
<1>4. Part(IntActiveLow(IntPinCfg, 1), {}) /\ Part(IntActiveLow(IntEnable1, 1), {})
  BY <1>1, InterruptPart
<1>5. Part(SetMagDataRate(2), {})
  BY <1>1, MagRatePart
<1>6. Part(AuxRead(Cntl2), {})
  BY <1>1, AuxPiece DEF Part
<1>7. Part(ResetI2CMaster, {})
  BY ResetMasterPart
<1>8. \A s, S : Part(s, S) => s \in Seq(Steps) /\ Tidy(s) /\ Plain(s) /\ Prepared(s)
  BY PartTidy
<1>9. \A b \in BOOLEAN : /\ EnableDLPF(b, 7) \in Seq(Steps)
                         /\ Tidy(EnableDLPF(b, 7)) /\ Plain(EnableDLPF(b, 7))
                         /\ Prepared(EnableDLPF(b, 7))
  BY DLPFTidy
<1> SUFFICES ASSUME NEW method \in Methods
             PROVE  method \in Seq(Steps) /\ Tidy(method) /\ Plain(method) /\ Prepared(method)
  OBVIOUS
<1>10. \/ \E S : Part(method, S)
       \/ method = EnableDLPF(TRUE, 7) \/ method = EnableDLPF(FALSE, 7)
  BY <1>2, <1>3, <1>4, <1>5, <1>6, <1>7 DEF Methods
<1> QED
  BY <1>8, <1>9, <1>10

(* What calibrateICM shows.                                                *)
LEMMA ShowTidy ==
    ASSUME NEW s,
           s = ReadRange(AccelConfig1) \o ReadRange(GyroConfig1) \o ReadRange(AccelSmplrtDiv1)
    PROVE  s \in Seq(Steps) /\ Tidy(s) /\ Plain(s) /\ Prepared(s)
<1> DEFINE a == ReadRange(AccelConfig1)
           b == ReadRange(GyroConfig1)
           c == ReadRange(AccelSmplrtDiv1)
<1>1. Part(a, {}) /\ Part(b, {}) /\ Part(c, {})
  BY RatesPart, CellFacts
<1>2. s = (a \o b) \o c
  OBVIOUS
<1> HIDE DEF a, b, c
<1>3. Part(a \o b, {})
  BY <1>1, PartConcat
<1>4. Part(s, {})
  BY <1>1, <1>2, <1>3, PartConcat
<1> QED
  BY <1>4, PartTidy
-----------------------------------------------------------------------------
(* begin_I2C from the end of its reset on.                                 *)
LEMMA CalmWrite ==
    ASSUME NEW r \in Cells, NEW n, NEW i, NEW v, NEW l, Calm(Merge(r, n, i, v, l))
    PROVE  /\ Piece(Write(r, n, i, v, l), {}) /\ Write(r, n, i, v, l) \in Seq(Steps)
           /\ Merge(r, n, i, v, l) \in Els(Write(r, n, i, v, l))
<1> DEFINE f == Fetch(r)
           m == Merge(r, n, i, v, l)
           s == <<f, m>>
<1>1. Calm(f) /\ f \in Steps /\ m \in Steps
  BY EasyFlow DEF Easy, Calm
<1>2. Write(r, n, i, v, l) = s
  BY DEF Write
<1> HIDE DEF f
<1>3. Calm(m)
  OBVIOUS
<1> HIDE DEF m
<1>4. AllCalm(s)
  BY <1>1, <1>3, SmallEasy
<1>5. s \in Seq(Steps) /\ Len(s) = 2 /\ s[2] = m
  BY <1>1
<1> HIDE DEF s
<1>6. m \in Els(s) /\ Piece(s, {})
  BY <1>4, <1>5, CalmPiece DEF Els
<1> QED
  BY <1>2, <1>5, <1>6 DEF m

LEMMA ConfigurePiece ==
    /\ Configure \in Seq(Steps) /\ Piece(Configure, {"gyro", "accel"})
    /\ Wake \in Els(Configure) /\ \A R \in Ranges : Covers(Configure, R)
<1> DEFINE a == Write(PwrMgmt1, 1, 6, 0, Ignore)
           b == WriteGyroRange(3)
           c == WriteAccelRange(3)
           d == SetGyroRateDivisor(10)
           e == SetAccelRateDivisor(20)
           f == <<Join("init")>>
<1>1. Piece(a, {}) /\ Wake \in Els(a)
  BY EasyWrites, CalmWrite, CellFacts DEF Wake
<1>2. /\ Piece(b, {"gyro"}) /\ Covers(b, "gyro")
      /\ Piece(c, {"accel"}) /\ Covers(c, "accel")
  <2>1. 3 \in 0..3
    OBVIOUS
  <2> QED
    BY <2>1, RangesPart DEF Part
<1>3. Piece(d, {}) /\ Piece(e, {}) /\ Piece(f, {})
  <2>1. 10 \in Byte /\ 20 \in Word
    BY DEF Byte, Word
  <2> QED
    BY <2>1, RatesPart, FieldPart DEF Part
<1>4. Configure = ((((a \o b) \o c) \o d) \o e) \o f
  BY DEF Configure
<1> HIDE DEF a, b, c, d, e, f
<1>5. \A s, S : Piece(s, S) => s \in Seq(Steps)
  BY DEF Piece
<1> DEFINE G == {"gyro"}
           A == {"accel"}
           p1 == a \o b
           p2 == p1 \o c
           p3 == p2 \o d
           p4 == p3 \o e
           p5 == p4 \o f
<1>6. G \cap A = {} /\ G \union A = {"gyro", "accel"}
  OBVIOUS
<1>7. Piece(p1, G) /\ Els(p1) = Els(a) \union Els(b)
  BY <1>1, <1>2, <1>5, QuietConcat, ElsConcat
<1> HIDE DEF p1
<1>8. Piece(p2, {"gyro", "accel"}) /\ Els(p2) = Els(p1) \union Els(c)
  <2>1. Piece(p2, G \union A)
    BY <1>2, <1>6, <1>7, PieceConcat
  <2> QED
    BY <1>2, <1>5, <1>6, <1>7, <2>1, ElsConcat
<1> HIDE DEF p2
<1>9. Piece(p3, {"gyro", "accel"}) /\ Els(p3) = Els(p2) \union Els(d)
  BY <1>3, <1>5, <1>8, QuietConcat, ElsConcat
<1> HIDE DEF p3
<1>10. Piece(p4, {"gyro", "accel"}) /\ Els(p4) = Els(p3) \union Els(e)
  BY <1>3, <1>5, <1>9, QuietConcat, ElsConcat
<1> HIDE DEF p4
<1>11. Piece(p5, {"gyro", "accel"}) /\ Els(p5) = Els(p4) \union Els(f)
  BY <1>3, <1>5, <1>10, QuietConcat, ElsConcat
<1>12. Configure = p5
  BY <1>4 DEF p1, p2, p3, p4, p5
<1> HIDE DEF p5
<1>13. Els(a) \subseteq Els(p5) /\ Els(b) \subseteq Els(p5) /\ Els(c) \subseteq Els(p5)
  BY <1>7, <1>8, <1>9, <1>10, <1>11
<1>14. Covers(p5, "gyro") /\ Covers(p5, "accel")
  BY <1>2, <1>13, InEls, Zenon
<1> QED
  BY <1>1, <1>5, <1>11, <1>12, <1>13, <1>14 DEF Ranges

LEMMA MagTryPiece == ASSUME NEW n \in Nat PROVE Piece(MagTry(n), {})
<1> DEFINE a == AuxRead(Wia2)
           b == <<TryMag(n)>>
<1>1. Wia2 \in Byte /\ 0 \in Byte
  BY DEF Wia2, Byte
<1>2. Piece(a, {})
  BY <1>1, AuxPiece
<1>3. Piece(b, {})
  <2>1. Calm(TryMag(n))
    BY EasyFlow
  <2>2. AllCalm(b)
    BY <2>1, SmallEasy
  <2> QED
    BY <2>2, CalmPiece
<1>4. MagTry(n) = a \o b
  BY DEF MagTry
<1> HIDE DEF a, b
<1> QED
  BY <1>2, <1>3, <1>4, QuietConcat

LEMMA SetupMagPiece ==
    /\ SetupMag \in Seq(Steps) /\ Piece(SetupMag, {})
    /\ Enable \in Els(SetupMag) /\ Aim \in Els(SetupMag) /\ Feed \in Els(SetupMag)
<1> DEFINE a1 == <<Select(0)>>
           a2 == Write(IntPinCfg, 1, 1, 0, Ignore)
           b == ConfigureI2CMaster
           c1 == <<Select(0)>>
           c2 == Write(UserCtrl, 1, 5, 1, Ignore)
           d == MagTry(1)
           e == SetMagDataRate(8)
           x == Op("orEnd")
           y == Select(3)
           z == Put(Slv0Reg, 16, "end")
           f == <<x, y, Aim, z, Feed>>
<1>1. Piece(a1, {}) /\ Piece(a2, {}) /\ Piece(c1, {})
  <2>1. 0 \in Banks /\ IntPinCfg \in Scratch /\ 1 \in 0..7 /\ 0 \in Byte
    BY DEF Banks, Scratch, Byte
  <2> QED
    BY <2>1, FieldPart DEF Part
<1>2. Piece(c2, {}) /\ Enable \in Els(c2)
  BY EasyWrites, CalmWrite, CellFacts DEF Enable
<1>3. Piece(d, {}) /\ Piece(e, {})
  <2>1. 1 \in Nat /\ 8 \in Byte
    BY DEF Byte
  <2> QED
    BY <2>1, MagTryPiece, MagRatePart DEF Part
<1>4. Calm(x) /\ Calm(y) /\ Calm(z) /\ Calm(Aim) /\ Calm(Feed)
  <2>1. 3 \in Banks /\ Slv0Reg \in Scratch /\ 16 \in Byte
    BY DEF Banks, Scratch, Byte
  <2>2. Easy(y) /\ Easy(z)
    BY <2>1, EasyFlow, EasyWrites
  <2> QED
    BY <2>2, EasyFlow, EasyWrites DEF Easy
<1>5. Piece(b, {})
  <2> DEFINE w == Put(MstCtrl, 23, Ignore)
  <2>1. MstCtrl \in Scratch /\ 23 \in Byte
    BY DEF Scratch, Byte
  <2>2. Easy(w)
    BY <2>1, EasyWrites
  <2>3. Calm(w)
    BY <2>2 DEF Easy
  <2>4. AllCalm(<<y, w>>)
    BY <1>4, <2>3, SmallEasy
  <2> QED
    BY <2>4, CalmPiece DEF ConfigureI2CMaster
<1>6. Piece(f, {}) /\ Aim \in Els(f) /\ Feed \in Els(f)
  <2> HIDE DEF x, y, z
  <2>1. x \in Steps /\ y \in Steps /\ z \in Steps /\ Aim \in Steps /\ Feed \in Steps
    BY <1>4 DEF Calm
  <2>2. /\ f \in Seq(Steps) /\ Len(f) = 5
        /\ f[1] = x /\ f[2] = y /\ f[3] = Aim /\ f[4] = z /\ f[5] = Feed
    BY <2>1
  <2> HIDE DEF f
  <2>3. AllCalm(f)
    BY <1>4, <2>2 DEF AllCalm
  <2>4. Aim \in Els(f) /\ Feed \in Els(f)
    BY <2>2 DEF Els
  <2> QED
    BY <2>3, <2>4, CalmPiece
<1>7. SetupMag = (((((a1 \o a2) \o b) \o (c1 \o c2)) \o d) \o e) \o f
  BY DEF SetupMag, SetI2CBypass, EnableI2CMaster, Aim, Feed
<1> HIDE DEF a1, a2, b, c1, c2, d, e, f
<1>8. \A s, S : Piece(s, S) => s \in Seq(Steps)
  BY DEF Piece
<1> DEFINE p0 == a1 \o a2
           p1 == p0 \o b
           c == c1 \o c2
           p2 == p1 \o c
           p3 == p2 \o d
           p4 == p3 \o e
           p5 == p4 \o f
<1>9. Piece(p0, {}) /\ Piece(c, {}) /\ Els(c) = Els(c1) \union Els(c2)
  BY <1>1, <1>2, <1>8, QuietConcat, ElsConcat
<1> HIDE DEF p0, c
<1>10. Piece(p1, {})
  BY <1>5, <1>9, QuietConcat
<1> HIDE DEF p1
<1>11. Piece(p2, {}) /\ Els(p2) = Els(p1) \union Els(c)
  BY <1>8, <1>9, <1>10, QuietConcat, ElsConcat
<1> HIDE DEF p2
<1>12. Piece(p3, {}) /\ Els(p3) = Els(p2) \union Els(d)
  BY <1>3, <1>8, <1>11, QuietConcat, ElsConcat
<1> HIDE DEF p3
<1>13. Piece(p4, {}) /\ Els(p4) = Els(p3) \union Els(e)
  BY <1>3, <1>8, <1>12, QuietConcat, ElsConcat
<1> HIDE DEF p4
<1>14. Piece(p5, {}) /\ Els(p5) = Els(p4) \union Els(f)
  BY <1>6, <1>8, <1>13, QuietConcat, ElsConcat
<1>15. SetupMag = p5
  BY <1>7 DEF p0, p1, p2, p3, p4, p5, c
<1> HIDE DEF p5
<1>16. Els(c2) \subseteq Els(p5) /\ Els(f) \subseteq Els(p5)
  BY <1>9, <1>11, <1>12, <1>13, <1>14
<1> QED
  BY <1>2, <1>6, <1>8, <1>14, <1>15, <1>16

LEMMA RestTidy ==
    /\ Rest \in Seq(Steps) /\ Tidy(Rest)
    /\ Wake \in Els(Rest) /\ Enable \in Els(Rest) /\ Aim \in Els(Rest) /\ Feed \in Els(Rest)
    /\ \A R \in Ranges : Covers(Rest, R)
<1> DEFINE a == Configure
           b == SetupMag
           c == <<Op("begun"), Join("end")>>
           p == a \o b
           q == p \o c
<1>1. /\ a \in Seq(Steps) /\ b \in Seq(Steps) /\ c \in Seq(Steps) /\ Tidy(c)
      /\ Piece(a, {"gyro", "accel"}) /\ Piece(b, {})
      /\ Wake \in Els(a) /\ Enable \in Els(b) /\ Aim \in Els(b) /\ Feed \in Els(b)
      /\ \A R \in Ranges : Covers(a, R)
  BY ConfigurePiece, SetupMagPiece, EndTidy
<1>2. \A k \in 1..Len(c) : c[k].do # "cache"
  <2>1. Op("begun").do # "cache" /\ Join("end").do # "cache"
    BY DEF Op, Join
  <2>2. Len(c) = 2 /\ c[1] = Op("begun") /\ c[2] = Join("end")
    OBVIOUS
  <2> HIDE DEF c
  <2> QED
    BY <2>1, <2>2
<1>3. Rest = q
  BY DEF Rest
<1> HIDE DEF a, b, c
<1>4. p \in Seq(Steps) /\ Piece(p, {"gyro", "accel"}) /\ Els(p) = Els(a) \union Els(b)
  BY <1>1, QuietConcat, ElsConcat DEF Piece
<1> HIDE DEF p
<1>5. q \in Seq(Steps) /\ Tidy(q)
  BY <1>1, <1>2, <1>4, PieceThen
<1>6. Els(q) = Els(p) \union Els(c)
  BY <1>1, <1>4, ElsConcat
<1> HIDE DEF q
<1>7. Els(a) \subseteq Els(q) /\ Els(b) \subseteq Els(q)
  BY <1>4, <1>6
<1>8. Wake \in Els(q) /\ Enable \in Els(q) /\ Aim \in Els(q) /\ Feed \in Els(q)
  BY <1>1, <1>7
<1>9. \A R \in Ranges : Covers(q, R)
  BY <1>1, <1>7, InEls, Zenon
<1> QED
  BY <1>3, <1>5, <1>8, <1>9

LEMMA OpeningPiece == Piece(Opening, {})
<1> DEFINE a == <<Op("begin"), Detect>>
           b == <<Select(0), Fetch(WhoAmI), Op("identify")>>
           c1 == <<Select(0)>>
           c2 == Write(PwrMgmt1, 1, 7, 1, Ignore)
           c3 == <<Cleared(PwrMgmt1, 7)>>
<1>1. /\ Calm(Op("begin")) /\ Calm(Detect) /\ Calm(Op("identify")) /\ Calm(Select(0))
      /\ Calm(Fetch(WhoAmI)) /\ Calm(Cleared(PwrMgmt1, 7))
  <2>1. Easy(Select(0)) /\ Easy(Fetch(WhoAmI))
    BY EasyFlow, CellFacts DEF Banks
  <2> QED
    BY <2>1, EasyFlow, CellFacts DEF Easy
<1>2. AllCalm(a) /\ AllCalm(b) /\ AllCalm(c1) /\ AllCalm(c3)
  BY <1>1, SmallEasy
<1>3. Piece(a, {}) /\ Piece(b, {}) /\ Piece(c1, {}) /\ Piece(c3, {})
  BY <1>2, CalmPiece
<1>4. Piece(c2, {})
  BY EasyWrites, CalmWrite, CellFacts
<1>5. Opening = a \o (b \o ((c1 \o c2) \o c3))
  BY DEF Opening, PowerUp, Reset
<1> HIDE DEF a, b, c1, c2, c3
<1>6. Piece(c1 \o c2, {})
  BY <1>3, <1>4, QuietConcat
<1>7. Piece((c1 \o c2) \o c3, {})
  BY <1>3, <1>6, QuietConcat
<1>8. Piece(b \o ((c1 \o c2) \o c3), {})
  BY <1>3, <1>7, QuietConcat
<1>9. Piece(a \o (b \o ((c1 \o c2) \o c3)), {})
  BY <1>3, <1>8, QuietConcat
<1> QED
  BY <1>5, <1>9

LEMMA BeginTidy ==
    /\ BeginI2C \in Seq(Steps) /\ Tidy(BeginI2C)
    /\ Cut(9) = Rest
<1>1. Opening \in Seq(Steps) /\ Rest \in Seq(Steps) /\ Len(Opening) = 9 /\ Tidy(Rest)
  BY RestTidy, FrontElements
<1>2. \A k \in 1..Len(Rest) : Rest[k].do = "cache" => Rest[k].range \notin {}
  OBVIOUS
<1> DEFINE s == Opening \o Rest
<1>3. s \in Seq(Steps) /\ Tidy(s)
  BY <1>1, <1>2, OpeningPiece, PieceThen
<1>4. /\ Len(Rest) \in Nat /\ Len(s) = Len(Opening) + Len(Rest)
      /\ \A i \in 1..Len(Rest) : s[Len(Opening) + i] = Rest[i]
  BY <1>1, ConcatIndex
<1> HIDE DEF s
<1>5. BeginI2C = s
  BY BeginIsFrontRest DEF s
<1> DEFINE t == Cut(9)
<1>6. /\ t \in Seq(Steps) /\ Len(t) = Len(BeginI2C) - 9
      /\ \A i \in 1..Len(t) : t[i] = BeginI2C[9 + i]
  <2>1. 9 \in 0..9
    OBVIOUS
  <2> QED
    BY <2>1, CutIndex
<1> HIDE DEF t
<1>7. Len(t) = Len(Rest) /\ \A i \in 1..Len(t) : t[i] = Rest[i]
  <2>1. Len(t) = Len(Rest)
    BY <1>1, <1>4, <1>5, <1>6
  <2> QED
    BY <1>1, <1>4, <1>5, <1>6, <2>1
<1>8. t = Rest
  BY <1>1, <1>6, <1>7, SeqEqual
<1> QED
  BY <1>3, <1>5, <1>8 DEF t
-----------------------------------------------------------------------------
(* What a step leaves of the shape of a call.                              *)
LEMMA JumpFirst ==
    ASSUME todo \in Seq(Steps), NEW l, ReturnFalse(l)
    PROVE  \/ todo' = todo
           \/ \E i \in 1..Len(todo) :
                 /\ todo[i] = Join(l) /\ todo' = Suffix(todo, i)
                 /\ \A j \in 1..Len(todo) : j < i => todo[j] # Join(l)
<1> DEFINE I == {i \in 1..Len(todo) : todo[i] = Join(l)}
<1> DEFINE j == SelectInSeq(todo, LAMBDA o : o = Join(l))
<1>0. Len(todo) \in Nat
  BY LenProperties
<1>1. j = IF I # {} THEN Min(I) ELSE 0
  BY DEF SelectInSeq
<1>2. todo' = SubSeq(todo, 1 + j, Len(todo))
  BY DEF ReturnFalse
<1> HIDE DEF j
<1>3. CASE I # {}
  <2>1. I \subseteq Nat
    BY <1>0
  <2>2. Min(I) \in I /\ \A t \in I : Min(I) <= t
    BY <2>1, <1>3, LeastIn
  <2>3. j \in 1..Len(todo) /\ todo[j] = Join(l) /\ \A t \in I : j <= t
    BY <2>2, <1>1, <1>3
  <2>4. \A t \in 1..Len(todo) : t < j => todo[t] # Join(l)
    <3> SUFFICES ASSUME NEW t \in 1..Len(todo), t < j, todo[t] = Join(l) PROVE FALSE
      OBVIOUS
    <3>1. j <= t
      BY <2>3
    <3> QED
      BY <3>1, <2>3, <1>0
  <2>5. 1 + j = j + 1
    BY <2>3, <1>0
  <2> QED
    BY <1>2, <2>3, <2>4, <2>5 DEF Suffix
<1>4. CASE I = {}
  <2>1. todo' = SubSeq(todo, 1, Len(todo))
    BY <1>1, <1>2, <1>4
  <2>2. \A i \in 1..Len(todo) : todo[i] \in Steps
    BY ElementOfSeq
  <2>3. /\ todo' \in Seq(Steps)
        /\ Len(todo') = IF 1 <= Len(todo) THEN Len(todo) - 1 + 1 ELSE 0
        /\ \A i \in 1..(Len(todo) - 1 + 1) : todo'[i] = todo[1 + i - 1]
    BY <1>0, <2>1, <2>2, SubSeqProperties
  <2>4. Len(todo') = Len(todo) /\ \A i \in 1..Len(todo') : todo'[i] = todo[i]
    BY <1>0, <2>3
  <2> QED
    BY <2>3, <2>4, SeqEqual
<1> QED
  BY <1>3, <1>4

LEMMA TailTidy ==
    ASSUME NEW s \in Seq(Steps), s # <<>>
    PROVE  /\ Tidy(s) => Tidy(Tail(s))
           /\ Plain(s) => Plain(Tail(s))
           /\ Els(s) = {s[1]} \union Els(Tail(s))
           /\ Els(Tail(s)) \subseteq Els(s)
<1> DEFINE t == Tail(s)
<1>1. /\ t \in Seq(Steps) /\ Len(s) \in Nat /\ Len(s) > 0 /\ Len(t) = Len(s) - 1
      /\ \A k \in 1..Len(t) : t[k] = s[k + 1]
  BY TailIndex
<1> HIDE DEF t
<1>2. 1 \in 0..Len(s)
  BY <1>1
<1>3. (Tidy(s) => Tidy(t)) /\ (Plain(s) => Plain(t))
  BY <1>1, <1>2, SuffixTidy
<1>4. Els(t) \subseteq Els(s)
  <2>1. \A k \in 1..Len(t) : k + 1 \in 1..Len(s) /\ t[k] = s[k + 1]
    BY <1>1
  <2> QED
    BY <2>1 DEF Els
<1>5. s[1] \in Els(s)
  BY <1>1 DEF Els
<1>6. Els(s) \subseteq {s[1]} \union Els(t)
  <2> SUFFICES ASSUME NEW k \in 1..Len(s), k # 1 PROVE s[k] \in Els(t)
    BY DEF Els
  <2>1. k - 1 \in 1..Len(t) /\ (k - 1) + 1 = k
    BY <1>1
  <2>2. t[k - 1] = s[k]
    BY <1>1, <2>1
  <2> QED
    BY <2>1, <2>2 DEF Els
<1> QED
  BY <1>3, <1>4, <1>5, <1>6 DEF t

LEMMA JumpTidy ==
    ASSUME NEW s \in Seq(Steps), NEW i \in 1..Len(s)
    PROVE  /\ Tidy(s) => Tidy(Suffix(s, i))
           /\ Plain(s) => Plain(Suffix(s, i))
           /\ Els(Suffix(s, i)) \subseteq Els(s)
<1> DEFINE t == Suffix(s, i)
<1>1. /\ t \in Seq(Steps) /\ Len(t) = Len(s) - i /\ \A k \in 1..Len(t) : t[k] = s[k + i]
  BY SuffixIndex
<1> HIDE DEF t
<1>2. i \in 0..Len(s) /\ Len(s) \in Nat
  BY LenProperties
<1>3. (Tidy(s) => Tidy(t)) /\ (Plain(s) => Plain(t))
  BY <1>1, <1>2, SuffixTidy
<1>4. \A k \in 1..Len(t) : k + i \in 1..Len(s) /\ t[k] = s[k + i]
  BY <1>1, <1>2
<1>5. Els(t) \subseteq Els(s)
  BY <1>4 DEF Els
<1> QED
  BY <1>3, <1>5 DEF t

(* begin_I2C is not plain before the end of its reset.                     *)
LEMMA EarlyNotPlain == ASSUME NEW s, Early(s) PROVE ~Plain(s) /\ s # <<>>
<1>1. PICK k \in 0..8 : s = Cut(k)
  BY DEF Early
<1>2. /\ Len(s) = Len(BeginI2C) - k /\ s # <<>>
      /\ \A i \in 1..Len(s) : s[i] = BeginI2C[k + i]
  <2>1. k \in 0..9
    OBVIOUS
  <2> QED
    BY <1>1, <2>1, CutIndex
<1>3. Len(BeginI2C) \in Nat /\ Len(BeginI2C) >= 12
  BY BeginShape
<1>4. 9 - k \in 1..Len(s) /\ k + (9 - k) = 9
  BY <1>2, <1>3
<1>5. s[9 - k] = Cleared(PwrMgmt1, 7)
  BY <1>2, <1>4, BeginDoes
<1>6. ~Ordinary(s[9 - k])
  BY <1>5 DEF Ordinary
<1> QED
  BY <1>2, <1>4, <1>6 DEF Plain

LEMMA FormTail ==
    ASSUME BusInv, Form, ~Idle, Advance, at' = at, begun' = begun \/ begun' = FALSE,
           ok' = ok \/ todo[1].do # "join"
    PROVE  Form'
<1>1. todo # <<>> /\ todo \in Seq(Steps) /\ todo' = Tail(todo) /\ 1 \in 1..Len(todo)
  BY FirstStep DEF Advance
<1>2. Tidy(todo') /\ (Plain(todo) => Plain(todo'))
  BY <1>1, TailTidy DEF Form
<1>3. at \in Sites
  BY <1>1 DEF Form
<1>4. ASSUME begun', at = "beginIcm" PROVE ok' /\ \A k \in 1..Len(todo') : todo'[k].do = "join"
  <2>1. ok /\ \A k \in 1..Len(todo) : todo[k].do = "join"
    BY <1>4 DEF Form
  <2>2. ok' = ok
    BY <1>1, <2>1
  <2>3. \A k \in 1..Len(todo') : k + 1 \in 1..Len(todo) /\ todo'[k] = todo[k + 1]
    <3>1. /\ Len(todo) \in Nat /\ Len(todo') = Len(todo) - 1
          /\ \A k \in 1..Len(todo') : todo'[k] = todo[k + 1]
      BY <1>1, TailIndex
    <3> QED
      BY <3>1
  <2> QED
    BY <2>1, <2>2, <2>3
<1>5. begun' => Plain(todo')
  BY <1>2 DEF Form
<1> QED
  BY <1>2, <1>3, <1>4, <1>5 DEF Form

LEMMA FormJump ==
    ASSUME BusInv, Form, ~Idle, NEW l, ReturnFalse(l), at' = at, begun' = begun,
           todo[1].do # "join"
    PROVE  Form'
<1>1. todo # <<>> /\ todo \in Seq(Steps) /\ 1 \in 1..Len(todo)
  BY FirstStep
<1>2. todo' = todo \/ \E i \in 1..Len(todo) : todo' = Suffix(todo, i)
  BY <1>1, JumpTo
<1>3. Tidy(todo') /\ (Plain(todo) => Plain(todo'))
  BY <1>1, <1>2, JumpTidy DEF Form
<1>4. at \in Sites /\ ~(begun /\ at = "beginIcm")
  BY <1>1 DEF Form
<1> QED
  BY <1>3, <1>4 DEF Form

LEMMA FormSame ==
    ASSUME Form, UNCHANGED <<todo, at, begun, ok>>
    PROVE  Form'
BY DEF Form

(* The steps that Owed speaks of.                                          *)
Telling(x) ==
    \/ x \in {Wake, Enable, Aim, Feed}
    \/ \E R \in Ranges : Sets(x, R) \/ Remembers(x, R)

LEMMA Untold ==
    ASSUME NEW x, x.do \notin {"put", "merge", "cache"}
    PROVE  ~Telling(x)
BY SettersAre DEF Telling, Sets, Remembers

SameMatter ==
    /\ \A r \in Matter : cells'[r] = cells[r]
    /\ accelRange' = accelRange /\ gyroRange' = gyroRange

LEMMA SameFields ==
    ASSUME SameMatter
    PROVE  /\ cells'[PwrMgmt1] = cells[PwrMgmt1] /\ cells'[UserCtrl] = cells[UserCtrl]
           /\ cells'[Slv0Addr] = cells[Slv0Addr] /\ cells'[Slv0Ctrl] = cells[Slv0Ctrl]
           /\ \A R \in Ranges : Field(R)' = Field(R) /\ Scale(R)' = Scale(R)
<1>1. /\ cells'[PwrMgmt1] = cells[PwrMgmt1] /\ cells'[UserCtrl] = cells[UserCtrl]
      /\ cells'[Slv0Addr] = cells[Slv0Addr] /\ cells'[Slv0Ctrl] = cells[Slv0Ctrl]
      /\ cells'[GyroConfig1] = cells[GyroConfig1] /\ cells'[AccelConfig1] = cells[AccelConfig1]
  BY DEF SameMatter, Matter
<1>2. ASSUME NEW R \in Ranges PROVE Field(R)' = Field(R) /\ Scale(R)' = Scale(R)
  BY <1>1 DEF SameMatter, Field, Scale, RangeReg
<1> QED
  BY <1>1, <1>2

LEMMA OwedSame ==
    ASSUME SameMatter, Owed, \A x : Telling(x) => (x \in Due <=> x \in Due')
    PROVE  Owed'
<1>1. /\ cells'[PwrMgmt1] = cells[PwrMgmt1] /\ cells'[UserCtrl] = cells[UserCtrl]
      /\ cells'[Slv0Addr] = cells[Slv0Addr] /\ cells'[Slv0Ctrl] = cells[Slv0Ctrl]
      /\ \A R \in Ranges : Field(R)' = Field(R) /\ Scale(R)' = Scale(R)
  BY SameFields
<1>2. /\ Wake \in Due <=> Wake \in Due'
      /\ Enable \in Due <=> Enable \in Due'
      /\ Aim \in Due <=> Aim \in Due'
      /\ Feed \in Due <=> Feed \in Due'
  BY DEF Telling
<1>3. \A R \in Ranges : Balanced(R)'
  <2> SUFFICES ASSUME NEW R \in Ranges PROVE Balanced(R)'
    OBVIOUS
  <2>1. \A x : Sets(x, R) \/ Remembers(x, R) => (x \in Due <=> x \in Due')
    BY DEF Telling
  <2>2. Balanced(R)
    BY DEF Owed
  <2>3. Field(R)' = Field(R) /\ Scale(R)' = Scale(R)
    BY <1>1
  <2> QED
    BY <2>1, <2>2, <2>3 DEF Balanced
<1> QED
  BY <1>1, <1>2, <1>3 DEF Owed
-----------------------------------------------------------------------------
(* What a step leaves of what the call owes.                               *)
LEMMA OwedRest == ASSUME todo' = Rest PROVE Owed'
<1>1. /\ Wake \in Els(Rest) /\ Enable \in Els(Rest) /\ Aim \in Els(Rest) /\ Feed \in Els(Rest)
      /\ \A R \in Ranges : /\ \E x \in Els(Rest) : Sets(x, R)
                           /\ \E x \in Els(Rest) : Remembers(x, R)
  BY RestTidy, InEls, Zenon
<1>2. Due' = Els(Rest)
  BY DEF Due, Els
<1>3. \A R \in Ranges : Balanced(R)'
  BY <1>1, <1>2 DEF Balanced
<1> QED
  BY <1>1, <1>2, <1>3 DEF Owed

LEMMA ReadAfter ==
    ASSUME BusInv, ~Idle, Advance, todo[1].do # "fetch"
    PROVE  ReadRight'
<1>1. todo' = Tail(todo)
  BY DEF Advance
<1>2. \A r : Fetch(r).do = "fetch"
  BY DEF Fetch
<1>3. todo' # <<>> => todo'[1].do # "merge"
  BY <1>1, <1>2, AfterStep
<1> QED
  BY <1>3 DEF ReadRight

LEMMA EarlyNotLive == ASSUME Form, Early(todo) PROVE ~begun /\ ~Live
BY EarlyNotPlain DEF Form, Live

LEMMA LiveTail ==
    ASSUME BusInv, Form, ~Idle, Advance, begun' = begun, Live'
    PROVE  Live \/ todo' = Rest
<1>1. todo # <<>> /\ todo \in Seq(Steps) /\ todo' = Tail(todo)
  BY FirstStep DEF Advance
<1>2. CASE Early(todo)
  <2>1. ~begun
    BY <1>2, EarlyNotLive
  <2>2. ~Early(todo')
    BY <2>1 DEF Live
  <2>3. todo[1].do = "cleared"
    BY <1>1, <1>2, <2>2, EarlyHead
  <2>4. todo = Cut(8) /\ 8 \in 0..8 /\ 8 + 1 = 9
    BY <1>2, <2>3, EarlyHead
  <2>5. Tail(todo) = Cut(9)
    BY <2>4, CutTail
  <2> QED
    BY <1>1, <2>5, BeginTidy
<1>3. CASE ~Early(todo)
  <2>1. begun \/ \E k \in 1..Len(todo') : todo'[k].do = "begun"
    BY DEF Live
  <2>2. \A k \in 1..Len(todo') : k + 1 \in 1..Len(todo) /\ todo'[k] = todo[k + 1]
    <3>1. /\ Len(todo) \in Nat /\ Len(todo') = Len(todo) - 1
          /\ \A k \in 1..Len(todo') : todo'[k] = todo[k + 1]
      BY <1>1, TailIndex
    <3> QED
      BY <3>1
  <2>3. begun \/ \E k \in 1..Len(todo) : todo[k].do = "begun"
    BY <2>1, <2>2
  <2> QED
    BY <1>3, <2>3 DEF Live
<1> QED
  BY <1>2, <1>3

LEMMA DueTail ==
    ASSUME BusInv, ~Idle, Advance
    PROVE  Due = {todo[1]} \union Due' /\ Due' \subseteq Due
<1>1. todo # <<>> /\ todo \in Seq(Steps) /\ todo' = Tail(todo)
  BY FirstStep DEF Advance
<1>2. Due' = Els(todo')
  BY DEF Due, Els
<1>3. Els(todo) = {todo[1]} \union Els(todo') /\ Els(todo') \subseteq Els(todo)
  BY <1>1, TailTidy
<1> QED
  BY <1>2, <1>3 DEF Due

LEMMA KeptTail ==
    ASSUME BusInv, Form, Kept, ~Idle, Advance, begun' = begun, SameMatter,
           ~Telling(todo[1]), ReadRight'
    PROVE  Kept'
<1>1. ASSUME Live' PROVE Owed'
  <2>1. CASE Live
    <3>1. Owed
      BY <2>1 DEF Kept
    <3>2. \A x : Telling(x) => (x \in Due <=> x \in Due')
      BY DueTail
    <3> QED
      BY <3>1, <3>2, OwedSame
  <2>2. CASE todo' = Rest
    BY <2>2, OwedRest
  <2> QED
    BY <1>1, <2>1, <2>2, LiveTail
<1> QED
  BY <1>1 DEF Kept
LEMMA BalancedTail ==
    ASSUME NEW R \in Ranges, Balanced(R), NEW h, Due = {h} \union Due',
           ~Sets(h, R), ~Remembers(h, R), Field(R)' = Field(R), Scale(R)' = Scale(R)
    PROVE  Balanced(R)'
<1>1. \A x : Sets(x, R) \/ Remembers(x, R) => (x \in Due <=> x \in Due')
  OBVIOUS
<1> QED
  BY <1>1 DEF Balanced

LEMMA DueIndex ==
    ASSUME BusInv, ~Idle, Advance
    PROVE  /\ \A x \in Due' : \E k \in 2..Len(todo) : x = todo[k]
           /\ \A k \in 2..Len(todo) : todo[k] \in Due'
<1>1. todo # <<>> /\ todo \in Seq(Steps) /\ todo' = Tail(todo)
  BY FirstStep DEF Advance
<1>2. /\ Len(todo) \in Nat /\ Len(todo) > 0 /\ Len(todo') = Len(todo) - 1
      /\ \A k \in 1..Len(todo') : todo'[k] = todo[k + 1]
  BY <1>1, TailIndex
<1>3. Due' = {todo'[k] : k \in 1..Len(todo')}
  BY DEF Due, Els
<1>4. \A k \in 1..Len(todo') : k + 1 \in 2..Len(todo) /\ todo'[k] = todo[k + 1]
  BY <1>2
<1>5. \A k \in 2..Len(todo) : k - 1 \in 1..Len(todo') /\ (k - 1) + 1 = k
  BY <1>2
<1>6. \A x \in Due' : \E k \in 2..Len(todo) : x = todo[k]
  BY <1>3, <1>4
<1>7. \A k \in 2..Len(todo) : todo[k] \in Due'
  BY <1>3, <1>4, <1>5
<1> QED
  BY <1>6, <1>7

LEMMA BalancedSet ==
    ASSUME BusInv, Tidy(todo), ~Idle, Advance, NEW R \in Ranges, Sets(todo[1], R),
           Field(R)' = todo[1].value
    PROVE  Balanced(R)'
<1>1. 1 \in 1..Len(todo) /\ Len(todo) \in Nat
  BY FirstStep, LenProperties
<1>2. 2 \in 2..Len(todo) /\ 2 \in 1..Len(todo) /\ todo[2] = Cache(R, todo[1].value)
  <2>1. 1 + 1 <= Len(todo) /\ todo[1 + 1] = Cache(R, todo[1].value)
    BY <1>1 DEF Tidy, Steady
  <2> QED
    BY <2>1, <1>1
<1>3. todo[2].do = "cache" /\ todo[2].range = R /\ todo[2].value = todo[1].value
  BY <1>2 DEF Cache
<1>4. \A k \in 2..Len(todo) : Remembers(todo[k], R) => k = 2
  <2> SUFFICES ASSUME NEW k \in 2..Len(todo), Remembers(todo[k], R) PROVE k = 2
    OBVIOUS
  <2>1. k \in 1..Len(todo) /\ todo[k].do = "cache" /\ todo[k].range = todo[2].range
    BY <1>1, <1>3 DEF Remembers
  <2> QED
    BY <2>1, <1>2, <1>3 DEF Tidy, Once
<1>5. \A x \in Due' : Remembers(x, R) => x = todo[2]
  BY <1>4, DueIndex
<1>6. todo[2] \in Due' /\ Remembers(todo[2], R)
  BY <1>2, <1>3, DueIndex DEF Remembers
<1> QED
  BY <1>3, <1>5, <1>6 DEF Balanced

LEMMA BalancedCache ==
    ASSUME BusInv, Tidy(todo), ~Idle, Advance, NEW R \in Ranges, Remembers(todo[1], R),
           Balanced(R), Field(R)' = Field(R), Scale(R)' = todo[1].value
    PROVE  Balanced(R)'
<1>1. 1 \in 1..Len(todo) /\ Len(todo) \in Nat
  BY FirstStep, LenProperties
<1>2. \A k \in 1..Len(todo) : Remembers(todo[k], R) => k = 1
  BY <1>1 DEF Tidy, Once, Remembers
<1>3. \A x \in Due' : ~Remembers(x, R)
  <2> SUFFICES ASSUME NEW k \in 2..Len(todo), Remembers(todo[k], R) PROVE FALSE
    BY DueIndex
  <2>1. k \in 1..Len(todo) /\ k # 1
    BY <1>1
  <2> QED
    BY <2>1, <1>2
<1>4. \A j \in 1..Len(todo) : ~Sets(todo[j], R)
  <2> SUFFICES ASSUME NEW j \in 1..Len(todo), Sets(todo[j], R) PROVE FALSE
    OBVIOUS
  <2>1. j + 1 <= Len(todo) /\ todo[j + 1] = Cache(R, todo[j].value)
    BY DEF Tidy, Steady
  <2>2. Remembers(todo[j + 1], R) /\ j + 1 \in 1..Len(todo) /\ j + 1 # 1
    BY <1>1, <2>1 DEF Cache, Remembers
  <2> QED
    BY <2>2, <1>2
<1>5. todo[1] \in Due
  BY <1>1 DEF Due, Els
<1>6. Field(R) = todo[1].value
  BY <1>4, <1>5 DEF Balanced, Due, Els
<1> QED
  BY <1>3, <1>6 DEF Balanced

(* The registers after a transaction that reaches its own.                 *)
LEMMA StoredCells ==
    ASSUME IcmTypeOK, NEW r \in Cells, bank = r[1], NEW v, Store(r[2], v)
    PROVE  /\ \A c \in Matter : cells'[c] = IF c = r THEN v ELSE cells[c]
<1>1. <<bank, r[2]>> = r
  BY CellPairs
<1>2. cells' = [c \in Cells |-> IF c = r /\ c \notin ReadOnly THEN v ELSE cells[c]]
  BY <1>1 DEF Store
<1> SUFFICES ASSUME NEW c \in Matter PROVE cells'[c] = IF c = r THEN v ELSE cells[c]
  OBVIOUS
<1>3. c \in Cells /\ c \notin ReadOnly
  BY CellsApart
<1> QED
  BY <1>2, <1>3

LEMMA StoredElsewhere ==
    ASSUME IcmTypeOK
    PROVE  /\ \A v : Store2(16, v) => \A c \in Matter : cells'[c] = cells[c]
           /\ \A a : Loaded(a) => \A c \in Matter : cells'[c] = cells[c]
<1>1. \A c \in Matter : c \in Cells /\ c \notin ReadOnly /\ c # <<2, 16>> /\ c # <<2, 17>>
                        /\ c # MstStatus
  BY CellsApart, CellPairs
<1>2. \A c \in Matter : c # <<bank, 16>> /\ c # <<bank, 17>>
  <2>1. \A c \in Matter : c[2] # 16 /\ c[2] # 17
    BY DEF Matter, PwrMgmt1, UserCtrl, AccelConfig1, GyroConfig1, Slv0Addr, Slv0Ctrl
  <2> QED
    BY <2>1
<1>3. ASSUME NEW v, Store2(16, v), NEW c \in Matter PROVE cells'[c] = cells[c]
  <2>1. cells' = [d \in Cells |-> CASE d \in ReadOnly -> cells[d]
                                    [] d = <<bank, 16>> /\ d \notin ReadOnly -> v \div 256
                                    [] d = <<bank, 16 + 1>> /\ d \notin ReadOnly -> v % 256
                                    [] OTHER -> cells[d]]
    BY <1>3 DEF Store2
  <2>2. 16 + 1 = 17
    OBVIOUS
  <2> QED
    BY <1>1, <1>2, <2>1, <2>2
<1>4. ASSUME NEW a, Loaded(a), NEW c \in Matter PROVE cells'[c] = cells[c]
  <2>1. cells' = cells \/ cells' = [cells EXCEPT ![MstStatus] = 0]
    BY <1>4 DEF Loaded
  <2>2. cells \in [Cells -> Byte]
    BY DEF IcmTypeOK
  <2> QED
    BY <1>1, <2>1, <2>2
<1> QED
  BY <1>3, <1>4

LEMMA Spoilt == ASSUME Form', clean' = FALSE PROVE ConfInv'
BY DEF ConfInv

LEMMA SelectConf == ASSUME BusInv, ConfInv, DoSelect, at' = at PROVE ConfInv'
<1>1. ~Idle /\ Next1.do = "select" /\ Advance /\ UNCHANGED <<cells, rangeVars, ok, begun>>
  BY DEF DoSelect, Doing
<1>2. todo[1].do = "select" /\ IcmTypeOK /\ Form
  BY <1>1, FirstStep DEF ConfInv
<1>3. Form'
  BY <1>1, <1>2, FormTail
<1>4. SameMatter /\ ~Telling(todo[1]) /\ ReadRight'
  BY <1>1, <1>2, Untold, ReadAfter DEF SameMatter, rangeVars
<1>5. CASE Works
  <2>1. clean' = clean
    BY <1>5 DEF Works, faultVars
  <2>2. clean => Kept'
    BY <1>1, <1>2, <1>4, KeptTail DEF ConfInv
  <2> QED
    BY <1>3, <2>1, <2>2 DEF ConfInv
<1>6. CASE Fails
  BY <1>2, <1>3, <1>6, Failed, Spoilt
<1> QED
  BY <1>5, <1>6 DEF DoSelect

LEMMA DetectConf == ASSUME BusInv, ConfInv, DoDetect, at' = at PROVE ConfInv'
<1>1. ~Idle /\ Next1.do = "detect" /\ UNCHANGED <<cells, rangeVars, begun>>
  BY DEF DoDetect, Doing, chipVars
<1>2. todo[1].do = "detect" /\ IcmTypeOK /\ Form
  BY <1>1, FirstStep DEF ConfInv
<1>3. CASE Works /\ Advance /\ UNCHANGED <<ok, got>>
  <2>1. clean' = clean
    BY <1>3 DEF Works, faultVars
  <2>2. SameMatter /\ ~Telling(todo[1]) /\ ReadRight'
    BY <1>1, <1>2, <1>3, Untold, ReadAfter DEF SameMatter, rangeVars
  <2>3. clean => Kept'
    BY <1>1, <1>2, <1>3, <2>2, KeptTail DEF ConfInv
  <2>4. Form'
    BY <1>1, <1>2, <1>3, FormTail
  <2> QED
    BY <2>1, <2>3, <2>4 DEF ConfInv
<1>4. CASE Fails /\ ReturnFalse(Next1.else)
  <2>1. Form'
    BY <1>1, <1>2, <1>4, FormJump
  <2> QED
    BY <1>2, <1>4, <2>1, Failed, Spoilt
<1> QED
  BY <1>3, <1>4 DEF DoDetect

LEMMA FetchConf == ASSUME BusInv, ConfInv, DoFetch, at' = at PROVE ConfInv'
<1>1. ~Idle /\ Next1.do = "fetch" /\ Advance /\ UNCHANGED <<rangeVars, ok, begun>>
  BY DEF DoFetch, Doing
<1>2. /\ Next1 = todo[1] /\ todo[1].do = "fetch" /\ IcmTypeOK /\ Form /\ todo[1].reg \in Cells
      /\ Accesses(todo[1]) /\ todo # <<>> /\ todo' = Tail(todo)
  BY <1>1, FirstStep, StepKinds DEF ConfInv, Accesses, Advance
<1>3. Form'
  BY <1>1, <1>2, FormTail
<1>4. CASE Works /\ got' = At(Next1.reg[2]) /\ Loaded(Next1.reg[2])
  <2>1. clean' = clean
    BY <1>4 DEF Works, faultVars
  <2>2. SameMatter /\ ~Telling(todo[1])
    BY <1>1, <1>2, <1>4, Untold, StoredElsewhere DEF SameMatter, rangeVars
  <2>3. ASSUME clean PROVE ReadRight'
    <3>1. bank = todo[1].reg[1]
      BY <1>1, <1>2, <2>3, BankMeant
    <3>2. got' = cells[todo[1].reg]
      <4>1. <<bank, todo[1].reg[2]>> = todo[1].reg
        BY <1>2, <3>1, CellPairs
      <4>2. At(todo[1].reg[2]) = cells[todo[1].reg]
        BY <1>2, <4>1 DEF At
      <4> QED
        BY <1>2, <1>4, <4>2
    <3>3. \A r : Fetch(r).reg = r
      BY DEF Fetch
    <3> SUFFICES ASSUME todo' # <<>>, todo'[1].do = "merge"
                 PROVE  /\ todo'[1].reg = UserCtrl =>
                              Bits(got', 1, 5) = Bits(cells'[UserCtrl], 1, 5)
                        /\ \A R \in Ranges : todo'[1].reg = RangeReg(R) =>
                              Bits(got', 2, 1) = Field(R)'
      BY DEF ReadRight
    <3>4. todo[1] = Fetch(todo'[1].reg)
      BY <1>1, <1>2, AfterStep
    <3>5. got' = cells[todo'[1].reg]
      BY <3>2, <3>3, <3>4
    <3>6. cells'[UserCtrl] = cells[UserCtrl] /\ \A R \in Ranges : Field(R)' = Field(R)
      BY <2>2, SameFields
    <3> QED
      BY <3>5, <3>6 DEF Field
  <2>4. clean => Kept'
    BY <1>1, <1>2, <2>2, <2>3, KeptTail DEF ConfInv
  <2> QED
    BY <1>3, <2>1, <2>4 DEF ConfInv
<1>5. CASE Fails
  BY <1>2, <1>3, <1>5, Failed, Spoilt
<1> QED
  BY <1>4, <1>5 DEF DoFetch

LEMMA WriteFailsConf ==
    ASSUME BusInv, ConfInv, ~Idle, WriteFails, at' = at, begun' = begun,
           todo[1].do # "join"
    PROVE  ConfInv'
<1>1. IcmTypeOK /\ Form /\ Fails
  BY FirstStep DEF ConfInv, WriteFails
<1>2. CASE Advance
  <2>1. Form'
    BY <1>1, <1>2, FormTail
  <2> QED
    BY <1>1, <2>1, Failed, Spoilt
<1>3. CASE ReturnFalse(Next1.else)
  <2>1. Form'
    BY <1>1, <1>3, FormJump
  <2> QED
    BY <1>1, <2>1, Failed, Spoilt
<1> QED
  BY <1>2, <1>3 DEF WriteFails
(* A write of a byte: where it matters it is what begin_I2C sets.          *)
LEMMA PutConf == ASSUME BusInv, ConfInv, DoPut, at' = at PROVE ConfInv'
<1>1. ~Idle /\ Next1.do = "put" /\ UNCHANGED <<rangeVars, begun>>
  BY DEF DoPut, Doing
<1> DEFINE h == todo[1]
<1>2. Next1 = h /\ h.do = "put" /\ h \in Steps /\ IcmTypeOK /\ Form /\ 1 \in 1..Len(todo)
  BY <1>1, FirstStep DEF ConfInv
<1>3. h.reg \in Cells /\ h.reg # PwrMgmt1 /\ Accesses(h)
  BY <1>2, StepKinds DEF Accesses
<1>4. Mild(h)
  BY <1>2 DEF Form, Tidy, Steady
<1>5. /\ h.reg \notin {UserCtrl, AccelConfig1, GyroConfig1}
      /\ h.reg = Slv0Addr => h.value = 128 + MagAddress
      /\ h.reg = Slv0Ctrl => h.value = 137
  BY <1>2, <1>4 DEF Mild
<1> HIDE DEF h
<1>6. CASE Works /\ Store(Next1.reg[2], Next1.value) /\ Advance /\ UNCHANGED <<ok, got>>
  <2>1. clean' = clean /\ ok' = ok
    BY <1>6 DEF Works, faultVars
  <2>2. Form'
    BY <1>1, <1>2, <1>6, <2>1, FormTail
  <2>3. ASSUME clean, Live' PROVE Owed'
    <3>1. CASE todo' = Rest
      BY <3>1, OwedRest
    <3>2. CASE Live
      <4>1. Owed
        BY <2>3, <3>2 DEF ConfInv, Kept
      <4>2. bank = h.reg[1]
        BY <1>1, <1>3, <2>3, BankMeant DEF h
      <4>3. \A c \in Matter : cells'[c] = IF c = h.reg THEN h.value ELSE cells[c]
        BY <1>2, <1>3, <1>6, <4>2, StoredCells
      <4>4. Due = {h} \union Due'
        BY <1>1, <1>6, DueTail DEF h
      <4>5. cells'[PwrMgmt1] = cells[PwrMgmt1] /\ cells'[UserCtrl] = cells[UserCtrl]
        BY <1>3, <1>5, <4>3 DEF Matter
      <4>6. /\ cells'[AccelConfig1] = cells[AccelConfig1]
            /\ cells'[GyroConfig1] = cells[GyroConfig1]
        BY <1>5, <4>3 DEF Matter
      <4>7. h # Wake /\ h # Enable
        BY <1>2, SettersAre
      <4>8. cells'[Slv0Addr] = 128 + MagAddress \/ Aim \in Due'
        <5>1. cells[Slv0Addr] = 128 + MagAddress \/ Aim \in Due
          BY <4>1 DEF Owed
        <5>2. cells'[Slv0Addr] = IF Slv0Addr = h.reg THEN h.value ELSE cells[Slv0Addr]
          BY <4>3 DEF Matter
        <5>3. h.reg # Slv0Addr => h # Aim
          BY SettersAre
        <5> QED
          BY <1>5, <4>4, <5>1, <5>2, <5>3
      <4>9. cells'[Slv0Ctrl] = 137 \/ Feed \in Due'
        <5>1. cells[Slv0Ctrl] = 137 \/ Feed \in Due
          BY <4>1 DEF Owed
        <5>2. cells'[Slv0Ctrl] = IF Slv0Ctrl = h.reg THEN h.value ELSE cells[Slv0Ctrl]
          BY <4>3 DEF Matter
        <5>3. h.reg # Slv0Ctrl => h # Feed
          BY SettersAre
        <5> QED
          BY <1>5, <4>4, <5>1, <5>2, <5>3
      <4>10. ASSUME NEW R \in Ranges PROVE Balanced(R)'
        <5>1. Balanced(R)
          BY <4>1 DEF Owed
        <5>2. ~Sets(h, R) /\ ~Remembers(h, R)
          BY <1>2 DEF Sets, Remembers
        <5>3. Field(R)' = Field(R) /\ Scale(R)' = Scale(R)
          BY <1>1, <4>6 DEF Field, Scale, RangeReg, rangeVars
        <5> QED
          BY <4>4, <5>1, <5>2, <5>3, BalancedTail
      <4> QED
        BY <4>1, <4>4, <4>5, <4>7, <4>8, <4>9, <4>10 DEF Owed
    <3> QED
      BY <1>1, <1>2, <1>6, <2>3, <3>1, <3>2, LiveTail
  <2>4. ReadRight'
    BY <1>1, <1>2, <1>6, ReadAfter DEF h
  <2> QED
    BY <2>1, <2>2, <2>3, <2>4 DEF ConfInv, Kept
<1>7. CASE WriteFails
  BY <1>1, <1>2, <1>7, WriteFailsConf DEF h
<1> QED
  BY <1>6, <1>7 DEF DoPut

LEMMA Put2Conf == ASSUME BusInv, ConfInv, DoPut2, at' = at PROVE ConfInv'
<1>1. ~Idle /\ Next1.do = "put2" /\ UNCHANGED <<rangeVars, begun>>
  BY DEF DoPut2, Doing
<1>2. /\ Next1 = todo[1] /\ todo[1].do = "put2" /\ IcmTypeOK /\ Form
      /\ todo[1].reg = AccelSmplrtDiv1
  BY <1>1, FirstStep, StepKinds DEF ConfInv
<1>3. CASE Works /\ Store2(Next1.reg[2], Next1.value) /\ Advance /\ UNCHANGED <<ok, got>>
  <2>1. clean' = clean /\ ok' = ok
    BY <1>3 DEF Works, faultVars
  <2>2. Form'
    BY <1>1, <1>2, <1>3, <2>1, FormTail
  <2>3. Store2(16, Next1.value)
    <3>1. todo[1].reg[2] = 16
      BY <1>2, CellPairs
    <3> QED
      BY <1>2, <1>3, <3>1
  <2>4. SameMatter /\ ~Telling(todo[1]) /\ ReadRight'
    BY <1>1, <1>2, <1>3, <2>3, Untold, StoredElsewhere, ReadAfter DEF SameMatter, rangeVars
  <2>5. clean => Kept'
    BY <1>1, <1>2, <1>3, <2>4, KeptTail DEF ConfInv
  <2> QED
    BY <2>1, <2>2, <2>5 DEF ConfInv
<1>4. CASE WriteFails
  BY <1>1, <1>2, <1>4, WriteFailsConf
<1> QED
  BY <1>3, <1>4 DEF DoPut2

LEMMA CacheConf == ASSUME BusInv, ConfInv, DoCache, at' = at PROVE ConfInv'
<1>1. ~Idle /\ Next1.do = "cache" /\ Advance /\ UNCHANGED <<chipVars, ok, begun, faultVars>>
  BY DEF DoCache, Doing
<1> DEFINE h == todo[1]
<1>2. Next1 = h /\ h.do = "cache" /\ h \in Steps /\ IcmTypeOK /\ Form /\ Tidy(todo)
  BY <1>1, FirstStep DEF ConfInv, Form
<1>3. h.range \in Ranges
  <2>1. h \in Caches
    <3>1. \/ h \in Selections \/ h = Detect \/ h \in Fetches \/ h \in Puts \/ h \in Puts2
          \/ h \in Merges \/ h \in Joins \/ h \in Polls \/ h \in Waits \/ h \in Caches
          \/ h \in Tries \/ h \in Ops
      BY <1>2, Zenon DEF Steps
    <3> HIDE DEF h
    <3>2. h.do = "cache"
      BY <1>2
    <3> QED
      BY <3>1, <3>2 DEF Selections, Detect, Fetches, Puts, Puts2, Merges, Joins, Polls,
                        Waits, Tries, Ops
  <2> QED
    BY <2>1 DEF Caches, Ranges
<1> HIDE DEF h
<1>4. Form' /\ clean' = clean /\ cells' = cells
  BY <1>1, <1>2, FormTail DEF faultVars, chipVars, h
<1>5. /\ \A R \in Ranges : R = h.range => Scale(R)' = h.value
      /\ \A R \in Ranges : R # h.range => Scale(R)' = Scale(R)
      /\ \A R \in Ranges : Field(R)' = Field(R)
  <2>1. /\ h.range = "gyro" => gyroRange' = h.value /\ accelRange' = accelRange
        /\ h.range # "gyro" => accelRange' = h.value /\ gyroRange' = gyroRange
    BY <1>2 DEF DoCache
  <2>2. /\ \A R : Scale(R) = IF R = "gyro" THEN gyroRange ELSE accelRange
        /\ \A R : Scale(R)' = IF R = "gyro" THEN gyroRange' ELSE accelRange'
    BY DEF Scale
  <2>3. \A R \in Ranges : R \in {"gyro", "accel"}
    BY DEF Ranges
  <2>4. \A R \in Ranges : Field(R)' = Field(R)
    BY <1>4 DEF Field, RangeReg
  <2> QED
    BY <1>3, <2>1, <2>2, <2>3, <2>4
<1>6. ASSUME clean, Live' PROVE Owed'
  <2>1. CASE todo' = Rest
    BY <2>1, OwedRest
  <2>2. CASE Live
    <3>1. Owed
      BY <1>6, <2>2 DEF ConfInv, Kept
    <3>2. Due = {h} \union Due'
      BY <1>1, DueTail DEF h
    <3>3. h \notin {Wake, Enable, Aim, Feed}
      BY <1>2, SettersAre
    <3>4. ASSUME NEW R \in Ranges PROVE Balanced(R)'
      <4>1. Balanced(R)
        BY <3>1 DEF Owed
      <4>2. Field(R)' = Field(R)
        BY <1>5
      <4>3. CASE R = h.range
        <5>1. Remembers(h, R)
          BY <1>2, <4>3 DEF Remembers
        <5> QED
          BY <1>1, <1>2, <1>5, <4>1, <4>2, <4>3, <5>1, BalancedCache DEF h
      <4>4. CASE R # h.range
        <5>1. ~Sets(h, R) /\ ~Remembers(h, R)
          BY <1>2, <4>4 DEF Sets, Remembers
        <5> QED
          BY <1>5, <3>2, <4>1, <4>2, <4>4, <5>1, BalancedTail
      <4> QED
        BY <4>3, <4>4
    <3> QED
      BY <1>4, <3>1, <3>2, <3>3, <3>4 DEF Owed
  <2> QED
    BY <1>1, <1>2, <1>6, <2>1, <2>2, LiveTail
<1>7. ReadRight'
  BY <1>1, <1>2, ReadAfter DEF h
<1> QED
  BY <1>4, <1>6, <1>7 DEF ConfInv, Kept

(* A wait for a bit, which a failed read goes on with.                     *)
LEMMA ClearedConf == ASSUME BusInv, ConfInv, DoCleared, at' = at PROVE ConfInv'
<1>1. ~Idle /\ Next1.do = "cleared" /\ UNCHANGED <<chipVars, rangeVars, ok, begun>>
  BY DEF DoCleared, Doing
<1>2. todo[1].do = "cleared" /\ IcmTypeOK /\ Form
  BY <1>1, FirstStep DEF ConfInv
<1>3. CASE Works /\ Advance
  <2>1. Form' /\ clean' = clean
    BY <1>1, <1>2, <1>3, FormTail DEF Works, faultVars
  <2>2. SameMatter /\ ~Telling(todo[1]) /\ ReadRight'
    BY <1>1, <1>2, <1>3, Untold, ReadAfter DEF SameMatter, rangeVars, chipVars
  <2>3. clean => Kept'
    BY <1>1, <1>2, <1>3, <2>2, KeptTail DEF ConfInv
  <2> QED
    BY <2>1, <2>3 DEF ConfInv
<1>4. CASE Fails /\ UNCHANGED todo
  <2>1. Form'
    BY <1>1, <1>2, <1>4, FormSame
  <2> QED
    BY <1>2, <1>4, <2>1, Failed, Spoilt
<1> QED
  BY <1>3, <1>4 DEF DoCleared
(* A write of bits: it sets what it is for and keeps the rest as it was    *)
(* read just before.                                                       *)
LEMMA MergedRange ==
    ASSUME BusInv, Tidy(todo), ReadRight, ~Idle, Advance, todo[1].do = "merge",
           NEW R \in Ranges, Balanced(R), Scale(R)' = Scale(R), NEW v,
           v = WithBits(got, todo[1].bits, todo[1].shift, todo[1].value),
           cells'[RangeReg(R)] = IF RangeReg(R) = todo[1].reg THEN v ELSE cells[RangeReg(R)]
    PROVE  Balanced(R)'
<1> DEFINE h == todo[1]
<1>1. h \in Steps /\ got \in Byte /\ todo # <<>> /\ 1 \in 1..Len(todo)
  BY FirstStep DEF IcmTypeOK
<1>2. h.value \in Byte /\ h.do = "merge"
  BY <1>1, StepKinds
<1>3. Mild(h)
  BY <1>1 DEF Tidy, Steady
<1>4. Due = {h} \union Due'
  BY DueTail
<1> HIDE DEF h
<1>5. ~Remembers(h, R)
  BY <1>2 DEF Remembers
<1>6. Field(R)' = Bits(cells'[RangeReg(R)], 2, 1)
  BY DEF Field, RangeReg
<1>7. CASE RangeReg(R) # h.reg
  <2>1. Field(R)' = Field(R)
    BY <1>6, <1>7 DEF Field, h
  <2>2. ~Sets(h, R)
    BY <1>7 DEF Sets
  <2> QED
    BY <1>4, <1>5, <2>1, <2>2, BalancedTail
<1>8. CASE RangeReg(R) = h.reg
  <2>1. Field(R)' = Bits(v, 2, 1)
    BY <1>6, <1>8 DEF h
  <2>2. Bits(got, 2, 1) = Field(R)
    BY <1>1, <1>2, <1>8 DEF ReadRight, h
  <2>3. h.reg \in {AccelConfig1, GyroConfig1}
    BY <1>8 DEF RangeReg
  <2>4. \/ h.bits = 1 /\ h.shift = 0
        \/ h.bits = 3 /\ h.shift = 3
        \/ h.bits = 2 /\ h.shift = 1 /\ h.value \in 0..3
    BY <1>2, <1>3, <2>3 DEF Mild
  <2>5. CASE h.bits = 2 /\ h.shift = 1 /\ h.value \in 0..3
    <3>1. v = WithBits(got, 2, 1, h.value)
      BY <2>5 DEF h
    <3>2. Field(R)' = h.value
      BY <1>1, <1>2, <2>1, <2>5, <3>1, RangeKept
    <3>3. Sets(h, R)
      BY <1>2, <1>8, <2>5 DEF Sets
    <3> QED
      BY <3>2, <3>3, BalancedSet DEF h
  <2>6. CASE h.bits = 1 /\ h.shift = 0
    <3>1. v = WithBits(got, 1, 0, h.value)
      BY <2>6 DEF h
    <3>2. Field(R)' = Field(R)
      BY <1>1, <1>2, <2>1, <2>2, <3>1, RangeKept
    <3>3. ~Sets(h, R)
      BY <2>6 DEF Sets
    <3> QED
      BY <1>4, <1>5, <3>2, <3>3, BalancedTail
  <2>7. CASE h.bits = 3 /\ h.shift = 3
    <3>1. v = WithBits(got, 3, 3, h.value)
      BY <2>7 DEF h
    <3>2. Field(R)' = Field(R)
      BY <1>1, <1>2, <2>1, <2>2, <3>1, RangeKept
    <3>3. ~Sets(h, R)
      BY <2>7 DEF Sets
    <3> QED
      BY <1>4, <1>5, <3>2, <3>3, BalancedTail
  <2> QED
    BY <2>4, <2>5, <2>6, <2>7
<1> QED
  BY <1>7, <1>8

LEMMA MergeConf == ASSUME BusInv, ConfInv, DoMerge, at' = at PROVE ConfInv'
<1>1. ~Idle /\ Next1.do = "merge" /\ UNCHANGED <<rangeVars, begun>>
  BY DEF DoMerge, Doing
<1> DEFINE h == todo[1]
<1>2. /\ Next1 = h /\ h.do = "merge" /\ h \in Steps /\ IcmTypeOK /\ Form /\ Tidy(todo)
      /\ 1 \in 1..Len(todo) /\ Shape(todo) /\ todo # <<>> /\ got \in Byte
  BY <1>1, FirstStep DEF ConfInv, Form, IcmTypeOK
<1>3. h.reg \in Cells /\ Accesses(h)
  BY <1>2, StepKinds DEF Accesses
<1>4. Mild(h)
  BY <1>2 DEF Tidy, Steady
<1>5. /\ h.reg \notin {Slv0Addr, Slv0Ctrl}
      /\ h.reg = UserCtrl => h.bits = 1 /\ h.value = 1 /\ h.shift \in {1, 5}
  BY <1>2, <1>4 DEF Mild
<1> HIDE DEF h
<1>6. CASE /\ Works /\ Advance /\ UNCHANGED <<ok, got>>
           /\ Store(Next1.reg[2], WithBits(got, Next1.bits, Next1.shift, Next1.value))
  <2>1. clean' = clean /\ ok' = ok
    BY <1>6 DEF Works, faultVars
  <2>2. Form'
    BY <1>1, <1>2, <1>6, <2>1, FormTail
  <2>3. ASSUME clean, Live' PROVE Owed'
    <3>1. CASE todo' = Rest
      BY <3>1, OwedRest
    <3>2. CASE Live
      <4>1. Owed /\ ReadRight
        BY <2>3, <3>2 DEF ConfInv, Kept
      <4>2. bank = h.reg[1]
        BY <1>1, <1>3, <2>3, BankMeant DEF h
      <4> DEFINE v == WithBits(got, h.bits, h.shift, h.value)
      <4>3. Store(h.reg[2], v)
        BY <1>2, <1>6
      <4>0. v = WithBits(got, todo[1].bits, todo[1].shift, todo[1].value)
        BY DEF h
      <4>v. v = WithBits(got, h.bits, h.shift, h.value)
        OBVIOUS
      <4> HIDE DEF v
      <4>4. \A c \in Matter : cells'[c] = IF c = h.reg THEN v ELSE cells[c]
        BY <1>2, <1>3, <4>2, <4>3, StoredCells
      <4>5. Due = {h} \union Due'
        BY <1>1, <1>6, DueTail DEF h
      <4>6. Late(todo)
        <5>1. ~Early(todo)
          BY <1>2, <3>2, EarlyNotLive
        <5> QED
          BY <1>2, <5>1 DEF Shape
      <4>7. Bits(cells'[PwrMgmt1], 1, 6) = 0 \/ Wake \in Due'
        <5>1. cells'[PwrMgmt1] = IF PwrMgmt1 = h.reg THEN v ELSE cells[PwrMgmt1]
          BY <4>4 DEF Matter
        <5>2. CASE PwrMgmt1 = h.reg
          <6>1. h.bits = 1 /\ h.shift = 6 /\ h.value = 0
            BY <1>2, <4>6, <5>2 DEF Late, h
          <6>2. v = WithBits(got, 1, 6, 0)
            BY <4>v, <6>1
          <6> QED
            BY <1>2, <5>1, <5>2, <6>2, GroupKept
        <5>3. CASE PwrMgmt1 # h.reg
          <6>1. h # Wake
            BY <5>3, SettersAre
          <6> QED
            BY <4>1, <4>5, <5>1, <5>3, <6>1 DEF Owed
        <5> QED
          BY <5>2, <5>3
      <4>8. Bits(cells'[UserCtrl], 1, 5) = 1 \/ Enable \in Due'
        <5>1. cells'[UserCtrl] = IF UserCtrl = h.reg THEN v ELSE cells[UserCtrl]
          BY <4>4 DEF Matter
        <5>2. CASE UserCtrl = h.reg /\ h.shift = 5
          <6>1. v = WithBits(got, 1, 5, 1)
            BY <1>5, <4>v, <5>2
          <6> QED
            BY <1>2, <5>1, <5>2, <6>1, GroupKept
        <5>3. CASE UserCtrl = h.reg /\ h.shift = 1
          <6>1. v = WithBits(got, 1, 1, 1)
            BY <1>5, <4>v, <5>3
          <6>2. Bits(got, 1, 5) = Bits(cells[UserCtrl], 1, 5)
            BY <1>2, <4>1, <5>3 DEF ReadRight, h
          <6>3. Bits(v, 1, 5) = Bits(cells[UserCtrl], 1, 5)
            BY <1>2, <6>1, <6>2, GroupKept
          <6>4. h # Enable
            BY <5>3, SettersAre
          <6> QED
            BY <4>1, <4>5, <5>1, <5>3, <6>3, <6>4 DEF Owed
        <5>4. CASE UserCtrl # h.reg
          <6>1. h # Enable
            BY <5>4, SettersAre
          <6> QED
            BY <4>1, <4>5, <5>1, <5>4, <6>1 DEF Owed
        <5> QED
          BY <1>5, <5>2, <5>3, <5>4
      <4>9. /\ cells'[Slv0Addr] = cells[Slv0Addr] /\ cells'[Slv0Ctrl] = cells[Slv0Ctrl]
            /\ h # Aim /\ h # Feed
        BY <1>2, <1>5, <4>4, SettersAre DEF Matter
      <4>10. ASSUME NEW R \in Ranges PROVE Balanced(R)'
        <5>1. Balanced(R)
          BY <4>1 DEF Owed
        <5>2. Scale(R)' = Scale(R)
          BY <1>1 DEF Scale, rangeVars
        <5>3. cells'[RangeReg(R)] = IF RangeReg(R) = h.reg THEN v ELSE cells[RangeReg(R)]
          BY <4>4 DEF Matter, RangeReg
        <5> QED
          BY <1>1, <1>2, <1>6, <4>0, <4>1, <5>1, <5>2, <5>3, MergedRange DEF h
      <4> QED
        BY <4>1, <4>5, <4>7, <4>8, <4>9, <4>10 DEF Owed
    <3> QED
      BY <1>1, <1>2, <1>6, <2>3, <3>1, <3>2, LiveTail
  <2>4. ReadRight'
    BY <1>1, <1>2, <1>6, ReadAfter DEF h
  <2> QED
    BY <2>1, <2>2, <2>3, <2>4 DEF ConfInv, Kept
<1>7. CASE WriteFails
  BY <1>1, <1>2, <1>7, WriteFailsConf DEF h
<1> QED
  BY <1>6, <1>7 DEF DoMerge

(* begin_I2C starts over: what it owes counts from the end of its reset.   *)
LEMMA BeginConf == ASSUME BusInv, ConfInv, DoBegin, at' = at PROVE ConfInv'
<1>1. ~Idle /\ Next1.do = "begin" /\ Advance /\ begun' = FALSE /\ ok' = ok
  BY DEF DoBegin, Doing
<1>2. todo[1].do = "begin" /\ Form /\ Shape(todo) /\ 1 \in 1..Len(todo)
  BY <1>1, FirstStep DEF ConfInv
<1>3. Early(todo)
  <2>1. ~Late(todo)
    BY <1>2 DEF Late
  <2> QED
    BY <1>2, <2>1 DEF Shape
<1>4. Early(todo')
  BY <1>1, <1>2, <1>3, EarlyHead DEF Advance
<1>5. Form'
  BY <1>1, <1>2, FormTail
<1>6. ~Live'
  BY <1>1, <1>4 DEF Live
<1>7. ReadRight'
  BY <1>1, <1>2, ReadAfter
<1> QED
  BY <1>5, <1>6, <1>7 DEF ConfInv, Kept
(* Where a call goes on after a poll that has found nothing.               *)
LEMMA SuffixTelling ==
    ASSUME NEW s \in Seq(Steps), NEW i \in 1..Len(s), \A k \in 1..i : ~Telling(s[k])
    PROVE  \A x : Telling(x) => (x \in Els(s) <=> x \in Els(Suffix(s, i)))
<1> DEFINE t == Suffix(s, i)
<1>1. /\ Len(t) = Len(s) - i /\ \A k \in 1..Len(t) : t[k] = s[k + i]
      /\ Els(t) \subseteq Els(s) /\ Len(s) \in Nat
  BY SuffixIndex, JumpTidy, LenProperties
<1> HIDE DEF t
<1> SUFFICES ASSUME NEW k \in 1..Len(s), Telling(s[k]) PROVE s[k] \in Els(t)
  BY <1>1 DEF Els, t
<1>2. k \notin 1..i
  OBVIOUS
<1>3. k - i \in 1..Len(t) /\ (k - i) + i = k
  BY <1>1, <1>2
<1>4. t[k - i] = s[k]
  BY <1>1, <1>3
<1> QED
  BY <1>3, <1>4 DEF Els

LEMMA AnsweredJump ==
    ASSUME BusInv, Tidy(todo), ~Idle, todo[1].do = "poll", ReturnFalse("aux")
    PROVE  \/ todo' = todo
           \/ \E i \in 1..Len(todo) :
                 /\ todo[i].do = "join" /\ todo' = Suffix(todo, i)
                 /\ \A k \in 1..i : todo[k].do \in {"poll", "select", "fetch", "join"}
<1>1. todo \in Seq(Steps) /\ 1 \in 1..Len(todo) /\ Len(todo) \in Nat
  BY FirstStep, LenProperties
<1>2. Answered(todo, 1)
  BY <1>1 DEF Tidy, Steady
<1>3. Join("aux").do = "join"
  BY DEF Join
<1>4. CASE 1 + 1 <= Len(todo) /\ todo[1 + 1] = Join("aux")
  <2>1. 2 \in 1..Len(todo) /\ todo[2] = Join("aux")
    BY <1>1, <1>4
  <2>2. ASSUME NEW i \in 1..Len(todo), todo[i] = Join("aux"), todo' = Suffix(todo, i),
               \A j \in 1..Len(todo) : j < i => todo[j] # Join("aux")
        PROVE  todo[i].do = "join" /\ \A k \in 1..i : todo[k].do \in {"poll", "join"}
    <3>1. ~(2 < i)
      BY <2>1, <2>2
    <3>2. i \in 1..2
      BY <3>1, <1>1
    <3>3. \A k \in 1..i : k = 1 \/ k = 2
      BY <3>2
    <3> QED
      BY <1>3, <2>1, <2>2, <3>3
  <2> QED
    BY <1>1, <2>2, JumpFirst
<1>5. CASE /\ 1 + 3 <= Len(todo) /\ todo[1 + 1].do = "select" /\ todo[1 + 2].do = "fetch"
           /\ todo[1 + 3] = Join("aux")
  <2>1. /\ 4 \in 1..Len(todo) /\ todo[4] = Join("aux")
        /\ todo[2].do = "select" /\ todo[3].do = "fetch"
    BY <1>1, <1>5
  <2>2. ASSUME NEW i \in 1..Len(todo), todo[i] = Join("aux"), todo' = Suffix(todo, i),
               \A j \in 1..Len(todo) : j < i => todo[j] # Join("aux")
        PROVE  /\ todo[i].do = "join"
               /\ \A k \in 1..i : todo[k].do \in {"poll", "select", "fetch", "join"}
    <3>1. ~(4 < i)
      BY <2>1, <2>2
    <3>2. i \in 1..4
      BY <3>1, <1>1
    <3>3. \A k \in 1..i : k = 1 \/ k = 2 \/ k = 3 \/ k = 4
      BY <3>2
    <3> QED
      BY <1>3, <2>1, <2>2, <3>3
  <2> QED
    BY <1>1, <2>2, JumpFirst
<1> QED
  BY <1>2, <1>4, <1>5 DEF Answered

(* A step that changes nothing that matters and leaves, of what is left,   *)
(* what tells: of a later call only if it was there before.                *)
LEMMA KeptLike ==
    ASSUME Kept, SameMatter, ~Early(todo), begun' = begun, ReadRight',
           \A x : Telling(x) => (x \in Due <=> x \in Due'),
           \A x \in Due' : x.do = "begun" => \E y \in Due : y.do = "begun"
    PROVE  Kept'
<1>1. Live' => begun' \/ \E x \in Due' : x.do = "begun"
  BY DEF Live, Due, Els
<1>2. begun \/ (\E x \in Due : x.do = "begun") => Live
  BY DEF Live, Due, Els
<1>3. Live' => Live
  BY <1>1, <1>2
<1>4. Live => Owed
  BY DEF Kept
<1>5. Owed => Owed'
  BY OwedSame
<1> QED
  BY <1>3, <1>4, <1>5 DEF Kept

LEMMA KeptJump ==
    ASSUME BusInv, Tidy(todo), Kept, ~Idle, todo[1].do = "poll", ReturnFalse("aux"),
           SameMatter, begun' = begun
    PROVE  Kept'
<1>1. todo \in Seq(Steps) /\ Shape(todo) /\ ~Early(todo)
  BY FirstStep, EarlyHead
<1>2. CASE todo' = todo
  <2>1. Due' = Due
    BY <1>2 DEF Due, Els
  <2>2. ReadRight'
    BY <1>2 DEF ReadRight
  <2> QED
    BY <1>1, <2>1, <2>2, KeptLike
<1>3. CASE \E i \in 1..Len(todo) :
              /\ todo[i].do = "join" /\ todo' = Suffix(todo, i)
              /\ \A k \in 1..i : todo[k].do \in {"poll", "select", "fetch", "join"}
  <2>1. PICK i \in 1..Len(todo) :
              /\ todo[i].do = "join" /\ todo' = Suffix(todo, i)
              /\ \A k \in 1..i : todo[k].do \in {"poll", "select", "fetch", "join"}
    BY <1>3
  <2>2. \A k \in 1..i : ~Telling(todo[k])
    BY <2>1, Untold
  <2>3. Due' = Els(Suffix(todo, i))
    BY <2>1 DEF Due, Els
  <2>4. \A x : Telling(x) => (x \in Els(todo) <=> x \in Els(Suffix(todo, i)))
    BY <1>1, <2>2, SuffixTelling
  <2>5. Els(Suffix(todo, i)) \subseteq Els(todo)
    BY <1>1, JumpTidy
  <2>6. ReadRight'
    <3>1. Suffix(todo, i) # <<>> => Suffix(todo, i)[1].do \notin {"merge", "identify"}
      BY <1>1, <2>1, JumpShape
    <3> QED
      BY <2>1, <3>1 DEF ReadRight
  <2>7. /\ \A x : Telling(x) => (x \in Due <=> x \in Due')
        /\ Due' \subseteq Due
    BY <2>3, <2>4, <2>5 DEF Due
  <2> QED
    BY <1>1, <2>6, <2>7, KeptLike
<1> QED
  BY <1>2, <1>3, AnsweredJump

LEMMA RepolledTidy ==
    ASSUME NEW s \in Seq(Steps), NEW t \in Seq(Steps), Len(t) = Len(s), Len(s) > 0,
           s[1].do = "poll", t[1].do = "poll", \A k \in 2..Len(s) : t[k] = s[k]
    PROVE  /\ Tidy(s) => Tidy(t)
           /\ Plain(s) => Plain(t)
           /\ \A x : x.do # "poll" => (x \in Els(s) <=> x \in Els(t))
<1>1. Len(s) \in Nat /\ \A k \in 1..Len(s) : k = 1 \/ k \in 2..Len(s)
  BY LenProperties
<1>2. Mild(t[1]) /\ Ordinary(t[1])
  BY SettersAre DEF Mild, Ordinary
<1>3. \A l : Join(l).do = "join"
  BY DEF Join
<1>4. ASSUME NEW k \in 1..Len(s) PROVE t[k].do = s[k].do /\ \A l : t[k] = Join(l) <=> s[k] = Join(l)
  BY <1>1, <1>3
<1>5. ASSUME Steady(s) PROVE Steady(t)
  <2> SUFFICES ASSUME NEW k \in 1..Len(s)
               PROVE  /\ Mild(t[k])
                      /\ t[k].do = "poll" => Answered(t, k)
                      /\ \A R \in Ranges : Sets(t[k], R) =>
                            k + 1 <= Len(t) /\ t[k + 1] = Cache(R, t[k].value)
    BY DEF Steady
  <2>1. /\ Mild(s[k])
        /\ s[k].do = "poll" => Answered(s, k)
        /\ \A R \in Ranges : Sets(s[k], R) =>
              k + 1 <= Len(s) /\ s[k + 1] = Cache(R, s[k].value)
    BY <1>5 DEF Steady
  <2>2. Mild(t[k])
    BY <1>1, <1>2, <2>1
  <2>3. ASSUME t[k].do = "poll" PROVE Answered(t, k)
    <3>1. Answered(s, k)
      BY <1>4, <2>1, <2>3
    <3>2. /\ k + 1 <= Len(s) => k + 1 \in 2..Len(s)
          /\ k + 3 <= Len(s) => k + 1 \in 2..Len(s) /\ k + 2 \in 2..Len(s) /\ k + 3 \in 2..Len(s)
      BY <1>1
    <3> QED
      BY <3>1, <3>2 DEF Answered
  <2>4. ASSUME NEW R \in Ranges, Sets(t[k], R)
        PROVE  k + 1 <= Len(t) /\ t[k + 1] = Cache(R, t[k].value)
    <3>1. k # 1
      BY <2>4 DEF Sets
    <3>2. t[k] = s[k]
      BY <1>1, <3>1
    <3>3. k + 1 <= Len(s) /\ s[k + 1] = Cache(R, s[k].value)
      BY <2>1, <2>4, <3>2
    <3>4. k + 1 \in 2..Len(s)
      BY <1>1, <3>3
    <3> QED
      BY <3>2, <3>3, <3>4
  <2> QED
    BY <2>2, <2>3, <2>4
<1>6. ASSUME Once(s) PROVE Once(t)
  <2> SUFFICES ASSUME NEW i \in 1..Len(s), NEW j \in 1..Len(s), t[i].do = "cache",
                      t[j].do = "cache", t[i].range = t[j].range
               PROVE  i = j
    BY DEF Once
  <2>1. i # 1 /\ j # 1
    OBVIOUS
  <2>2. t[i] = s[i] /\ t[j] = s[j]
    BY <1>1, <2>1
  <2> QED
    BY <1>6, <2>2 DEF Once
<1>7. ASSUME Ending(s) PROVE Ending(t)
  <2> SUFFICES ASSUME NEW k \in 1..Len(s)
               PROVE  /\ t[k] = Join("end") => k = Len(s)
                      /\ t[k].do = "begun" => k = Len(s) - 1 /\ t[Len(s)] = Join("end")
    BY DEF Ending
  <2>1. Len(s) \in 1..Len(s)
    BY <1>1
  <2> QED
    BY <1>4, <1>7, <2>1 DEF Ending
<1>8. Plain(s) => Plain(t)
  BY <1>1, <1>2 DEF Plain
<1>9. ASSUME NEW x, x.do # "poll" PROVE x \in Els(s) <=> x \in Els(t)
  <2>1. ASSUME NEW k \in 1..Len(s) PROVE x = s[k] <=> x = t[k]
    BY <1>1, <1>9, <2>1
  <2> QED
    BY <2>1 DEF Els
<1> QED
  BY <1>5, <1>6, <1>7, <1>8, <1>9 DEF Tidy
LEMMA PollConf == ASSUME BusInv, ConfInv, DoPoll, at' = at PROVE ConfInv'
<1>1. ~Idle /\ Next1.do = "poll" /\ UNCHANGED <<rangeVars, begun>>
  BY DEF DoPoll, Doing
<1>2. /\ Next1 = todo[1] /\ todo[1].do = "poll" /\ todo # <<>> /\ todo \in Seq(Steps)
      /\ todo[1] \in Steps /\ IcmTypeOK /\ Form /\ Tidy(todo)
      /\ Tail(todo) \in Seq(Steps) /\ ~Early(todo)
  BY <1>1, FirstStep, EarlyHead DEF ConfInv, Form
<1>3. CASE PollFinds /\ Advance /\ UNCHANGED <<ok, got>>
  <2>1. Form'
    BY <1>1, <1>2, <1>3, FormTail
  <2>2. CASE Works /\ Loaded(MstStatus[2])
    <3>1. clean' = clean
      BY <2>2 DEF Works, faultVars
    <3>2. SameMatter /\ ~Telling(todo[1]) /\ ReadRight'
      BY <1>1, <1>2, <1>3, <2>2, Untold, StoredElsewhere, ReadAfter DEF SameMatter, rangeVars
    <3>3. clean => Kept'
      BY <1>1, <1>2, <1>3, <3>2, KeptTail DEF ConfInv
    <3> QED
      BY <2>1, <3>1, <3>3 DEF ConfInv
  <2>3. CASE Fails
    BY <1>2, <2>1, <2>3, Failed, Spoilt
  <2> QED
    BY <1>3, <2>2, <2>3 DEF PollFinds
<1>4. CASE Works /\ UNCHANGED chipVars /\ ReturnFalse("aux")
  <2>1. clean' = clean /\ SameMatter
    BY <1>1, <1>4 DEF Works, faultVars, chipVars, SameMatter, rangeVars
  <2>2. Form'
    BY <1>1, <1>2, <1>4, FormJump
  <2>3. clean => Kept'
    BY <1>1, <1>2, <1>4, <2>1, KeptJump DEF ConfInv
  <2> QED
    BY <2>1, <2>2, <2>3 DEF ConfInv
<1>5. CASE /\ Works /\ UNCHANGED chipVars /\ UNCHANGED <<ok, got>>
           /\ todo' = <<Poll(Next1.try + 1)>> \o Tail(todo)
  <2>1. clean' = clean /\ SameMatter
    BY <1>1, <1>5 DEF Works, faultVars, chipVars, SameMatter, rangeVars
  <2> DEFINE x == Poll(todo[1].try + 1)
  <2>2. x \in Steps /\ x.do = "poll"
    <3>1. todo[1].try + 1 \in Nat
      <4>1. todo[1].try \in Nat
        BY <1>2, StepKinds
      <4> QED
        BY <4>1
    <3> QED
      BY <3>1, FlowStep DEF Poll
  <2>3. todo' = <<x>> \o Tail(todo)
    BY <1>2, <1>5
  <2> HIDE DEF x
  <2> DEFINE u == <<x>>
  <2>4. u \in Seq(Steps) /\ Len(u) = 1 /\ u[1] = x
    BY <2>2
  <2> HIDE DEF u
  <2>5. /\ todo' \in Seq(Steps) /\ Len(todo') = Len(u) + Len(Tail(todo))
        /\ \A i \in 1..Len(u) : todo'[i] = u[i]
        /\ \A i \in 1..Len(Tail(todo)) : todo'[Len(u) + i] = Tail(todo)[i]
    BY <1>2, <2>3, <2>4, ConcatIndex DEF u
  <2>6. /\ Len(todo) \in Nat /\ Len(todo) > 0 /\ Len(Tail(todo)) = Len(todo) - 1
        /\ \A k \in 1..Len(Tail(todo)) : Tail(todo)[k] = todo[k + 1]
    BY <1>2, TailIndex
  <2>7. Len(todo') = Len(todo) /\ todo'[1] = x
    BY <2>4, <2>5, <2>6
  <2>8. \A k \in 2..Len(todo) : todo'[k] = todo[k]
    <3> TAKE k \in 2..Len(todo)
    <3>1. k - 1 \in 1..Len(Tail(todo)) /\ 1 + (k - 1) = k /\ (k - 1) + 1 = k
      BY <2>6
    <3>2. todo'[1 + (k - 1)] = Tail(todo)[k - 1]
      BY <3>1, <2>4, <2>5
    <3> QED
      BY <3>1, <3>2, <2>6
  <2>9. /\ Tidy(todo) => Tidy(todo')
        /\ Plain(todo) => Plain(todo')
        /\ \A y : y.do # "poll" => (y \in Els(todo) <=> y \in Els(todo'))
    BY <1>2, <2>2, <2>5, <2>6, <2>7, <2>8, RepolledTidy
  <2>10. ~(begun /\ at = "beginIcm")
    <3>1. 1 \in 1..Len(todo)
      BY <2>6
    <3> QED
      BY <1>2, <3>1 DEF Form
  <2>11. Form'
    BY <1>1, <1>2, <2>9, <2>10 DEF Form
  <2>12. ASSUME clean PROVE Kept'
    <3>1. Due' = Els(todo')
      BY DEF Due, Els
    <3>2. \A y : y.do # "poll" => (y \in Due <=> y \in Due')
      BY <2>9, <3>1 DEF Due
    <3>3. \A y : Telling(y) => y.do # "poll"
      BY Untold
    <3>4. ReadRight'
      BY <2>2, <2>7 DEF ReadRight
    <3>5. Kept
      BY <2>12 DEF ConfInv
    <3>6. \A y : Telling(y) => (y \in Due <=> y \in Due')
      BY <3>2, <3>3
    <3>7. \A y \in Due' : y.do = "begun" => y \in Due
      BY <3>2
    <3> QED
      BY <1>1, <1>2, <2>1, <3>4, <3>5, <3>6, <3>7, KeptLike
  <2> QED
    BY <2>1, <2>11, <2>12 DEF ConfInv
<1> QED
  BY <1>3, <1>4, <1>5 DEF DoPoll

(* What a piece of a method tells nothing of.                              *)
LEMMA PartUntold ==
    ASSUME NEW s, Part(s, {})
    PROVE  \A x \in Els(s) : ~Telling(x) /\ x.do # "begun"
<1>1. s \in Seq(Steps) /\ Steady(s) /\ Only(s, {}) /\ Plain(s) /\ Bare(s)
  BY DEF Part, Piece
<1> SUFFICES ASSUME NEW k \in 1..Len(s) PROVE ~Telling(s[k]) /\ s[k].do # "begun"
  BY DEF Els
<1>2. s[k] \notin {Wake, Enable, Aim, Feed}
  BY <1>1 DEF Plain, Ordinary
<1>3. \A j \in 1..Len(s) : s[j].do # "cache"
  BY <1>1 DEF Only
<1>4. ASSUME NEW R \in Ranges PROVE ~Sets(s[k], R) /\ ~Remembers(s[k], R)
  <2>1. ~Remembers(s[k], R)
    BY <1>3 DEF Remembers
  <2>2. ASSUME Sets(s[k], R) PROVE FALSE
    <3>1. k + 1 <= Len(s) /\ s[k + 1] = Cache(R, s[k].value)
      BY <1>1, <2>2 DEF Steady
    <3>2. k + 1 \in 1..Len(s)
      BY <1>1, <3>1, LenProperties
    <3>3. s[k + 1].do = "cache"
      BY <3>1 DEF Cache
    <3> QED
      BY <1>3, <3>2, <3>3
  <2> QED
    BY <2>1, <2>2
<1>5. s[k].do # "begun"
  BY <1>1 DEF Bare
<1> QED
  BY <1>2, <1>4, <1>5 DEF Telling

LEMMA AgainPiece ==
    ASSUME NEW n \in Nat, NEW s, s = ResetI2CMaster \o MagTry(n)
    PROVE  /\ Piece(s, {}) /\ s \in Seq(Steps)
           /\ \A x \in Els(s) : ~Telling(x) /\ x.do # "begun"
<1>1. Part(ResetI2CMaster, {}) /\ Piece(ResetI2CMaster, {}) /\ ResetI2CMaster \in Seq(Steps)
  BY ResetMasterPart DEF Part, Piece
<1>2. Piece(MagTry(n), {}) /\ MagTry(n) \in Seq(Steps)
  BY MagTryPiece DEF Piece
<1>3. Piece(s, {}) /\ s \in Seq(Steps)
  BY <1>1, <1>2, QuietConcat DEF Piece
<1>4. Wia2 \in Byte
  BY DEF Wia2, Byte
<1>5. Part(AuxRead(Wia2), {}) /\ AuxRead(Wia2) \in Seq(Steps)
  BY <1>4, AuxPiece DEF Part, Piece
<1>6. <<TryMag(n)>> \in Seq(Steps) /\ Els(<<TryMag(n)>>) = {TryMag(n)} /\ TryMag(n).do = "tryMag"
  <2>1. TryMag(n) \in Steps /\ TryMag(n).do = "tryMag"
    BY FlowStep DEF TryMag
  <2> HIDE DEF TryMag
  <2>2. <<TryMag(n)>> \in Seq(Steps) /\ Len(<<TryMag(n)>>) = 1 /\ <<TryMag(n)>>[1] = TryMag(n)
    BY <2>1
  <2>3. 1..1 = {1}
    OBVIOUS
  <2> QED
    BY <2>1, <2>2, <2>3 DEF Els
<1>7. Els(MagTry(n)) = Els(AuxRead(Wia2)) \union {TryMag(n)}
  BY <1>5, <1>6, ElsConcat DEF MagTry
<1>8. Els(s) = Els(ResetI2CMaster) \union Els(MagTry(n))
  BY <1>1, <1>2, ElsConcat
<1>9. \A x \in Els(ResetI2CMaster) : ~Telling(x) /\ x.do # "begun"
  BY <1>1, PartUntold
<1>10. \A x \in Els(AuxRead(Wia2)) : ~Telling(x) /\ x.do # "begun"
  BY <1>5, PartUntold
<1>11. ~Telling(TryMag(n)) /\ TryMag(n).do # "begun"
  BY <1>6, Untold
<1> QED
  BY <1>3, <1>7, <1>8, <1>9, <1>10, <1>11

LEMMA TryMagConf == ASSUME BusInv, ConfInv, DoTryMag, at' = at PROVE ConfInv'
<1>1. ~Idle /\ Next1.do = "tryMag" /\ UNCHANGED <<chipVars, rangeVars, begun, faultVars>>
  BY DEF DoTryMag, Doing
<1>2. /\ Next1 = todo[1] /\ todo[1].do = "tryMag" /\ todo # <<>> /\ todo \in Seq(Steps)
      /\ todo[1] \in Steps /\ IcmTypeOK /\ Form /\ Tidy(todo) /\ 1 \in 1..Len(todo)
      /\ Tail(todo) \in Seq(Steps) /\ ~Early(todo)
  BY <1>1, FirstStep, EarlyHead DEF ConfInv, Form
<1>3. SameMatter /\ clean' = clean /\ ~Telling(todo[1])
  BY <1>1, <1>2, Untold DEF SameMatter, chipVars, rangeVars, faultVars
<1>4. ~begun /\ at \in Sites
  <2>1. ~Plain(todo)
    BY <1>2 DEF Plain, Ordinary
  <2> QED
    BY <1>2, <2>1 DEF Form
<1>5. ReadRight'
  <2>1. todo' # <<>> => todo'[1].do \notin {"merge", "identify"}
    BY TryMagWhole, WholeShape
  <2> QED
    BY <2>1 DEF ReadRight
<1>6. CASE Advance /\ UNCHANGED <<ok, got>>
  <2>1. Form'
    BY <1>1, <1>2, <1>6, FormTail
  <2>2. clean => Kept'
    BY <1>1, <1>2, <1>3, <1>5, <1>6, KeptTail DEF ConfInv
  <2> QED
    BY <1>3, <2>1, <2>2 DEF ConfInv
<1>7. CASE todo' = ResetI2CMaster \o MagTry(Next1.try + 1) \o Tail(todo)
  <2> DEFINE n == todo[1].try + 1
  <2>1. n \in Nat
    <3>1. todo[1].try \in Nat
      BY <1>2, StepKinds
    <3> QED
      BY <3>1
  <2> DEFINE p == ResetI2CMaster \o MagTry(n)
  <2>2. todo' = p \o Tail(todo)
    BY <1>2, <1>7
  <2> HIDE DEF n
  <2>3. Piece(p, {}) /\ p \in Seq(Steps) /\ \A x \in Els(p) : ~Telling(x) /\ x.do # "begun"
    BY <2>1, AgainPiece
  <2> HIDE DEF p
  <2>4. Tidy(Tail(todo)) /\ Els(todo) = {todo[1]} \union Els(Tail(todo))
    BY <1>2, TailTidy
  <2>5. Tidy(p \o Tail(todo))
    <3> DEFINE t == Tail(todo)
    <3>1. t \in Seq(Steps) /\ Tidy(t)
      BY <1>2, <2>4
    <3> HIDE DEF t
    <3>2. \A k \in 1..Len(t) : t[k].do = "cache" => t[k].range \notin {}
      OBVIOUS
    <3>3. Tidy(p \o t)
      BY <2>3, <3>1, <3>2, PieceThen
    <3> QED
      BY <3>3 DEF t
  <2>6. Form'
    BY <1>1, <1>4, <2>2, <2>5 DEF Form
  <2>7. ASSUME clean PROVE Kept'
    <3>1. Els(p \o Tail(todo)) = Els(p) \union Els(Tail(todo))
      BY <1>2, <2>3, ElsConcat
    <3>2. Due' = Els(p) \union Els(Tail(todo))
      BY <2>2, <3>1 DEF Due, Els
    <3>3. Due = {todo[1]} \union Els(Tail(todo))
      BY <2>4 DEF Due
    <3>4. \A x : Telling(x) => (x \in Due <=> x \in Due')
      BY <1>3, <2>3, <3>2, <3>3
    <3>5. \A x \in Due' : x.do = "begun" => x \in Due
      BY <2>3, <3>2, <3>3
    <3>6. Kept
      BY <2>7 DEF ConfInv
    <3> QED
      BY <1>1, <1>2, <1>3, <1>5, <3>4, <3>5, <3>6, KeptLike
  <2> QED
    BY <1>3, <2>6, <2>7 DEF ConfInv
<1>8. CASE todo' = ResetI2CMaster \o <<Op("giveUp"), Join("end")>>
  <2> DEFINE t == <<Op("giveUp"), Join("end")>>
  <2>1. t \in Seq(Steps) /\ Tidy(t)
    BY EndTidy
  <2>2. \A x \in Els(t) : x.do # "begun"
    <3>1. Len(t) = 2 /\ t[1].do = "giveUp" /\ t[2].do = "join"
      BY DEF Op, Join
    <3> HIDE DEF t
    <3>2. \A k \in 1..2 : k = 1 \/ k = 2
      OBVIOUS
    <3> QED
      BY <3>1, <3>2 DEF Els
  <2>3. todo' = ResetI2CMaster \o t
    BY <1>8
  <2> HIDE DEF t
  <2>4. /\ Piece(ResetI2CMaster, {}) /\ ResetI2CMaster \in Seq(Steps)
        /\ \A x \in Els(ResetI2CMaster) : x.do # "begun"
    BY ResetMasterPart, PartUntold DEF Part, Piece
  <2>5. Tidy(ResetI2CMaster \o t)
    <3>1. \A k \in 1..Len(t) : t[k].do = "cache" => t[k].range \notin {}
      OBVIOUS
    <3> QED
      BY <2>1, <2>4, <3>1, PieceThen
  <2>6. Form'
    BY <1>1, <1>4, <2>3, <2>5 DEF Form
  <2>7. Els(ResetI2CMaster \o t) = Els(ResetI2CMaster) \union Els(t)
    BY <2>1, <2>4, ElsConcat
  <2>8. \A x \in Due' : x.do # "begun"
    BY <2>2, <2>3, <2>4, <2>7 DEF Due, Els
  <2>9. ~Live'
    BY <1>1, <1>4, <2>8 DEF Live, Due, Els
  <2> QED
    BY <1>5, <2>6, <2>9 DEF ConfInv, Kept
<1> QED
  BY <1>6, <1>7, <1>8 DEF DoTryMag
(* The steps that only move results around, and the end of begin_I2C.      *)
LEMMA EndLeaves ==
    ASSUME BusInv, Tidy(todo), ~Idle, ReturnFalse("end"), ~begun', todo[1].do # "merge"
    PROVE  ReadRight' /\ (todo' = todo \/ ~Live')
<1>1. todo \in Seq(Steps) /\ 1 \in 1..Len(todo) /\ Len(todo) \in Nat
  BY FirstStep, LenProperties
<1>2. CASE todo' = todo
  BY <1>2 DEF ReadRight
<1>3. CASE \E i \in 1..Len(todo) : todo[i] = Join("end") /\ todo' = Suffix(todo, i)
  <2>1. PICK i \in 1..Len(todo) : todo[i] = Join("end") /\ todo' = Suffix(todo, i)
    BY <1>3
  <2>2. i = Len(todo)
    BY <2>1 DEF Tidy, Ending
  <2>3. Suffix(todo, i) \in Seq(Steps) /\ Len(Suffix(todo, i)) = 0
    BY <1>1, <2>2, SuffixIndex
  <2>4. todo' \in Seq(Steps) /\ Len(todo') = 0
    BY <2>1, <2>3
  <2>5. todo' = <<>>
    BY <2>4, EmptySeq
  <2>6. ~\E k \in 1..Len(todo') : todo'[k].do = "begun"
    BY <2>4
  <2> QED
    BY <2>5, <2>6 DEF ReadRight, Live
<1> QED
  BY <1>1, <1>2, <1>3, JumpFirst

LEMMA LastSteps ==
    ASSUME BusInv, Form, ~Idle, todo[1].do = "begun", Advance
    PROVE  \A k \in 1..Len(todo') : todo'[k] = Join("end")
<1>1. todo \in Seq(Steps) /\ 1 \in 1..Len(todo) /\ todo' = Tail(todo) /\ todo # <<>>
  BY FirstStep DEF Advance
<1>2. 1 = Len(todo) - 1 /\ todo[Len(todo)] = Join("end")
  BY <1>1 DEF Form, Tidy, Ending
<1>3. /\ Len(todo) \in Nat /\ Len(todo') = Len(todo) - 1
      /\ \A k \in 1..Len(todo') : todo'[k] = todo[k + 1]
  BY <1>1, TailIndex
<1> SUFFICES ASSUME NEW k \in 1..Len(todo') PROVE todo'[k] = Join("end")
  OBVIOUS
<1>4. k + 1 = Len(todo)
  BY <1>2, <1>3
<1> QED
  BY <1>2, <1>3, <1>4

LEMMA BegunConf ==
    ASSUME BusInv, ConfInv, ~Idle, todo[1].do = "begun", Advance, at' = at, ok' = known,
           begun' = known, UNCHANGED <<chipVars, rangeVars, faultVars>>
    PROVE  ConfInv'
<1>1. /\ todo \in Seq(Steps) /\ todo # <<>> /\ 1 \in 1..Len(todo) /\ Form
      /\ todo' = Tail(todo) /\ ~Early(todo)
  BY FirstStep, EarlyHead DEF Advance, ConfInv
<1>2. \A k \in 1..Len(todo') : todo'[k] = Join("end")
  BY <1>1, LastSteps
<1>3. Tidy(todo') /\ at \in Sites
  BY <1>1, TailTidy DEF Form
<1>4. Ordinary(Join("end")) /\ Join("end").do = "join"
  BY SettersAre DEF Ordinary
<1>5. Plain(todo') /\ \A k \in 1..Len(todo') : todo'[k].do = "join"
  BY <1>2, <1>4 DEF Plain
<1>6. Form'
  BY <1>3, <1>5 DEF Form
<1>7. SameMatter /\ clean' = clean /\ ~Telling(todo[1]) /\ ReadRight'
  BY Untold, ReadAfter DEF SameMatter, chipVars, rangeVars, faultVars
<1>8. ASSUME clean PROVE Owed'
  <2>1. Live
    BY <1>1 DEF Live
  <2>2. Owed
    BY <1>8, <2>1 DEF ConfInv, Kept
  <2>3. \A x : Telling(x) => (x \in Due <=> x \in Due')
    BY <1>7, DueTail
  <2> QED
    BY <1>7, <2>2, <2>3, OwedSame
<1> QED
  BY <1>6, <1>7, <1>8 DEF ConfInv, Kept

LEMMA FlowConf == ASSUME BusInv, ConfInv, DoFlow, at' = at PROVE ConfInv'
<1>1. ~Idle /\ UNCHANGED <<chipVars, rangeVars, faultVars>>
  BY DEF DoFlow
<1>2. /\ Next1 = todo[1] /\ todo # <<>> /\ todo \in Seq(Steps) /\ Shape(todo) /\ IcmTypeOK
      /\ Form /\ Tidy(todo) /\ 1 \in 1..Len(todo)
  BY <1>1, FirstStep DEF ConfInv, Form
<1>3. SameMatter /\ clean' = clean
  BY <1>1 DEF SameMatter, chipVars, rangeVars, faultVars
<1>4. \/ /\ Advance /\ begun' = begun
         /\ ok' = ok \/ todo[1].do # "join"
         /\ todo[1].do \in {"join", "aux", "hold", "both", "orEnd", "identify"}
      \/ ReturnFalse("end") /\ begun' = begun /\ todo[1].do \in {"orEnd", "giveUp"}
      \/ /\ todo[1].do = "identify" /\ got \notin ChipIds /\ ReturnFalse("init")
         /\ begun' = begun
      \/ todo[1].do = "begun" /\ Advance /\ ok' = known /\ begun' = known
  BY <1>2 DEF DoFlow, Doing
<1>5. CASE /\ Advance /\ begun' = begun
           /\ ok' = ok \/ todo[1].do # "join"
           /\ todo[1].do \in {"join", "aux", "hold", "both", "orEnd", "identify"}
  <2>1. Form'
    BY <1>1, <1>2, <1>5, FormTail
  <2>2. ~Telling(todo[1]) /\ ReadRight'
    BY <1>1, <1>5, Untold, ReadAfter
  <2>3. clean => Kept'
    BY <1>1, <1>2, <1>3, <1>5, <2>2, KeptTail DEF ConfInv
  <2> QED
    BY <1>3, <2>1, <2>3 DEF ConfInv
<1>6. CASE ReturnFalse("end") /\ begun' = begun /\ todo[1].do \in {"orEnd", "giveUp"}
  <2>1. Form'
    BY <1>1, <1>2, <1>6, FormJump
  <2>2. ~begun /\ ~Early(todo)
    <3>1. ~Plain(todo)
      BY <1>2, <1>6 DEF Plain, Ordinary
    <3> QED
      BY <1>2, <1>6, <3>1, EarlyHead DEF Form
  <2>3. ReadRight' /\ (todo' = todo \/ ~Live')
    BY <1>1, <1>2, <1>6, <2>2, EndLeaves
  <2>4. ASSUME clean PROVE Kept'
    <3>1. CASE todo' = todo
      <4>1. Due' = Due
        BY <3>1 DEF Due, Els
      <4>2. Kept
        BY <2>4 DEF ConfInv
      <4> QED
        BY <1>3, <1>6, <2>2, <2>3, <4>1, <4>2, KeptLike
    <3>2. CASE ~Live'
      BY <2>3, <3>2 DEF Kept
    <3> QED
      BY <2>3, <3>1, <3>2
  <2> QED
    BY <1>3, <2>1, <2>4 DEF ConfInv
<1>7. CASE /\ todo[1].do = "identify" /\ got \notin ChipIds /\ ReturnFalse("init")
           /\ begun' = begun
  <2>1. Form'
    BY <1>1, <1>2, <1>7, FormJump
  <2>2. ~clean
    <3>1. 234 \in ChipIds
      BY DEF ChipIds
    <3> QED
      BY <1>2, <1>7, <3>1 DEF BusInv, Orderly
  <2> QED
    BY <1>3, <2>1, <2>2 DEF ConfInv
<1>8. CASE todo[1].do = "begun" /\ Advance /\ ok' = known /\ begun' = known
  BY <1>1, <1>8, BegunConf
<1> QED
  BY <1>4, <1>5, <1>6, <1>7, <1>8

LEMMA DriverConf == ASSUME BusInv, ConfInv, DriverStep, at' = at PROVE ConfInv'
BY SelectConf, DetectConf, FetchConf, PutConf, Put2Conf, MergeConf, CacheConf, ClearedConf,
   PollConf, TryMagConf, FlowConf, BeginConf DEF DriverStep
-----------------------------------------------------------------------------
(* The chip's own steps.                                                   *)
LEMMA KeptSame ==
    ASSUME Kept, SameMatter, UNCHANGED <<todo, got, begun>>
    PROVE  Kept'
<1>1. /\ cells'[UserCtrl] = cells[UserCtrl]
      /\ \A R \in Ranges : Field(R)' = Field(R)
  BY SameFields
<1>2. Due' = Due
  BY DEF Due, Els
<1>3. Live' => Live
  BY DEF Live
<1>4. Owed => Owed'
  BY <1>2, OwedSame
<1>5. ReadRight'
  <2>1. ReadRight
    BY DEF Kept
  <2> QED
    BY <1>1, <2>1 DEF ReadRight
<1> QED
  BY <1>3, <1>4, <1>5 DEF Kept

LEMMA ResetConf == ASSUME BusInv, ConfInv, ChipResets, at' = at PROVE ConfInv'
<1>1. UNCHANGED <<todo, got, ok, begun, clean>> /\ Pending
  BY DEF ChipResets, callVars, faultVars, Pending
<1>2. Form'
  BY <1>1, FormSame DEF ConfInv
<1>3. ASSUME clean PROVE Kept'
  <2>1. Early(todo) \/ Resting
    BY <1>1, <1>3 DEF BusInv, Orderly
  <2>2. CASE Early(todo)
    <3>1. ~begun /\ ~Live
      BY <2>2, EarlyNotLive DEF ConfInv
    <3>2. todo # <<>> /\ todo[1].do = "merge" => todo[1].reg = PwrMgmt1
      BY <2>2, EarlyHead
    <3>3. PwrMgmt1 # UserCtrl /\ \A R \in Ranges : PwrMgmt1 # RangeReg(R)
      BY CellsApart DEF RangeReg
    <3>4. ReadRight' /\ ~Live'
      BY <1>1, <2>2, <3>1, <3>2, <3>3 DEF ReadRight, Live
    <3> QED
      BY <3>4 DEF Kept
  <2>3. CASE Resting
    <3>1. todo' = <<>> /\ ~begun'
      BY <1>1, <2>3 DEF ConfInv, Form, Resting, Sites
    <3> QED
      BY <3>1 DEF Kept, ReadRight, Live
  <2> QED
    BY <2>1, <2>2, <2>3
<1> QED
  BY <1>1, <1>2, <1>3 DEF ConfInv

LEMMA MasterConf == ASSUME BusInv, ConfInv, MasterResets, at' = at PROVE ConfInv'
<1>1. UNCHANGED <<todo, got, ok, begun, clean>> /\ UNCHANGED rangeVars
  BY DEF MasterResets, callVars, faultVars
<1>2. Form'
  BY <1>1, FormSame DEF ConfInv
<1> DEFINE v == WithBits(cells[UserCtrl], 1, 1, 0)
<1>3. cells \in [Cells -> Byte] /\ \A c \in Matter : c \in Cells
  BY CellsApart DEF BusInv, IcmTypeOK
<1>4. UserCtrl \in Matter /\ cells[UserCtrl] \in Byte
  BY <1>3 DEF Matter
<1>5. Bits(v, 1, 5) = Bits(cells[UserCtrl], 1, 5)
  BY <1>4, GroupKept
<1>6. cells' = [cells EXCEPT ![UserCtrl] = v]
  BY DEF MasterResets
<1> HIDE DEF v
<1>7. \A c \in Matter : cells'[c] = IF c = UserCtrl THEN v ELSE cells[c]
  BY <1>3, <1>6
<1>8. Bits(cells'[UserCtrl], 1, 5) = Bits(cells[UserCtrl], 1, 5)
  BY <1>4, <1>5, <1>7
<1>9. /\ cells'[PwrMgmt1] = cells[PwrMgmt1]
      /\ cells'[Slv0Addr] = cells[Slv0Addr] /\ cells'[Slv0Ctrl] = cells[Slv0Ctrl]
      /\ cells'[AccelConfig1] = cells[AccelConfig1]
      /\ cells'[GyroConfig1] = cells[GyroConfig1]
  BY <1>7, CellsApart DEF Matter
<1>10. \A R \in Ranges : Field(R)' = Field(R) /\ Scale(R)' = Scale(R)
  BY <1>1, <1>9 DEF Field, Scale, RangeReg, rangeVars
<1>11. ASSUME clean PROVE Kept'
  <2>1. Kept
    BY <1>11 DEF ConfInv
  <2>2. ReadRight'
    BY <1>1, <1>8, <1>10, <2>1 DEF Kept, ReadRight
  <2>3. ASSUME Live' PROVE Owed'
    <3>1. Live
      BY <1>1, <2>3 DEF Live
    <3>2. Owed
      BY <2>1, <3>1 DEF Kept
    <3>3. Due' = Due
      BY <1>1 DEF Due, Els
    <3>4. ASSUME NEW R \in Ranges PROVE Balanced(R)'
      <4>1. Balanced(R)
        BY <3>2 DEF Owed
      <4>2. Field(R)' = Field(R) /\ Scale(R)' = Scale(R)
        BY <1>10
      <4> QED
        BY <3>3, <4>1, <4>2 DEF Balanced
    <3> QED
      BY <1>8, <1>9, <3>2, <3>3, <3>4 DEF Owed
  <2> QED
    BY <2>2, <2>3 DEF Kept
<1> QED
  BY <1>1, <1>2, <1>11 DEF ConfInv

LEMMA AuxConf == ASSUME BusInv, ConfInv, AuxFinishes, at' = at PROVE ConfInv'
<1>1. UNCHANGED <<todo, got, ok, begun, clean>> /\ UNCHANGED rangeVars
  BY DEF AuxFinishes, callVars, faultVars
<1>2. Form'
  BY <1>1, FormSame DEF ConfInv
<1>3. \E v, w : cells' = [cells EXCEPT ![MstStatus] = v, ![Slv4Di] = w]
  BY DEF AuxFinishes
<1>4. cells \in [Cells -> Byte]
  BY DEF BusInv, IcmTypeOK
<1>5. \A c \in Matter : c \in Cells /\ c # MstStatus /\ c # Slv4Di
  <2>1. MstStatus \in Scratch /\ Slv4Di \in Scratch
    BY DEF Scratch
  <2> QED
    BY <2>1, CellsApart
<1>6. SameMatter
  <2>1. \A c \in Matter : cells'[c] = cells[c]
    BY <1>3, <1>4, <1>5
  <2> QED
    BY <1>1, <2>1 DEF SameMatter, rangeVars
<1>7. clean => Kept'
  BY <1>1, <1>6, KeptSame DEF ConfInv
<1> QED
  BY <1>1, <1>2, <1>7 DEF ConfInv

-----------------------------------------------------------------------------
(* The sketch's steps.                                                     *)

(* No call is going on, and none has begun the sensor.                     *)
LEMMA OverConf == ASSUME todo' = <<>>, ~begun' PROVE ConfInv'
<1>1. Tidy(todo')
  BY DEF Tidy, Steady, Once, Ending
<1>2. ~Live' /\ ReadRight'
  BY DEF Live, ReadRight
<1> QED
  BY <1>1, <1>2 DEF ConfInv, Form, Kept

LEMMA CallConf ==
    ASSUME BusInv, ConfInv, NEW s, s \in Seq(Steps), Tidy(s), Plain(s), Prepared(s),
           s # <<>> => s[1].do \notin {"merge", "identify"},
           Call(s), at' \in Sites, at' # "beginIcm",
           UNCHANGED <<chipVars, rangeVars, got, held, known, begun, faultVars>>
    PROVE  ConfInv'
<1>1. todo = <<>> /\ todo' = s
  BY DEF Call, Idle
<1>2. begun' = begun /\ clean' = clean /\ SameMatter
  BY DEF SameMatter, chipVars, rangeVars, faultVars
<1>3. Form'
  BY <1>1 DEF Form
<1>4. ReadRight'
  BY <1>1 DEF ReadRight
<1>5. ASSUME clean, Live' PROVE Owed'
  <2>1. begun
    <3>1. \A k \in 1..Len(s) : s[k].do # "begun"
      BY DEF Plain, Ordinary
    <3> QED
      BY <1>1, <1>2, <1>5, <3>1 DEF Live
  <2>2. Owed
    BY <1>5, <2>1 DEF ConfInv, Kept, Live
  <2>3. Due = {}
    <3>1. Len(todo) = 0
      BY <1>1
    <3> QED
      BY <3>1 DEF Due, Els
  <2>4. Due' = Els(s)
    BY <1>1 DEF Due, Els
  <2>5. /\ cells'[PwrMgmt1] = cells[PwrMgmt1] /\ cells'[UserCtrl] = cells[UserCtrl]
        /\ cells'[Slv0Addr] = cells[Slv0Addr] /\ cells'[Slv0Ctrl] = cells[Slv0Ctrl]
        /\ \A R \in Ranges : Field(R)' = Field(R) /\ Scale(R)' = Scale(R)
    BY <1>2, SameFields
  <2>6. \A x \in Els(s), R \in Ranges : Remembers(x, R) => \E y \in Els(s) : Sets(y, R)
    BY InEls
  <2>7. ASSUME NEW R \in Ranges PROVE Balanced(R)'
    <3>1. Field(R) = Scale(R)
      BY <2>2, <2>3 DEF Owed, Balanced
    <3>2. Field(R)' = Scale(R)'
      BY <2>5, <3>1
    <3>3. \A x \in Due' : Remembers(x, R) => \E y \in Due' : Sets(y, R)
      BY <2>4, <2>6
    <3> QED
      BY <3>2, <3>3 DEF Balanced
  <2> QED
    BY <2>2, <2>3, <2>5, <2>7 DEF Owed
<1> QED
  BY <1>2, <1>3, <1>4, <1>5 DEF ConfInv, Kept

LEMMA CalibrateConf == ASSUME BusInv, ConfInv, CalibrateICM PROVE ConfInv'
<1>1. /\ todo = <<>> /\ todo' = BeginI2C /\ begun' = begun
      /\ at = "calibrate" /\ at' = "beginIcm"
  BY DEF CalibrateICM, Call, Idle, Goes
<1>2. ~begun
  BY <1>1 DEF ConfInv, Form, Sites
<1>3. Tidy(todo')
  BY <1>1, BeginTidy
<1>4. Form'
  BY <1>1, <1>2, <1>3 DEF Form, Sites
<1>5. Early(todo') /\ todo'[1].do # "merge"
  BY <1>1, BeginCalled
<1>6. ~Live' /\ ReadRight'
  BY <1>1, <1>2, <1>5 DEF Live, ReadRight
<1> QED
  BY <1>4, <1>6 DEF ConfInv, Kept

LEMMA ShowConf == ASSUME BusInv, ConfInv, ShowICM PROVE ConfInv'
<1> DEFINE s == ReadRange(AccelConfig1) \o ReadRange(GyroConfig1) \o ReadRange(AccelSmplrtDiv1)
<1>1. /\ Call(s) /\ UNCHANGED <<chipVars, rangeVars, got, held, known, begun, faultVars>>
      /\ at' = "show"
  BY DEF ShowICM, Goes
<1>2. /\ s \in Seq(Steps) /\ Tidy(s) /\ Plain(s) /\ Prepared(s)
  BY ShowTidy
<1>3. s # <<>> => s[1].do \notin {"merge", "identify"}
  BY ShowWhole, WholeShape
<1> HIDE DEF s
<1>4. at' \in Sites /\ at' # "beginIcm"
  BY <1>1 DEF Sites
<1> QED
  BY <1>1, <1>2, <1>3, <1>4, CallConf

LEMMA MethodConf == ASSUME BusInv, ConfInv, CallMethod PROVE ConfInv'
<1>1. PICK s \in Methods : Call(s)
  BY DEF CallMethod
<1>2. /\ UNCHANGED <<chipVars, rangeVars, got, held, known, begun, faultVars>>
      /\ at' \in Sites /\ at' # "beginIcm"
  BY DEF CallMethod, Goes, Sites
<1>3. /\ s \in Seq(Steps) /\ Tidy(s) /\ Plain(s) /\ Prepared(s)
      /\ s # <<>> => s[1].do \notin {"merge", "identify"}
  BY MethodsTidy, MethodsWhole, WholeShape
<1> QED
  BY <1>1, <1>2, <1>3, CallConf

LEMMA StillConf ==
    ASSUME ConfInv, UNCHANGED icmVars,
           \/ at' = at
           \/ at = "show" /\ at' = "loop" /\ todo = <<>>
    PROVE  ConfInv'
<1>1. UNCHANGED <<todo, got, ok, begun, clean>> /\ SameMatter
  BY DEF icmVars, chipVars, rangeVars, callVars, faultVars, SameMatter
<1>2. Form'
  BY <1>1 DEF ConfInv, Form, Sites
<1>3. clean => Kept'
  BY <1>1, KeptSame DEF ConfInv
<1> QED
  BY <1>1, <1>2, <1>3 DEF ConfInv

LEMMA ConfInit == BootInit => ConfInv
<1> SUFFICES ASSUME BootInit PROVE ConfInv
  OBVIOUS
<1>1. todo = <<>> /\ ~begun
  BY DEF BootInit, IcmInit
<1>2. Tidy(todo)
  BY <1>1 DEF Tidy, Steady, Once, Ending
<1> QED
  BY <1>1, <1>2 DEF ConfInv, Form, Kept, Live, ReadRight

LEMMA ConfNext == BusInv /\ ConfInv /\ [BootNext]_bootVars => ConfInv'
<1> SUFFICES ASSUME BusInv, ConfInv, [BootNext]_bootVars PROVE ConfInv'
  OBVIOUS
<1>1. CASE RangeSetup \/ BeginFails
  <2>1. UNCHANGED icmVars /\ at \notin Sites
    BY <1>1 DEF RangeSetup, DriveLines, PowerOff, PowerOn, HoldSecond, BeginFirst, WakeSecond,
                BeginSecond, BeginFails, Goes, Sites
  <2>2. todo' = <<>> /\ ~begun'
    BY <2>1 DEF ConfInv, Form, icmVars, callVars
  <2> QED
    BY <2>2, OverConf
<1>2. CASE CalibrateFails
  <2>1. UNCHANGED icmVars /\ at = "beginIcm" /\ todo = <<>> /\ ~ok
    BY <1>2 DEF CalibrateFails, Goes, Idle
  <2>2. todo' = <<>> /\ ~begun'
    BY <2>1 DEF ConfInv, Form, icmVars, callVars
  <2> QED
    BY <2>2, OverConf
<1>3. CASE SetupReturns
  <2>1. UNCHANGED icmVars /\ at = "show" /\ at' = "loop" /\ todo = <<>>
    BY <1>3 DEF SetupReturns, Goes, Idle
  <2> QED
    BY <2>1, StillConf
<1>4. CASE CalibrateICM \/ ShowICM \/ CallMethod
  BY <1>4, CalibrateConf, ShowConf, MethodConf
<1>5. CASE WatchdogRestart \/ OtherRestart
  <2>1. todo' = <<>> /\ ~begun'
    BY <1>5 DEF WatchdogRestart, OtherRestart, Restarted, DriverRestarts
  <2> QED
    BY <2>1, OverConf
<1>6. CASE (DriverStep \/ ChipStep) /\ UNCHANGED <<at, loxVars, calls>>
  BY <1>6, DriverConf, ResetConf, MasterConf, AuxConf DEF ChipStep
<1>7. CASE UNCHANGED bootVars
  <2>1. UNCHANGED icmVars /\ at' = at
    BY <1>7 DEF bootVars
  <2> QED
    BY <2>1, StillConf
<1> QED
  BY <1>1, <1>2, <1>3, <1>4, <1>5, <1>6, <1>7 DEF BootNext, MotionSetup

(* After a begin_I2C that returned true without a failure on the bus the   *)
(* chip is awake, slave 0 feeds the magnetometer, the I2C master is on,    *)
(* and between two calls the ranges are the ones the driver scales by:     *)
(* whatever methods were called since, wherever the processor restarted    *)
(* before, and whenever the chip ended a reset.                            *)
THEOREM BegunMeansConfigured == BootSpec => []BegunIsConfigured
<1>1. BusInv /\ ConfInv => BegunIsConfigured
  <2> SUFFICES ASSUME BusInv, ConfInv, begun, clean
               PROVE  /\ Bits(cells[PwrMgmt1], 1, 6) = 0
                      /\ Idle => /\ Bits(cells[AccelConfig1], 2, 1) = accelRange
                                 /\ Bits(cells[GyroConfig1], 2, 1) = gyroRange
                      /\ cells[Slv0Addr] = 128 + MagAddress
                      /\ cells[Slv0Ctrl] = 137
                      /\ Bits(cells[UserCtrl], 1, 5) = 1
    BY DEF BegunIsConfigured
  <2>1. Owed /\ Plain(todo)
    BY DEF ConfInv, Form, Kept, Live
  <2>2. \A x \in Due : x \notin {Wake, Enable, Aim, Feed}
    BY <2>1 DEF Plain, Ordinary, Due, Els
  <2>3. ASSUME Idle
        PROVE  /\ Bits(cells[AccelConfig1], 2, 1) = accelRange
               /\ Bits(cells[GyroConfig1], 2, 1) = gyroRange
    <3>1. Len(todo) = 0
      BY <2>3 DEF Idle
    <3>2. Due = {}
      BY <3>1 DEF Due, Els
    <3>3. \A R \in Ranges : Field(R) = Scale(R)
      BY <2>1, <3>2 DEF Owed, Balanced
    <3>4. Field("gyro") = Scale("gyro") /\ Field("accel") = Scale("accel")
      BY <3>3 DEF Ranges
    <3> QED
      BY <3>4 DEF Field, Scale, RangeReg
  <2> QED
    BY <2>1, <2>2, <2>3 DEF Owed
<1>2. BootInit => BusInv /\ ConfInv
  BY BusInvInit, ConfInit
<1>3. (BusInv /\ ConfInv) /\ [BootNext]_bootVars => (BusInv /\ ConfInv)'
  BY BusInvNext, ConfNext
<1> QED
  BY <1>1, <1>2, <1>3, PTL DEF BootSpec


=============================================================================
