----------------------------- MODULE MpuMeasure -----------------------------
(***************************************************************************)
(* The multi-byte reads and writes of libraries/MPU6050/MPU6050.cpp: what  *)
(* the chip measures, what its auxiliary bus delivers, the factory trims   *)
(* and the offsets.  All reads go to the one array `buffer' of the driver, *)
(* whose first bytes a read that fails leaves as the call before left      *)
(* them.  A byte is told by its register and by the sample it was taken    *)
(* from, which the chip replaces between two transactions as a whole.      *)
(***************************************************************************)
EXTENDS MpuMap, Sequences

CONSTANTS
    MaxSamples,  \* bound: samples told apart
    MaxReads,    \* bound: calls
    MaxBroken    \* bound: transactions that fail

ASSUME MeasureAssumption ==
    MaxSamples \in Nat /\ MaxReads \in Nat /\ MaxBroken \in Nat

VARIABLES
    sample,   \* external: the sample in the chip's registers
    chip,     \* external: the identity of the chip
    offsets,  \* external: offset registers the driver has written
    buf,      \* buffer[14]
    steps,    \* the transactions left of the call
    asking,   \* the quantities the call is asked for
    answer,   \* what it returned
    sound,    \* history: no transaction of the call has failed
    reads, broken

measureVars == <<sample, chip, offsets, buf, steps, asking, answer, sound, reads, broken>>

\* external: where the data sheet has the quantities; a later chip has the
\* offsets of its accelerometer elsewhere.
Sheet(id) ==
    [ax |-> 59, ay |-> 61, az |-> 63, temperature |-> 65, gx |-> 67,
     gy |-> 69, gz |-> 71, xg |-> 19, yg |-> 21, zg |-> 23,
     xa |-> IF id = 52 THEN 6 ELSE 119, ya |-> IF id = 52 THEN 8 ELSE 122,
     za |-> IF id = 52 THEN 10 ELSE 125, ext |-> 73]

Burst(reg, n) == [do |-> "read", reg |-> reg, n |-> n]
Identify == [do |-> "identify"]
Word(i) == <<2 * i, 2 * i + 1>>

\* A call: its transactions, what it is asked for, and which bytes of the
\* buffer it returns.
Getter(ops, names, words) == [ops |-> ops, names |-> names, words |-> words]
Simple(reg, name) == Getter(<<Burst(reg, 2)>>, <<name>>, <<Word(0)>>)

GetMotion6 ==
    Getter(<<Burst(Motion6[1], 14)>>, <<"ax", "ay", "az", "gx", "gy", "gz">>,
           [i \in 1..6 |-> Word((Motion6[i] - Motion6[1]) \div 2)])
GetAcceleration ==
    Getter(<<Burst(RA.ACCEL_XOUT_H, 6)>>, <<"ax", "ay", "az">>, [i \in 1..3 |-> Word(i - 1)])
GetRotation ==
    Getter(<<Burst(RA.GYRO_XOUT_H, 6)>>, <<"gx", "gy", "gz">>, [i \in 1..3 |-> Word(i - 1)])
GetSensorWord(position) == Simple(RA.EXT_SENS_DATA_00 + position, "ext")

\* get.AccelOffset asks for the identity of the chip first.
GetAccelOffset(name, axis) ==
    Getter(<<Identify, [do |-> "read by id", axis |-> axis]>>, <<name>>, <<Word(0)>>)

Getters ==
    {GetMotion6, GetAcceleration, GetRotation, GetSensorWord(0),
     Simple(Accelerations.AccelerationX, "ax"), Simple(Accelerations.AccelerationY, "ay"),
     Simple(Accelerations.AccelerationZ, "az"), Simple(Temperature.Temperature, "temperature"),
     Simple(Rotations.RotationX, "gx"), Simple(Rotations.RotationY, "gy"),
     Simple(Rotations.RotationZ, "gz"), Simple(GyroOffsets.XGyroOffset, "xg"),
     Simple(GyroOffsets.YGyroOffset, "yg"), Simple(GyroOffsets.ZGyroOffset, "zg"),
     GetAccelOffset("xa", 0), GetAccelOffset("ya", 1), GetAccelOffset("za", 2)}

\* The identity without the two bits getDeviceID masks off: MPU6050, MPU6500.
Chips == {52, 56}

MeasureInit ==
    /\ sample = 0 /\ chip \in Chips /\ offsets = {}
    /\ buf = [i \in 0..13 |-> <<0, 0>>] /\ steps = <<>> /\ asking = <<>> /\ answer = <<>>
    /\ sound = TRUE /\ reads = 0 /\ broken = 0

StartRead ==
    /\ steps = <<>> /\ reads < MaxReads /\ reads' = reads + 1
    /\ \E g \in Getters :
          /\ steps' = Append(g.ops, [do |-> "return", words |-> g.words])
          /\ asking' = g.names
    /\ answer' = <<>> /\ sound' = TRUE
    /\ UNCHANGED <<sample, chip, offsets, buf, broken>>

\* set.AccelOffset, set.GyroOffset.
StartOffset ==
    /\ steps = <<>> /\ reads < MaxReads /\ reads' = reads + 1
    /\ \/ \E axis \in 0..2 :
             /\ steps' = <<Identify, [do |-> "write by id", axis |-> axis]>>
             /\ asking' = << <<"xa", "ya", "za">>[axis + 1] >>
       \/ \E reg \in {19, 21, 23} :
             /\ steps' = <<[do |-> "write", reg |-> reg]>>
             /\ asking' = << CASE reg = 19 -> "xg" [] reg = 21 -> "yg" [] OTHER -> "zg" >>
    /\ answer' = <<>> /\ sound' = TRUE
    /\ UNCHANGED <<sample, chip, offsets, buf, broken>>

Doing(kinds) == steps # <<>> /\ Head(steps).do \in kinds
On == steps' = Tail(steps)

\* What buffer[0] is worth as an identity: a byte of data may be any number.
Identities == IF buf[0][1] = RA.WHO_AM_I THEN {chip} ELSE Chips

Reg(step) == IF step.do = "read" THEN {step.reg} ELSE {AccelOffset(step.axis, id) : id \in Identities}
Count(step) == IF step.do = "read" THEN step.n ELSE 2

ReadBytes ==
    /\ Doing({"read", "read by id"}) /\ On
    /\ \E reg \in Reg(Head(steps)) :
          buf' = [i \in 0..13 |-> IF i < Count(Head(steps)) THEN <<reg + i, sample>> ELSE buf[i]]
    /\ UNCHANGED <<sample, chip, offsets, asking, answer, sound, reads, broken>>

\* getDeviceID.
ReadIdentity ==
    /\ Doing({"identify"}) /\ On
    /\ buf' = [buf EXCEPT ![0] = <<RA.WHO_AM_I, sample>>]
    /\ UNCHANGED <<sample, chip, offsets, asking, answer, sound, reads, broken>>

WriteOffset ==
    /\ Doing({"write", "write by id"}) /\ On
    /\ \E reg \in IF Head(steps).do = "write" THEN {Head(steps).reg} ELSE Reg(Head(steps)) :
          offsets' = offsets \cup {reg}
    /\ UNCHANGED <<sample, chip, buf, asking, answer, sound, reads, broken>>

\* Nothing came, or the time ran out after some of the bytes.
Breaks ==
    /\ Doing({"read", "read by id", "identify", "write", "write by id"}) /\ On
    /\ broken < MaxBroken /\ broken' = broken + 1 /\ sound' = FALSE
    /\ \E n \in 0..1, reg \in IF Doing({"read"}) THEN Reg(Head(steps)) ELSE {0} :
          buf' = [i \in 0..13 |-> IF Doing({"read"}) /\ i < n THEN <<reg + i, sample>> ELSE buf[i]]
    /\ UNCHANGED <<sample, chip, offsets, asking, answer, reads>>

Return14 ==
    /\ Doing({"return"}) /\ On
    /\ answer' = [i \in DOMAIN Head(steps).words |->
                    <<buf[Head(steps).words[i][1]], buf[Head(steps).words[i][2]]>>]
    /\ UNCHANGED <<sample, chip, offsets, buf, asking, sound, reads, broken>>

NewSample ==
    /\ sample < MaxSamples /\ sample' = sample + 1
    /\ UNCHANGED <<chip, offsets, buf, steps, asking, answer, sound, reads, broken>>

MeasureNext ==
    \/ StartRead \/ StartOffset \/ ReadBytes \/ ReadIdentity \/ WriteOffset \/ Breaks
    \/ Return14 \/ NewSample

MeasureSpec == MeasureInit /\ [][MeasureNext]_measureVars

(***************************************************************************)
(* Properties.                                                             *)
(***************************************************************************)
\* What a call returns whose transactions all succeeded is what its name
\* says, high byte first, all of it of one sample, from whichever chip and
\* whatever the calls before have left in the buffer; and without a failed
\* transaction an offset is written where this chip has it.
WordsInPlace ==
    /\ answer # <<>> /\ sound =>
          \E s \in 0..sample : \A i \in DOMAIN answer :
              LET r == Sheet(chip)[asking[i]] IN answer[i] = << <<r, s>>, <<r + 1, s>> >>
    /\ broken = 0 =>
          offsets \subseteq {Sheet(chip)[n] : n \in {"xa", "ya", "za", "xg", "yg", "zg"}}
=============================================================================
