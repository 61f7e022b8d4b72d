------------------------------ MODULE MpuProofs ------------------------------
(***************************************************************************)
(* Theorems about Mpu6050: the offsets the calibration writes, the packets *)
(* of the FIFO, the words the getters return, the settings and the blocks  *)
(* of the DMP's memory, whatever the sizes of the FIFO, of the packets and *)
(* of the memory and the number of loops, calls and faults.                *)
(***************************************************************************)
EXTENDS Mpu6050, SequenceTheorems, TLAPS

(* The calibration of the accelerometer keeps bit 0 of the offset          *)
(* registers.                                                              *)

Working == {"round", "endOfLoop", "reset"}

(* Where the call is, and the types the argument needs.                    *)
CalTypeOK ==
    /\ step \in {"idle", "read"} \union Working
    /\ accel \in BOOLEAN
    /\ axis \in 0..3
    /\ BitZero \in [Axes -> Bits01]
    /\ lowBit \in [Axes -> Bits01]
    /\ first \in [Axes -> Bits01]
    /\ failedReads \in Nat

(* Nothing is written while the offsets are read, and what has been read   *)
(* without a failure is what the registers hold.                           *)
ReadSoFar ==
    step = "read" =>
        /\ lowBit = first
        /\ failedReads = 0 => \A a \in 1..axis : BitZero[a] = first[a]

(* From then on the bits read are those the call began with, and what each *)
(* write puts back.                                                        *)
BitsRead ==
    step \in Working /\ accel /\ failedReads = 0 => BitZero = first /\ lowBit = first

CalInv == CalTypeOK /\ ReadSoFar /\ BitsRead

(* The initial state satisfies the invariant.                              *)
LEMMA CalInitial == CalibrateInit => CalInv
<1> SUFFICES ASSUME CalibrateInit PROVE CalInv
  OBVIOUS
<1>1. BitZero \in [Axes -> Bits01]
  <2>1. 0 \in Bits01
    BY DEF Bits01
  <2>2. [a \in Axes |-> 0] \in [Axes -> Bits01]
    BY <2>1
  <2> QED
    BY <2>2 DEF CalibrateInit
<1>2. axis \in 0..3 /\ failedReads \in Nat
  BY DEF CalibrateInit
<1>3. /\ step \in {"idle", "read"} \union Working
      /\ accel \in BOOLEAN
      /\ lowBit \in [Axes -> Bits01] /\ first \in [Axes -> Bits01]
  BY Zenon DEF CalibrateInit
<1>4. CalTypeOK
  BY <1>1, <1>2, <1>3 DEF CalTypeOK
<1> QED
  BY <1>4 DEF CalibrateInit, CalInv, ReadSoFar, BitsRead, Working

(* A call starts from what the registers hold.                             *)
LEMMA StartKeeps == CalInv /\ StartCalibrate => CalInv'
  BY DEF StartCalibrate, CalInv, CalTypeOK, ReadSoFar, BitsRead, Axes, Bits01, Working

(* Reading one offset extends what has been read by its axis.              *)
LEMMA ReadKeeps == ASSUME CalInv, ReadOffset PROVE CalInv'
<1> USE DEF CalInv
<1>1. /\ axis \in 0..2 /\ axis' = axis + 1 /\ axis' \in Axes
      /\ UNCHANGED <<step, accel, lowBit, first>> /\ step = "read"
  BY DEF ReadOffset, CalTypeOK, Axes
<1>2. CASE BitZero' = [BitZero EXCEPT ![axis'] = lowBit[axis']] /\ UNCHANGED failedReads
  <2>1. CalTypeOK'
    BY <1>1, <1>2 DEF CalTypeOK, Axes, Bits01
  <2>2. ASSUME failedReads = 0, NEW a \in 1..axis' PROVE BitZero'[a] = first[a]
    <3>1. CASE a = axis'
      BY <1>1, <1>2, <3>1 DEF CalTypeOK, ReadSoFar
    <3>2. CASE a # axis'
      <4>1. a \in 1..axis /\ a \in Axes
        BY <1>1, <3>2 DEF Axes
      <4> QED
        BY <1>1, <1>2, <2>2, <3>2, <4>1 DEF CalTypeOK, ReadSoFar
    <3> QED
      BY <3>1, <3>2
  <2> QED
    BY <1>1, <1>2, <2>1, <2>2 DEF ReadSoFar, BitsRead, Working
<1>3. CASE /\ failedReads' = failedReads + 1
           /\ BitZero' = [BitZero EXCEPT ![axis'] = IF axis = 0 THEN @ ELSE BitZero[axis]]
  <2>1. CalTypeOK' /\ failedReads' # 0
    BY <1>1, <1>3 DEF CalTypeOK, Axes, Bits01
  <2> QED
    BY <1>1, <2>1 DEF ReadSoFar, BitsRead, Working
<1> QED
  BY <1>2, <1>3 DEF ReadOffset

(* With all three read, two functions that agree on every axis are one.    *)
LEMMA AllReadKeeps == ASSUME CalInv, AllRead PROVE CalInv'
<1>1. CalTypeOK' /\ step' \in Working
  BY DEF CalInv, CalTypeOK, AllRead, Working
<1>2. failedReads = 0 => \A a \in Axes : BitZero[a] = first[a]
  BY DEF CalInv, ReadSoFar, AllRead, Axes
<1>3. failedReads = 0 => BitZero = first
  BY <1>2 DEF CalInv, CalTypeOK
<1> QED
  BY <1>1, <1>3 DEF CalInv, ReadSoFar, BitsRead, AllRead, Working

(* Every write of the loops puts the bits back.                            *)
LEMMA WriteKeeps == ASSUME CalInv, Round \/ EndOfLoop PROVE CalInv'
<1>1. CalTypeOK' /\ step \in Working /\ step' \in Working
      /\ UNCHANGED <<accel, BitZero, first, failedReads>>
  <2>1. lowBit' \in [Axes -> Bits01]
    BY DEF CalInv, CalTypeOK, Round, EndOfLoop, Written
  <2>2. CASE Round
    BY <2>1, <2>2 DEF CalInv, CalTypeOK, Round, Working
  <2>3. CASE EndOfLoop
    BY <2>1, <2>3 DEF CalInv, CalTypeOK, EndOfLoop, Working
  <2> QED
    BY <2>2, <2>3
<1>2. accel => lowBit' = BitZero
  BY DEF Round, EndOfLoop, Written
<1> QED
  BY <1>1, <1>2 DEF CalInv, ReadSoFar, BitsRead, Working

(* The other steps write nothing.                                          *)
LEMMA RestKeeps == CalInv /\ (LoopIsOver \/ FinalResets \/ Move \/ UNCHANGED calVars) => CalInv'
  BY DEF LoopIsOver, FinalResets, Move, calVars, CalInv, CalTypeOK, ReadSoFar, BitsRead,
         Working

(* A behaviour of the driver is one of its calibration.                    *)
LEMMA CalibrationRuns == MpuSpec => CalibrateInit /\ [][CalibrateNext]_calVars
<1>1. MpuInit => CalibrateInit
  BY DEF MpuInit
<1>2. [MpuNext]_mpuVars => [CalibrateNext]_calVars
  BY DEF MpuNext, Of, mpuVars
<1> QED
  BY <1>1, <1>2, PTL DEF MpuSpec

(* Calibrating the accelerometer leaves bit 0 of its offset registers      *)
(* alone, for any number of loops, rounds and samples and however the      *)
(* robot moves, as long as the offsets could be read.                      *)
THEOREM BitZeroKeptHolds == MpuSpec => []BitZeroKept
<1>1. CalInv /\ [CalibrateNext]_calVars => CalInv'
  BY StartKeeps, ReadKeeps, AllReadKeeps, WriteKeeps, RestKeeps
     DEF CalibrateNext, Calibrating
<1>2. CalInv => BitZeroKept
  BY DEF CalInv, CalTypeOK, ReadSoFar, BitsRead, BitZeroKept, Working
<1> QED
  BY CalInitial, CalibrationRuns, <1>1, <1>2, PTL

-----------------------------------------------------------------------------
(* The packets of the FIFO.                                                *)

(* The byte that is d bytes before the last one, and the last n of them.   *)
AgeOf(d) == LesserOf(d \div Length, MaxAge)
ByteBack(d) == <<AgeOf(d), Length - (d % Length)>>
Stream(n) == [j \in 1..n |-> ByteBack(n - j)]

(* Quotient and remainder are unique.                                      *)
LEMMA DivisionIsUnique ==
    ASSUME NEW p \in Nat, NEW q \in Nat, NEW r \in 0..(Length - 1), NEW s \in 0..(Length - 1),
           p * Length + r = q * Length + s
    PROVE  p = q /\ r = s
<1>0. Length \in Nat \ {0}
  BY FifoAssumption
<1>1. ASSUME NEW x \in Nat, NEW y \in Nat, x < y PROVE x * Length + Length <= y * Length
  <2>1. PICK z \in Nat : y = x + 1 + z
    <3>1. y - x - 1 \in Nat /\ y = x + 1 + (y - x - 1)
      BY <1>1
    <3> QED
      BY <3>1
  <2>2. y * Length = x * Length + Length + z * Length
    BY <1>0, <2>1
  <2>3. z * Length \in Nat /\ x * Length \in Nat
    BY <1>0
  <2> QED
    BY <1>0, <2>2, <2>3
<1>2. p * Length \in Nat /\ q * Length \in Nat
  BY <1>0
<1>3. ~ (p < q) /\ ~ (q < p)
  BY <1>0, <1>1, <1>2
<1>4. p = q
  BY <1>3
<1> QED
  BY <1>2, <1>4

LEMMA Division ==
    ASSUME NEW d \in Nat, NEW q, NEW r, q = d \div Length, r = d % Length
    PROVE  q \in Nat /\ r \in 0..(Length - 1) /\ d = q * Length + r
<1>1. Length \in Nat \ {0} /\ q \in Nat /\ r \in 0..(Length - 1)
  BY FifoAssumption
<1>2. r = d - q * Length
  BY <1>1
<1> QED
  BY ONLY <1>1, <1>2, d \in Nat

(* One packet further back is one older, at the same place.                *)
LEMMA OnePacketBack ==
    ASSUME NEW d \in Nat
    PROVE  (d + Length) \div Length = (d \div Length) + 1 /\ (d + Length) % Length = d % Length
<1> DEFINE q == d \div Length
           r == d % Length
           p == (d + Length) \div Length
           s == (d + Length) % Length
<1>1. d + Length \in Nat /\ Length \in Nat \ {0}
  BY FifoAssumption
<1>2. q \in Nat /\ r \in 0..(Length - 1) /\ d = q * Length + r
  BY Division
<1>3. p \in Nat /\ s \in 0..(Length - 1) /\ d + Length = p * Length + s
  BY <1>1, Division
<1> HIDE DEF p, q, r, s
<1>4. (q + 1) * Length + r = p * Length + s /\ q + 1 \in Nat
  BY <1>1, <1>2, <1>3
<1>5. p = q + 1 /\ s = r
  BY <1>2, <1>3, <1>4, DivisionIsUnique
<1> QED
  BY <1>5 DEF p, q, r, s

LEMMA FirstPackets ==
    /\ \A d \in 0..(Length - 1) : d \div Length = 0 /\ d % Length = d
    /\ \A d \in Length..(2 * Length - 1) : d \div Length = 1 /\ d % Length = d - Length
  BY FifoAssumption

LEMMA ByteBackIs == ASSUME NEW d \in Nat PROVE ByteBack(d) \in Nat \X Int
<1>1. d \div Length \in Nat /\ d % Length \in Nat
  BY Division
<1> QED
  BY <1>1, FifoAssumption DEF ByteBack, AgeOf, LesserOf

(* What the sensor appends goes on with the stream.                        *)
LEMMA StreamGrows ==
    ASSUME NEW n \in Nat
    PROVE  Older(Stream(n)) \o WholePacket(0) = Stream(n + Length)
<1> DEFINE old == Older(Stream(n))
           new == WholePacket(0)
<1>0. Length \in Nat \ {0} /\ MaxAge \in Nat \ {0}
  BY FifoAssumption
<1>1. /\ old \in Seq(Nat \X Nat) /\ Len(old) = n
      /\ \A j \in 1..n : old[j] = ByteBack(n - j + Length)
  <2>1. ASSUME NEW j \in 1..n
        PROVE old[j] = ByteBack(n - j + Length) /\ ByteBack(n - j + Length) \in Nat \X Nat
    <3>1. n - j \in Nat
      OBVIOUS
    <3>2. old[j] = <<IF AgeOf(n - j) < MaxAge THEN AgeOf(n - j) + 1 ELSE MaxAge, Length - ((n - j) % Length)>>
      BY DEF Older, Stream, ByteBack
    <3>3. (n - j + Length) \div Length = ((n - j) \div Length) + 1 /\ (n - j + Length) % Length = (n - j) % Length
      BY <3>1, OnePacketBack
    <3>4. (n - j) \div Length \in Nat /\ (n - j) % Length \in 0..(Length - 1)
      BY <3>1, Division
    <3> QED
      BY <1>0, <3>2, <3>3, <3>4 DEF ByteBack, AgeOf, LesserOf
  <2>2. old = [j \in 1..n |-> old[j]]
    BY DEF Older, Stream
  <2> HIDE DEF old
  <2>3. old \in [1..n -> Nat \X Nat]
    BY <2>1, <2>2
  <2> QED
    BY <2>1, <2>3
<1>2. /\ new \in Seq(Nat \X Nat) /\ Len(new) = Length
      /\ \A j \in 1..Length : new[j] = ByteBack(Length - j)
  <2>1. \A j \in 1..Length : new[j] = <<0, j>>
    BY DEF WholePacket
  <2>2. new \in [1..Length -> Nat \X Nat]
    BY <1>0 DEF WholePacket
  <2>3. \A j \in 1..Length : ByteBack(Length - j) = <<0, j>>
    <3> TAKE j \in 1..Length
    <3>1. Length - j \in 0..(Length - 1)
      BY <1>0
    <3>2. (Length - j) \div Length = 0 /\ (Length - j) % Length = Length - j
      BY <3>1, FirstPackets
    <3>3. Length - (Length - j) = j /\ LesserOf(0, MaxAge) = 0
      BY <1>0 DEF LesserOf
    <3>4. AgeOf(Length - j) = 0
      BY <3>2, <3>3 DEF AgeOf
    <3>5. Length - ((Length - j) % Length) = j
      BY <3>2, <3>3
    <3> QED
      BY <3>4, <3>5, Zenon DEF ByteBack
  <2>4. \A j \in 1..Length : new[j] = ByteBack(Length - j)
    BY <2>1, <2>3
  <2> HIDE DEF new
  <2> QED
    BY <1>0, <2>2, <2>4
<1> HIDE DEF old, new
<1>3. \A j \in 1..(n + Length) : (old \o new)[j] = ByteBack(n + Length - j)
  <2> TAKE j \in 1..(n + Length)
  <2>0. j \in Nat /\ n + Length - j = n - j + Length
    BY <1>0
  <2>1. CASE j <= n
    <3>1. j \in 1..n /\ (old \o new)[j] = old[j]
      BY <1>0, <1>1, <1>2, <2>0, <2>1
    <3> QED
      BY <1>1, <2>0, <3>1
  <2>2. CASE j > n
    <3>1. j - n \in 1..Length /\ Length - (j - n) = n + Length - j
      BY <1>0, <2>2
    <3>2. (old \o new)[j] = new[j - n]
      BY <1>0, <1>1, <1>2, <2>2
    <3> QED
      BY <1>2, <3>1, <3>2
  <2> QED
    <3>1. j <= n \/ j > n
      BY <2>0
    <3> QED
      BY <3>1, <2>1, <2>2, Zenon
<1>4. Len(old \o new) = n + Length /\ old \o new \in Seq(Nat \X Nat)
  <2>1. old \o new \in Seq(Nat \X Nat)
    BY <1>1, <1>2, ConcatProperties
  <2>2. Len(old \o new) = Len(old) + Len(new)
    BY <1>1, <1>2, ConcatProperties
  <2> QED
    BY <1>1, <1>2, <2>1, <2>2
<1>5. old \o new = [j \in 1..(n + Length) |-> (old \o new)[j]]
  <2> DEFINE both == old \o new
  <2>1. both \in Seq(Nat \X Nat) /\ Len(both) = n + Length
    BY <1>4
  <2> HIDE DEF both
  <2>2. both = [j \in 1..Len(both) |-> both[j]]
    BY <2>1
  <2> QED
    BY <2>1, <2>2 DEF both
<1>6. old \o new = Stream(n + Length)
  BY <1>0, <1>3, <1>5 DEF Stream
<1> QED
  BY <1>6 DEF old, new

LEMMA StreamIsSeq == ASSUME NEW n \in Nat PROVE Stream(n) \in Seq(Nat \X Int) /\ Len(Stream(n)) = n
<1>1. Stream(n) \in [1..n -> Nat \X Int]
  <2>1. \A j \in 1..n : n - j \in Nat
    OBVIOUS
  <2> QED
    BY <2>1, ByteBackIs DEF Stream
<1> QED
  BY <1>1

(* What is taken from its front leaves a stream.                           *)
LEMMA StreamCut ==
    ASSUME NEW n \in Nat, NEW k \in 0..n
    PROVE  Len(Stream(n)) = n /\ SubSeq(Stream(n), k + 1, n) = Stream(n - k)
<1>1. Stream(n) \in Seq(Nat \X Int) /\ Len(Stream(n)) = n
  BY StreamIsSeq
<1>2. \A j \in 1..(n - k) : SubSeq(Stream(n), k + 1, n)[j] = ByteBack(n - k - j)
  BY <1>1 DEF Stream
<1>3. SubSeq(Stream(n), k + 1, n) = [j \in 1..(n - k) |-> SubSeq(Stream(n), k + 1, n)[j]]
  BY <1>1
<1> QED
  BY <1>1, <1>2, <1>3 DEF Stream

(* The last packet, and the last but one.                                  *)
LEMMA StreamStarts ==
    /\ SubSeq(Stream(Length), 1, Length) = WholePacket(0)
    /\ SubSeq(Stream(2 * Length), 1, Length) = WholePacket(1)
<1>0. Length \in Nat \ {0} /\ MaxAge \in Nat \ {0} /\ LesserOf(0, MaxAge) = 0 /\ LesserOf(1, MaxAge) = 1
  BY FifoAssumption DEF LesserOf
<1>1. ASSUME NEW n \in Nat, Length <= n
      PROVE  SubSeq(Stream(n), 1, Length) = [j \in 1..Length |-> ByteBack(n - j)]
  <2>1. Stream(n) \in Seq(Nat \X Int) /\ Len(Stream(n)) = n
    BY StreamIsSeq
  <2>2. /\ SubSeq(Stream(n), 1, Length) \in Seq(Nat \X Int)
        /\ Len(SubSeq(Stream(n), 1, Length)) = Length
        /\ \A j \in 1..Length : SubSeq(Stream(n), 1, Length)[j] = Stream(n)[j]
    BY <1>0, <1>1, <2>1
  <2>3. \A j \in 1..Length : Stream(n)[j] = ByteBack(n - j)
    BY <1>0, <1>1 DEF Stream
  <2> DEFINE s == SubSeq(Stream(n), 1, Length)
  <2>4. \A j \in 1..Length : s[j] = ByteBack(n - j)
    BY <2>2, <2>3
  <2>5. s \in Seq(Nat \X Int) /\ Len(s) = Length
    BY <2>2
  <2> HIDE DEF s
  <2>6. s = [j \in 1..Length |-> s[j]]
    BY <2>5
  <2>7. s = [j \in 1..Length |-> ByteBack(n - j)]
    BY <1>0, <2>4, <2>6
  <2> QED
    BY <2>7 DEF s
<1>2. ASSUME NEW j \in 1..Length
      PROVE ByteBack(Length - j) = <<0, j>> /\ ByteBack(2 * Length - j) = <<1, j>>
  <2>1. /\ (Length - j) \div Length = 0 /\ (Length - j) % Length = Length - j
        /\ (2 * Length - j) \div Length = 1 /\ (2 * Length - j) % Length = Length - j
    <3>1. Length - j \in 0..(Length - 1)
      BY <1>0
    <3>2. 2 * Length - j \in Length..(2 * Length - 1)
      BY <1>0
    <3>3. (2 * Length - j) - Length = Length - j
      BY <1>0
    <3> QED
      BY <3>1, <3>2, <3>3, FirstPackets
  <2>2. Length - (Length - j) = j
    BY <1>0
  <2>3. AgeOf(Length - j) = 0 /\ AgeOf(2 * Length - j) = 1
    BY <1>0, <2>1 DEF AgeOf
  <2>4. Length - ((Length - j) % Length) = j /\ Length - ((2 * Length - j) % Length) = j
    BY <2>1, <2>2
  <2> QED
    BY <2>3, <2>4, Zenon DEF ByteBack
<1>3. /\ SubSeq(Stream(Length), 1, Length) = [j \in 1..Length |-> ByteBack(Length - j)]
      /\ SubSeq(Stream(2 * Length), 1, Length) = [j \in 1..Length |-> ByteBack(2 * Length - j)]
  <2>1. 2 * Length \in Nat /\ Length <= 2 * Length /\ Length <= Length /\ Length \in Nat
    BY <1>0
  <2> QED
    BY <1>1, <2>1
<1> QED
  BY <1>0, <1>2, <1>3 DEF WholePacket

LEMMA PacketAges ==
    ASSUME NEW age \in Nat, age <= MaxAge
    PROVE  Older(WholePacket(age)) = WholePacket(LesserOf(age + 1, MaxAge))
  BY FifoAssumption DEF Older, WholePacket, LesserOf

-----------------------------------------------------------------------------
(* The FIFO holds the last bytes of the stream of packets and nothing      *)
(* else, however it is filled, cut, emptied and read; and from a count of  *)
(* one packet to its fetch at most one more has come.                      *)
FifoTypeOK ==
    /\ quiet \in 0..Gap /\ counted \in Nat /\ fifoC \in Nat
    /\ fresh \in 0..MaxAge
    /\ at \in {"idle", "count", "recount", "await", "reset", "discard", "fetch", "nothing"}
HoldsStream == \E n \in Nat : fifo = Stream(n)
AboutToFetch ==
    at = "fetch" /\ ~failed =>
        \/ fifo = Stream(Length) /\ fresh = 0
        \/ fifo = Stream(2 * Length) /\ fresh = 1 /\ quiet = 0
FifoInv ==
    /\ FifoTypeOK /\ HoldsStream /\ AboutToFetch
    /\ at # "idle" => back # 1
    /\ LatestWholePacket

LEMMA FifoInitial == FifoInit => FifoInv
<1> SUFFICES ASSUME FifoInit PROVE FifoInv
  OBVIOUS
<1>1. Stream(0) = <<>>
  <2>1. Stream(0) \in Seq(Nat \X Int) /\ Len(Stream(0)) = 0
    BY StreamIsSeq
  <2> QED
    BY <2>1
<1>2. HoldsStream
  BY <1>1 DEF FifoInit, HoldsStream
<1> QED
  <2>1. FifoTypeOK
    BY FifoAssumption DEF FifoInit, FifoTypeOK
  <2> QED
    BY <1>2, <2>1 DEF FifoInit, FifoInv, AboutToFetch, LatestWholePacket

(* A FIFO that is full loses its oldest bytes.                             *)
LEMMA CappedStream ==
    ASSUME NEW n \in Nat
    PROVE  /\ \E m \in Nat : Capped(Stream(n)) = Stream(m)
           /\ n <= Capacity => Capped(Stream(n)) = Stream(n)
<1>1. Len(Stream(n)) = n /\ Capacity \in Nat
  BY StreamIsSeq, FifoAssumption
<1>2. CASE n <= Capacity
  BY <1>1, <1>2 DEF Capped
<1>3. CASE n > Capacity
  <2>1. n - Capacity \in 0..n /\ n - (n - Capacity) \in Nat
    BY <1>1, <1>3
  <2>2. SubSeq(Stream(n), n - Capacity + 1, n) = Stream(n - (n - Capacity))
    BY <2>1, StreamCut
  <2> QED
    BY <1>1, <1>3, <2>1, <2>2 DEF Capped
<1> QED
  BY <1>1, <1>2, <1>3

LEMMA PacketKeeps == ASSUME FifoInv, Packet PROVE FifoInv'
<1>0. Length \in Nat \ {0} /\ MaxAge \in Nat \ {0} /\ Gap \in Nat \ {0} /\ 2 * Length <= Capacity /\ Capacity \in Nat
  BY FifoAssumption
<1>1. \A n \in Nat : fifo = Stream(n) => fifo' = Capped(Stream(n + Length)) /\ n + Length \in Nat
  <2> TAKE n \in Nat
  <2>1. Older(Stream(n)) \o WholePacket(0) = Stream(n + Length)
    BY StreamGrows
  <2>2. fifo' = Capped(Older(fifo) \o WholePacket(0))
    BY DEF Packet
  <2> QED
    <3>1. fifo = Stream(n) => fifo' = Capped(Stream(n + Length))
      BY <2>1, <2>2, Zenon
    <3> QED
      BY <1>0, <3>1
<1>2. HoldsStream'
  BY <1>1, CappedStream DEF FifoInv, HoldsStream
<1>3. FifoTypeOK' /\ (at' # "idle" => back' # 1)
  BY <1>0 DEF Packet, FifoInv, FifoTypeOK, LesserOf
<1>4. AboutToFetch'
  <2> SUFFICES ASSUME at = "fetch", ~failed
               PROVE  fifo' = Stream(2 * Length) /\ fresh' = 1 /\ quiet' = 0
    BY DEF AboutToFetch, Packet
  <2>1. quiet = Gap
    BY DEF Packet
  <2>2. fifo = Stream(Length) /\ fresh = 0
    BY <1>0, <2>1 DEF FifoInv, AboutToFetch
  <2>3. fifo' = Capped(Stream(2 * Length))
    <3>1. Length + Length = 2 * Length
      BY <1>0
    <3> QED
      BY <1>0, <1>1, <2>2, <3>1
  <2>4. fifo' = Stream(2 * Length)
    BY <1>0, <2>3, CappedStream
  <2> QED
    BY <1>0, <2>2, <2>4 DEF Packet, LesserOf
<1>5. LatestWholePacket'
  <2> SUFFICES ASSUME at = "idle", back = 1, ~failed
               PROVE  \E age \in 0..fresh' : data' = WholePacket(age)
    BY DEF LatestWholePacket, Packet
  <2>1. PICK age \in 0..fresh : data = WholePacket(age)
    BY DEF FifoInv, LatestWholePacket
  <2>2. data' = WholePacket(LesserOf(age + 1, MaxAge))
    BY <1>0, <2>1, PacketAges DEF FifoInv, FifoTypeOK, Packet
  <2>3. LesserOf(age + 1, MaxAge) \in 0..fresh'
    BY <1>0 DEF LesserOf, FifoInv, FifoTypeOK, Packet
  <2> QED
    BY <2>2, <2>3
<1> QED
  BY <1>2, <1>3, <1>4, <1>5 DEF FifoInv

LEMMA TransactedIs == FifoTypeOK /\ Transacted => quiet' \in 0..Gap
  BY FifoAssumption DEF FifoTypeOK, Transacted, LesserOf

(* A count of exactly one packet is what leads to the fetch.               *)
LEMMA CountLeads ==
    ASSUME FifoTypeOK, Counting, NEW n \in Nat, Counted(n)
    PROVE  /\ at' \in {"nothing", "fetch", "count", "reset", "recount", "discard", "await"}
           /\ at' = "fetch" => n = Length
           /\ fifoC' \in Nat
           /\ back' = back \/ back' = 0
<1>0. Length \in Nat \ {0} /\ TooMany \in Nat
  BY FifoAssumption
<1>1. /\ at' \in {"nothing", "fetch", "count", "reset", "recount", "discard", "await"}
      /\ at' = "fetch" => n = Length
      /\ at' = "discard" => n > Length
  <2>1. /\ Conclude(n) \in {"nothing", "fetch", "count"}
        /\ Conclude(n) = "fetch" => n = Length
    BY <1>0 DEF Conclude
  <2>2. CASE at = "count"
    BY <1>0, <2>1, <2>2 DEF Counted, Following, AfterCount
  <2>3. CASE at = "recount"
    BY <1>0, <2>1, <2>3 DEF Counted, Following, AfterRecount
  <2>4. CASE at = "await"
    BY <1>0, <2>1, <2>4 DEF Counted, Following, AfterReset
  <2> QED
    BY <2>2, <2>3, <2>4 DEF Counting
<1> QED
  BY <1>0, <1>1 DEF Counted, ToDiscard

LEMMA CountKeeps == ASSUME FifoInv, GetFIFOCount \/ GetFIFOCountFails PROVE FifoInv'
<1>0. Gap \in Nat \ {0} /\ MaxAge \in Nat \ {0}
  BY FifoAssumption
<1>1. PICK n \in Nat : fifo = Stream(n) /\ Len(fifo) = n
  BY StreamIsSeq DEF FifoInv, HoldsStream
<1>2. fifo' = fifo /\ data' = data /\ quiet' \in 0..Gap /\ at # "idle"
  BY <1>0 DEF GetFIFOCount, GetFIFOCountFails, Counting, Transacted, LesserOf, FifoInv, FifoTypeOK
<1>3. CASE GetFIFOCount
  <2>1. Counting /\ Counted(n) /\ counted' = n /\ fresh' = 0 /\ failed' = failed
    BY <1>1, <1>3 DEF GetFIFOCount
  <2>2. /\ at' \in {"nothing", "fetch", "count", "reset", "recount", "discard", "await"}
        /\ at' = "fetch" => n = Length
        /\ fifoC' \in Nat /\ (back' = back \/ back' = 0)
    BY <2>1, CountLeads DEF FifoInv
  <2> QED
    BY <1>0, <1>1, <1>2, <2>1, <2>2 DEF FifoInv, FifoTypeOK, HoldsStream, AboutToFetch,
       LatestWholePacket
<1>4. CASE GetFIFOCountFails
  <2>1. Counting /\ Counted(counted) /\ counted' = counted /\ fresh' = fresh /\ failed' = TRUE
    BY <1>4 DEF GetFIFOCountFails
  <2>2. /\ at' \in {"nothing", "fetch", "count", "reset", "recount", "discard", "await"}
        /\ fifoC' \in Nat /\ (back' = back \/ back' = 0)
    BY <2>1, CountLeads DEF FifoInv, FifoTypeOK
  <2> QED
    BY <1>0, <1>1, <1>2, <2>1, <2>2 DEF FifoInv, FifoTypeOK, HoldsStream, AboutToFetch,
       LatestWholePacket
<1> QED
  BY <1>3, <1>4

(* What is read away comes off the front.                                  *)
LEMMA CutKeeps ==
    ASSUME HoldsStream, NEW n \in Nat
    PROVE \E m \in Nat : SubSeq(fifo, Taken(n) + 1, Len(fifo)) = Stream(m)
<1>1. PICK k \in Nat : fifo = Stream(k) /\ Len(fifo) = k
  BY StreamIsSeq DEF HoldsStream
<1>2. Taken(n) \in 0..k
  BY <1>1 DEF Taken, LesserOf
<1>3. SubSeq(fifo, Taken(n) + 1, Len(fifo)) = Stream(k - Taken(n)) /\ k - Taken(n) \in Nat
  <2> DEFINE t == Taken(n)
  <2>1. t \in 0..k
    BY <1>2
  <2> HIDE DEF t
  <2>2. SubSeq(Stream(k), t + 1, k) = Stream(k - t) /\ k - t \in Nat
    BY <2>1, StreamCut
  <2> QED
    BY <1>1, <2>2 DEF t
<1> QED
  BY <1>3

LEMMA ReadsKeep ==
    ASSUME FifoInv, ResetFifo \/ ResetFails \/ Discard \/ DiscardFails PROVE FifoInv'
<1>0. Gap \in Nat \ {0} /\ MaxAge \in Nat \ {0} /\ BufferLength \in Nat \ {0}
  BY FifoAssumption
<1>1. /\ quiet' \in 0..Gap /\ at # "idle" /\ at' \in {"await", "recount", "discard"}
      /\ back' = back /\ fifoC' \in Nat /\ UNCHANGED <<counted, fresh, data>>
  <2>1. Transacted /\ (at # "idle") /\ back' = back /\ UNCHANGED <<counted, fresh, data>>
        /\ at' \in {"await", "recount", "discard"}
    BY DEF ResetFifo, ResetFails, Discard, DiscardFails
  <2>2. quiet' \in 0..Gap
    BY <1>0, <2>1, TransactedIs DEF FifoInv
  <2>3. fifoC' = 0 \/ fifoC' = fifoC - LesserOf(fifoC, BufferLength)
    BY DEF ResetFifo, ResetFails, Discard, DiscardFails
  <2>4. fifoC' \in Nat
    BY <1>0, <2>3 DEF LesserOf, FifoInv, FifoTypeOK
  <2> QED
    BY <2>1, <2>2, <2>4 DEF FifoInv, FifoTypeOK
<1>2. HoldsStream'
  <2>1. CASE ResetFifo
    <3>1. Stream(0) = <<>>
      <4>1. Stream(0) \in Seq(Nat \X Int) /\ Len(Stream(0)) = 0
        BY StreamIsSeq
      <4> QED
        BY <4>1
    <3> QED
      BY <2>1, <3>1 DEF ResetFifo, HoldsStream
  <2>2. CASE Discard
    <3>1. LesserOf(fifoC, BufferLength) \in Nat
      BY <1>0 DEF LesserOf, FifoInv, FifoTypeOK
    <3> QED
      BY <2>2, <3>1, CutKeeps DEF Discard, HoldsStream, FifoInv
  <2>3. CASE ResetFails \/ DiscardFails
    BY <2>3 DEF ResetFails, DiscardFails, HoldsStream, FifoInv
  <2> QED
    BY <2>1, <2>2, <2>3
<1> QED
  BY <1>1, <1>2 DEF FifoInv, FifoTypeOK, AboutToFetch, LatestWholePacket

LEMMA FetchKeeps == ASSUME FifoInv, Fetch \/ FetchFails PROVE FifoInv'
<1>0. Gap \in Nat \ {0} /\ MaxAge \in Nat \ {0} /\ Length \in Nat \ {0}
  BY FifoAssumption
<1>1. /\ FifoTypeOK' /\ at' = "idle" /\ at = "fetch" /\ fresh' = fresh
  <2>1. /\ Transacted /\ at' = "idle" /\ at = "fetch" /\ UNCHANGED <<counted, fifoC, fresh>>
    BY DEF Fetch, FetchFails
  <2>2. quiet' \in 0..Gap
    BY <2>1, TransactedIs DEF FifoInv
  <2> QED
    BY <2>1, <2>2 DEF FifoInv, FifoTypeOK
<1>2. CASE Fetch
  <2>1. HoldsStream'
    BY <1>0, <1>2, CutKeeps DEF Fetch, HoldsStream, FifoInv
  <2>2. ASSUME ~failed PROVE \E age \in 0..fresh : data' = WholePacket(age)
    <3>1. Len(Stream(Length)) = Length /\ Len(Stream(2 * Length)) = 2 * Length
      BY <1>0, StreamIsSeq
    <3>2. data' = SubSeq(fifo, 1, Taken(Length))
      BY <1>2 DEF Fetch
    <3>3. CASE fifo = Stream(Length) /\ fresh = 0
      <4>1. Taken(Length) = Length
        BY <1>0, <3>1, <3>3 DEF Taken, LesserOf
      <4> QED
        BY <3>2, <3>3, <4>1, StreamStarts
    <3>4. CASE fifo = Stream(2 * Length) /\ fresh = 1
      <4>1. Taken(Length) = Length
        BY <1>0, <3>1, <3>4 DEF Taken, LesserOf
      <4> QED
        BY <3>2, <3>4, <4>1, StreamStarts
    <3> QED
      BY <1>1, <2>2, <3>3, <3>4 DEF FifoInv, AboutToFetch
  <2> QED
    BY <1>1, <1>2, <2>1, <2>2 DEF FifoInv, AboutToFetch, LatestWholePacket, Fetch
<1>3. CASE FetchFails
  BY <1>1, <1>3 DEF FifoInv, HoldsStream, AboutToFetch, LatestWholePacket, FetchFails
<1> QED
  BY <1>2, <1>3

LEMMA FifoKept == FifoInv /\ [FifoNext]_fifoVars => FifoInv'
<1> SUFFICES ASSUME FifoInv, [FifoNext]_fifoVars PROVE FifoInv'
  OBVIOUS
<1>1. CASE Packet
  BY <1>1, PacketKeeps
<1>2. CASE Tick \/ Return \/ UNCHANGED fifoVars
  BY <1>2 DEF Tick, Return, fifoVars, FifoInv, FifoTypeOK, HoldsStream, AboutToFetch,
     LatestWholePacket
<1>3. CASE StartPacket
  <2>1. FifoTypeOK'
    BY <1>3, FifoAssumption DEF StartPacket, FifoInv, FifoTypeOK
  <2>2. HoldsStream' /\ at' = "count" /\ back' = -1
    BY <1>3 DEF StartPacket, FifoInv, HoldsStream
  <2> QED
    BY <2>1, <2>2 DEF FifoInv, AboutToFetch, LatestWholePacket
<1>4. CASE GetFIFOCount \/ GetFIFOCountFails
  BY <1>4, CountKeeps
<1>5. CASE ResetFifo \/ ResetFails \/ Discard \/ DiscardFails
  BY <1>5, ReadsKeep
<1>6. CASE Fetch \/ FetchFails
  BY <1>6, FetchKeeps
<1> QED
  BY <1>1, <1>2, <1>3, <1>4, <1>5, <1>6 DEF FifoNext, Work

LEMMA FifoRuns == MpuSpec => FifoInit /\ [][FifoNext]_fifoVars
<1>1. MpuInit => FifoInit
  BY DEF MpuInit
<1>2. [MpuNext]_mpuVars => [FifoNext]_fifoVars
  BY DEF MpuNext, Of, mpuVars
<1> QED
  BY <1>1, <1>2, PTL DEF MpuSpec

(* A call of GetCurrentFIFOPacket that met no fault and says it has a      *)
(* packet has one whole packet, the latest or one that came after the      *)
(* count, for any length of packets and any history of overflows and       *)
(* faults before it.                                                       *)
THEOREM LatestWholePacketHolds == MpuSpec => []LatestWholePacket
<1>1. FifoInv => LatestWholePacket
  BY DEF FifoInv
<1> QED
  BY FifoInitial, FifoKept, FifoRuns, <1>1, PTL

-----------------------------------------------------------------------------
(* An address is the one its table names.                                  *)
LEMMA RegistersOf ==
    /\ \A n \in DOMAIN OffsetRegisters : RA[n] = OffsetRegisters[n]
    /\ \A n \in DOMAIN ConfigRegisters : RA[n] = ConfigRegisters[n]
    /\ \A n \in DOMAIN DataRegisters : RA[n] = DataRegisters[n]
<1>1. DOMAIN OffsetRegisters \cap DOMAIN ConfigRegisters = {}
  BY DEF OffsetRegisters, ConfigRegisters
<1>2. DOMAIN OffsetRegisters \cap DOMAIN DataRegisters = {}
  BY DEF OffsetRegisters, DataRegisters
<1>3. DOMAIN ConfigRegisters \cap DOMAIN DataRegisters = {}
  BY DEF ConfigRegisters, DataRegisters
<1> QED
  BY <1>1, <1>2, <1>3 DEF RA

LEMMA MeasuredAt ==
    /\ RA.ACCEL_XOUT_H = 59 /\ RA.ACCEL_YOUT_H = 61 /\ RA.ACCEL_ZOUT_H = 63
    /\ RA.TEMP_OUT_H = 65 /\ RA.GYRO_XOUT_H = 67 /\ RA.GYRO_YOUT_H = 69
    /\ RA.GYRO_ZOUT_H = 71 /\ RA.EXT_SENS_DATA_00 = 73 /\ RA.WHO_AM_I = 117
    /\ RA.XA_OFFS_H = 6 /\ RA.XG_OFFS_USRH = 19 /\ RA.YG_OFFS_USRH = 21
    /\ RA.ZG_OFFS_USRH = 23
  BY RegistersOf DEF OffsetRegisters, DataRegisters

(* A getter's plan fits the chip: it reads one burst, in which the bytes   *)
(* of every word it returns lie where the data sheet has the quantity the  *)
(* word is for; or, of an accelerometer's offset, first the identity and   *)
(* then where a chip of that identity has it.                              *)
IdRead(a) == [do |-> "read by id", axis |-> a]
IdWrite(a) == [do |-> "write by id", axis |-> a]
Plain(reg) == [do |-> "write", reg |-> reg]
Give(words) == [do |-> "return", words |-> words]

InBurst(g, id) ==
    \E reg \in Nat, n \in 1..14 :
        /\ g.ops = <<Burst(reg, n)>>
        /\ \A k \in DOMAIN g.words :
              \E j \in 0..12 :
                  /\ g.words[k] = <<j, j + 1>> /\ j + 1 < n
                  /\ reg + j = Sheet(id)[g.names[k]]

ById(g, id) ==
    \E a \in 0..2 :
        /\ g.ops = <<Identify, IdRead(a)>>
        /\ g.words = <<Word(0)>>
        /\ Sheet(id)[g.names[1]] = AccelOffset(a, id)

LEMMA Kinds ==
    /\ Identify.do = "identify"
    /\ \A a : IdRead(a).do = "read by id" /\ IdRead(a).axis = a
    /\ \A a : IdWrite(a).do = "write by id" /\ IdWrite(a).axis = a
    /\ \A reg : Plain(reg).do = "write" /\ Plain(reg).reg = reg
    /\ \A words : Give(words).do = "return" /\ Give(words).words = words
    /\ \A reg, n : /\ Burst(reg, n).do = "read" /\ Burst(reg, n).reg = reg
                   /\ Burst(reg, n).n = n
  BY DEF Identify, IdRead, IdWrite, Plain, Give, Burst

LEMMA SimpleFits ==
    ASSUME NEW id \in Chips, NEW name, NEW reg \in Nat, Sheet(id)[name] = reg
    PROVE  InBurst(Simple(reg, name), id)
<1> DEFINE g == Simple(reg, name)
<1>1. g.ops = <<Burst(reg, 2)>> /\ g.names = <<name>> /\ g.words = << <<0, 1>> >>
  BY DEF Simple, Getter, Word
<1>2. ASSUME NEW k \in DOMAIN g.words
      PROVE  \E j \in 0..12 : /\ g.words[k] = <<j, j + 1>> /\ j + 1 < 2
                              /\ reg + j = Sheet(id)[g.names[k]]
  <2>1. k = 1
    BY <1>1
  <2> QED
    BY <1>1, <2>1
<1> QED
  BY <1>1, <1>2, SMTT(60) DEF InBurst

LEMMA ByIdFits ==
    ASSUME NEW id \in Chips, NEW name, NEW a \in 0..2,
           Sheet(id)[name] = AccelOffset(a, id)
    PROVE  ById(GetAccelOffset(name, a), id)
  BY DEF ById, GetAccelOffset, Getter, IdRead

LEMMA GettersFit ==
    ASSUME NEW id \in Chips, NEW g \in Getters
    PROVE  InBurst(g, id) \/ ById(g, id)
<1> USE MeasuredAt
<1>0. /\ Sheet(id).ax = 59 /\ Sheet(id).ay = 61 /\ Sheet(id).az = 63
      /\ Sheet(id).temperature = 65 /\ Sheet(id).gx = 67 /\ Sheet(id).gy = 69
      /\ Sheet(id).gz = 71 /\ Sheet(id).xg = 19 /\ Sheet(id).yg = 21
      /\ Sheet(id).zg = 23 /\ Sheet(id).ext = 73
  BY DEF Sheet
<1>1. CASE g = GetMotion6
  <2>1. \A k \in 1..6 : Motion6[k] = 59 + 2 * (IF k <= 3 THEN k - 1 ELSE k)
    BY DEF Motion6
  <2>2. g.ops = <<Burst(59, 14)>>
    BY <1>1, <2>1 DEF GetMotion6, Getter
  <2>3. /\ g.names = <<"ax", "ay", "az", "gx", "gy", "gz">>
        /\ g.words = [k \in 1..6 |-> Word((Motion6[k] - Motion6[1]) \div 2)]
    BY <1>1 DEF GetMotion6, Getter
  <2>4. \A k \in 1..6 : (Motion6[k] - Motion6[1]) \div 2 = (IF k <= 3 THEN k - 1 ELSE k)
    BY <2>1
  <2>5. ASSUME NEW k \in DOMAIN g.words
        PROVE  \E j \in 0..12 : /\ g.words[k] = <<j, j + 1>> /\ j + 1 < 14
                                /\ 59 + j = Sheet(id)[g.names[k]]
    <3>1. k \in 1..6
      BY <2>3
    <3>2. g.words[k] = Word(IF k <= 3 THEN k - 1 ELSE k)
      BY <2>3, <2>4, <3>1
    <3>3. CASE k \in 1..3
      <4>1. g.words[k] = <<2 * (k - 1), 2 * (k - 1) + 1>> /\ 2 * (k - 1) \in 0..4
        BY <3>2, <3>3 DEF Word
      <4>2. 59 + 2 * (k - 1) = Sheet(id)[g.names[k]]
        <5>1. k = 1 \/ k = 2 \/ k = 3
          BY <3>3
        <5>2. g.names[1] = "ax" /\ g.names[2] = "ay" /\ g.names[3] = "az"
          BY <2>3
        <5> QED
          BY <1>0, <5>1, <5>2
      <4> QED
        BY <4>1, <4>2
    <3>4. CASE k \in 4..6
      <4>1. g.words[k] = <<2 * k, 2 * k + 1>> /\ 2 * k \in 8..12
        BY <3>2, <3>4 DEF Word
      <4>2. 59 + 2 * k = Sheet(id)[g.names[k]]
        BY <1>0, <2>3, <3>4
      <4> QED
        BY <4>1, <4>2
    <3> QED
      BY <3>1, <3>3, <3>4
  <2> QED
    BY <2>2, <2>5, SMTT(20) DEF InBurst
<1>2. CASE g = GetAcceleration
  <2>1. /\ g.ops = <<Burst(59, 6)>> /\ g.names = <<"ax", "ay", "az">>
        /\ g.words = [k \in 1..3 |-> <<2 * (k - 1), 2 * (k - 1) + 1>>]
    BY <1>2 DEF GetAcceleration, Getter, Word
  <2>2. ASSUME NEW k \in DOMAIN g.words
        PROVE  \E j \in 0..12 : /\ g.words[k] = <<j, j + 1>> /\ j + 1 < 6
                                /\ 59 + j = Sheet(id)[g.names[k]]
    <3>1. k \in 1..3 /\ 59 + 2 * (k - 1) = Sheet(id)[g.names[k]]
      <4>1. k = 1 \/ k = 2 \/ k = 3
        BY <2>1
      <4>2. g.names[1] = "ax" /\ g.names[2] = "ay" /\ g.names[3] = "az"
        BY <2>1
      <4> QED
        BY <1>0, <4>1, <4>2
    <3>2. 2 * (k - 1) \in 0..4 /\ g.words[k] = <<2 * (k - 1), 2 * (k - 1) + 1>>
      BY <2>1, <3>1
    <3> QED
      BY <3>1, <3>2
  <2>3. g.ops = <<Burst(59, 6)>>
    BY <2>1
  <2> QED
    BY <2>2, <2>3 DEF InBurst
<1>3. CASE g = GetRotation
  <2>1. /\ g.ops = <<Burst(67, 6)>> /\ g.names = <<"gx", "gy", "gz">>
        /\ g.words = [k \in 1..3 |-> <<2 * (k - 1), 2 * (k - 1) + 1>>]
    BY <1>3 DEF GetRotation, Getter, Word
  <2>2. ASSUME NEW k \in DOMAIN g.words
        PROVE  \E j \in 0..12 : /\ g.words[k] = <<j, j + 1>> /\ j + 1 < 6
                                /\ 67 + j = Sheet(id)[g.names[k]]
    <3>1. k \in 1..3 /\ 67 + 2 * (k - 1) = Sheet(id)[g.names[k]]
      <4>1. k = 1 \/ k = 2 \/ k = 3
        BY <2>1
      <4>2. g.names[1] = "gx" /\ g.names[2] = "gy" /\ g.names[3] = "gz"
        BY <2>1
      <4> QED
        BY <1>0, <4>1, <4>2
    <3>2. 2 * (k - 1) \in 0..4 /\ g.words[k] = <<2 * (k - 1), 2 * (k - 1) + 1>>
      BY <2>1, <3>1
    <3> QED
      BY <3>1, <3>2
  <2>3. g.ops = <<Burst(67, 6)>>
    BY <2>1
  <2> QED
    BY <2>2, <2>3, SMTT(20) DEF InBurst
<1>4. CASE \/ g = GetSensorWord(0) \/ g = Simple(Accelerations.AccelerationX, "ax")
           \/ g = Simple(Accelerations.AccelerationY, "ay")
           \/ g = Simple(Accelerations.AccelerationZ, "az")
           \/ g = Simple(Temperature.Temperature, "temperature")
  <2>1. \/ g = Simple(73, "ext") \/ g = Simple(59, "ax") \/ g = Simple(61, "ay")
        \/ g = Simple(63, "az") \/ g = Simple(65, "temperature")
    BY <1>4 DEF GetSensorWord, Accelerations, Temperature
  <2> QED
    BY <1>0, <2>1, SimpleFits
<1>5. CASE \/ g = Simple(Rotations.RotationX, "gx") \/ g = Simple(Rotations.RotationY, "gy")
           \/ g = Simple(Rotations.RotationZ, "gz") \/ g = Simple(GyroOffsets.XGyroOffset, "xg")
           \/ g = Simple(GyroOffsets.YGyroOffset, "yg")
           \/ g = Simple(GyroOffsets.ZGyroOffset, "zg")
  <2>1. \/ g = Simple(67, "gx") \/ g = Simple(69, "gy") \/ g = Simple(71, "gz")
        \/ g = Simple(19, "xg") \/ g = Simple(21, "yg") \/ g = Simple(23, "zg")
    BY <1>5 DEF Rotations, GyroOffsets
  <2> QED
    BY <1>0, <2>1, SimpleFits
<1>6. CASE \/ g = GetAccelOffset("xa", 0) \/ g = GetAccelOffset("ya", 1)
           \/ g = GetAccelOffset("za", 2)
  <2>1. /\ Sheet(id).xa = AccelOffset(0, id) /\ Sheet(id).ya = AccelOffset(1, id)
        /\ Sheet(id).za = AccelOffset(2, id)
    BY DEF Sheet, AccelOffset, Chips
  <2> QED
    BY <1>6, <2>1, ByIdFits
<1> QED
  BY <1>1, <1>2, <1>3, <1>4, <1>5, <1>6 DEF Getters

(* The words the buffer holds are the quantities a call is for, all of one *)
(* sample.                                                                 *)
InPlace(words, names) ==
    \E s \in 0..sample : \A k \in DOMAIN words :
        LET r == Sheet(chip)[names[k]]
        IN <<buf[words[k][1]], buf[words[k][2]]>> = << <<r, s>>, <<r + 1, s>> >>

KnowsChip == sound => buf[0][1] = RA.WHO_AM_I

(* Where a getter may be: before its first transaction, between the two of *)
(* an accelerometer's offset, or at its return.                            *)
Reading(g) ==
    /\ asking = g.names
    /\ \/ steps = Append(g.ops, Give(g.words))
       \/ /\ ById(g, chip) /\ KnowsChip
          /\ steps = <<g.ops[2], Give(g.words)>>
       \/ /\ steps = <<Give(g.words)>>
          /\ sound => InPlace(g.words, g.names)

Writing ==
    \/ \E a \in 0..2 :
          \/ steps = <<Identify, IdWrite(a)>>
          \/ steps = <<IdWrite(a)>> /\ KnowsChip
    \/ \E reg \in {19, 21, 23} : steps = <<Plain(reg)>>

MeasureTypeOK ==
    /\ sample \in Nat /\ chip \in Chips /\ broken \in Nat
    /\ buf = [k \in 0..13 |-> buf[k]]

(* What each step leaves to the next.                                      *)
MeasureInv ==
    /\ MeasureTypeOK
    /\ broken = 0 => sound
    /\ steps = <<>> \/ Writing \/ \E g \in Getters : Reading(g)
    /\ answer # <<>> => steps = <<>>
    /\ WordsInPlace

LEMMA MeasureInitial == MeasureInit => MeasureInv
<1> SUFFICES ASSUME MeasureInit PROVE MeasureInv
  OBVIOUS
<1>1. MeasureTypeOK /\ steps = <<>> /\ answer = <<>> /\ offsets = {} /\ sound
  BY DEF MeasureInit, MeasureTypeOK
<1> QED
  BY <1>1 DEF MeasureInv, WordsInPlace

(* Plans are as long as their transactions, and one more.                  *)
LEMMA Plans ==
    ASSUME NEW x, NEW y
    PROVE  /\ Append(<<x>>, y) = <<x, y>> /\ Head(<<x, y>>) = x /\ Tail(<<x, y>>) = <<y>>
           /\ Head(<<x>>) = x /\ Tail(<<x>>) = <<>> /\ <<x>> # <<>> /\ <<x, y>> # <<>>
<1>1. Append(<<x>>, y) = <<x, y>>
  <2>1. <<x>> \in Seq({x, y}) /\ <<x, y>> \in Seq({x, y}) /\ Len(<<x>>) = 1
    OBVIOUS
  <2> DEFINE w == Append(<<x>>, y)
  <2>2. w \in Seq({x, y}) /\ Len(w) = 2 /\ w[1] = x /\ w[2] = y
    BY <2>1, AppendProperties
  <2> HIDE DEF w
  <2>3. w = <<x, y>>
    BY <2>1, <2>2, SeqEqual
  <2> QED
    BY <2>3 DEF w
<1> QED
  BY <1>1
LEMMA LongerPlans ==
    ASSUME NEW x, NEW y, NEW z
    PROVE  /\ Append(<<x, y>>, z) = <<x, y, z>> /\ Head(<<x, y, z>>) = x
           /\ Tail(<<x, y, z>>) = <<y, z>> /\ <<x, y, z>> # <<>>
<1>1. Append(<<x, y>>, z) = <<x, y, z>>
  <2>1. <<x, y>> \in Seq({x, y, z}) /\ <<x, y, z>> \in Seq({x, y, z}) /\ Len(<<x, y>>) = 2
    OBVIOUS
  <2> DEFINE w == Append(<<x, y>>, z)
  <2>2. w \in Seq({x, y, z}) /\ Len(w) = 3 /\ w[1] = x /\ w[2] = y /\ w[3] = z
    BY <2>1, AppendProperties
  <2> HIDE DEF w
  <2>3. w = <<x, y, z>>
    BY <2>1, <2>2, SeqEqual
  <2> QED
    BY <2>3 DEF w
<1> QED
  BY <1>1

(* The two plans of a getter, spelled out, and the kinds of their steps.   *)
LEMMA PlanOf ==
    ASSUME NEW g \in Getters, NEW id \in Chips
    PROVE  LET plan == Append(g.ops, Give(g.words))
           IN \/ /\ InBurst(g, id) /\ Tail(plan) = <<Give(g.words)>> /\ plan # <<>>
                 /\ Head(plan) = g.ops[1] /\ g.ops[1].do = "read"
              \/ /\ ById(g, id) /\ Tail(plan) = <<g.ops[2], Give(g.words)>> /\ plan # <<>>
                 /\ Head(plan) = Identify
<1>1. CASE InBurst(g, id)
  <2>1. PICK reg \in Nat, n \in 1..14 : g.ops = <<Burst(reg, n)>>
    BY <1>1 DEF InBurst
  <2>2. g.ops[1] = Burst(reg, n) /\ g.ops[1].do = "read"
    BY <2>1 DEF Burst
  <2>3. Append(g.ops, Give(g.words)) = <<g.ops[1], Give(g.words)>>
    BY <2>1, <2>2, Plans
  <2> QED
    BY <1>1, <2>2, <2>3, Plans
<1>2. CASE ById(g, id)
  <2>1. PICK read : g.ops = <<Identify, read>>
    BY <1>2, Zenon DEF ById
  <2>2. g.ops[2] = read
    BY <2>1
  <2> DEFINE give == Give(g.words)
             opening == Identify
  <2>3. g.ops = <<opening, read>>
    BY <2>1
  <2> HIDE DEF give, opening
  <2>4. Append(g.ops, give) = <<opening, read, give>>
    <3>1. Append(<<opening, read>>, give) = <<opening, read, give>>
      BY LongerPlans
    <3> QED
      BY <2>3, <3>1, Zenon
  <2>5. /\ Head(Append(g.ops, give)) = opening /\ Append(g.ops, give) # <<>>
        /\ Tail(Append(g.ops, give)) = <<read, give>>
    BY <2>4, LongerPlans
  <2> QED
    BY <1>2, <2>2, <2>5 DEF give, opening
<1> QED
  BY <1>1, <1>2, GettersFit

LEMMA CallStarts == ASSUME MeasureInv, StartRead \/ StartOffset PROVE MeasureInv'
<1>1. /\ answer' = <<>> /\ sound' = TRUE
      /\ UNCHANGED <<sample, chip, offsets, buf, broken>>
  BY DEF StartRead, StartOffset
<1>2. MeasureTypeOK' /\ WordsInPlace'
  BY <1>1 DEF MeasureInv, MeasureTypeOK, WordsInPlace
<1>3. CASE StartRead
  <2>1. PICK g \in Getters : steps' = Append(g.ops, Give(g.words)) /\ asking' = g.names
    BY <1>3 DEF StartRead, Give
  <2> QED
    BY <1>1, <1>2, <2>1 DEF MeasureInv, Reading
<1>4. CASE StartOffset
  <2>1. Writing'
    BY <1>4 DEF StartOffset, Writing, IdWrite, Plain
  <2> QED
    BY <1>1, <1>2, <2>1 DEF MeasureInv
<1> QED
  BY <1>3, <1>4

(* What kind of step the next one is tells where the call is.              *)
LEMMA NextStep ==
    ASSUME MeasureInv, steps # <<>>
    PROVE  /\ answer = <<>>
           /\ \/ \E a \in 0..2 :
                    /\ Head(steps) = Identify /\ Head(steps).do = "identify"
                    /\ Tail(steps) = <<IdWrite(a)>>
              \/ \E a \in 0..2 :
                    /\ Head(steps) = IdWrite(a) /\ Head(steps).do = "write by id"
                    /\ Tail(steps) = <<>> /\ KnowsChip
              \/ \E reg \in {19, 21, 23} :
                    /\ Head(steps) = Plain(reg) /\ Head(steps).do = "write"
                    /\ Tail(steps) = <<>>
              \/ \E g \in Getters :
                    /\ asking = g.names
                    /\ \/ /\ InBurst(g, chip) /\ Head(steps) = g.ops[1]
                          /\ Head(steps).do = "read" /\ Tail(steps) = <<Give(g.words)>>
                       \/ /\ ById(g, chip) /\ Head(steps).do = "identify"
                          /\ Tail(steps) = <<g.ops[2], Give(g.words)>>
                       \/ /\ ById(g, chip) /\ KnowsChip /\ Head(steps) = g.ops[2]
                          /\ Head(steps).do = "read by id"
                          /\ Tail(steps) = <<Give(g.words)>>
                       \/ /\ Head(steps) = Give(g.words) /\ Head(steps).do = "return"
                          /\ Tail(steps) = <<>>
                          /\ sound => InPlace(g.words, g.names)
<1>1. answer = <<>> /\ chip \in Chips
  BY DEF MeasureInv, MeasureTypeOK
<1>2. CASE Writing
  <2>1. ASSUME NEW a \in 0..2,
               steps = <<Identify, IdWrite(a)>>
        PROVE  /\ Head(steps) = Identify /\ Head(steps).do = "identify"
               /\ Tail(steps) = <<IdWrite(a)>>
    BY <2>1, Plans, Kinds, ZenonT(30)
  <2>2. ASSUME NEW a \in 0..2, steps = <<IdWrite(a)>>
        PROVE  /\ Head(steps) = IdWrite(a) /\ Head(steps).do = "write by id"
               /\ Tail(steps) = <<>>
    <3>1. Head(steps) = IdWrite(a) /\ Tail(steps) = <<>>
      BY <2>2, Plans
    <3>2. IdWrite(a).do = "write by id"
      BY Kinds
    <3> QED
      BY <3>1, <3>2
  <2>3. ASSUME NEW reg \in {19, 21, 23}, steps = <<Plain(reg)>>
        PROVE  /\ Head(steps) = Plain(reg) /\ Head(steps).do = "write"
               /\ Tail(steps) = <<>>
    <3>1. Head(steps) = Plain(reg) /\ Tail(steps) = <<>>
      BY <2>3, Plans
    <3>2. Plain(reg).do = "write"
      BY Kinds
    <3> QED
      BY <3>1, <3>2
  <2>4. CASE \E a \in 0..2 :
               \/ steps = <<Identify, IdWrite(a)>>
               \/ steps = <<IdWrite(a)>> /\ KnowsChip
    BY <1>1, <2>1, <2>2, <2>4, Zenon
  <2>5. CASE \E reg \in {19, 21, 23} : steps = <<Plain(reg)>>
    BY <1>1, <2>3, <2>5, Zenon
  <2> QED
    BY <1>2, <2>4, <2>5, Zenon DEF Writing
<1>3. ASSUME NEW g \in Getters, Reading(g)
      PROVE  /\ asking = g.names
             /\ \/ /\ InBurst(g, chip) /\ Head(steps) = g.ops[1]
                   /\ Head(steps).do = "read" /\ Tail(steps) = <<Give(g.words)>>
                \/ /\ ById(g, chip) /\ Head(steps).do = "identify"
                   /\ Tail(steps) = <<g.ops[2], Give(g.words)>>
                \/ /\ ById(g, chip) /\ KnowsChip /\ Head(steps) = g.ops[2]
                   /\ Head(steps).do = "read by id"
                   /\ Tail(steps) = <<Give(g.words)>>
                \/ /\ Head(steps) = Give(g.words) /\ Head(steps).do = "return"
                   /\ Tail(steps) = <<>>
                   /\ sound => InPlace(g.words, g.names)
<2>1. CASE steps = Append(g.ops, Give(g.words))
    BY <1>1, <1>3, <2>1, PlanOf, Kinds, Zenon DEF Reading
  <2>2. CASE ById(g, chip) /\ KnowsChip /\ steps = <<g.ops[2], Give(g.words)>>
    <3>1. Head(steps) = g.ops[2] /\ Tail(steps) = <<Give(g.words)>>
      BY <2>2, Plans
    <3>2. g.ops[2].do = "read by id"
      <4>1. PICK a \in 0..2 : g.ops = <<Identify, IdRead(a)>>
        BY <2>2, Zenon DEF ById
      <4>2. g.ops[2] = IdRead(a)
        BY <4>1
      <4>3. IdRead(a).do = "read by id"
        BY Kinds
      <4> QED
        BY <4>2, <4>3
    <3> QED
      BY <1>3, <2>2, <3>1, <3>2 DEF Reading
  <2>3. CASE steps = <<Give(g.words)>> /\ (sound => InPlace(g.words, g.names))
    <3>1. Head(steps) = Give(g.words) /\ Tail(steps) = <<>>
      BY <2>3, Plans
    <3>2. Give(g.words).do = "return"
      BY Kinds
    <3> QED
      BY <1>3, <2>3, <3>1, <3>2 DEF Reading
  <2> QED
    BY <1>3, <2>1, <2>2, <2>3, Zenon DEF Reading
<1> QED
  BY <1>1, <1>2, <1>3, Zenon DEF MeasureInv

(* A burst brings what its words are for, all of the sample of its time.   *)
LEMMA BurstBrings ==
    ASSUME NEW g, NEW reg \in Nat, NEW n \in 1..14,
           \A k \in DOMAIN g.words :
               \E j \in 0..12 : /\ g.words[k] = <<j, j + 1>> /\ j + 1 < n
                                /\ reg + j = Sheet(chip)[g.names[k]],
           sample \in Nat, UNCHANGED <<sample, chip>>,
           buf' = [k \in 0..13 |-> IF k < n THEN <<reg + k, sample>> ELSE buf[k]]
    PROVE  InPlace(g.words, g.names)'
<1>1. ASSUME NEW k \in DOMAIN g.words
      PROVE  LET r == Sheet(chip)[g.names[k]]
             IN <<buf'[g.words[k][1]], buf'[g.words[k][2]]>>
                    = << <<r, sample>>, <<r + 1, sample>> >>
  <2>1. PICK j \in 0..12 : /\ g.words[k] = <<j, j + 1>> /\ j + 1 < n
                           /\ reg + j = Sheet(chip)[g.names[k]]
    OBVIOUS
  <2>2. buf'[j] = <<reg + j, sample>> /\ buf'[j + 1] = <<reg + (j + 1), sample>>
    BY <2>1
  <2>3. reg + (j + 1) = reg + j + 1
    BY <2>1
  <2>4. g.words[k][1] = j /\ g.words[k][2] = j + 1
    BY <2>1
  <2> QED
    BY <2>1, <2>2, <2>3, <2>4
<1>2. sample \in 0..sample
  OBVIOUS
<1> QED
  BY <1>1, <1>2 DEF InPlace

(* A read: of a getter that is sound it brings what the getter is for.     *)
LEMMA ReadBytesKeeps == ASSUME MeasureInv, ReadBytes PROVE MeasureInv'
<1>1. /\ steps # <<>> /\ Head(steps).do \in {"read", "read by id"} /\ steps' = Tail(steps)
      /\ UNCHANGED <<sample, chip, offsets, asking, answer, sound, reads, broken>>
  BY DEF ReadBytes, Doing, On
<1>2. PICK reg \in Reg(Head(steps)) :
        buf' = [k \in 0..13 |-> IF k < Count(Head(steps)) THEN <<reg + k, sample>> ELSE buf[k]]
  BY DEF ReadBytes
<1>3. MeasureTypeOK' /\ answer' = <<>>
  <2>1. answer = <<>>
    BY <1>1, NextStep
  <2> QED
    BY <1>1, <1>2, <2>1 DEF MeasureInv, MeasureTypeOK
<1>4. WordsInPlace'
  BY <1>1, <1>3 DEF MeasureInv, WordsInPlace
<1>5. chip \in Chips /\ sample \in Nat
  BY DEF MeasureInv, MeasureTypeOK
<1>6. PICK g \in Getters :
        /\ asking = g.names /\ Tail(steps) = <<Give(g.words)>>
        /\ \/ InBurst(g, chip) /\ Head(steps) = g.ops[1]
           \/ ById(g, chip) /\ KnowsChip /\ Head(steps) = g.ops[2]
  BY <1>1, NextStep
<1>7. CASE InBurst(g, chip) /\ Head(steps) = g.ops[1]
  <2>1. PICK r \in Nat, n \in 1..14 :
          /\ g.ops = <<Burst(r, n)>>
          /\ \A k \in DOMAIN g.words :
                \E j \in 0..12 : /\ g.words[k] = <<j, j + 1>> /\ j + 1 < n
                                 /\ r + j = Sheet(chip)[g.names[k]]
    BY <1>7, Zenon DEF InBurst
  <2>2. Head(steps) = Burst(r, n)
    BY <1>7, <2>1
  <2>3. Reg(Head(steps)) = {r} /\ Count(Head(steps)) = n
    BY <2>2 DEF Reg, Count, Burst
  <2>4. buf' = [k \in 0..13 |-> IF k < n THEN <<r + k, sample>> ELSE buf[k]]
    BY <1>2, <2>3
  <2>5. InPlace(g.words, g.names)'
    BY <1>1, <1>5, <2>1, <2>4, BurstBrings
  <2>6. Reading(g)'
    BY <1>1, <1>6, <2>5 DEF Reading
  <2> QED
    BY <1>1, <1>3, <1>4, <2>6 DEF MeasureInv
<1>8. CASE ById(g, chip) /\ KnowsChip /\ Head(steps) = g.ops[2]
  <2>1. PICK a \in 0..2 :
          /\ g.ops = <<Identify, IdRead(a)>>
          /\ g.words = <<Word(0)>> /\ Sheet(chip)[g.names[1]] = AccelOffset(a, chip)
    BY <1>8, Zenon DEF ById
  <2>2. Head(steps) = IdRead(a)
    BY <1>8, <2>1
  <2>3. Count(Head(steps)) = 2 /\ (sound => Reg(Head(steps)) = {AccelOffset(a, chip)})
    <3>1. Head(steps).do = "read by id" /\ Head(steps).axis = a
      BY <2>2, Kinds, ZenonT(30)
    <3> QED
      BY <1>8, <3>1 DEF Reg, Count, Identities, KnowsChip
  <2>4. ASSUME sound PROVE InPlace(g.words, g.names)'
    <3>1. AccelOffset(a, chip) \in Nat
      BY <1>5, MeasuredAt DEF AccelOffset, Chips
    <3>2. buf' = [k \in 0..13 |-> IF k < 2 THEN <<AccelOffset(a, chip) + k, sample>> ELSE buf[k]]
      BY <1>2, <2>3, <2>4
    <3>3. \A k \in DOMAIN g.words :
             \E j \in 0..12 : /\ g.words[k] = <<j, j + 1>> /\ j + 1 < 2
                              /\ AccelOffset(a, chip) + j = Sheet(chip)[g.names[k]]
      <4>1. g.words = << <<0, 1>> >>
        BY <2>1 DEF Word
      <4>2. \A k \in DOMAIN g.words : k = 1
        BY <4>1
      <4> QED
        BY <2>1, <3>1, <4>1, <4>2
    <3> QED
      <4> DEFINE r == AccelOffset(a, chip)
                 n == 2
      <4>1. /\ r \in Nat /\ n \in 1..14
            /\ \A k \in DOMAIN g.words :
                  \E j \in 0..12 : /\ g.words[k] = <<j, j + 1>> /\ j + 1 < n
                                   /\ r + j = Sheet(chip)[g.names[k]]
            /\ buf' = [k \in 0..13 |-> IF k < n THEN <<r + k, sample>> ELSE buf[k]]
        BY <3>1, <3>2, <3>3
      <4> HIDE DEF r, n
      <4> QED
        BY <1>1, <1>5, <4>1, BurstBrings
  <2>5. Reading(g)'
    BY <1>1, <1>6, <2>4 DEF Reading
  <2> QED
    BY <1>1, <1>3, <1>4, <2>5 DEF MeasureInv
<1> QED
  BY <1>6, <1>7, <1>8

(* The identity, the first transaction of whoever asks for it.             *)
LEMMA ReadIdentityKeeps == ASSUME MeasureInv, ReadIdentity PROVE MeasureInv'
<1>1. /\ steps # <<>> /\ Head(steps).do = "identify" /\ steps' = Tail(steps)
      /\ UNCHANGED <<sample, chip, offsets, asking, answer, sound, reads, broken>>
      /\ buf' = [buf EXCEPT ![0] = <<RA.WHO_AM_I, sample>>]
  BY DEF ReadIdentity, Doing, On
<1>2. MeasureTypeOK' /\ answer' = <<>> /\ KnowsChip'
  <2>1. answer = <<>>
    BY <1>1, NextStep
  <2> QED
    <3>1. MeasureTypeOK'
      BY <1>1 DEF MeasureInv, MeasureTypeOK
    <3>2. buf = [k \in 0..13 |-> buf[k]]
      BY DEF MeasureInv, MeasureTypeOK
    <3>3. buf'[0] = <<RA.WHO_AM_I, sample>>
      BY <1>1, <3>2
    <3> QED
      BY <1>1, <2>1, <3>1, <3>3 DEF KnowsChip
<1>3. WordsInPlace'
  BY <1>1, <1>2 DEF MeasureInv, WordsInPlace
<1>4. CASE \E a \in 0..2 : Tail(steps) = <<IdWrite(a)>>
  BY <1>1, <1>2, <1>3, <1>4 DEF MeasureInv, Writing
<1>5. CASE \E g \in Getters : /\ asking = g.names /\ ById(g, chip)
                              /\ Tail(steps) = <<g.ops[2], Give(g.words)>>
  <2>1. PICK g \in Getters : /\ asking = g.names /\ ById(g, chip)
                             /\ Tail(steps) = <<g.ops[2], Give(g.words)>>
    BY <1>5
  <2>2. ById(g, chip)'
    BY <1>1, <2>1 DEF ById
  <2>3. Reading(g)'
    BY <1>1, <1>2, <2>1, <2>2 DEF Reading
  <2> QED
    BY <1>1, <1>2, <1>3, <2>3 DEF MeasureInv
<1> QED
  BY <1>1, <1>4, <1>5, NextStep

(* An offset is written where this chip has it.                            *)
LEMMA WriteOffsetKeeps == ASSUME MeasureInv, WriteOffset PROVE MeasureInv'
<1>1. /\ steps # <<>> /\ Head(steps).do \in {"write", "write by id"} /\ steps' = Tail(steps)
      /\ UNCHANGED <<sample, chip, buf, asking, answer, sound, reads, broken>>
  BY DEF WriteOffset, Doing, On
<1>2. PICK reg \in IF Head(steps).do = "write" THEN {Head(steps).reg} ELSE Reg(Head(steps)) :
        offsets' = offsets \cup {reg}
  BY DEF WriteOffset
<1>3. MeasureTypeOK' /\ answer' = <<>>
  BY <1>1, NextStep DEF MeasureInv, MeasureTypeOK
<1>4. \/ \E a \in 0..2 : /\ Head(steps) = IdWrite(a)
                            /\ Tail(steps) = <<>> /\ KnowsChip
      \/ \E r \in {19, 21, 23} :
            Head(steps) = Plain(r) /\ Tail(steps) = <<>>
  BY <1>1, NextStep
<1>5. broken = 0 => reg \in {Sheet(chip)[n] : n \in {"xa", "ya", "za", "xg", "yg", "zg"}}
  <2>0. chip \in Chips /\ (broken = 0 => sound)
    BY DEF MeasureInv, MeasureTypeOK
  <2>1. /\ Sheet(chip).xa = AccelOffset(0, chip) /\ Sheet(chip).ya = AccelOffset(1, chip)
        /\ Sheet(chip).za = AccelOffset(2, chip) /\ Sheet(chip).xg = 19
        /\ Sheet(chip).yg = 21 /\ Sheet(chip).zg = 23
    BY <2>0, MeasuredAt DEF Sheet, AccelOffset, Chips
  <2>2. ASSUME NEW a \in 0..2, Head(steps) = IdWrite(a),
               KnowsChip, broken = 0
        PROVE  reg \in {Sheet(chip)[n] : n \in {"xa", "ya", "za", "xg", "yg", "zg"}}
    <3>0. IdWrite(a).do = "write by id" /\ IdWrite(a).axis = a
      BY Kinds
    <3>1. reg = AccelOffset(a, chip)
      BY <1>2, <2>0, <2>2, <3>0 DEF Reg, Identities, KnowsChip
    <3>2. a = 0 \/ a = 1 \/ a = 2
      OBVIOUS
    <3> QED
      BY <2>1, <3>1, <3>2
  <2>3. ASSUME NEW r \in {19, 21, 23}, Head(steps) = Plain(r)
        PROVE  reg \in {Sheet(chip)[n] : n \in {"xa", "ya", "za", "xg", "yg", "zg"}}
    <3>1. reg = r
      BY <1>2, <2>3 DEF Plain
    <3> QED
      BY <2>1, <3>1
  <2> QED
    BY <1>4, <2>2, <2>3
<1>6. WordsInPlace'
  BY <1>1, <1>2, <1>3, <1>5 DEF MeasureInv, WordsInPlace
<1> QED
  BY <1>1, <1>3, <1>4, <1>6 DEF MeasureInv

(* After a transaction that failed nothing is asked of the answer.         *)
LEMMA BreaksKeeps == ASSUME MeasureInv, Breaks PROVE MeasureInv'
<1>1. /\ steps # <<>> /\ Head(steps).do # "return" /\ steps' = Tail(steps)
      /\ broken' = broken + 1 /\ sound' = FALSE
      /\ UNCHANGED <<sample, chip, offsets, asking, answer>>
  BY DEF Breaks, Doing, On
<1>2. buf' = [k \in 0..13 |-> buf'[k]]
  BY DEF Breaks
<1>3. MeasureTypeOK' /\ answer' = <<>> /\ broken' # 0
  <2>1. answer = <<>>
    BY <1>1, NextStep
  <2> QED
    BY <1>1, <1>2, <2>1 DEF MeasureInv, MeasureTypeOK
<1>4. WordsInPlace'
  BY <1>1, <1>3 DEF WordsInPlace
<1>5. steps' = <<>> \/ Writing' \/ \E g \in Getters : Reading(g)'
  <2>1. \A g \in Getters : Head(steps) # Give(g.words)
    BY <1>1 DEF Give
  <2>2. CASE \E a \in 0..2 : Tail(steps) = <<IdWrite(a)>>
    BY <1>1, <2>2 DEF Writing, KnowsChip
  <2>3. CASE Tail(steps) = <<>>
    BY <1>1, <2>3
  <2>4. ASSUME NEW g \in Getters, asking = g.names, Tail(steps) = <<Give(g.words)>>
        PROVE  Reading(g)'
    BY <1>1, <2>4 DEF Reading
  <2>5. ASSUME NEW g \in Getters, asking = g.names, ById(g, chip),
               Tail(steps) = <<g.ops[2], Give(g.words)>>
        PROVE  Reading(g)'
    <3>1. ById(g, chip)'
      BY <1>1, <2>5 DEF ById
    <3> QED
      BY <1>1, <2>5, <3>1 DEF Reading, KnowsChip
  <2> QED
    BY <1>1, <2>1, <2>2, <2>3, <2>4, <2>5, NextStep
<1> QED
  BY <1>1, <1>3, <1>4, <1>5 DEF MeasureInv

(* The caller gets the words of the buffer.                                *)
LEMMA ReturnKeeps == ASSUME MeasureInv, Return14 PROVE MeasureInv'
<1>1. /\ steps # <<>> /\ Head(steps).do = "return" /\ steps' = Tail(steps)
      /\ answer' = [k \in DOMAIN Head(steps).words |->
                      <<buf[Head(steps).words[k][1]], buf[Head(steps).words[k][2]]>>]
      /\ UNCHANGED <<sample, chip, offsets, buf, asking, sound, reads, broken>>
  BY DEF Return14, Doing, On
<1>2. PICK g \in Getters : /\ asking = g.names /\ Head(steps) = Give(g.words)
                           /\ Tail(steps) = <<>>
                           /\ sound => InPlace(g.words, g.names)
  BY <1>1, NextStep
<1>3. Head(steps).words = g.words
  BY <1>2, Kinds
<1>4. ASSUME sound
      PROVE  \E s \in 0..sample : \A k \in DOMAIN answer' :
                LET r == Sheet(chip)[asking[k]] IN answer'[k] = << <<r, s>>, <<r + 1, s>> >>
  BY <1>1, <1>2, <1>3, <1>4 DEF InPlace
<1>5. WordsInPlace'
  BY <1>1, <1>4 DEF MeasureInv, WordsInPlace
<1> QED
  BY <1>1, <1>2, <1>5 DEF MeasureInv, MeasureTypeOK

(* A new sample changes nothing of what the buffer holds.                  *)
LEMMA NewSampleKeeps == ASSUME MeasureInv, NewSample PROVE MeasureInv'
<1>1. /\ sample' = sample + 1 /\ sample \in Nat
      /\ UNCHANGED <<chip, offsets, buf, steps, asking, answer, sound, reads, broken>>
  BY DEF NewSample, MeasureInv, MeasureTypeOK
<1>2. 0..sample \subseteq 0..sample' /\ MeasureTypeOK'
  BY <1>1 DEF MeasureInv, MeasureTypeOK
<1>3. WordsInPlace'
  BY <1>1, <1>2 DEF MeasureInv, WordsInPlace
<1>4. ASSUME NEW g \in Getters, Reading(g) PROVE Reading(g)'
  BY <1>1, <1>2, <1>4 DEF Reading, InPlace, KnowsChip, ById
<1>5. Writing => Writing'
  BY <1>1 DEF Writing, KnowsChip
<1> QED
  BY <1>1, <1>2, <1>3, <1>4, <1>5 DEF MeasureInv

LEMMA MeasureKept == MeasureInv /\ [MeasureNext]_measureVars => MeasureInv'
<1> SUFFICES ASSUME MeasureInv, [MeasureNext]_measureVars PROVE MeasureInv'
  OBVIOUS
<1>1. CASE UNCHANGED measureVars
  <2>1. /\ UNCHANGED <<sample, chip, offsets, buf, steps, asking, answer, sound, broken>>
    BY <1>1 DEF measureVars
  <2>2. MeasureTypeOK' /\ WordsInPlace'
    BY <2>1 DEF MeasureInv, MeasureTypeOK, WordsInPlace
  <2>3. \A g \in Getters : Reading(g) => Reading(g)'
    BY <2>1 DEF Reading, InPlace, KnowsChip, ById
  <2>4. Writing => Writing'
    BY <2>1 DEF Writing, KnowsChip
  <2> QED
    BY <2>1, <2>2, <2>3, <2>4 DEF MeasureInv
<1> QED
  BY <1>1, CallStarts, ReadBytesKeeps, ReadIdentityKeeps, WriteOffsetKeeps, BreaksKeeps,
     ReturnKeeps, NewSampleKeeps DEF MeasureNext

LEMMA MeasureRuns == MpuSpec => MeasureInit /\ [][MeasureNext]_measureVars
<1>1. MpuInit => MeasureInit
  BY DEF MpuInit
<1>2. [MpuNext]_mpuVars => [MeasureNext]_measureVars
  BY DEF MpuNext, Of, mpuVars
<1> QED
  BY <1>1, <1>2, PTL DEF MpuSpec

(* What a getter returns whose transactions succeeded is what its name     *)
(* says, of one sample, whatever the buffer held, and an offset is written *)
(* where this chip has it, for any number of samples, calls and faults.    *)
THEOREM WordsInPlaceHolds == MpuSpec => []WordsInPlace
<1>1. MeasureInv => WordsInPlace
  BY DEF MeasureInv
<1> QED
  BY MeasureInitial, MeasureKept, MeasureRuns, <1>1, PTL

-----------------------------------------------------------------------------
(* The settings.                                                           *)

(* The bits of a field, and fields that share none.                        *)
Cells(f) == Mask(f.bit, f.len)
Apart(f, g) == f.reg # g.reg \/ Cells(f) \cap Cells(g) = {}

FieldOK(f) ==
    f.bit \in 0..7 /\ f.len \in 1..8 /\ f.len <= f.bit + 1

(* What is asked of a set of settings: they lie in certain registers, no   *)
(* two of them share a bit, and the one that turns its value round has one *)
(* bit.                                                                    *)
RowsOK(rows, registers) ==
    /\ \A s \in rows :
          /\ s.at.reg \in registers /\ FieldOK(s.at)
          /\ s.name = "TempSensorEnabled" => s.at.len = 1
    /\ \A s, t \in rows : s = t \/ Apart(s.at, t.at)

(* For a table it is enough to look at its names.                          *)
TableOK(table, registers) ==
    /\ \A n \in DOMAIN table :
          /\ table[n].reg \in registers /\ FieldOK(table[n])
          /\ n = "TempSensorEnabled" => table[n].len = 1
    /\ \A n, m \in DOMAIN table : n = m \/ Apart(table[n], table[m])

LEMMA NamedOK ==
    ASSUME NEW table, NEW registers, TableOK(table, registers)
    PROVE  RowsOK(Named(table), registers)
  BY DEF TableOK, RowsOK, Named

(* Rows of different registers, or that share no bit, may be put together. *)
LEMMA UnionOK ==
    ASSUME NEW rows, NEW others, NEW R, NEW Q, RowsOK(rows, R), RowsOK(others, Q),
           \A s \in rows, t \in others : Apart(s.at, t.at) /\ Apart(t.at, s.at)
    PROVE  RowsOK(rows \union others, R \union Q)
  BY DEF RowsOK

LEMMA DisjointOK ==
    ASSUME NEW rows, NEW others, NEW R, NEW Q, RowsOK(rows, R), RowsOK(others, Q),
           R \cap Q = {}
    PROVE  RowsOK(rows \union others, R \union Q)
<1>1. \A s \in rows, t \in others : s.at.reg # t.at.reg
  BY DEF RowsOK
<1> QED
  BY <1>1, UnionOK DEF Apart

(* The same, going up through the registers.                               *)
RowsIn(rows, lo, hi) == RowsOK(rows, lo..hi)

LEMMA RowsWithin ==
    ASSUME NEW rows, NEW R, NEW lo, NEW hi, RowsOK(rows, R), R \subseteq lo..hi
    PROVE  RowsIn(rows, lo, hi)
  BY DEF RowsOK, RowsIn

LEMMA NextOK ==
    ASSUME NEW rows, NEW others, NEW k \in Nat, NEW lo \in Nat, NEW hi \in Nat,
           RowsIn(rows, 0, k), RowsIn(others, lo, hi), k < lo, lo <= hi
    PROVE  RowsIn(rows \union others, 0, hi)
<1>1. (0..k) \cap (lo..hi) = {} /\ (0..k) \union (lo..hi) \subseteq 0..hi
  OBVIOUS
<1>2. RowsOK(rows \union others, (0..k) \union (lo..hi))
  BY <1>1, DisjointOK DEF RowsIn
<1> QED
  BY <1>1, <1>2, RowsWithin

TablesApart(table, other) ==
    \A n \in DOMAIN table, m \in DOMAIN other :
        Apart(table[n], other[m]) /\ Apart(other[m], table[n])

LEMMA NamedApart ==
    ASSUME NEW table, NEW other, TablesApart(table, other)
    PROVE  \A s \in Named(table), t \in Named(other) : Apart(s.at, t.at) /\ Apart(t.at, s.at)
  BY DEF TablesApart, Named

(* The tables, one by one.                                                 *)
LEMMA OffsetTables ==
    /\ TableOK(SupplySettings, {1}) /\ TableOK(GainSettings, 0..5)
    /\ TablesApart(SupplySettings, GainSettings)
  BY RegistersOf, SMTT(60)
     DEF OffsetRegisters, SupplySettings, GainSettings, Bit, Bits, Whole, TableOK, FieldOK,
         TablesApart, Apart, Cells, Mask

LEMMA RateTable == TableOK(RateSettings, 25..27)
  BY RegistersOf DEF ConfigRegisters, RateSettings, Bits, Whole, TableOK, FieldOK, Apart, Cells,
     Mask

LEMMA AccelTable == TableOK(AccelSettings, {28})
  BY RegistersOf DEF ConfigRegisters, AccelSettings, Bit, Bits, TableOK, FieldOK, Apart, Cells, Mask

LEMMA MotionTables == TableOK(MotionSettings, 29..32) /\ TableOK(ZeroMotionSettings, 33..34)
  BY RegistersOf DEF ConfigRegisters, MotionSettings, ZeroMotionSettings, Bits, Whole, TableOK,
     FieldOK, Apart, Cells, Mask

LEMMA FifoTable == TableOK(FifoSettings, {35})
  BY RegistersOf DEF ConfigRegisters, FifoSettings, Bit, TableOK, FieldOK, Apart, Cells, Mask

LEMMA MasterTable == TableOK(MasterSettings, {36})
  BY RegistersOf DEF ConfigRegisters, MasterSettings, Bit, Bits, TableOK, FieldOK, Apart, Cells,
     Mask

LEMMA Slave4Table == TableOK(Slave4Settings, 49..52)
  BY RegistersOf DEF ConfigRegisters, Slave4Settings, Bit, Bits, Whole, TableOK, FieldOK, Apart,
     Cells, Mask

LEMMA PinTable == TableOK(PinSettings, {55})
  BY RegistersOf DEF ConfigRegisters, PinSettings, Bit, TableOK, FieldOK, Apart, Cells, Mask

LEMMA CounterTable == TableOK(CounterSettings, {105})
  BY RegistersOf DEF DataRegisters, CounterSettings, Bits, TableOK, FieldOK, Apart, Cells, Mask

LEMMA PathTable == TableOK(PathResets, {104})
  BY RegistersOf DEF DataRegisters, PathResets, Bit, TableOK, FieldOK, Apart, Cells, Mask

LEMMA StandbyTable == TableOK(StandbySettings, {108}) /\ TableOK(IdentitySettings, {117})
  BY RegistersOf DEF DataRegisters, StandbySettings, IdentitySettings, Bit, Bits, TableOK,
     FieldOK, Apart, Cells, Mask

LEMMA UserTables ==
    /\ TableOK(UserSettings, {106}) /\ TableOK(DmpSettings, {106, 112, 113})
    /\ TableOK(PowerSettings, {107}) /\ TableOK(Resets, {106, 107})
    /\ TableOK(ResetDmp, {106})
  BY RegistersOf, SMTT(60)
     DEF DataRegisters, UserSettings, DmpSettings, PowerSettings, Resets, ResetDmp, Bit, Bits,
         Whole, TableOK, FieldOK, Apart, Cells, Mask

LEMMA UserTablesApart ==
    /\ TablesApart(UserSettings, DmpSettings) /\ TablesApart(UserSettings, ResetDmp)
    /\ TablesApart(UserSettings, Resets) /\ TablesApart(DmpSettings, ResetDmp)
    /\ TablesApart(DmpSettings, Resets) /\ TablesApart(PowerSettings, Resets)
    /\ TablesApart(ResetDmp, Resets)
<1>0. /\ RA.USER_CTRL = 106 /\ RA.PWR_MGMT_1 = 107 /\ RA.DMP_CFG_1 = 112
      /\ RA.DMP_CFG_2 = 113
  BY RegistersOf DEF DataRegisters
<1>1. TablesApart(UserSettings, DmpSettings)
  BY <1>0 DEF UserSettings, DmpSettings, Bit, Bits, Whole, TablesApart, Apart, Cells, Mask
<1>2. TablesApart(UserSettings, ResetDmp)
  BY <1>0 DEF UserSettings, ResetDmp, Bit, Bits, Whole, TablesApart, Apart, Cells, Mask
<1>3. TablesApart(UserSettings, Resets)
  BY <1>0 DEF UserSettings, Resets, Bit, Bits, Whole, TablesApart, Apart, Cells, Mask
<1>4. TablesApart(DmpSettings, ResetDmp)
  BY <1>0 DEF DmpSettings, ResetDmp, Bit, Bits, Whole, TablesApart, Apart, Cells, Mask
<1>5. TablesApart(DmpSettings, Resets)
  BY <1>0 DEF DmpSettings, Resets, Bit, Bits, Whole, TablesApart, Apart, Cells, Mask
<1>6. TablesApart(PowerSettings, Resets)
  BY <1>0 DEF PowerSettings, Resets, Bit, Bits, Whole, TablesApart, Apart, Cells, Mask
<1>7. TablesApart(ResetDmp, Resets)
  BY <1>0 DEF ResetDmp, Resets, Bit, Bits, Whole, TablesApart, Apart, Cells, Mask
<1> QED
  BY <1>1, <1>2, <1>3, <1>4, <1>5, <1>6, <1>7

(* The interrupts share a register with the setting of all of them.        *)
SingleInterrupts == {s \in Named(InterruptSettings) : s.name # "IntEnabled"}

LEMMA InterruptTables == RowsOK(SingleInterrupts \union Named(DmpInterruptSettings), {56})
<1> DEFINE names == DOMAIN InterruptSettings \ {"IntEnabled"}
<1>1. /\ \A n \in names : InterruptSettings[n].reg = 56 /\ FieldOK(InterruptSettings[n])
      /\ \A n, m \in names : n = m \/ Apart(InterruptSettings[n], InterruptSettings[m])
      /\ TableOK(DmpInterruptSettings, {56})
      /\ \A n \in names, m \in DOMAIN DmpInterruptSettings :
            /\ Apart(InterruptSettings[n], DmpInterruptSettings[m])
            /\ Apart(DmpInterruptSettings[m], InterruptSettings[n])
  BY RegistersOf, SMTT(60)
     DEF ConfigRegisters, InterruptSettings, DmpInterruptSettings, Bit, Whole, Bits, TableOK,
         FieldOK, Apart, Cells, Mask
<1>2. "TempSensorEnabled" \notin names
  BY DEF InterruptSettings
<1>3. \A s \in SingleInterrupts : /\ s.name \in names /\ s.at = InterruptSettings[s.name]
                                  /\ s = [name |-> s.name, num |-> 0, at |-> s.at]
  BY DEF SingleInterrupts, Named
<1>4. RowsOK(SingleInterrupts, {56})
  <2>1. \A s \in SingleInterrupts : s.at.reg \in {56} /\ FieldOK(s.at)
                                    /\ (s.name = "TempSensorEnabled" => s.at.len = 1)
    BY <1>1, <1>2, <1>3
  <2>2. ASSUME NEW s \in SingleInterrupts, NEW t \in SingleInterrupts
        PROVE  s = t \/ Apart(s.at, t.at)
    <3>1. CASE s.name = t.name
      BY <1>3, <3>1
    <3>2. CASE s.name # t.name
      BY <1>1, <1>3, <3>2
    <3> QED
      BY <3>1, <3>2
  <2> QED
    BY <2>1, <2>2 DEF RowsOK
<1>5. RowsOK(Named(DmpInterruptSettings), {56})
  BY <1>1, NamedOK
<1>6. \A t \in Named(DmpInterruptSettings) : \E m \in DOMAIN DmpInterruptSettings :
         t.at = DmpInterruptSettings[m]
  BY DEF Named
<1>7. \A s \in SingleInterrupts, t \in Named(DmpInterruptSettings) :
         Apart(s.at, t.at) /\ Apart(t.at, s.at)
  BY <1>1, <1>3, <1>6
<1> QED
  BY <1>4, <1>5, <1>7, UnionOK

(* The rows of the slaves: the same names, other registers or other bits.  *)
LEMMA SlavesOK ==
    ASSUME NEW nums, NEW tables, NEW registers,
           \A k \in nums : TableOK(tables[k], registers),
           \A k, j \in nums : \A n \in DOMAIN tables[k], m \in DOMAIN tables[j] :
               k = j \/ Apart(tables[k][n], tables[j][m])
    PROVE  RowsOK(OfSlaves(nums, tables), registers)
<1>1. \A s \in OfSlaves(nums, tables) :
         \E k \in nums : \E n \in DOMAIN tables[k] :
            s = [name |-> n, num |-> k, at |-> tables[k][n]]
  BY DEF OfSlaves, Named
<1>2. \A s \in OfSlaves(nums, tables) :
         /\ s.at.reg \in registers /\ FieldOK(s.at)
         /\ s.name = "TempSensorEnabled" => s.at.len = 1
  BY <1>1 DEF TableOK
<1>3. ASSUME NEW s \in OfSlaves(nums, tables), NEW t \in OfSlaves(nums, tables)
      PROVE  s = t \/ Apart(s.at, t.at)
  <2>1. PICK k \in nums : \E n \in DOMAIN tables[k] :
               s = [name |-> n, num |-> k, at |-> tables[k][n]]
    BY <1>1
  <2>2. PICK n \in DOMAIN tables[k] : s = [name |-> n, num |-> k, at |-> tables[k][n]]
    BY <2>1
  <2>3. PICK j \in nums : \E m \in DOMAIN tables[j] :
               t = [name |-> m, num |-> j, at |-> tables[j][m]]
    BY <1>1
  <2>4. PICK m \in DOMAIN tables[j] : t = [name |-> m, num |-> j, at |-> tables[j][m]]
    BY <2>3
  <2>5. s.at = tables[k][n] /\ t.at = tables[j][m]
    BY <2>2, <2>4
  <2>6. CASE k = j
    BY <2>2, <2>4, <2>5, <2>6 DEF TableOK
  <2>7. CASE k # j
    BY <2>5, <2>7
  <2> QED
    BY <2>6, <2>7
<1> QED
  BY <1>2, <1>3 DEF RowsOK

LEMMA SlaveTables ==
    /\ RowsOK(OfSlaves(0..3, [k \in 0..3 |-> SlaveAddressing(k)]), {37, 38, 40, 41, 43, 44, 46, 47})
    /\ RowsOK(OfSlaves(0..3, [k \in 0..3 |-> SlaveControl(k)]), {39, 42, 45, 48})
    /\ RowsOK(OfSlaves(0..3, [k \in 0..3 |-> SlaveOutput(k)]), 99..102)
    /\ RowsOK(OfSlaves(0..4, [k \in 0..4 |-> SlaveDelay(k)]) \union Named(ShadowDelay), {103})
<1>0. /\ RA.I2C_SLV0_ADDR = 37 /\ RA.I2C_SLV0_REG = 38 /\ RA.I2C_SLV0_CTRL = 39
      /\ RA.I2C_SLV0_DO = 99 /\ RA.I2C_MST_DELAY_CTRL = 103
  BY RegistersOf DEF ConfigRegisters, DataRegisters
<1>1. RowsOK(OfSlaves(0..3, [k \in 0..3 |-> SlaveAddressing(k)]), {37, 38, 40, 41, 43, 44, 46, 47})
  <2> DEFINE tables == [k \in 0..3 |-> SlaveAddressing(k)]
             R == {37, 38, 40, 41, 43, 44, 46, 47}
  <2>1. \A k \in 0..3 : TableOK(tables[k], R)
    <3>1. ASSUME NEW k \in 0..3
          PROVE  /\ DOMAIN tables[k] = {"SlaveAddress", "SlaveRegister"}
                 /\ tables[k].SlaveAddress = [reg |-> 37 + 3 * k, bit |-> 7, len |-> 8]
                 /\ tables[k].SlaveRegister = [reg |-> 38 + 3 * k, bit |-> 7, len |-> 8]
      BY <1>0 DEF SlaveAddressing, OfSlave, Bits, Whole
    <3> HIDE DEF tables
    <3>2. ASSUME NEW k \in 0..3, NEW n \in DOMAIN tables[k]
          PROVE  /\ tables[k][n].reg \in R /\ FieldOK(tables[k][n])
                 /\ n = "TempSensorEnabled" => tables[k][n].len = 1
      BY <3>1 DEF FieldOK
    <3>3. ASSUME NEW k \in 0..3, NEW n \in DOMAIN tables[k], NEW m \in DOMAIN tables[k]
          PROVE  n = m \/ Apart(tables[k][n], tables[k][m])
      BY <3>1 DEF Apart
    <3> QED
      BY <3>2, <3>3 DEF TableOK
  <2>2. \A k, j \in 0..3 : \A n \in DOMAIN tables[k], m \in DOMAIN tables[j] :
           k = j \/ Apart(tables[k][n], tables[j][m])
    BY <1>0 DEF SlaveAddressing, OfSlave, Bits, Whole, Apart
  <2> HIDE DEF tables, R
  <2>3. RowsOK(OfSlaves(0..3, tables), R)
    BY <2>1, <2>2, SlavesOK
  <2> QED
    BY <2>3 DEF tables, R
<1>2. RowsOK(OfSlaves(0..3, [k \in 0..3 |-> SlaveControl(k)]), {39, 42, 45, 48})
  <2> DEFINE tables == [k \in 0..3 |-> SlaveControl(k)]
             R == {39, 42, 45, 48}
  <2>1. \A k \in 0..3 : TableOK(tables[k], R)
    <3>1. ASSUME NEW k \in 0..3
          PROVE  /\ DOMAIN tables[k] = {"SlaveEnabled", "SlaveWordByteSwap", "SlaveWriteMode",
                                         "SlaveWordGroupOffset", "SlaveDataLength"}
                 /\ tables[k].SlaveEnabled = [reg |-> 39 + 3 * k, bit |-> 7, len |-> 1]
                 /\ tables[k].SlaveWordByteSwap = [reg |-> 39 + 3 * k, bit |-> 6, len |-> 1]
                 /\ tables[k].SlaveWriteMode = [reg |-> 39 + 3 * k, bit |-> 5, len |-> 1]
                 /\ tables[k].SlaveWordGroupOffset = [reg |-> 39 + 3 * k, bit |-> 4, len |-> 1]
                 /\ tables[k].SlaveDataLength = [reg |-> 39 + 3 * k, bit |-> 3, len |-> 4]
      BY <1>0 DEF SlaveControl, OfSlave, Bit, Bits
    <3> HIDE DEF tables
    <3>2. ASSUME NEW k \in 0..3, NEW n \in DOMAIN tables[k]
          PROVE  /\ tables[k][n].reg \in R /\ FieldOK(tables[k][n])
                 /\ n = "TempSensorEnabled" => tables[k][n].len = 1
      BY <3>1 DEF FieldOK
    <3>3. ASSUME NEW k \in 0..3, NEW n \in DOMAIN tables[k], NEW m \in DOMAIN tables[k]
          PROVE  n = m \/ Apart(tables[k][n], tables[k][m])
      BY <3>1 DEF Apart, Cells, Mask
    <3> QED
      BY <3>2, <3>3 DEF TableOK
  <2>2. \A k, j \in 0..3 : \A n \in DOMAIN tables[k], m \in DOMAIN tables[j] :
           k = j \/ Apart(tables[k][n], tables[j][m])
    <3>1. ASSUME NEW k \in 0..3
          PROVE  /\ DOMAIN tables[k] = {"SlaveEnabled", "SlaveWordByteSwap", "SlaveWriteMode",
                                         "SlaveWordGroupOffset", "SlaveDataLength"}
                 /\ tables[k].SlaveEnabled.reg = 39 + 3 * k
                 /\ tables[k].SlaveWordByteSwap.reg = 39 + 3 * k
                 /\ tables[k].SlaveWriteMode.reg = 39 + 3 * k
                 /\ tables[k].SlaveWordGroupOffset.reg = 39 + 3 * k
                 /\ tables[k].SlaveDataLength.reg = 39 + 3 * k
      BY <1>0 DEF SlaveControl, OfSlave, Bit, Bits
    <3> HIDE DEF tables
    <3>2. ASSUME NEW k \in 0..3, NEW n \in DOMAIN tables[k] PROVE tables[k][n].reg = 39 + 3 * k
      BY <3>1
    <3> QED
      BY <3>2 DEF Apart
  <2> HIDE DEF tables, R
  <2>3. RowsOK(OfSlaves(0..3, tables), R)
    BY <2>1, <2>2, SlavesOK
  <2> QED
    BY <2>3 DEF tables, R
<1>3. RowsOK(OfSlaves(0..3, [k \in 0..3 |-> SlaveOutput(k)]), 99..102)
  <2> DEFINE tables == [k \in 0..3 |-> SlaveOutput(k)]
             R == 99..102
  <2>1. \A k \in 0..3 : TableOK(tables[k], R)
    BY <1>0 DEF SlaveOutput, Bits, Whole, TableOK, FieldOK
  <2>2. \A k, j \in 0..3 : \A n \in DOMAIN tables[k], m \in DOMAIN tables[j] :
           k = j \/ Apart(tables[k][n], tables[j][m])
    BY <1>0 DEF SlaveOutput, Bits, Whole, Apart
  <2> HIDE DEF tables, R
  <2>3. RowsOK(OfSlaves(0..3, tables), R)
    BY <2>1, <2>2, SlavesOK
  <2> QED
    BY <2>3 DEF tables, R
<1>4. RowsOK(OfSlaves(0..4, [k \in 0..4 |-> SlaveDelay(k)]) \union Named(ShadowDelay), {103})
  <2> DEFINE tables == [k \in 0..4 |-> SlaveDelay(k)]
             R == {103}
  <2>1. \A k \in 0..4 : TableOK(tables[k], R)
    BY <1>0 DEF SlaveDelay, Bit, TableOK, FieldOK
  <2>2. \A k, j \in 0..4 : \A n \in DOMAIN tables[k], m \in DOMAIN tables[j] :
           k = j \/ Apart(tables[k][n], tables[j][m])
    BY <1>0 DEF SlaveDelay, Bit, Apart, Cells, Mask
  <2>3. TableOK(ShadowDelay, R)
    BY <1>0 DEF ShadowDelay, Bit, TableOK, FieldOK
  <2>4. \A k \in 0..4 : \A n \in DOMAIN tables[k], m \in DOMAIN ShadowDelay :
           Apart(tables[k][n], ShadowDelay[m]) /\ Apart(ShadowDelay[m], tables[k][n])
    BY <1>0 DEF SlaveDelay, ShadowDelay, Bit, Apart, Cells, Mask
  <2> HIDE DEF tables, R
  <2>5. RowsOK(OfSlaves(0..4, tables), R) /\ RowsOK(Named(ShadowDelay), R)
    BY <2>1, <2>2, <2>3, SlavesOK, NamedOK
  <2>6. \A s \in OfSlaves(0..4, tables), t \in Named(ShadowDelay) :
           Apart(s.at, t.at) /\ Apart(t.at, s.at)
    BY <2>4 DEF OfSlaves, Named
  <2>7. RowsOK(OfSlaves(0..4, tables) \union Named(ShadowDelay), R)
    BY <2>5, <2>6, UnionOK
  <2> QED
    BY <2>7 DEF tables, R
<1> QED
  BY <1>1, <1>2, <1>3, <1>4

(* The settings and the reset bits, but for the one that stands for all    *)
(* the interrupts.                                                         *)
Single == {s \in Settings \union ResetBits : s.name # "IntEnabled"}

LEMMA UserRows ==
    RowsOK(UNION {Named(UserSettings), Named(DmpSettings), Named(ResetDmp), Named(PowerSettings),
                  Named(Resets)}, {106, 107, 112, 113})
<1> DEFINE u == Named(UserSettings)
           d == Named(DmpSettings)
           x == Named(ResetDmp)
           p == Named(PowerSettings)
           r == Named(Resets)
           R == {106} \union {106, 112, 113}
           S == {106, 112, 113} \union {107}
<1>1. /\ RowsOK(u, {106}) /\ RowsOK(d, {106, 112, 113}) /\ RowsOK(x, {106})
      /\ RowsOK(p, {107}) /\ RowsOK(r, {106, 107})
  BY UserTables, NamedOK
<1>2. /\ \A s \in u, t \in d : Apart(s.at, t.at) /\ Apart(t.at, s.at)
      /\ \A s \in u, t \in x : Apart(s.at, t.at) /\ Apart(t.at, s.at)
      /\ \A s \in u, t \in r : Apart(s.at, t.at) /\ Apart(t.at, s.at)
      /\ \A s \in d, t \in x : Apart(s.at, t.at) /\ Apart(t.at, s.at)
      /\ \A s \in d, t \in r : Apart(s.at, t.at) /\ Apart(t.at, s.at)
      /\ \A s \in p, t \in r : Apart(s.at, t.at) /\ Apart(t.at, s.at)
      /\ \A s \in x, t \in r : Apart(s.at, t.at) /\ Apart(t.at, s.at)
  BY UserTablesApart, NamedApart
<1> HIDE DEF u, d, x, p, r
<1>3. RowsOK(u \union d, {106, 112, 113})
  <2>1. RowsOK(u \union d, {106} \union {106, 112, 113})
    BY <1>1, <1>2, UnionOK
  <2>2. {106} \union {106, 112, 113} = {106, 112, 113}
    OBVIOUS
  <2> QED
    BY <2>1, <2>2
<1>4. RowsOK((u \union d) \union x, {106, 112, 113})
  <2>1. RowsOK((u \union d) \union x, {106, 112, 113} \union {106})
    BY <1>1, <1>2, <1>3, UnionOK
  <2>2. {106, 112, 113} \union {106} = {106, 112, 113}
    OBVIOUS
  <2> QED
    BY <2>1, <2>2
<1>5. RowsOK((u \union d \union x) \union p, {106, 112, 113} \union {107})
  BY <1>1, <1>4, DisjointOK
<1>6. RowsOK((u \union d \union x \union p) \union r, {106, 107, 112, 113})
  <2>1. RowsOK((u \union d \union x \union p) \union r,
               ({106, 112, 113} \union {107}) \union {106, 107})
    BY <1>1, <1>2, <1>5, UnionOK
  <2>2. ({106, 112, 113} \union {107}) \union {106, 107} = {106, 107, 112, 113}
    OBVIOUS
  <2> QED
    BY <2>1, <2>2
<1>7. UNION {u, d, x, p, r} = (u \union d \union x \union p) \union r
  OBVIOUS
<1> QED
  BY <1>6, <1>7 DEF u, d, x, p, r

LEMMA SinglesApart ==
    /\ \A s \in Single : FieldOK(s.at) /\ (s.name = "TempSensorEnabled" => s.at.len = 1)
    /\ \A s, t \in Single : s = t \/ Apart(s.at, t.at)
<1> DEFINE g1 == Named(SupplySettings) \union Named(GainSettings)
           g2 == Named(RateSettings)
           g3 == Named(AccelSettings)
           g4 == Named(MotionSettings)
           g5 == Named(ZeroMotionSettings)
           g6 == Named(FifoSettings)
           g7 == Named(MasterSettings)
           g8 == OfSlaves(0..3, [k \in 0..3 |-> SlaveAddressing(k)])
           g9 == OfSlaves(0..3, [k \in 0..3 |-> SlaveControl(k)])
           g10 == Named(Slave4Settings)
           g11 == Named(PinSettings)
           g12 == SingleInterrupts \union Named(DmpInterruptSettings)
           g13 == OfSlaves(0..3, [k \in 0..3 |-> SlaveOutput(k)])
           g14 == OfSlaves(0..4, [k \in 0..4 |-> SlaveDelay(k)]) \union Named(ShadowDelay)
           g15 == Named(PathResets)
           g16 == Named(CounterSettings)
           g17 == UNION {Named(UserSettings), Named(DmpSettings), Named(ResetDmp),
                         Named(PowerSettings), Named(Resets)}
           g18 == Named(StandbySettings)
           g19 == Named(IdentitySettings)
<1>1. RowsOK(g1, 0..5)
  <2>1. RowsOK(Named(SupplySettings), {1}) /\ RowsOK(Named(GainSettings), 0..5)
    BY OffsetTables, NamedOK
  <2>2. \A s \in Named(SupplySettings), t \in Named(GainSettings) :
           Apart(s.at, t.at) /\ Apart(t.at, s.at)
    BY OffsetTables, NamedApart
  <2>3. RowsOK(g1, {1} \union (0..5))
    BY <2>1, <2>2, UnionOK
  <2>4. {1} \union (0..5) = 0..5
    OBVIOUS
  <2> QED
    BY <2>3, <2>4
<1>2. /\ RowsOK(g2, 25..27) /\ RowsOK(g3, {28}) /\ RowsOK(g4, 29..32)
      /\ RowsOK(g5, 33..34) /\ RowsOK(g6, {35}) /\ RowsOK(g7, {36})
  BY RateTable, AccelTable, MotionTables, FifoTable, MasterTable, NamedOK
<1>3. /\ RowsOK(g8, {37, 38, 40, 41, 43, 44, 46, 47}) /\ RowsOK(g9, {39, 42, 45, 48})
      /\ RowsOK(g13, 99..102) /\ RowsOK(g14, {103})
  BY SlaveTables
<1>4. /\ RowsOK(g10, 49..52) /\ RowsOK(g11, {55}) /\ RowsOK(g12, {56})
      /\ RowsOK(g15, {104}) /\ RowsOK(g16, {105}) /\ RowsOK(g18, {108})
      /\ RowsOK(g19, {117})
  BY Slave4Table, PinTable, InterruptTables, PathTable, CounterTable, StandbyTable, NamedOK
<1>5. RowsOK(g17, {106, 107, 112, 113})
  BY UserRows
<1>6. Single \subseteq UNION {g1, g2, g3, g4, g5, g6, g7, g8, g9, g10, g11, g12, g13, g14, g15,
                              g16, g17, g18, g19}
  BY DEF Single, Settings, ResetBits, SingleInterrupts
<1> HIDE DEF g1, g2, g3, g4, g5, g6, g7, g8, g9, g10, g11, g12, g13, g14, g15, g16, g17, g18, g19
<1> DEFINE h1 == g8 \union g9
           h2 == g17 \union g18
<1>7. /\ RowsOK(h1, {37, 38, 40, 41, 43, 44, 46, 47} \union {39, 42, 45, 48})
      /\ RowsOK(h2, {106, 107, 112, 113} \union {108})
  BY <1>3, <1>4, <1>5, DisjointOK
<1> DEFINE a2 == g1 \union g2
           a3 == a2 \union g3
           a4 == a3 \union g4
           a5 == a4 \union g5
           a6 == a5 \union g6
           a7 == a6 \union g7
           a8 == a7 \union h1
           a9 == a8 \union g10
           a10 == a9 \union g11
           a11 == a10 \union g12
           a12 == a11 \union g13
           a13 == a12 \union g14
           a14 == a13 \union g15
           a15 == a14 \union g16
           a16 == a15 \union h2
           a17 == a16 \union g19
<1> HIDE DEF h1, h2
<1>8. /\ RowsIn(g1, 0, 5)
      /\ RowsIn(g2, 25, 27)
      /\ RowsIn(g3, 28, 28)
      /\ RowsIn(g4, 29, 32)
      /\ RowsIn(g5, 33, 34)
      /\ RowsIn(g6, 35, 35)
      /\ RowsIn(g7, 36, 36)
  <2>1. /\ 0..5 \subseteq 0..5 /\ 25..27 \subseteq 25..27 /\ {28} \subseteq 28..28
        /\ 29..32 \subseteq 29..32 /\ 33..34 \subseteq 33..34 /\ {35} \subseteq 35..35
        /\ {36} \subseteq 36..36
    OBVIOUS
  <2> QED
    BY <1>1, <1>2, <2>1, RowsWithin
<1>9. /\ RowsIn(h1, 37, 48)
      /\ RowsIn(g10, 49, 52)
      /\ RowsIn(g11, 55, 55)
      /\ RowsIn(g12, 56, 56)
      /\ RowsIn(g13, 99, 102)
      /\ RowsIn(g14, 103, 103)
      /\ RowsIn(g15, 104, 104)
      /\ RowsIn(g16, 105, 105)
      /\ RowsIn(h2, 106, 113)
      /\ RowsIn(g19, 117, 117)
  <2>1. /\ {37, 38, 40, 41, 43, 44, 46, 47} \union {39, 42, 45, 48} \subseteq 37..48
        /\ 49..52 \subseteq 49..52 /\ {55} \subseteq 55..55 /\ {56} \subseteq 56..56
        /\ 99..102 \subseteq 99..102 /\ {103} \subseteq 103..103 /\ {104} \subseteq 104..104
        /\ {105} \subseteq 105..105 /\ {106, 107, 112, 113} \union {108} \subseteq 106..113
        /\ {117} \subseteq 117..117
    OBVIOUS
  <2> QED
    BY <1>3, <1>4, <1>7, <2>1, RowsWithin
<1> HIDE DEF a2, a3, a4, a5, a6, a7, a8, a9, a10, a11, a12, a13, a14, a15, a16, a17
<1>10. RowsIn(a2, 0, 27)
  BY <1>8, <1>8, NextOK DEF a2
<1>11. RowsIn(a3, 0, 28)
  BY <1>8, <1>10, NextOK DEF a3
<1>12. RowsIn(a4, 0, 32)
  BY <1>8, <1>11, NextOK DEF a4
<1>13. RowsIn(a5, 0, 34)
  BY <1>8, <1>12, NextOK DEF a5
<1>14. RowsIn(a6, 0, 35)
  BY <1>8, <1>13, NextOK DEF a6
<1>15. RowsIn(a7, 0, 36)
  BY <1>8, <1>14, NextOK DEF a7
<1>16. RowsIn(a8, 0, 48)
  BY <1>9, <1>15, NextOK DEF a8
<1>17. RowsIn(a9, 0, 52)
  BY <1>9, <1>16, NextOK DEF a9
<1>18. RowsIn(a10, 0, 55)
  BY <1>9, <1>17, NextOK DEF a10
<1>19. RowsIn(a11, 0, 56)
  BY <1>9, <1>18, NextOK DEF a11
<1>20. RowsIn(a12, 0, 102)
  BY <1>9, <1>19, NextOK DEF a12
<1>21. RowsIn(a13, 0, 103)
  BY <1>9, <1>20, NextOK DEF a13
<1>22. RowsIn(a14, 0, 104)
  BY <1>9, <1>21, NextOK DEF a14
<1>23. RowsIn(a15, 0, 105)
  BY <1>9, <1>22, NextOK DEF a15
<1>24. RowsIn(a16, 0, 113)
  BY <1>9, <1>23, NextOK DEF a16
<1>25. RowsIn(a17, 0, 117)
  BY <1>9, <1>24, NextOK DEF a17
<1>26. Single \subseteq a17
  BY <1>6 DEF h1, h2, a2, a3, a4, a5, a6, a7, a8, a9, a10, a11, a12, a13, a14, a15, a16, a17
<1> QED
  BY <1>25, <1>26 DEF RowsIn, RowsOK

(* Every field has a bit, and one of eight bits has all.                   *)
LEMMA FieldBits ==
    ASSUME NEW f, FieldOK(f)
    PROVE  /\ Cells(f) \subseteq ByteBits /\ f.bit \in Cells(f)
           /\ f.len = 1 => Cells(f) = {f.bit}
           /\ f.len = 8 => Cells(f) = ByteBits
<1>1. f.bit \in 0..7 /\ f.len \in 1..8 /\ f.len <= f.bit + 1
  BY DEF FieldOK
<1>2. Cells(f) \subseteq ByteBits
  BY <1>1 DEF Cells, Mask, ByteBits
<1>3. f.bit \in Cells(f)
  BY <1>1, SMTT(20) DEF Cells, Mask
<1>4. ASSUME f.len = 1 PROVE Cells(f) = {f.bit}
  BY <1>1, <1>4 DEF Cells, Mask
<1>5. ASSUME f.len = 8 PROVE Cells(f) = ByteBits
  <2>1. f.bit = 7
    BY <1>1, <1>5
  <2> QED
    BY <1>5, <2>1 DEF Cells, Mask, ByteBits
<1> QED
  BY <1>2, <1>3, <1>4, <1>5

(* A field is read from its own bits only.                                 *)
LEMMA FieldOfItsBits ==
    ASSUME NEW f, FieldOK(f), f.len # 8, NEW x, NEW y, x \cap Cells(f) = y \cap Cells(f)
    PROVE  FieldOf(f, x) = FieldOf(f, y)
<1>1. CASE f.len = 1
  BY <1>1, FieldBits DEF FieldOf, ReadBit
<1>2. CASE f.len # 1
  BY <1>2 DEF FieldOf, ReadBits, Cells
<1> QED
  BY <1>1, <1>2

(* A setter changes the bits of its own field only.                        *)
LEMMA OtherBitsStay ==
    ASSUME NEW f, FieldOK(f), f.len # 8, NEW x, NEW v, NEW D, D \cap Cells(f) = {}
    PROVE  NewValue(f, x, v) \cap D = x \cap D
<1>1. CASE f.len = 1
  <2>1. f.bit \notin D
    BY <1>1, FieldBits
  <2> QED
    BY <1>1, <2>1 DEF NewValue, WriteBit
<1>2. CASE f.len # 1
  BY <1>2 DEF NewValue, WriteBits, Cells
<1> QED
  BY <1>1, <1>2

(* What a setter writes its getter reads, as far as the field holds it.    *)
LEMMA ReadsBack ==
    ASSUME NEW s, FieldOK(s.at), s.name = "TempSensorEnabled" => s.at.len = 1, NEW x,
           NEW v \in SUBSET ByteBits
    PROVE  Same(s, Returned(s, FieldOf(s.at, NewValue(s.at, x, Stored(s, v)))), Fits(s.at, v))
<1> DEFINE f == s.at
<1>0. f.bit \in 0..7 /\ f.len \in 1..8 /\ f.len <= f.bit + 1
  BY DEF FieldOK
<1>1. CASE f.len = 8
  <2>1. v \cap (0..7) = v /\ s.name # "TempSensorEnabled"
    BY <1>1 DEF ByteBits
  <2> QED
    BY <1>1, <2>1 DEF Same, Returned, FieldOf, NewValue, Stored, Fits
<1>2. CASE f.len = 1
  <2>1. FieldOf(f, NewValue(f, x, Stored(s, v))) = IF Stored(s, v) = {} THEN {} ELSE {f.bit}
    BY <1>2 DEF FieldOf, ReadBit, NewValue, WriteBit
  <2> QED
    BY <1>2, <2>1 DEF Same, Returned, Stored, Fits
<1>3. CASE f.len \notin {1, 8}
  <2> DEFINE k == f.bit - f.len + 1
  <2>1. s.name # "TempSensorEnabled" /\ Stored(s, v) = v /\ k \in Nat
    BY <1>0, <1>3 DEF Stored
  <2>2. FieldOf(f, NewValue(f, x, v)) = ShiftDown(ShiftUp(v, k) \cap Mask(f.bit, f.len), k)
    <3>1. ReadBits(WriteBits(x, f.bit, f.len, v), f.bit, f.len)
            = ShiftDown(ShiftUp(v, k) \cap Mask(f.bit, f.len), k)
      <4>1. WriteBits(x, f.bit, f.len, v) \cap Mask(f.bit, f.len)
              = ShiftUp(v, k) \cap Mask(f.bit, f.len)
        BY DEF WriteBits
      <4> QED
        BY <4>1 DEF ReadBits
    <3> QED
      BY <1>3, <3>1 DEF FieldOf, NewValue
  <2>3. ShiftDown(ShiftUp(v, k) \cap Mask(f.bit, f.len), k) = v \cap (0..(f.len - 1))
    <3>1. ASSUME NEW j \in v \cap (0..(f.len - 1))
          PROVE  j \in ShiftDown(ShiftUp(v, k) \cap Mask(f.bit, f.len), k)
      <4>1. j + k \in ShiftUp(v, k) /\ j + k \in Mask(f.bit, f.len) /\ (j + k) - k = j
        BY <1>0, <2>1 DEF ShiftUp, Mask
      <4> QED
        BY <4>1 DEF ShiftDown
    <3>2. ASSUME NEW j \in ShiftDown(ShiftUp(v, k) \cap Mask(f.bit, f.len), k)
          PROVE  j \in v \cap (0..(f.len - 1))
      <4>1. PICK m \in ShiftUp(v, k) \cap Mask(f.bit, f.len) : j = m - k
        BY DEF ShiftDown
      <4>2. PICK n \in v : m = n + k
        BY DEF ShiftUp
      <4>3. n \in 0..7 /\ j = n /\ m \in k..f.bit
        BY <1>0, <2>1, <4>1, <4>2 DEF ByteBits, Mask
      <4> DEFINE top == s.at.bit
                 l == s.at.len
      <4>4. top \in Int /\ l \in Int /\ n + (top - l + 1) <= top
        BY <1>0, <4>2, <4>3
      <4> HIDE DEF top, l
      <4>5. n <= l - 1
        BY <4>3, <4>4
      <4> QED
        BY <1>0, <4>2, <4>3, <4>5 DEF l
    <3> QED
      BY <3>1, <3>2
  <2>4. s.at.len > 1 /\ s.at.len # 1
    BY <1>0, <1>3
  <2>5. /\ \A y : Returned(s, y) = y
        /\ Fits(f, v) = v \cap (0..(f.len - 1))
        /\ \A y, z : y = z => Same(s, y, z)
    BY <2>1, <2>4 DEF Same, Returned, Fits
  <2> QED
    BY <2>1, <2>2, <2>3, <2>5
<1> QED
  BY <1>1, <1>2, <1>3

(* Settings of one register are parts of it, and have no bit in common.    *)
LEMMA SharedRegister ==
    ASSUME NEW s \in Single, NEW t \in Single, s # t, s.at.reg = t.at.reg
    PROVE  s.at.len # 8 /\ t.at.len # 8 /\ Cells(s.at) \cap Cells(t.at) = {}
<1>1. FieldOK(s.at) /\ FieldOK(t.at) /\ Cells(s.at) \cap Cells(t.at) = {}
  BY SinglesApart DEF Apart
<1> QED
  BY <1>1, FieldBits

(* No reset bit is a setting.                                              *)
LEMMA ResetsAreNoSettings ==
    \A s \in ResetBits : s.name # "IntEnabled" /\ s.at.len = 1 /\ s \notin Settings
<1> DEFINE names == {"resetFIFO", "resetI2CMaster", "resetSensors", "reset", "resetDMP",
                     "resetGyroscopePath", "resetAccelerometerPath", "resetTemperaturePath"}
<1>1. \A s \in ResetBits : s.name \in names /\ s.at.len = 1
  BY DEF ResetBits, Named, Resets, ResetDmp, PathResets, Bit
<1>2. \A s \in UNION {Named(SupplySettings), Named(GainSettings), Named(RateSettings),
                      Named(AccelSettings), Named(MotionSettings), Named(ZeroMotionSettings),
                      Named(FifoSettings)} : s.name \notin names
  BY DEF Named, SupplySettings, GainSettings, RateSettings, AccelSettings, MotionSettings,
         ZeroMotionSettings, FifoSettings
<1>3. \A s \in UNION {Named(MasterSettings), Named(Slave4Settings), Named(PinSettings),
                      Named(InterruptSettings), Named(DmpInterruptSettings),
                      Named(CounterSettings)} : s.name \notin names
  BY DEF Named, MasterSettings, Slave4Settings, PinSettings, InterruptSettings,
         DmpInterruptSettings, CounterSettings
<1>4. \A s \in UNION {Named(UserSettings), Named(DmpSettings), Named(PowerSettings),
                      Named(StandbySettings), Named(IdentitySettings), Named(ShadowDelay)} :
         s.name \notin names
  BY DEF Named, UserSettings, DmpSettings, PowerSettings, StandbySettings, IdentitySettings,
         ShadowDelay
<1>5. \A s \in UNION {OfSlaves(0..3, [k \in 0..3 |-> SlaveAddressing(k)]),
                      OfSlaves(0..3, [k \in 0..3 |-> SlaveControl(k)]),
                      OfSlaves(0..3, [k \in 0..3 |-> SlaveOutput(k)]),
                      OfSlaves(0..4, [k \in 0..4 |-> SlaveDelay(k)])} : s.name \notin names
  <2>1. ASSUME NEW nums, NEW tables, \A k \in nums : names \cap DOMAIN tables[k] = {},
               NEW s \in OfSlaves(nums, tables)
        PROVE  s.name \notin names
    BY <2>1 DEF OfSlaves, Named
  <2>2. \A k : /\ names \cap DOMAIN SlaveAddressing(k) = {}
               /\ names \cap DOMAIN SlaveControl(k) = {}
               /\ names \cap DOMAIN SlaveOutput(k) = {}
               /\ names \cap DOMAIN SlaveDelay(k) = {}
    BY DEF SlaveAddressing, SlaveControl, SlaveOutput, SlaveDelay
  <2> DEFINE t1 == [k \in 0..3 |-> SlaveAddressing(k)]
             t2 == [k \in 0..3 |-> SlaveControl(k)]
             t3 == [k \in 0..3 |-> SlaveOutput(k)]
             t4 == [k \in 0..4 |-> SlaveDelay(k)]
  <2>3. /\ \A k \in 0..3 : names \cap DOMAIN t1[k] = {} /\ names \cap DOMAIN t2[k] = {}
                           /\ names \cap DOMAIN t3[k] = {}
        /\ \A k \in 0..4 : names \cap DOMAIN t4[k] = {}
    BY <2>2
  <2> HIDE DEF names, t1, t2, t3, t4
  <2>4. /\ \A s \in OfSlaves(0..3, t1) : s.name \notin names
        /\ \A s \in OfSlaves(0..3, t2) : s.name \notin names
        /\ \A s \in OfSlaves(0..3, t3) : s.name \notin names
        /\ \A s \in OfSlaves(0..4, t4) : s.name \notin names
    BY <2>1, <2>3
  <2> QED
    BY <2>4 DEF t1, t2, t3, t4
<1> HIDE DEF names
<1>6. \A s \in Settings : s.name \notin names
  BY <1>2, <1>3, <1>4, <1>5 DEF Settings
<1>7. "IntEnabled" \notin names
  BY DEF names
<1> QED
  BY <1>1, <1>6, <1>7

(* What initialize() looks up is there.                                    *)
Wanted == {"ClockSource", "FullScaleGyroRange", "FullScaleAccelRange", "SleepEnabled"}

LEMMA InitializeFinds == \A n \in Wanted : SettingNamed(n) \in Settings
<1>1. \A n \in Wanted : \E s \in Settings : s.name = n
  <2>1. /\ \E s \in Named(PowerSettings) : s.name = "ClockSource"
        /\ \E s \in Named(PowerSettings) : s.name = "SleepEnabled"
        /\ \E s \in Named(RateSettings) : s.name = "FullScaleGyroRange"
        /\ \E s \in Named(AccelSettings) : s.name = "FullScaleAccelRange"
    <3>1. ASSUME NEW table, NEW n \in DOMAIN table PROVE \E s \in Named(table) : s.name = n
      <4>1. [name |-> n, num |-> 0, at |-> table[n]] \in Named(table)
        BY <3>1 DEF Named
      <4> QED
        BY <4>1
    <3>2. /\ "ClockSource" \in DOMAIN PowerSettings /\ "SleepEnabled" \in DOMAIN PowerSettings
          /\ "FullScaleGyroRange" \in DOMAIN RateSettings
          /\ "FullScaleAccelRange" \in DOMAIN AccelSettings
      BY DEF PowerSettings, RateSettings, AccelSettings
    <3> QED
      BY <3>1, <3>2
  <2>2. Named(PowerSettings) \union Named(RateSettings) \union Named(AccelSettings) \subseteq Settings
    BY DEF Settings
  <2> QED
    BY <2>1, <2>2 DEF Wanted
<1> QED
  BY <1>1 DEF SettingNamed

(* A setting is held by a register, or by the copy of it a setter works    *)
(* on.                                                                     *)
Holds(a, x) == Same(a.s, Returned(a.s, FieldOf(a.s.at, x)), a.v)

Setting == call.kind \in {"set", "reset"}

SettingsTypeOK ==
    /\ regs = [r \in RegisterAddresses |-> regs[r]]
    /\ \A a \in asked : a.s \in Settings /\ a.s.name # "IntEnabled"
    /\ call.kind = "set" => call.s \in Settings /\ call.v \in SUBSET ByteBits
    /\ call.kind = "reset" => call.s \in ResetBits
    /\ call = [pc |-> call.pc, kind |-> call.kind, s |-> call.s, v |-> call.v]
    /\ todo \in Seq(Wanted \X SUBSET ByteBits)

(* Between the read and the write of a setter its copy of the register     *)
(* holds what the register should.                                         *)
CopyHolds ==
    Setting /\ call.pc = "write" /\ call.s.at.len # 8 =>
        \A a \in asked : a.s.at.reg = call.s.at.reg /\ a.s # call.s => Holds(a, b)

SettingsInv == SettingsTypeOK /\ CopyHolds /\ SettingsStick

LEMMA SettingsInitial == SettingsInit => SettingsInv
<1> SUFFICES ASSUME SettingsInit PROVE SettingsInv
  OBVIOUS
<1>1. call = Idle /\ asked = {} /\ todo = <<>> /\ regs = [r \in RegisterAddresses |-> regs[r]]
  BY DEF SettingsInit
<1>2. call.kind = "none" /\ call = [pc |-> call.pc, kind |-> call.kind, s |-> call.s, v |-> call.v]
  BY <1>1 DEF Idle
<1>3. todo \in Seq(Wanted \X SUBSET ByteBits)
  BY <1>1
<1> QED
  BY <1>1, <1>2, <1>3 DEF SettingsInv, SettingsTypeOK, CopyHolds, SettingsStick, Setting

(* Calls begin with nothing of their own.                                  *)
LEMMA CallsBegin ==
    ASSUME SettingsInv,
           StartSet \/ StartReset \/ StartInitialize \/ NextOfInitialize \/ StartGet \/ StartTest
    PROVE  SettingsInv'
<1>0. UNCHANGED <<regs, b, asked>>
  BY DEF StartSet, StartReset, StartInitialize, NextOfInitialize, StartGet, StartTest
<1>1. SettingsStick' /\ (regs = [r \in RegisterAddresses |-> regs[r]])'
      /\ (\A a \in asked : a.s \in Settings /\ a.s.name # "IntEnabled")'
  BY <1>0 DEF SettingsInv, SettingsStick, SettingsTypeOK
<1>2. ASSUME NEW s, NEW v
      PROVE  /\ SetterCall(s, v).kind = "set" /\ SetterCall(s, v).s = s
             /\ SetterCall(s, v).v = v
             /\ SetterCall(s, v).pc = "write" => s.at.len = 8
             /\ SetterCall(s, v) = [pc |-> SetterCall(s, v).pc, kind |-> SetterCall(s, v).kind,
                                    s |-> SetterCall(s, v).s, v |-> SetterCall(s, v).v]
  BY DEF SetterCall
<1>3. CASE StartSet \/ NextOfInitialize
  <2>1. todo' \in Seq(Wanted \X SUBSET ByteBits)
    <3>1. CASE StartSet
      BY <3>1 DEF StartSet, SettingsInv, SettingsTypeOK
    <3>2. CASE NextOfInitialize
      BY <3>2 DEF NextOfInitialize, SettingsInv, SettingsTypeOK
    <3> QED
      BY <1>3, <3>1, <3>2
  <2>2. PICK s \in Settings, v \in SUBSET ByteBits : call' = SetterCall(s, v)
    <3>1. CASE StartSet
      <4>1. Values \subseteq SUBSET ByteBits
        BY DEF Values
      <4> QED
        BY <3>1, <4>1 DEF StartSet
    <3>2. CASE NextOfInitialize
      <4>1. Head(todo) \in Wanted \X SUBSET ByteBits
        BY <3>2 DEF NextOfInitialize, SettingsInv, SettingsTypeOK
      <4>2. SettingNamed(Head(todo)[1]) \in Settings /\ Head(todo)[2] \in SUBSET ByteBits
        BY <4>1, InitializeFinds
      <4> QED
        BY <3>2, <4>2 DEF NextOfInitialize
    <3> QED
      BY <1>3, <3>1, <3>2
  <2> QED
    BY <1>1, <1>2, <2>1, <2>2 DEF SettingsInv, SettingsTypeOK, CopyHolds
<1>4. CASE StartReset
  <2>1. PICK s \in ResetBits : call' = [SetterCall(s, {0}) EXCEPT !.kind = "reset"]
    BY <1>4 DEF StartReset
  <2>2. /\ call'.kind = "reset" /\ call'.s = s
        /\ call'.pc = "write" => s.at.len = 8
        /\ call' = [pc |-> call'.pc, kind |-> call'.kind, s |-> call'.s, v |-> call'.v]
    BY <2>1 DEF SetterCall
  <2>3. todo' = todo
    BY <1>4 DEF StartReset
  <2> QED
    BY <1>1, <2>1, <2>2, <2>3 DEF SettingsInv, SettingsTypeOK, CopyHolds
<1>5. CASE StartInitialize
  <2>1. call' = call
    BY <1>5 DEF StartInitialize
  <2>2. todo' \in Seq(Wanted \X SUBSET ByteBits)
    BY <1>5 DEF StartInitialize, Wanted, ByteBits
  <2> QED
    BY <1>0, <1>1, <2>1, <2>2 DEF SettingsInv, SettingsTypeOK, CopyHolds, Holds, Setting
<1>6. CASE StartGet \/ StartTest
  <2>1. /\ call'.kind \in {"get", "test"} /\ todo' = todo
        /\ call' = [pc |-> call'.pc, kind |-> call'.kind, s |-> call'.s, v |-> call'.v]
    BY <1>6 DEF StartGet, StartTest
  <2> QED
    BY <1>1, <2>1 DEF SettingsInv, SettingsTypeOK, CopyHolds, Setting
<1> QED
  BY <1>3, <1>4, <1>5, <1>6

(* The read of a setter, when it works and when it does not.               *)
LEMMA SetterReads ==
    ASSUME SettingsInv, ReadRegister \/ ReadNothing \/ ReadTimesOut
    PROVE  SettingsInv'
<1>0. IsRead /\ Setting /\ UNCHANGED <<regs, todo>> /\ call.pc = "read"
  BY DEF ReadRegister, ReadNothing, ReadTimesOut, IsRead, Setting
<1>1. asked' \subseteq asked
  BY DEF ReadRegister, ReadNothing, ReadTimesOut
<1>2. SettingsStick'
  BY <1>0, <1>1 DEF SettingsInv, SettingsStick
<1>3. \/ call' = [call EXCEPT !.pc = "write"]
      \/ call' = Idle
  BY DEF ReadRegister, ReadNothing, ReadTimesOut
<1>4. SettingsTypeOK'
  <2>1. /\ call'.kind = "set" => call'.s = call.s /\ call'.v = call.v /\ call.kind = "set"
        /\ call'.kind = "reset" => call'.s = call.s /\ call.kind = "reset"
        /\ call' = [pc |-> call'.pc, kind |-> call'.kind, s |-> call'.s, v |-> call'.v]
    BY <1>3 DEF SettingsInv, SettingsTypeOK, Idle
  <2> QED
    BY <1>0, <1>1, <2>1 DEF SettingsInv, SettingsTypeOK
<1>5. CASE call' = Idle
  BY <1>2, <1>4, <1>5 DEF SettingsInv, CopyHolds, Setting, Idle
<1>6. CASE call' = [call EXCEPT !.pc = "write"]
  <2>1. call'.s = call.s
    BY <1>6 DEF SettingsInv, SettingsTypeOK
  <2>2. CASE ReadRegister
    <3>1. b' = regs[call.s.at.reg] /\ asked' = asked
      BY <2>2 DEF ReadRegister
    <3> QED
      BY <1>2, <1>4, <2>1, <3>1 DEF SettingsInv, CopyHolds, SettingsStick, Holds
  <2>3. CASE asked' = asked \ Doubt(TRUE)
    <3>1. \A a \in asked' : a.s.at.reg # call.s.at.reg
      BY <2>3 DEF Doubt
    <3> QED
      BY <1>2, <1>4, <2>1, <3>1 DEF SettingsInv, CopyHolds
  <2>4. CASE ReadNothing /\ call.s.at.len # 1
    <3>1. call' = Idle
      BY <2>4 DEF ReadNothing
    <3> QED
      BY <1>5, <3>1
  <2> QED
    BY <2>2, <2>3, <2>4 DEF ReadNothing, ReadTimesOut
<1> QED
  BY <1>3, <1>5, <1>6

(* The write: the setter's own field is what it should be, the others are  *)
(* what they were in the copy.                                             *)
LEMMA SetterWrites ==
    ASSUME SettingsInv, WriteRegister
    PROVE  SettingsInv'
<1> DEFINE s == call.s
           x == NewValue(s.at, b, Stored(s, call.v))
<1>1. /\ Setting /\ call.pc = "write" /\ call' = Idle /\ todo' = todo
      /\ regs' = [regs EXCEPT ![s.at.reg] = x]
      /\ asked' = IF call.kind = "set" /\ s.name # "IntEnabled"
                  THEN (asked \ Overlapping) \cup {[s |-> s, v |-> Fits(s.at, call.v)]}
                  ELSE asked \ Overlapping
  BY DEF WriteRegister, Setting
<1>2. s \in Settings \union ResetBits /\ (call.kind = "set" => s \in Settings)
      /\ (call.kind = "set" => call.v \in SUBSET ByteBits)
  BY <1>1 DEF Setting, SettingsInv, SettingsTypeOK
<1>3. s.at.reg \in RegisterAddresses
  BY <1>2 DEF RegisterAddresses
<1>4. /\ regs'[s.at.reg] = x
      /\ \A r \in RegisterAddresses : r # s.at.reg => regs'[r] = regs[r]
      /\ regs' = [r \in RegisterAddresses |-> regs'[r]]
  BY <1>1, <1>3 DEF SettingsInv, SettingsTypeOK
<1>5. ASSUME NEW a \in asked, a \notin Overlapping PROVE Holds(a, regs'[a.s.at.reg])
  <2>1. a.s \in Settings /\ a.s.name # "IntEnabled" /\ a.s # s
        /\ ~ (s.name = "IntEnabled" /\ a.s.at.reg = s.at.reg)
    BY <1>5 DEF SettingsInv, SettingsTypeOK, Overlapping
  <2>2. CASE a.s.at.reg # s.at.reg
    <3>1. a.s.at.reg \in RegisterAddresses
      BY <2>1 DEF RegisterAddresses
    <3> QED
      BY <1>4, <2>2, <3>1 DEF SettingsInv, SettingsStick, Holds
  <2>3. CASE a.s.at.reg = s.at.reg
    <3>1. a.s \in Single /\ s \in Single
      BY <1>2, <2>1, <2>3 DEF Single
    <3>2. a.s.at.len # 8 /\ s.at.len # 8 /\ Cells(a.s.at) \cap Cells(s.at) = {}
      BY <2>1, <2>3, <3>1, SharedRegister
    <3>3. FieldOK(a.s.at) /\ FieldOK(s.at)
      BY <3>1, SinglesApart
    <3>4. x \cap Cells(a.s.at) = b \cap Cells(a.s.at)
      BY <3>2, <3>3, OtherBitsStay
    <3>5. FieldOf(a.s.at, x) = FieldOf(a.s.at, b)
      BY <3>2, <3>3, <3>4, FieldOfItsBits
    <3>6. Holds(a, b)
      BY <1>1, <2>1, <2>3, <3>2 DEF SettingsInv, CopyHolds
    <3> QED
      BY <1>4, <2>3, <3>5, <3>6 DEF Holds
  <2> QED
    BY <2>2, <2>3
<1>6. ASSUME call.kind = "set", s.name # "IntEnabled"
      PROVE  Holds([s |-> s, v |-> Fits(s.at, call.v)], x)
  <2>1. s \in Single /\ call.v \in SUBSET ByteBits
    BY <1>2, <1>6 DEF Single
  <2>2. FieldOK(s.at) /\ (s.name = "TempSensorEnabled" => s.at.len = 1)
    BY <2>1, SinglesApart
  <2>3. Same(s, Returned(s, FieldOf(s.at, x)), Fits(s.at, call.v))
    BY <2>1, <2>2, ReadsBack
  <2> QED
    BY <2>3 DEF Holds
<1>7. SettingsStick'
  <2>1. ASSUME NEW a \in asked' PROVE Holds(a, regs'[a.s.at.reg])
    <3>1. CASE a \in asked /\ a \notin Overlapping
      BY <1>5, <3>1
    <3>2. CASE /\ call.kind = "set" /\ s.name # "IntEnabled"
               /\ a = [s |-> s, v |-> Fits(s.at, call.v)]
      <4>1. a.s = s
        BY <3>2
      <4> QED
        BY <1>4, <1>6, <3>2, <4>1
    <3> QED
      BY <1>1, <3>1, <3>2
  <2> QED
    BY <2>1 DEF SettingsStick, Holds
<1>8. SettingsTypeOK'
  <2>1. \A a \in asked' : a.s \in Settings /\ a.s.name # "IntEnabled"
    BY <1>1, <1>2 DEF SettingsInv, SettingsTypeOK
  <2>2. call'.kind = "none"
        /\ call' = [pc |-> call'.pc, kind |-> call'.kind, s |-> call'.s, v |-> call'.v]
    BY <1>1 DEF Idle
  <2> QED
    BY <1>1, <1>4, <2>1, <2>2 DEF SettingsInv, SettingsTypeOK
<1> QED
  BY <1>1, <1>7, <1>8 DEF SettingsInv, CopyHolds, Setting, Idle

(* The chip clears a bit that no setting has, or forgets them all.         *)
LEMMA ChipResetsKeeps == ASSUME SettingsInv, ChipResets PROVE SettingsInv'
<1>1. PICK s \in ResetBits :
        /\ regs' = IF s.name = "reset"
                   THEN [r \in RegisterAddresses |-> ResetValue(r)]
                   ELSE [regs EXCEPT ![s.at.reg] = @ \ {s.at.bit}]
        /\ asked' = IF s.name = "reset" THEN {} ELSE asked
        /\ UNCHANGED <<buffer, call, todo, b, result, faulty, calls, faults>>
  BY DEF ChipResets
<1>2. regs' = [r \in RegisterAddresses |-> regs'[r]]
  BY <1>1 DEF SettingsInv, SettingsTypeOK
<1>3. SettingsTypeOK' /\ CopyHolds'
  BY <1>1, <1>2 DEF SettingsInv, SettingsTypeOK, CopyHolds, Setting, Holds
<1>4. ASSUME NEW a \in asked, s.name # "reset" PROVE Holds(a, regs'[a.s.at.reg])
  <2>0. a.s \in Settings /\ a.s.name # "IntEnabled" /\ Holds(a, regs[a.s.at.reg])
    BY DEF SettingsInv, SettingsTypeOK, SettingsStick, Holds
  <2>1. a.s.at.reg \in RegisterAddresses /\ s.at.reg \in RegisterAddresses
    BY <2>0 DEF RegisterAddresses
  <2>2. CASE a.s.at.reg # s.at.reg
    BY <1>1, <1>4, <2>0, <2>1, <2>2 DEF SettingsInv, SettingsTypeOK
  <2>3. CASE a.s.at.reg = s.at.reg
    <3>1. a.s \in Single /\ s \in Single /\ a.s # s
      BY <2>0, ResetsAreNoSettings DEF Single
    <3>2. a.s.at.len # 8 /\ Cells(a.s.at) \cap Cells(s.at) = {}
      BY <2>3, <3>1, SharedRegister
    <3>3. FieldOK(a.s.at) /\ s.at.bit \in Cells(s.at)
      BY <3>1, SinglesApart, FieldBits
    <3>4. regs'[s.at.reg] = regs[s.at.reg] \ {s.at.bit}
      BY <1>1, <1>4, <2>1 DEF SettingsInv, SettingsTypeOK
    <3>5. regs'[s.at.reg] \cap Cells(a.s.at) = regs[s.at.reg] \cap Cells(a.s.at)
      BY <3>2, <3>3, <3>4
    <3>6. FieldOf(a.s.at, regs'[s.at.reg]) = FieldOf(a.s.at, regs[s.at.reg])
      BY <3>2, <3>3, <3>5, FieldOfItsBits
    <3> QED
      BY <2>0, <2>3, <3>6 DEF Holds
  <2> QED
    BY <2>2, <2>3
<1>5. SettingsStick'
  BY <1>1, <1>4 DEF SettingsStick, Holds
<1> QED
  BY <1>3, <1>5 DEF SettingsInv

LEMMA SettingsKept == SettingsInv /\ [SettingsNext]_settingsVars => SettingsInv'
<1> SUFFICES ASSUME SettingsInv, [SettingsNext]_settingsVars PROVE SettingsInv'
  OBVIOUS
<1>1. CASE WriteIsLost \/ Get \/ GetFails
  <2>1. call' = Idle /\ asked' \subseteq asked /\ UNCHANGED <<regs, todo>>
    BY <1>1 DEF WriteIsLost, Get, GetFails
  <2>2. call'.kind = "none"
        /\ call' = [pc |-> call'.pc, kind |-> call'.kind, s |-> call'.s, v |-> call'.v]
    BY <2>1 DEF Idle
  <2> QED
    BY <2>1, <2>2 DEF SettingsInv, SettingsTypeOK, CopyHolds, Setting, SettingsStick
<1>2. CASE UNCHANGED settingsVars
  BY <1>2 DEF settingsVars, SettingsInv, SettingsTypeOK, CopyHolds, Setting, SettingsStick, Holds
<1> QED
  BY <1>1, <1>2, CallsBegin, SetterReads, SetterWrites, ChipResetsKeeps DEF SettingsNext

LEMMA SettingsRuns == MpuSpec => SettingsInit /\ [][SettingsNext]_settingsVars
<1>1. MpuInit => SettingsInit
  BY DEF MpuInit
<1>2. [MpuNext]_mpuVars => [SettingsNext]_settingsVars
  BY DEF MpuNext, Of, mpuVars
<1> QED
  BY <1>1, <1>2, PTL DEF MpuSpec

(* A setting whose read and write both succeeded stays as it was made      *)
(* until its setter is called again, the chip is reset as a whole, or the  *)
(* read of another setter of its register fails: for any contents of the   *)
(* registers and any number of calls and faults.                           *)
THEOREM SettingsStickHolds == MpuSpec => []SettingsStick
<1>1. SettingsInv => SettingsStick
  BY DEF SettingsInv
<1> QED
  BY SettingsInitial, SettingsKept, SettingsRuns, <1>1, PTL

-----------------------------------------------------------------------------
(* The memory of the DMP.                                                  *)

(* The places of the memory in the order of their addresses.               *)
Spots == Nat \X (0..(BankSize - 1))
Lin(p) == p[1] * BankSize + p[2]

LEMMA LinIs == ASSUME NEW p \in Spots PROVE Lin(p) \in Nat /\ p = <<p[1], p[2]>>
  BY MemoryAssumption DEF Spots, Lin

(* Of two places the one in the higher bank is behind the end of the       *)
(* other's bank.                                                           *)
LEMMA HigherBank ==
    ASSUME NEW p \in Spots, NEW q \in Spots, p[1] < q[1]
    PROVE  Lin(p) - p[2] + BankSize + q[2] <= Lin(q)
<1>0. BankSize \in Nat \ {0} /\ p[1] \in Nat /\ q[1] \in Nat /\ p[2] \in Nat /\ q[2] \in Nat
  BY MemoryAssumption DEF Spots
<1>1. PICK z \in Nat : q[1] = p[1] + 1 + z
  <2>1. q[1] - p[1] - 1 \in Nat /\ q[1] = p[1] + 1 + (q[1] - p[1] - 1)
    BY <1>0
  <2> QED
    BY <2>1
<1>2. q[1] * BankSize = p[1] * BankSize + BankSize + z * BankSize
  BY <1>0, <1>1
<1>3. z * BankSize \in Nat /\ p[1] * BankSize \in Nat /\ q[1] * BankSize \in Nat
  BY <1>0
<1> QED
  BY <1>0, <1>2, <1>3 DEF Lin

LEMMA LinApart ==
    ASSUME NEW p \in Spots, NEW q \in Spots, Lin(p) = Lin(q)
    PROVE  p = q
<1>0. BankSize \in Nat \ {0} /\ p[1] \in Nat /\ q[1] \in Nat
      /\ p[2] \in 0..(BankSize - 1) /\ q[2] \in 0..(BankSize - 1)
  BY MemoryAssumption DEF Spots
<1>1. ~(p[1] < q[1]) /\ ~(q[1] < p[1])
  BY <1>0, HigherBank, LinIs
<1>2. p[1] = q[1]
  BY <1>0, <1>1
<1>3. p[1] * BankSize \in Nat
  BY <1>0
<1>4. p[2] = q[2]
  <2>1. q[1] * BankSize = p[1] * BankSize
    BY <1>2
  <2>2. p[1] * BankSize + p[2] = q[1] * BankSize + q[2]
    BY DEF Lin
  <2>3. \A x \in Nat : x + p[2] = x + q[2] => p[2] = q[2]
    BY <1>0
  <2> QED
    BY <1>3, <2>1, <2>2, <2>3
<1> QED
  BY <1>2, <1>4, LinIs

(* The places that follow one in its bank are the next ones.               *)
LEMMA SameBank ==
    ASSUME NEW p \in Spots, NEW q \in Spots, NEW n \in Nat, p[2] + n <= BankSize
    PROVE  Lin(q) - Lin(p) \in 0..(n - 1) <=> q[1] = p[1] /\ q[2] - p[2] \in 0..(n - 1)
<1>0. BankSize \in Nat \ {0} /\ p[1] \in Nat /\ q[1] \in Nat
      /\ p[2] \in 0..(BankSize - 1) /\ q[2] \in 0..(BankSize - 1)
  BY MemoryAssumption DEF Spots
<1>1. p[1] * BankSize \in Nat /\ q[1] * BankSize \in Nat
  BY <1>0
<1>2. CASE p[1] < q[1]
  BY <1>0, <1>1, <1>2, HigherBank, LinIs
<1>3. CASE q[1] < p[1]
  BY <1>0, <1>1, <1>3, HigherBank, LinIs
<1>4. CASE q[1] = p[1]
  <2>1. Lin(q) - Lin(p) = q[2] - p[2]
    BY <1>0, <1>1, <1>4 DEF Lin
  <2> QED
    BY <1>4, <2>1
<1> QED
  BY <1>0, <1>2, <1>3, <1>4

LEMMA OffsetIs ==
    ASSUME NEW p \in Spots, NEW q \in Spots PROVE Offset(p, q) = Lin(q) - Lin(p)
<1>0. BankSize \in Nat \ {0} /\ p[1] \in Nat /\ q[1] \in Nat
      /\ p[2] \in Nat /\ q[2] \in Nat
  BY MemoryAssumption DEF Spots
<1>1. (q[1] - p[1]) * BankSize = q[1] * BankSize - p[1] * BankSize
  BY <1>0
<1>2. q[1] * BankSize \in Nat /\ p[1] * BankSize \in Nat
  BY <1>0
<1> QED
  BY <1>0, <1>1, <1>2 DEF Offset, Lin

LEMMA PlaceOfIs ==
    ASSUME NEW p \in Spots, NEW n \in Nat
    PROVE  PlaceOf(p, n) \in Spots /\ Lin(PlaceOf(p, n)) = Lin(p) + n
<1>0. BankSize \in Nat \ {0} /\ p[1] \in Nat /\ p[2] \in Nat
  BY MemoryAssumption DEF Spots
<1> DEFINE s == p[2] + n
<1>1. s \in Nat
  BY <1>0
<1> HIDE DEF s
<1>2. s = BankSize * (s \div BankSize) + (s % BankSize)
      /\ s \div BankSize \in Nat /\ s % BankSize \in 0..(BankSize - 1)
  BY <1>0, <1>1
<1>3. (p[1] + s \div BankSize) * BankSize = p[1] * BankSize + BankSize * (s \div BankSize)
  BY <1>0, <1>2, SMTT(20)
<1>4. p[1] * BankSize \in Nat /\ BankSize * (s \div BankSize) \in Nat
  BY <1>0, <1>2
<1>5. PlaceOf(p, n) = <<p[1] + s \div BankSize, s % BankSize>>
  BY DEF PlaceOf, s
<1>6. Lin(PlaceOf(p, n)) = p[1] * BankSize + s
  BY <1>2, <1>3, <1>4, <1>5 DEF Lin
<1>7. p[1] * BankSize + s = Lin(p) + n
  BY <1>0, <1>4 DEF Lin, s
<1>8. p[1] + s \div BankSize \in Nat
  BY <1>0, <1>2
<1>9. PlaceOf(p, n) \in Spots
  BY <1>2, <1>5, <1>8 DEF Spots
<1> QED
  BY <1>6, <1>7, <1>9

LEMMA InMemory ==
    /\ Places \subseteq Spots
    /\ \A p \in Spots : p \in Places <=> p[1] < Banks
  BY MemoryAssumption DEF Places, Spots

LEMMA BeforeIsThere ==
    ASSUME NEW p \in Spots, NEW q \in Places, Lin(p) <= Lin(q)
    PROVE  p \in Places
<1>0. q \in Spots /\ q[1] < Banks
  BY InMemory
<1>1. ~(q[1] < p[1])
  BY <1>0, HigherBank, LinIs, MemoryAssumption DEF Spots
<1>2. p[1] \in Nat /\ q[1] \in Nat /\ Banks \in Nat
  BY <1>0, MemoryAssumption DEF Spots
<1> QED
  BY <1>0, <1>1, <1>2, InMemory

-----------------------------------------------------------------------------
(* The invariant.  A place is the n-th of the block in progress.  The      *)
(* bytes of the block are new: they differ from each other and from what   *)
(* the chip holds, and blocks of a set still to come will differ from all  *)
(* that are there.                                                         *)
Nth(q) == Lin(q) - Lin(place) + i + 1
InBlock(q) == Nth(q) \in 1..Len(job.data)
Unused(v) == \A n \in 1..Len(job.data) : job.data[n] # v
Spent(v) == v = Old \/ v > (rest + 1) * MaxSize

Forth == {"bank", "address", "write"}
Back == {"bankAgain", "addressAgain", "verify"}

MemoryTypeOK ==
    /\ memory \in [Places -> Nat] /\ want \in [Places -> Nat]
    /\ window \in Places /\ place \in Spots
    /\ job \in [kind : {"none", "write", "read"}, data : Seq(Nat), verify : BOOLEAN, checked : BOOLEAN]
    /\ i \in Nat /\ rest \in Nat /\ missed \in Nat
    /\ pc \in {"idle", "next", "read"} \union Forth \union Back
    /\ done \in {"none", "true", "false", "read"}

(* The block in progress lies in the memory.                               *)
Underway ==
    /\ i < Len(job.data) /\ place \in Places /\ done = "none"
    /\ \E blk \in Blocks : blk[2] = Len(job.data) /\ Lin(blk[1]) + i = Lin(place)

NewBytes ==
    /\ \A n \in 1..Len(job.data) : job.data[n] # Old /\ (rest > 0 => Spent(job.data[n]))
    /\ \A n, m \in 1..Len(job.data) : job.data[n] = job.data[m] => n = m

Intended ==
    \A q \in Places : /\ InBlock(q) => want[q] = job.data[Nth(q)]
                      /\ ~InBlock(q) /\ rest > 0 => Spent(want[q])

(* Of the contents m the first n bytes are written, the rest is as it was. *)
Prefix(m, n) ==
    \A q \in Places : /\ InBlock(q) /\ Nth(q) <= n => m[q] = job.data[Nth(q)]
                      /\ InBlock(q) /\ Nth(q) > n => Unused(m[q])
                      /\ ~InBlock(q) => m[q] = want[q]

(* The window is where the driver has just put it.                         *)
Aimed(bankSet, bothSet) ==
    /\ pc = bankSet => window[1] = place[1]
    /\ pc = bothSet => window = place

(* A chunk that went astray is seen when it is read back.                  *)
Astray ==
    /\ missed = 1 /\ memory[place] # job.data[i + 1]
    /\ Aimed("addressAgain", "verify")

Sound == missed = 0 \/ (job.checked /\ missed <= 1)

WriteInv ==
    (pc \in Forth \union Back /\ job.kind = "write") =>
        /\ Underway /\ NewBytes /\ Intended /\ (job.checked => job.verify)
        /\ pc \in Forth /\ Sound => Prefix(memory, i)
        /\ missed = 0 => Aimed("address", "write")
        /\ pc \in Back => job.verify
        /\ pc \in Back /\ Sound => Prefix(memory, i + Chunk) \/ Astray

ReadFrom(p, n) == [m \in 1..n |-> want[PlaceOf(p, m - 1)]]

ReadInv ==
    (pc \in Forth \union {"read"} /\ job.kind = "read") =>
        /\ Underway
        /\ missed = 0 =>
              /\ memory = want /\ Aimed("address", "read")
              /\ \E blk \in Blocks :
                    /\ blk[2] = Len(job.data) /\ Lin(blk[1]) + i = Lin(place)
                    /\ held = ReadFrom(blk[1], i)

JobKinds ==
    /\ pc \in {"write"} \union Back => job.kind = "write"
    /\ pc = "read" => job.kind = "read"
    /\ pc \in Forth => job.kind # "none"

Between ==
    /\ pc = "next" => /\ Sound => memory = want
                      /\ done = "none" /\ \A q \in Places : Spent(want[q])
    /\ pc = "idle" /\ done = "none" =>
          /\ memory = want /\ missed = 0 /\ rest = 0 /\ \A q \in Places : want[q] = Old
    /\ pc = "idle" /\ done = "true" /\ Sound => memory = want
    /\ pc = "idle" /\ done = "read" /\ missed = 0 =>
          \E blk \in Blocks : held = ReadFrom(blk[1], blk[2])

MemoryInv == MemoryTypeOK /\ JobKinds /\ WriteInv /\ ReadInv /\ Between

(* The initial state satisfies it.                                         *)
LEMMA MemoryInitial == MemoryInit => MemoryInv
<1> SUFFICES ASSUME MemoryInit PROVE MemoryInv
  OBVIOUS
<1>1. <<0, 0>> \in Places /\ <<0, 0>> \in Spots
  BY MemoryAssumption DEF Places, Spots
<1>2. NoJob \in [kind : {"none", "write", "read"}, data : Seq(Nat), verify : BOOLEAN, checked : BOOLEAN]
  BY DEF NoJob
<1>3. MemoryTypeOK
  BY <1>1, <1>2 DEF MemoryInit, MemoryTypeOK, Old
<1> QED
  BY <1>3 DEF MemoryInit, MemoryInv, JobKinds, WriteInv, ReadInv, Between, Forth, Back, Old

(* A chunk is of the block and of the bank.                                *)
LEMMA ChunkIs ==
    ASSUME MemoryTypeOK, Underway
    PROVE  /\ Chunk \in Nat \ {0} /\ place[2] + Chunk <= BankSize
           /\ i + Chunk <= Len(job.data) /\ Len(job.data) \in Nat /\ i + 1 \in 1..Len(job.data)
           /\ place[2] \in Nat /\ place[1] \in Nat /\ job.data \in Seq(Nat)
<1>1. job.data \in Seq(Nat) /\ Len(job.data) \in Nat /\ i \in Nat /\ i < Len(job.data)
  BY DEF MemoryTypeOK, Underway
<1>2. place[2] \in 0..(BankSize - 1) /\ place[1] \in Nat /\ BankSize \in Nat
  BY MemoryAssumption DEF MemoryTypeOK, Spots
<1>3. ChunkSize \in Nat \ {0}
  BY MemoryAssumption
<1>4. /\ Chunk \in Nat \ {0} /\ Chunk <= Len(job.data) - i
      /\ Chunk <= BankSize - place[2]
  <2>1. \A x, y, z \in Nat \ {0} :
           LET n == LesserSize(LesserSize(x, y), z) IN n \in Nat \ {0} /\ n <= y /\ n <= z
    BY DEF LesserSize
  <2>2. Len(job.data) - i \in Nat \ {0}
    BY <1>1
  <2>3. BankSize - place[2] \in Nat \ {0}
    BY <1>2
  <2> QED
    BY <1>3, <2>1, <2>2, <2>3 DEF Chunk
<1>5. place[2] + Chunk <= BankSize /\ i + Chunk <= Len(job.data) /\ i + 1 \in 1..Len(job.data)
  BY <1>1, <1>2, <1>4, SMTT(20)
<1> QED
  BY <1>1, <1>2, <1>4, <1>5

LEMMA ChunkBytes ==
    ASSUME MemoryTypeOK, Underway
    PROVE  LET s == SubSeq(job.data, i + 1, i + Chunk)
           IN  Len(s) = Chunk /\ \A k \in 1..Chunk : s[k] = job.data[i + k]
<1>1. Chunk \in Nat \ {0} /\ i + Chunk <= Len(job.data) /\ Len(job.data) \in Nat /\ i \in Nat
      /\ job.data \in Seq(Nat)
  BY ChunkIs DEF MemoryTypeOK
<1> DEFINE x == i + 1
           y == i + Chunk
           s == SubSeq(job.data, x, y)
<1>2. x \in Int /\ y \in Int /\ x <= y /\ y - x + 1 = Chunk /\ x..y \subseteq 1..Len(job.data)
  BY <1>1
<1>3. \A k \in x..y : job.data[k] \in Nat
  BY <1>1, <1>2
<1> HIDE DEF x, y
<1>4. Len(s) = Chunk /\ \A k \in 1..Chunk : s[k] = job.data[x + k - 1]
  BY <1>2, <1>3, SubSeqProperties
<1>5. \A k \in 1..Chunk : x + k - 1 = i + k
  BY <1>1 DEF x
<1> QED
  BY <1>4, <1>5 DEF x, y

(* The remainder of a difference that may be negative.                     *)
LEMMA Remainder ==
    ASSUME NEW d \in Int, NEW r \in 0..(BankSize - 1), d = r \/ d = r - BankSize
    PROVE  d % BankSize = r
<1>0. BankSize \in Nat \ {0}
  BY MemoryAssumption
<1> DEFINE k == d \div BankSize
           e == d % BankSize
<1>1. d = BankSize * k + e /\ k \in Int /\ e \in 0..(BankSize - 1)
  BY <1>0
<1> HIDE DEF k, e
<1>2. k >= 1 => BankSize * k >= BankSize
  BY <1>0, <1>1
<1>3. k <= -1 => BankSize * k <= -BankSize
  BY <1>0, <1>1
<1>4. k <= -2 => BankSize * k <= -2 * BankSize
  BY <1>0, <1>1
<1>5. k = -1 => BankSize * k = -BankSize
  BY <1>0, <1>1
<1>6. k = 0 => BankSize * k = 0
  BY <1>0, <1>1
<1>7. BankSize * k \in Int
  BY <1>0, <1>1
<1>8. k = 0 \/ k = -1 \/ k <= -2 \/ k >= 1
  BY <1>1
<1>9. e = r
  BY <1>0, <1>1, <1>2, <1>4, <1>5, <1>6, <1>7, <1>8
<1> QED
  BY <1>9 DEF e

LEMMA MovedStays == ASSUME NEW p \in Places, NEW n \in Nat PROVE Moved(p, n) \in Places
<1>1. p[1] \in 0..(Banks - 1) /\ p[2] \in Nat /\ BankSize \in Nat \ {0}
  BY MemoryAssumption DEF Places
<1>2. (p[2] + n) % BankSize \in 0..(BankSize - 1)
  BY <1>1
<1> QED
  BY <1>1, <1>2 DEF Moved, Places

LEMMA MovedInBank ==
    ASSUME NEW p \in Places, NEW n \in Nat, p[2] + n < BankSize
    PROVE  Moved(p, n) = <<p[1], p[2] + n>>
<1>1. p[2] \in Nat /\ BankSize \in Nat \ {0}
  BY MemoryAssumption DEF Places
<1> QED
  BY <1>1 DEF Moved

LEMMA Distance ==
    ASSUME NEW x \in 0..(BankSize - 1), NEW y \in 0..(BankSize - 1)
    PROVE  (x - y) % BankSize = IF y <= x THEN x - y ELSE x - y + BankSize
<1>0. BankSize \in Nat \ {0}
  BY MemoryAssumption
<1>1. CASE y <= x
  <2>1. x - y \in 0..(BankSize - 1)
    BY <1>0, <1>1
  <2> QED
    BY <1>1, <2>1, Remainder
<1>2. CASE ~(y <= x)
  <2>1. x - y + BankSize \in 0..(BankSize - 1) /\ x - y \in Int
    BY <1>0, <1>2
  <2>2. x - y = (x - y + BankSize) - BankSize
    BY <1>0
  <2> QED
    BY <1>2, <2>1, <2>2, Remainder
<1> QED
  BY <1>1, <1>2

(* A chunk put where it belongs is written, and nothing else is.           *)
LEMMA PutLands ==
    ASSUME MemoryTypeOK, Underway, Prefix(memory, i)
    PROVE  Prefix(Put(memory, place, SubSeq(job.data, i + 1, i + Chunk)), i + Chunk)
<1> DEFINE s == SubSeq(job.data, i + 1, i + Chunk)
           m == Put(memory, place, s)
<1>0. /\ Chunk \in Nat \ {0} /\ place[2] + Chunk <= BankSize
      /\ i + Chunk <= Len(job.data) /\ Len(job.data) \in Nat /\ i \in Nat
      /\ place[2] \in Nat /\ place[1] \in Nat /\ job.data \in Seq(Nat)
      /\ place \in Spots /\ place \in Places /\ BankSize \in Nat \ {0}
  BY ChunkIs, MemoryAssumption DEF MemoryTypeOK, Underway
<1>1. Len(s) = Chunk /\ \A k \in 1..Chunk : s[k] = job.data[i + k]
  BY ChunkBytes
<1> HIDE DEF s
<1>2. ASSUME NEW q \in Places
      PROVE  m[q] = IF Nth(q) \in (i + 1)..(i + Chunk) THEN job.data[Nth(q)] ELSE memory[q]
  <2>1. q \in Spots /\ q[1] \in Nat /\ q[2] \in 0..(BankSize - 1)
    BY InMemory DEF Spots
  <2>0. /\ q[2] \in 0..(BankSize - 1) /\ place[2] \in 0..(BankSize - 1)
        /\ Chunk \in Nat \ {0} /\ place[2] + Chunk <= BankSize /\ BankSize \in Nat \ {0}
    BY <1>0, <2>1 DEF Spots
  <2>2. Lin(q) \in Nat /\ Lin(place) \in Nat
    BY <1>0, <2>1, LinIs
  <2>3. Nth(q) \in (i + 1)..(i + Chunk) <=> q[1] = place[1] /\ q[2] - place[2] \in 0..(Chunk - 1)
    <3>1. Lin(q) - Lin(place) \in 0..(Chunk - 1) <=> q[1] = place[1] /\ q[2] - place[2] \in 0..(Chunk - 1)
      BY <1>0, <2>1, SameBank
    <3>2. Nth(q) = Lin(q) - Lin(place) + i + 1
      BY DEF Nth
    <3>3. Nth(q) \in (i + 1)..(i + Chunk) <=> Lin(q) - Lin(place) \in 0..(Chunk - 1)
      <4>1. i \in Nat
        BY <1>0
      <4> QED
        BY <2>0, <2>2, <3>2, <4>1
    <3> QED
      BY <3>1, <3>3
  <2>4. CASE q[2] >= place[2]
    <3>1. (q[2] - place[2]) % BankSize = q[2] - place[2]
      BY <2>0, <2>4, Distance
    <3>2. m[q] = IF q[1] = place[1] /\ q[2] - place[2] + 1 \in 1..Chunk
                 THEN s[q[2] - place[2] + 1] ELSE memory[q]
      BY <1>1, <3>1 DEF Put
    <3>3. q[1] = place[1] => Nth(q) = i + (q[2] - place[2] + 1)
      <4>0. i \in Nat
        BY <1>0
      <4>1. SUFFICES ASSUME q[1] = place[1] PROVE Lin(q) - Lin(place) = q[2] - place[2]
        BY <2>0, <2>2, <4>0 DEF Nth
      <4>2. place[1] * BankSize \in Nat
        BY <1>0
      <4>3. Lin(q) = place[1] * BankSize + q[2] /\ Lin(place) = place[1] * BankSize + place[2]
        BY <4>1 DEF Lin
      <4> QED
        BY <2>0, <4>2, <4>3
    <3>4. i \in Nat
      BY <1>0
    <3>5. CASE q[1] = place[1] /\ q[2] - place[2] + 1 \in 1..Chunk
      <4>1. s[q[2] - place[2] + 1] = job.data[Nth(q)]
        BY <1>1, <3>3, <3>5
      <4>2. q[2] - place[2] \in 0..(Chunk - 1)
        BY <2>0, <3>5
      <4> QED
        BY <2>3, <3>2, <3>5, <4>1, <4>2
    <3>6. CASE ~(q[1] = place[1] /\ q[2] - place[2] + 1 \in 1..Chunk)
      <4>1. ~(q[1] = place[1] /\ q[2] - place[2] \in 0..(Chunk - 1))
        BY <2>0, <3>6
      <4> QED
        BY <2>3, <3>2, <3>6, <4>1
    <3> QED
      BY <3>5, <3>6
  <2>5. CASE q[2] < place[2]
    <3>1. (q[2] - place[2]) % BankSize = q[2] - place[2] + BankSize
      BY <2>0, <2>5, Distance
    <3>2. ~(((q[2] - place[2]) % BankSize) + 1 \in 1..Chunk)
      BY <2>0, <3>1
    <3>3. m[q] = memory[q]
      BY <1>1, <3>2 DEF Put
    <3> QED
      BY <2>0, <2>3, <2>5, <3>3
  <2> QED
    BY <2>0, <2>4, <2>5
<1> HIDE DEF m
<1>3. ASSUME NEW q \in Places PROVE Nth(q) \in Int
  BY <1>0, InMemory, LinIs DEF Nth
<1>4. Prefix(m, i + Chunk)
  BY <1>0, <1>2, <1>3, SMTT(20) DEF Prefix, InBlock
<1> QED
  BY <1>4 DEF m, s

(* Put anywhere else it does not reach its first place.                    *)
LEMMA PutMisses ==
    ASSUME MemoryTypeOK, Underway, NewBytes, Prefix(memory, i), window # place
    PROVE  Put(memory, window, SubSeq(job.data, i + 1, i + Chunk))[place] # job.data[i + 1]
<1> DEFINE s == SubSeq(job.data, i + 1, i + Chunk)
           n == ((place[2] - window[2]) % BankSize) + 1
<1>0. /\ Chunk \in Nat \ {0} /\ i + Chunk <= Len(job.data) /\ Len(job.data) \in Nat /\ i \in Nat
      /\ i + 1 \in 1..Len(job.data)
      /\ place[2] \in 0..(BankSize - 1) /\ window[2] \in 0..(BankSize - 1)
      /\ job.data \in Seq(Nat) /\ place \in Spots /\ place \in Places /\ BankSize \in Nat \ {0}
      /\ window \in Places
  BY ChunkIs, MemoryAssumption DEF MemoryTypeOK, Underway, Spots, Places
<1>1. Len(s) = Chunk /\ \A k \in 1..Chunk : s[k] = job.data[i + k]
  BY ChunkBytes
<1>2. memory[place] # job.data[i + 1]
  <2>1. Nth(place) = i + 1
    BY <1>0, LinIs DEF Nth
  <2>2. InBlock(place) /\ Nth(place) > i
    BY <1>0, <2>1 DEF InBlock
  <2> QED
    BY <1>0, <2>2 DEF Prefix, Unused
<1>3. window[1] = place[1] => n # 1
  <2>1. SUFFICES ASSUME window[1] = place[1] PROVE n # 1
    OBVIOUS
  <2>0. /\ window[2] \in 0..(BankSize - 1) /\ place[2] \in 0..(BankSize - 1)
        /\ BankSize \in Nat \ {0}
    BY <1>0
  <2>2. window[2] # place[2]
    <3>1. window = <<window[1], window[2]>> /\ place = <<place[1], place[2]>>
      BY <1>0 DEF Places
    <3> QED
      BY <2>1, <3>1
  <2>3. CASE place[2] > window[2]
    <3>1. (place[2] - window[2]) % BankSize = place[2] - window[2]
      BY <2>0, <2>3, Distance
    <3> QED
      BY <2>0, <2>3, <3>1
  <2>4. CASE place[2] < window[2]
    <3>1. (place[2] - window[2]) % BankSize = place[2] - window[2] + BankSize
      BY <2>0, <2>4, Distance
    <3> QED
      BY <2>0, <2>4, <3>1
  <2> QED
    BY <2>0, <2>2, <2>3, <2>4
<1> HIDE DEF s, n
<1>4. Put(memory, window, s)[place]
         = IF place[1] = window[1] /\ n \in 1..Chunk THEN s[n] ELSE memory[place]
  BY <1>0, <1>1 DEF Put, n
<1>5. ASSUME place[1] = window[1], n \in 1..Chunk PROVE s[n] # job.data[i + 1]
  <2>1. s[n] = job.data[i + n] /\ i + n \in 1..Len(job.data) /\ i + n # i + 1
    BY <1>0, <1>1, <1>3, <1>5
  <2> QED
    BY <1>0, <2>1 DEF NewBytes
<1> QED
  BY <1>2, <1>4, <1>5 DEF s

-----------------------------------------------------------------------------
(* A block to be written begins: its bytes are new.                        *)
LEMMA WriteBegins ==
    ASSUME MemoryInv, NEW blk \in Blocks, NEW v \in BOOLEAN, Begin("write", blk[1], blk[2], v),
           want' = [q \in Places |-> LET n == Offset(blk[1], q) + 1
                                     IN IF n \in 1..blk[2] THEN ByteAt(n) ELSE want[q]],
           UNCHANGED <<memory, window, missed>>,
           rest' \in Nat, rest' > 0 => rest' + 1 = rest,
           missed = 0 \/ (v /\ job.checked /\ missed <= 1) => memory = want,
           \A q \in Places : Spent(want[q])
    PROVE  MemoryInv'
<1>0. /\ blk[1] \in Places /\ blk[1] \in Spots /\ blk[2] \in 1..MaxSize /\ MaxSize \in Nat
      /\ rest \in Nat /\ want \in [Places -> Nat] /\ memory \in [Places -> Nat] /\ blk[2] \in Nat
  BY MemoryAssumption, InMemory DEF Blocks, MemoryInv, MemoryTypeOK
<1> DEFINE base == rest * MaxSize
<1>1. base \in Nat /\ (rest + 1) * MaxSize = base + MaxSize
  BY <1>0
<1> HIDE DEF base
<1>2. /\ job'.data = [n \in 1..blk[2] |-> base + n] /\ job'.kind = "write"
      /\ (job'.verify <=> v) /\ (job'.checked <=> v /\ job.checked)
      /\ place' = blk[1] /\ i' = 0 /\ pc' = "bank" /\ done' = "none"
      /\ job' \in [kind : {"none", "write", "read"}, data : Seq(Nat), verify : BOOLEAN, checked : BOOLEAN]
  <2>1. Bytes(blk[2]) = [n \in 1..blk[2] |-> base + n]
    BY DEF Bytes, ByteAt, base
  <2>2. Bytes(blk[2]) \in Seq(Nat)
    <3>1. \A n \in 1..blk[2] : base + n \in Nat
      BY <1>0, <1>1
    <3>2. Bytes(blk[2]) \in [1..blk[2] -> Nat]
      BY <2>1, <3>1
    <3>3. blk[2] \in Nat
      BY <1>0
    <3> QED
      BY <3>2, <3>3, SeqDef
  <2>3. job.checked \in BOOLEAN
    BY DEF MemoryInv, MemoryTypeOK
  <2> QED
    BY <2>1, <2>2, <2>3 DEF Begin
<1>3. Len(job'.data) = blk[2]
  BY <1>0, <1>1, <1>2
<1>4. ASSUME NEW q \in Places
      PROVE  /\ Nth(q)' = Offset(blk[1], q) + 1 /\ Nth(q)' \in Int
             /\ want'[q] = IF Nth(q)' \in 1..blk[2] THEN job'.data[Nth(q)'] ELSE want[q]
  <2>1. Nth(q)' = Offset(blk[1], q) + 1 /\ Nth(q)' \in Int
    <3>1. Offset(blk[1], q) = Lin(q) - Lin(blk[1]) /\ Lin(q) \in Nat /\ Lin(blk[1]) \in Nat
      BY <1>0, InMemory, OffsetIs, LinIs
    <3> QED
      BY <1>2, <3>1 DEF Nth, Lin
  <2>2. want'[q] = IF Nth(q)' \in 1..blk[2] THEN base + Nth(q)' ELSE want[q]
    BY <2>1 DEF ByteAt, base
  <2> QED
    BY <1>2, <2>1, <2>2
<1>5. want' \in [Places -> Nat]
  <2>1. ASSUME NEW n \in 1..blk[2] PROVE ByteAt(n) \in Nat
    BY <1>0, <1>1 DEF ByteAt, base
  <2> QED
    BY <1>0, <2>1
<1>6. MemoryTypeOK'
  BY <1>0, <1>2, <1>5 DEF MemoryInv, MemoryTypeOK, Forth
<1>7. JobKinds'
  BY <1>2 DEF JobKinds, Back, Forth
<1>8. Underway'
  <2>1. Lin(blk[1])' = Lin(place)' /\ Lin(blk[1]) \in Nat
    BY <1>0, <1>2, LinIs DEF Lin
  <2> QED
    BY <1>0, <1>2, <1>3, <2>1 DEF Underway, Lin
<1>9. rest' > 0 => (rest' + 1) * MaxSize = base
  BY DEF base
<1>10. NewBytes'
  <2>1. ASSUME NEW n \in 1..blk[2]
        PROVE  job'.data[n] = base + n /\ base + n # Old /\ (rest' > 0 => base + n > (rest' + 1) * MaxSize)
    <3>1. base + n \in Nat /\ base + n # 0 /\ base + n > base
      BY <1>0, <1>1
    <3> QED
      BY <1>2, <1>9, <3>1 DEF Old
  <2>2. ASSUME NEW n \in 1..blk[2], NEW m \in 1..blk[2], job'.data[n] = job'.data[m] PROVE n = m
    <3>1. base + n = base + m
      BY <2>1, <2>2
    <3> QED
      BY <1>1, <3>1
  <2> QED
    BY <1>3, <2>1, <2>2 DEF NewBytes, Spent
<1>11. Intended'
  <2>1. ASSUME NEW q \in Places, rest' > 0, ~(Nth(q)' \in 1..blk[2])
        PROVE  want'[q] = Old \/ want'[q] > (rest' + 1) * MaxSize
    <3>1. want'[q] = want[q] /\ (want[q] = Old \/ want[q] > (rest + 1) * MaxSize)
      BY <1>4, <2>1 DEF Spent
    <3>2. want[q] \in Nat
      BY <1>0
    <3>3. want[q] > base + MaxSize => want[q] > base
      BY <1>0, <1>1, <3>2
    <3> QED
      BY <1>1, <1>9, <2>1, <3>1, <3>3
  <2> QED
    BY <1>3, <1>4, <2>1 DEF Intended, InBlock, Spent
<1>12. Sound' => Prefix(memory, i)'
  <2>1. SUFFICES ASSUME memory = want PROVE Prefix(memory, i)'
    BY <1>2 DEF Sound
  <2>2. ASSUME NEW q \in Places, NEW n \in 1..blk[2] PROVE job'.data[n] # memory'[q]
    <3>1. job'.data[n] = base + n /\ base + n # Old /\ base + n <= (rest + 1) * MaxSize
      BY <1>0, <1>1, <1>2 DEF Old
    <3>2. memory'[q] = want[q] /\ (want[q] = Old \/ want[q] > (rest + 1) * MaxSize)
      BY <2>1 DEF Spent
    <3> QED
      BY <1>0, <1>1, <3>1, <3>2
  <2>3. ASSUME NEW q \in Places, ~(Nth(q)' \in 1..blk[2]) PROVE memory'[q] = want'[q]
    BY <1>4, <2>1, <2>3
  <2>4. ASSUME NEW q \in Places PROVE ~(Nth(q)' \in 1..blk[2] /\ Nth(q)' <= 0)
    BY <1>0, <1>4
  <2> QED
    BY <1>2, <1>3, <2>2, <2>3, <2>4 DEF Prefix, InBlock, Unused
<1>13. WriteInv'
  BY <1>2, <1>8, <1>10, <1>11, <1>12 DEF WriteInv, Aimed, Back, Forth
<1>14. ReadInv' /\ Between'
  BY <1>2 DEF ReadInv, Between
<1> QED
  BY <1>6, <1>7, <1>13, <1>14 DEF MemoryInv

LEMMA StartWriteKeeps == ASSUME MemoryInv, StartWrite PROVE MemoryInv'
<1>1. /\ rest = 0 /\ rest' = 0 /\ memory = want /\ \A q \in Places : Spent(want[q])
      /\ UNCHANGED <<memory, window, missed>>
  BY DEF MemoryInv, Between, StartWrite, Spent
<1>2. PICK blk \in Blocks, v \in BOOLEAN :
          /\ Begin("write", blk[1], blk[2], v)
          /\ want' = [q \in Places |-> LET n == Offset(blk[1], q) + 1
                                        IN IF n \in 1..blk[2] THEN ByteAt(n) ELSE want[q]]
  BY DEF StartWrite
<1> QED
  BY <1>1, <1>2, WriteBegins

LEMMA NextBlockKeeps == ASSUME MemoryInv, NextBlock PROVE MemoryInv'
<1>1. /\ Sound => memory = want
      /\ \A q \in Places : Spent(want[q])
      /\ UNCHANGED <<memory, window, missed>>
      /\ rest \in Nat /\ rest > 0 /\ rest' = rest - 1 /\ missed \in Nat
  BY DEF MemoryInv, MemoryTypeOK, Between, NextBlock
<1>2. PICK blk \in Blocks, v \in BOOLEAN :
          /\ Begin("write", blk[1], blk[2], v)
          /\ want' = [q \in Places |-> LET n == Offset(blk[1], q) + 1
                                        IN IF n \in 1..blk[2] THEN ByteAt(n) ELSE want[q]]
  BY DEF NextBlock
<1>3. rest' \in Nat /\ (rest' > 0 => rest' + 1 = rest)
  BY <1>1
<1>4. missed = 0 \/ (v /\ job.checked /\ missed <= 1) => memory = want
  BY <1>1 DEF Sound
<1> QED
  BY <1>1, <1>2, <1>3, <1>4, WriteBegins

(* The other steps between blocks.                                         *)
LEMMA SetKeeps == ASSUME MemoryInv, StartConfigurationSet \/ Special \/ EndOfSet PROVE MemoryInv'
<1>0. /\ rest \in Nat /\ missed \in Nat /\ MaxBlocks \in Nat /\ MaxSize \in Nat
      /\ want \in [Places -> Nat]
  BY MemoryAssumption DEF MemoryInv, MemoryTypeOK
<1>1. CASE StartConfigurationSet
  <2>1. \A q \in Places : Spent(want[q])'
    BY <1>1 DEF MemoryInv, Between, StartConfigurationSet, Spent
  <2>2. /\ MemoryTypeOK' /\ pc' = "next" /\ done' = "none" /\ memory' = want'
    BY <1>0, <1>1 DEF MemoryInv, MemoryTypeOK, Between, StartConfigurationSet
  <2> QED
    BY <2>1, <2>2 DEF MemoryInv, JobKinds, WriteInv, ReadInv, Between, Forth, Back
<1>2. CASE Special
  <2>1. ASSUME NEW q \in Places PROVE Spent(want[q])'
    <3>1. want'[q] = want[q] /\ (want[q] = Old \/ want[q] > (rest + 1) * MaxSize) /\ want[q] \in Nat
      BY <1>0, <1>2 DEF MemoryInv, Between, Special, Spent
    <3>2. (rest + 1) * MaxSize = rest * MaxSize + MaxSize /\ rest * MaxSize \in Nat /\ rest' + 1 = rest
      BY <1>0, <1>2 DEF Special
    <3>3. (rest' + 1) * MaxSize = rest * MaxSize
      BY <3>2
    <3> QED
      BY <1>0, <3>1, <3>2, <3>3 DEF Spent
  <2>2. /\ MemoryTypeOK' /\ (Sound' => memory' = want')
        /\ (pc' = "next" /\ done' = "none") \/ (pc' = "idle" /\ done' = "false")
    BY <1>0, <1>2 DEF MemoryInv, MemoryTypeOK, Between, Sound, Special
  <2> QED
    BY <2>1, <2>2 DEF MemoryInv, JobKinds, WriteInv, ReadInv, Between, Forth, Back
<1>3. CASE EndOfSet
  <2>1. /\ MemoryTypeOK' /\ (Sound' => memory' = want')
        /\ pc' = "idle" /\ done' = "true"
    BY <1>0, <1>3 DEF MemoryInv, MemoryTypeOK, Between, Sound, EndOfSet
  <2> QED
    BY <2>1 DEF MemoryInv, JobKinds, WriteInv, ReadInv, Between, Forth, Back
<1> QED
  BY <1>1, <1>2, <1>3

-----------------------------------------------------------------------------
(* What is so of the block in progress while neither it nor the memory     *)
(* changes.                                                                *)
LEMMA Undisturbed ==
    ASSUME UNCHANGED <<memory, job, i, place, rest, want, done>>
    PROVE  /\ (Underway => Underway') /\ (NewBytes => NewBytes') /\ (Intended => Intended')
           /\ Chunk' = Chunk
           /\ (Prefix(memory, i) => Prefix(memory, i)')
           /\ (Prefix(memory, i + Chunk) => Prefix(memory, i + Chunk)')
<1>1. Chunk' = Chunk
  BY DEF Chunk
<1>2. Underway => Underway'
  BY DEF Underway, Lin
<1>3. NewBytes => NewBytes'
  BY DEF NewBytes, Spent
<1>4. Intended => Intended'
  BY DEF Intended, InBlock, Nth, Lin, Spent
<1>5. Prefix(memory, i) => Prefix(memory, i)'
  BY DEF Prefix, InBlock, Nth, Lin, Unused
<1>6. Prefix(memory, i + Chunk) => Prefix(memory, i + Chunk)'
  BY <1>1 DEF Prefix, InBlock, Nth, Lin, Unused
<1> QED
  BY <1>1, <1>2, <1>3, <1>4, <1>5, <1>6

(* The driver sets the bank and the address.                               *)
LEMMA AimKeeps == ASSUME MemoryInv, SetMemoryBank \/ SetMemoryStartAddress PROVE MemoryInv'
<1>0. /\ UNCHANGED <<memory, job, i, place, held, rest, want, done>>
      /\ missed \in Nat /\ (missed' = missed \/ missed' = missed + 1)
  BY DEF MemoryInv, MemoryTypeOK, SetMemoryBank, SetMemoryStartAddress, Fails, Works
<1>1. job.kind \in {"write", "read"} /\ Underway
  BY DEF MemoryInv, MemoryTypeOK, JobKinds, WriteInv, ReadInv, SetMemoryBank, SetMemoryStartAddress,
         Forth, Back
<1>2. window' \in Places
  <2>1. place \in Places /\ window \in Places
    BY <1>1 DEF MemoryInv, MemoryTypeOK, Underway
  <2>2. window' = window \/ window' = <<place[1], window[2]>> \/ window' = <<window[1], place[2]>>
    BY DEF SetMemoryBank, SetMemoryStartAddress
  <2> QED
    BY <2>1, <2>2 DEF Places
<1>3. /\ pc = "bank" => pc' = "address"
      /\ pc = "bankAgain" => pc' = "addressAgain"
      /\ pc = "address" => pc' = job.kind
      /\ pc = "addressAgain" => pc' = "verify"
      /\ pc \in {"bank", "bankAgain", "address", "addressAgain"}
  BY DEF SetMemoryBank, SetMemoryStartAddress
<1>4. MemoryTypeOK'
  BY <1>0, <1>1, <1>2, <1>3 DEF MemoryInv, MemoryTypeOK, Forth, Back
<1>5. JobKinds' /\ Between'
  BY <1>0, <1>1, <1>3 DEF MemoryInv, JobKinds, Between, Forth, Back
<1>6. missed' = missed => /\ pc \in {"bank", "bankAgain"} => window'[1] = place[1]
                          /\ pc \in {"address", "addressAgain"} =>
                                window'[1] = window[1] /\ window'[2] = place[2] /\ window' = <<window[1], place[2]>>
  BY <1>0 DEF SetMemoryBank, SetMemoryStartAddress, Fails, Works
<1>7. missed' = missed =>
         /\ pc \in {"bank", "bankAgain"} => window'[1] = place[1]
         /\ pc = "address" /\ Aimed("address", job.kind) => window' = place
         /\ pc = "addressAgain" /\ Aimed("addressAgain", "verify") => window' = place
  <2>1. place = <<place[1], place[2]>>
    BY <1>1 DEF Underway, Places
  <2> QED
    BY <1>6, <2>1 DEF Aimed
<1>8. missed' = 0 \/ (missed = 1 /\ missed' <= 1) => missed' = missed
  BY <1>0
<1>9. WriteInv'
  <2>1. SUFFICES ASSUME job.kind = "write" PROVE WriteInv'
    BY <1>0 DEF WriteInv
  <2>2. /\ NewBytes /\ Intended
        /\ pc \in Forth /\ Sound => Prefix(memory, i)
        /\ missed = 0 => Aimed("address", "write")
        /\ pc \in Back => job.verify
        /\ pc \in Back /\ Sound => Prefix(memory, i + Chunk) \/ Astray
        /\ job.checked => job.verify
    BY <1>3, <2>1 DEF MemoryInv, WriteInv, Forth, Back
  <2>3. /\ pc' \in Forth <=> pc \in Forth
        /\ pc' \in Back <=> pc \in Back
    BY <1>3, <2>1 DEF Forth, Back
  <2>4. pc \in Forth /\ Sound' => Prefix(memory, i)'
    BY <1>0, <2>2, Undisturbed DEF Sound
  <2>5. missed' = 0 => Aimed("address", "write")'
    BY <1>0, <1>3, <1>7, <1>8, <2>1, <2>2 DEF Aimed
  <2>6. pc \in Back /\ Sound' => Prefix(memory, i + Chunk)' \/ Astray'
    <3>1. SUFFICES ASSUME pc \in Back, Sound', ~Prefix(memory, i + Chunk) PROVE Astray'
      BY <1>0, Undisturbed
    <3>2. Astray /\ missed' = missed
      <4>1. Sound
        BY <1>0, <3>1 DEF Sound
      <4>2. Astray
        BY <2>2, <3>1, <4>1
      <4>3. missed = 1 /\ missed' <= 1
        BY <3>1, <4>2 DEF Astray, Sound
      <4> QED
        BY <1>8, <4>2, <4>3
    <3>3. Aimed("addressAgain", "verify")'
      BY <1>0, <1>3, <1>7, <3>1, <3>2 DEF Astray, Aimed, Back
    <3> QED
      BY <1>0, <3>2, <3>3 DEF Astray
  <2>7. Underway' /\ NewBytes' /\ Intended'
    BY <1>0, <1>1, <2>2, Undisturbed
  <2>8. (pc' \in Back => job'.verify) /\ (job'.checked => job'.verify)
    BY <1>0, <2>2, <2>3
  <2> QED
    BY <2>3, <2>4, <2>5, <2>6, <2>7, <2>8 DEF WriteInv
<1>10. ReadInv'
  <2>1. SUFFICES ASSUME job.kind = "read" PROVE ReadInv'
    BY <1>0 DEF ReadInv
  <2>2. missed = 0 =>
           /\ memory = want /\ Aimed("address", "read")
           /\ \E blk \in Blocks :
                 /\ blk[2] = Len(job.data) /\ Lin(blk[1]) + i = Lin(place)
                 /\ held = ReadFrom(blk[1], i)
    BY <1>3, <2>1 DEF MemoryInv, JobKinds, ReadInv, Forth, Back
  <2>3. missed' = 0 => missed = 0 /\ missed' = missed
    BY <1>0
  <2>4. missed' = 0 => Aimed("address", "read")'
    BY <1>0, <1>3, <1>7, <2>1, <2>2, <2>3 DEF Aimed
  <2>5. missed' = 0 => \E blk \in Blocks : /\ blk[2] = Len(job'.data) /\ Lin(blk[1]) + i' = Lin(place)'
                                           /\ held' = ReadFrom(blk[1], i)'
    BY <1>0, <2>2, <2>3 DEF Lin, ReadFrom
  <2>6. Underway' /\ (missed' = 0 => memory' = want')
    BY <1>0, <1>1, <2>2, <2>3, Undisturbed
  <2> QED
    BY <2>4, <2>5, <2>6 DEF ReadInv, Lin, ReadFrom
<1> QED
  BY <1>4, <1>5, <1>9, <1>10 DEF MemoryInv

-----------------------------------------------------------------------------
(* The driver's place goes on by a chunk.                                  *)
LEMMA AdvanceIs ==
    ASSUME NEW p \in Spots, NEW n \in Nat \ {0}, p[2] + n <= BankSize
    PROVE  LET a == (p[2] + n) % BankSize
               q == <<IF a = 0 THEN p[1] + 1 ELSE p[1], a>>
           IN  q \in Spots /\ Lin(q) = Lin(p) + n
<1> DEFINE a == (p[2] + n) % BankSize
           q == <<IF a = 0 THEN p[1] + 1 ELSE p[1], a>>
<1>0. p[1] \in Nat /\ p[2] \in 0..(BankSize - 1) /\ BankSize \in Nat \ {0}
  BY MemoryAssumption DEF Spots
<1>1. (p[1] + 1) * BankSize = p[1] * BankSize + BankSize /\ p[1] * BankSize \in Nat
  BY <1>0
<1>2. CASE p[2] + n = BankSize
  <2>1. a = 0
    BY <1>0, <1>2
  <2>2. q = <<p[1] + 1, 0>>
    BY <2>1
  <2>3. Lin(q) = Lin(p) + n
    BY <1>0, <1>1, <1>2, <2>2 DEF Lin
  <2>4. q \in Spots
    BY <1>0, <2>2 DEF Spots
  <2> QED
    BY <2>3, <2>4
<1>3. CASE p[2] + n < BankSize
  <2>0. p[2] + n \in 0..(BankSize - 1) /\ p[2] + n # 0
    BY <1>0, <1>3
  <2>1. a = p[2] + n /\ a # 0
    BY <1>0, <2>0
  <2>2. q = <<p[1], p[2] + n>>
    BY <2>1
  <2>3. Lin(q) = Lin(p) + n
    BY <1>0, <1>1, <2>2 DEF Lin
  <2>4. q \in Spots
    BY <1>0, <2>0, <2>2 DEF Spots
  <2> QED
    BY <2>3, <2>4
<1> QED
  BY <1>0, <1>2, <1>3

LEMMA Advances ==
    ASSUME MemoryTypeOK, Underway, i + Chunk < Len(job.data),
           i' = i + Chunk, place' = Advance(Chunk), job' = job
    PROVE  /\ place' \in Places /\ place' \in Spots
           /\ Lin(place)' = Lin(place) + Chunk
           /\ \A blk \in Blocks : Lin(blk[1]) + i = Lin(place) => Lin(blk[1]) + i' = Lin(place)'
           /\ \A q \in Places : Nth(q)' = Nth(q)
<1>0. /\ Chunk \in Nat \ {0} /\ place[2] + Chunk <= BankSize /\ place \in Spots
      /\ Len(job.data) \in Nat /\ i \in Nat
  BY ChunkIs DEF MemoryTypeOK
<1>1. place' \in Spots /\ Lin(place)' = Lin(place) + Chunk
  <2>1. LET a == (place[2] + Chunk) % BankSize
            q == <<IF a = 0 THEN place[1] + 1 ELSE place[1], a>>
        IN  q \in Spots /\ Lin(q) = Lin(place) + Chunk
    BY <1>0, AdvanceIs
  <2>2. place' \in Spots /\ Lin(place') = Lin(place) + Chunk
    BY <2>1 DEF Advance
  <2> QED
    BY <2>2 DEF Lin
<1>2. Lin(place) \in Nat
  BY <1>0, LinIs
<1>3. PICK blk \in Blocks : blk[2] = Len(job.data) /\ Lin(blk[1]) + i = Lin(place)
  BY DEF Underway
<1>4. place' \in Places
  <2>1. /\ blk[1] \in Places /\ blk[1] \in Spots /\ blk[2] \in Nat
        /\ PlaceOf(blk[1], blk[2] - 1) \in Places
    BY <1>0, <1>3, InMemory DEF Blocks
  <2>2. Lin(PlaceOf(blk[1], blk[2] - 1)) = Lin(blk[1]) + (blk[2] - 1) /\ Lin(blk[1]) \in Nat
    <3>1. blk[2] - 1 \in Nat
      BY <1>0, <1>3
    <3> QED
      BY <2>1, <3>1, PlaceOfIs, LinIs
  <2>3. Lin(place') <= Lin(PlaceOf(blk[1], blk[2] - 1))
    <3>1. Lin(place') = Lin(place) + Chunk
      BY <1>1 DEF Lin
    <3> QED
      BY <1>0, <1>2, <1>3, <2>2, <3>1
  <2> QED
    BY <1>1, <2>1, <2>3, BeforeIsThere
<1>5. ASSUME NEW q \in Places PROVE Nth(q)' = Nth(q)
  <2>1. Lin(q) \in Nat /\ Lin(q)' = Lin(q)
    BY InMemory, LinIs DEF Lin
  <2> QED
    BY <1>0, <1>1, <1>2, <2>1 DEF Nth
<1>6. ASSUME NEW other \in Blocks, Lin(other[1]) + i = Lin(place)
      PROVE  Lin(other[1]) + i' = Lin(place)'
  <2>1. Lin(other[1]) \in Nat
    BY InMemory, LinIs DEF Blocks
  <2> QED
    BY <1>0, <1>1, <1>2, <1>6, <2>1
<1> QED
  BY <1>1, <1>4, <1>5, <1>6

(* A chunk of a write is done: the next one follows, or the block is       *)
(* there.                                                                  *)
LEMMA ChunkEnds ==
    ASSUME MemoryInv, job.kind = "write", pc \in Forth \union Back, ChunkDone(Chunk),
           UNCHANGED <<job, rest, want>>,
           memory' \in [Places -> Nat], window' \in Places, missed' \in Nat,
           Sound' => Prefix(memory', i + Chunk)
    PROVE  MemoryInv'
<1>0. /\ Underway /\ NewBytes /\ Intended /\ MemoryTypeOK /\ (job.checked => job.verify)
      /\ Chunk \in Nat \ {0} /\ i + Chunk <= Len(job.data) /\ Len(job.data) \in Nat /\ i \in Nat
      /\ rest \in Nat /\ done = "none" /\ want \in [Places -> Nat] /\ place \in Places
  BY ChunkIs DEF MemoryInv, WriteInv, MemoryTypeOK, Underway
<1>1. CASE i + Chunk >= Len(job.data)
  <2>1. i + Chunk = Len(job.data)
    BY <1>0, <1>1
  <2>2. Finished("true")
    BY <1>1 DEF ChunkDone
  <2>3. Sound' => memory' = want'
    <3>1. SUFFICES ASSUME Prefix(memory', Len(job.data)), NEW q \in Places PROVE memory'[q] = want[q]
      BY <1>0, <2>1
    <3>2. CASE InBlock(q)
      <4>1. Nth(q) <= Len(job.data)
        BY <1>0, <3>2 DEF InBlock
      <4> QED
        BY <3>1, <3>2, <4>1, <1>0 DEF Prefix, Intended
    <3>3. CASE ~InBlock(q)
      BY <3>1, <3>3 DEF Prefix
    <3> QED
      BY <3>2, <3>3
  <2>4. CASE rest > 0
    <3>1. /\ pc' = "next" /\ done' = "none" /\ UNCHANGED <<i, place>>
      BY <1>0, <2>2, <2>4 DEF Finished
    <3>2. Sound' => memory' = want'
      BY <2>3
    <3>3. ASSUME NEW q \in Places PROVE Spent(want[q])'
      <4>1. Spent(want[q])
        <5>1. CASE InBlock(q)
          BY <1>0, <2>4, <5>1 DEF Intended, NewBytes, InBlock
        <5>2. CASE ~InBlock(q)
          BY <1>0, <2>4, <5>2 DEF Intended
        <5> QED
          BY <5>1, <5>2
      <4> QED
        BY <4>1 DEF Spent
    <3>4. MemoryTypeOK'
      BY <1>0, <3>1 DEF MemoryTypeOK
    <3> QED
      BY <3>1, <3>2, <3>3, <3>4 DEF MemoryInv, JobKinds, WriteInv, ReadInv, Between, Forth, Back
  <2>5. CASE ~(rest > 0)
    <3>1. /\ pc' = "idle" /\ done' = "true" /\ UNCHANGED <<i, place>>
      BY <2>2, <2>5 DEF Finished
    <3>2. MemoryTypeOK'
      BY <1>0, <3>1 DEF MemoryTypeOK
    <3> QED
      BY <2>3, <3>1, <3>2 DEF MemoryInv, JobKinds, WriteInv, ReadInv, Between, Forth, Back
  <2> QED
    BY <2>4, <2>5
<1>2. CASE i + Chunk < Len(job.data)
  <2>1. i' = i + Chunk /\ place' = Advance(Chunk) /\ pc' = "bank" /\ done' = "none"
    BY <1>0, <1>2 DEF ChunkDone
  <2>2. /\ place' \in Places /\ place' \in Spots
        /\ \A blk \in Blocks : Lin(blk[1]) + i = Lin(place) => Lin(blk[1]) + i' = Lin(place)'
        /\ \A q \in Places : Nth(q)' = Nth(q)
    BY <1>0, <1>2, <2>1, Advances
  <2>3. MemoryTypeOK'
    BY <1>0, <2>1, <2>2, SMTT(20) DEF MemoryTypeOK, Forth
  <2>4. Underway'
    <3>1. PICK blk \in Blocks : blk[2] = Len(job.data) /\ Lin(blk[1]) + i = Lin(place)
      BY <1>0 DEF Underway
    <3>2. Lin(blk[1]) + i' = Lin(place)'
      BY <2>2, <3>1
    <3> QED
      BY <1>2, <2>1, <2>2, <3>1, <3>2 DEF Underway, Lin
  <2>5. NewBytes'
    BY <1>0 DEF NewBytes, Spent
  <2>6. Intended'
    BY <1>0, <2>2 DEF Intended, InBlock, Spent
  <2>7. Sound' => Prefix(memory, i)'
    <3>1. SUFFICES ASSUME Prefix(memory', i + Chunk) PROVE Prefix(memory, i)'
      OBVIOUS
    <3> QED
      BY <2>1, <2>2, <3>1 DEF Prefix, InBlock, Unused
  <2>8. WriteInv'
    BY <1>0, <2>1, <2>4, <2>5, <2>6, <2>7 DEF WriteInv, Aimed, Forth, Back
  <2>9. JobKinds' /\ ReadInv' /\ Between'
    BY <2>1 DEF JobKinds, ReadInv, Between, Forth, Back
  <2> QED
    BY <2>3, <2>8, <2>9 DEF MemoryInv
<1> QED
  BY <1>0, <1>1, <1>2

-----------------------------------------------------------------------------
LEMMA PutType ==
    ASSUME NEW m \in [Places -> Nat], NEW p \in Places, NEW s \in Seq(Nat)
    PROVE  Put(m, p, s) \in [Places -> Nat]
  BY DEF Put

LEMMA NotThereYet ==
    ASSUME MemoryTypeOK, Underway, Prefix(memory, i)
    PROVE  memory[place] # job.data[i + 1]
<1>0. /\ Len(job.data) \in Nat /\ i \in Nat /\ i + 1 \in 1..Len(job.data)
      /\ place \in Spots /\ place \in Places
  BY ChunkIs DEF MemoryTypeOK, Underway
<1>1. Nth(place) = i + 1
  BY <1>0, LinIs DEF Nth
<1>2. InBlock(place) /\ Nth(place) > i
  BY <1>0, <1>1 DEF InBlock
<1> QED
  BY <1>0, <1>2 DEF Prefix, Unused

(* A chunk is written, or its transaction is lost.                         *)
LEMMA WriteChunkKeeps == ASSUME MemoryInv, WriteChunk PROVE MemoryInv'
<1> DEFINE s == SubSeq(job.data, i + 1, i + Chunk)
<1>0. /\ job.kind = "write" /\ pc \in Forth /\ Underway /\ NewBytes /\ Intended /\ MemoryTypeOK
      /\ Sound => Prefix(memory, i)
      /\ job.checked => job.verify
      /\ missed = 0 => window = place
      /\ UNCHANGED <<job, held, rest, want>>
      /\ missed \in Nat /\ memory \in [Places -> Nat] /\ window \in Places
      /\ Chunk \in Nat /\ job.data \in Seq(Nat) /\ i \in Nat /\ i + Chunk <= Len(job.data)
  BY ChunkIs DEF MemoryInv, MemoryTypeOK, JobKinds, WriteInv, Aimed, WriteChunk, Forth
<1>1. \/ missed' = missed /\ memory' = Put(memory, window, s) /\ window' = Moved(window, Chunk)
      \/ missed' = missed + 1 /\ memory' = memory /\ window' = window
  BY DEF WriteChunk, Works, Fails
<1>2. s \in Seq(Nat)
  BY <1>0
<1> HIDE DEF s
<1>3. memory' \in [Places -> Nat] /\ window' \in Places /\ missed' \in Nat
  <2>1. Moved(window, Chunk) \in Places
    BY <1>0, MovedStays
  <2>2. Put(memory, window, s) \in [Places -> Nat]
    BY <1>0, <1>2, PutType
  <2> QED
    BY <1>0, <1>1, <2>1, <2>2
<1>4. Sound' => Sound
  BY <1>0, <1>1 DEF Sound
<1>5. missed' = 0 => Prefix(memory', i + Chunk)
  <2>1. SUFFICES ASSUME missed' = 0 PROVE Prefix(memory', i + Chunk)
    OBVIOUS
  <2>2. missed = 0 /\ window = place /\ memory' = Put(memory, window, s)
    BY <1>0, <1>1, <2>1
  <2>3. Prefix(memory, i)
    BY <1>0, <2>2 DEF Sound
  <2> QED
    BY <1>0, <2>2, <2>3, PutLands DEF s
<1>6. CASE ~job.verify
  <2>1. ChunkDone(Chunk)
    BY <1>6 DEF WriteChunk
  <2>2. Sound' => Prefix(memory', i + Chunk)
    BY <1>0, <1>5, <1>6 DEF Sound
  <2> QED
    BY <1>0, <1>3, <2>1, <2>2, ChunkEnds
<1>7. CASE job.verify
  <2>1. pc' = "bankAgain" /\ UNCHANGED <<i, place, done>>
    BY <1>7 DEF WriteChunk
  <2>2. MemoryTypeOK'
    BY <1>0, <1>3, <2>1 DEF MemoryTypeOK, Back
  <2>3. Sound' => Prefix(memory', i + Chunk) \/ (missed' = 1 /\ memory'[place] # job.data[i + 1])
    <3>1. SUFFICES ASSUME Sound', missed' = 1
                   PROVE  Prefix(memory', i + Chunk) \/ memory'[place] # job.data[i + 1]
      BY <1>3, <1>5 DEF Sound
    <3>2. Prefix(memory, i)
      BY <1>0, <1>4, <3>1
    <3>3. CASE memory' = memory
      BY <1>0, <3>2, <3>3, NotThereYet
    <3>4. CASE memory' = Put(memory, window, s) /\ window = place
      BY <1>0, <3>2, <3>4, PutLands DEF s
    <3>5. CASE memory' = Put(memory, window, s) /\ window # place
      BY <1>0, <3>2, <3>5, PutMisses DEF s
    <3> QED
      BY <1>1, <3>3, <3>4, <3>5
  <2>4. /\ Underway' /\ NewBytes' /\ Intended' /\ Chunk' = Chunk
    <3>1. Chunk' = Chunk
      BY <1>0, <2>1 DEF Chunk
    <3>2. Underway'
      BY <1>0, <2>1 DEF Underway, Lin
    <3>3. NewBytes'
      BY <1>0 DEF NewBytes, Spent
    <3>4. Intended'
      BY <1>0, <2>1 DEF Intended, InBlock, Nth, Lin, Spent
    <3> QED
      BY <3>1, <3>2, <3>3, <3>4
  <2>5. Prefix(memory', i + Chunk) => Prefix(memory, i + Chunk)'
    BY <1>0, <2>1, <2>4 DEF Prefix, InBlock, Nth, Lin, Unused
  <2>6. Sound' => Prefix(memory, i + Chunk)' \/ Astray'
    BY <1>0, <2>1, <2>3, <2>5 DEF Astray, Aimed
  <2>7. WriteInv'
    BY <1>0, <1>7, <2>1, <2>4, <2>6 DEF WriteInv, Aimed, Forth, Back
  <2>8. JobKinds' /\ ReadInv' /\ Between'
    BY <1>0, <2>1 DEF JobKinds, ReadInv, Between, Forth, Back
  <2> QED
    BY <2>2, <2>7, <2>8 DEF MemoryInv
<1> QED
  BY <1>6, <1>7

(* A chunk is read back and compared.                                      *)
LEMMA VerifyChunkKeeps == ASSUME MemoryInv, VerifyChunk PROVE MemoryInv'
<1> DEFINE s == SubSeq(job.data, i + 1, i + Chunk)
<1>0. /\ job.kind = "write" /\ pc \in Back /\ pc = "verify" /\ Underway /\ MemoryTypeOK /\ job.verify
      /\ Sound => Prefix(memory, i + Chunk) \/ Astray
      /\ UNCHANGED <<memory, job, rest, want>>
      /\ missed \in Nat /\ memory \in [Places -> Nat] /\ window \in Places
      /\ Chunk \in Nat \ {0}
  BY ChunkIs DEF MemoryInv, MemoryTypeOK, JobKinds, WriteInv, VerifyChunk, Back
<1>1. \/ missed' = missed /\ held' = Seen(Chunk) /\ window' = Moved(window, Chunk)
      \/ missed' = missed + 1 /\ window' = window
  BY DEF VerifyChunk, Works, Fails
<1>2. window' \in Places /\ missed' \in Nat
  <2>1. Moved(window, Chunk) \in Places
    BY <1>0, MovedStays
  <2> QED
    BY <1>0, <1>1, <2>1
<1>3. CASE held' = s
  <2>1. ChunkDone(Chunk)
    BY <1>3 DEF VerifyChunk
  <2>2. Sound' => Prefix(memory', i + Chunk)
    <3>0. Sound' => Sound /\ missed' <= 1
      BY <1>0, <1>1 DEF Sound
    <3>1. SUFFICES ASSUME missed' <= 1, Astray PROVE FALSE
      BY <1>0, <3>0
    <3>2. held' = Seen(Chunk) /\ window = place /\ memory[place] # job.data[i + 1]
      BY <1>0, <1>1, <3>1 DEF Astray, Aimed
    <3>3. held'[1] = memory[Moved(place, 0)]
      BY <1>0, <3>2 DEF Seen
    <3>4. Moved(place, 0) = place
      <4>1. place \in Places /\ place[2] \in Nat /\ place[2] + 0 < BankSize /\ place = <<place[1], place[2]>>
        BY <1>0, MemoryAssumption DEF Underway, Places
      <4>2. Moved(place, 0) = <<place[1], place[2] + 0>>
        BY <4>1, MovedInBank
      <4> QED
        BY <4>1, <4>2
    <3>5. s[1] = job.data[i + 1]
      <4>1. 1 \in 1..Chunk
        BY <1>0
      <4>2. \A k \in 1..Chunk : s[k] = job.data[i + k]
        BY <1>0, ChunkBytes
      <4> QED
        BY <4>1, <4>2
    <3> QED
      BY <1>3, <3>2, <3>3, <3>4, <3>5
  <2> QED
    BY <1>0, <1>2, <2>1, <2>2, ChunkEnds
<1>4. CASE held' # s
  <2>1. Finished("false")
    BY <1>4 DEF VerifyChunk
  <2>2. pc' = "idle" /\ done' = "false" /\ UNCHANGED <<i, place>>
    BY <2>1 DEF Finished
  <2>3. MemoryTypeOK'
    BY <1>0, <1>2, <2>2 DEF MemoryTypeOK
  <2> QED
    BY <2>2, <2>3 DEF MemoryInv, JobKinds, WriteInv, ReadInv, Between, Forth, Back
<1> QED
  BY <1>3, <1>4

-----------------------------------------------------------------------------
(* What has been read of a block grows by the chunk behind the window.     *)
LEMMA ReadGrows ==
    ASSUME NEW blk \in Blocks, want \in [Places -> Nat], place \in Places, i \in Nat, NEW n \in Nat,
           i + n <= blk[2], place[2] + n <= BankSize, Lin(blk[1]) + i = Lin(place)
    PROVE  ReadFrom(blk[1], i) \o [k \in 1..n |-> want[Moved(place, k - 1)]] = ReadFrom(blk[1], i + n)
<1> DEFINE old == ReadFrom(blk[1], i)
           more == [k \in 1..n |-> want[Moved(place, k - 1)]]
           all == ReadFrom(blk[1], i + n)
<1>0. /\ blk[1] \in Places /\ blk[1] \in Spots /\ blk[2] \in Nat /\ place \in Spots
      /\ PlaceOf(blk[1], blk[2] - 1) \in Places /\ BankSize \in Nat \ {0} /\ place[2] \in Nat
  BY InMemory, MemoryAssumption DEF Blocks, Places
<1>1. ASSUME NEW k \in 1..n PROVE Moved(place, k - 1) = PlaceOf(blk[1], (i + k) - 1)
  <2>1. Moved(place, k - 1) = <<place[1], place[2] + (k - 1)>> /\ place[2] + (k - 1) \in 0..(BankSize - 1)
    <3>1. k - 1 \in Nat /\ place[2] + (k - 1) < BankSize
      BY <1>0
    <3> QED
      BY <1>0, <3>1, MovedInBank
  <2>2. place[1] * BankSize \in Nat /\ place[1] \in Nat
    BY <1>0 DEF Spots
  <2>3. Moved(place, k - 1) \in Spots /\ Lin(Moved(place, k - 1)) = Lin(place) + (k - 1)
    <3>1. Moved(place, k - 1) \in Spots
      BY <2>1, <2>2 DEF Spots
    <3>2. Lin(Moved(place, k - 1)) = place[1] * BankSize + (place[2] + (k - 1))
      BY <2>1 DEF Lin
    <3>3. Lin(place) = place[1] * BankSize + place[2]
      BY DEF Lin
    <3> QED
      BY <1>0, <2>2, <3>1, <3>2, <3>3
  <2>4. i + k - 1 \in Nat
    OBVIOUS
  <2>5. PlaceOf(blk[1], i + k - 1) \in Spots /\ Lin(PlaceOf(blk[1], i + k - 1)) = Lin(blk[1]) + (i + k - 1)
    BY <1>0, <2>4, PlaceOfIs
  <2>6. Lin(blk[1]) \in Nat /\ Lin(place) \in Nat
    BY <1>0, LinIs
  <2>7. Lin(Moved(place, k - 1)) = Lin(PlaceOf(blk[1], i + k - 1))
    BY <2>3, <2>5, <2>6
  <2> QED
    BY <2>3, <2>5, <2>7, LinApart
<1>2. ASSUME NEW k \in 1..(i + n) PROVE PlaceOf(blk[1], k - 1) \in Places
  <2>1. k - 1 \in Nat /\ blk[2] - 1 \in Nat /\ k - 1 <= blk[2] - 1
    BY <1>0
  <2>2. /\ PlaceOf(blk[1], k - 1) \in Spots /\ Lin(PlaceOf(blk[1], k - 1)) = Lin(blk[1]) + (k - 1)
        /\ Lin(PlaceOf(blk[1], blk[2] - 1)) = Lin(blk[1]) + (blk[2] - 1) /\ Lin(blk[1]) \in Nat
    BY <1>0, <2>1, PlaceOfIs, LinIs
  <2>3. Lin(PlaceOf(blk[1], k - 1)) <= Lin(PlaceOf(blk[1], blk[2] - 1))
    BY <2>1, <2>2
  <2> QED
    BY <1>0, <2>2, <2>3, BeforeIsThere
<1>3. ASSUME NEW k \in 1..(i + n) PROVE want[PlaceOf(blk[1], k - 1)] \in Nat
  BY <1>2
<1>4. old \in [1..i -> Nat] /\ all \in [1..(i + n) -> Nat]
  <2>1. \A k \in 1..i : k \in 1..(i + n)
    OBVIOUS
  <2> QED
    BY <1>3, <2>1 DEF ReadFrom
<1>5. more \in [1..n -> Nat]
  <2>1. ASSUME NEW k \in 1..n PROVE want[Moved(place, k - 1)] \in Nat
    <3>1. i + k \in 1..(i + n)
      OBVIOUS
    <3> QED
      BY <1>1, <1>3, <3>1
  <2> QED
    BY <2>1
<1>6. /\ old \in Seq(Nat) /\ Len(old) = i /\ more \in Seq(Nat) /\ Len(more) = n
      /\ all \in Seq(Nat) /\ Len(all) = i + n
  <2>1. i + n \in Nat
    OBVIOUS
  <2> HIDE DEF old, more, all
  <2> QED
    BY <1>4, <1>5, <2>1, SeqDef, LenProperties
<1>7. /\ \A k \in 1..i : old[k] = all[k]
      /\ \A k \in 1..n : more[k] = all[i + k]
  <2>1. \A k \in 1..i : old[k] = all[k]
    BY DEF ReadFrom
  <2>2. ASSUME NEW k \in 1..n PROVE more[k] = all[i + k]
    <3>1. i + k \in 1..(i + n)
      OBVIOUS
    <3> QED
      BY <1>1, <3>1 DEF ReadFrom
  <2> QED
    BY <2>1, <2>2
<1> HIDE DEF old, more, all
<1>8. /\ old \o more \in Seq(Nat) /\ Len(old \o more) = Len(old) + Len(more)
      /\ \A k \in 1..(Len(old) + Len(more)) :
            (old \o more)[k] = IF k <= Len(old) THEN old[k] ELSE more[k - Len(old)]
  BY <1>6, ConcatProperties, Zenon
<1>9. ASSUME NEW k \in 1..(i + n) PROVE (old \o more)[k] = all[k]
  <2>1. CASE k <= i
    BY <1>6, <1>7, <1>8, <2>1
  <2>2. CASE k > i
    <3>1. k - i \in 1..n /\ i + (k - i) = k
      BY <2>2
    <3>2. (old \o more)[k] = more[k - i]
      BY <1>6, <1>8, <2>2
    <3> QED
      BY <1>7, <3>1, <3>2
  <2>3. k <= i \/ k > i
    OBVIOUS
  <2> QED
    BY <2>1, <2>2, <2>3, Zenon
<1>10. old \o more = all
  BY <1>6, <1>8, <1>9, SeqEqual
<1> QED
  BY <1>10 DEF old, more, all

(* A block is read.                                                        *)
LEMMA StartBlockReadKeeps == ASSUME MemoryInv, StartBlockRead PROVE MemoryInv'
<1>1. PICK blk \in Blocks : Begin("read", blk[1], blk[2], FALSE)
  BY DEF StartBlockRead
<1>2. /\ blk[1] \in Places /\ blk[1] \in Spots /\ blk[2] \in 1..MaxSize /\ MaxSize \in Nat
      /\ rest \in Nat /\ blk[2] \in Nat /\ Lin(blk[1]) \in Nat
  BY MemoryAssumption, InMemory, LinIs DEF Blocks, MemoryInv, MemoryTypeOK
<1>3. Bytes(blk[2]) \in Seq(Nat) /\ Len(Bytes(blk[2])) = blk[2]
  <2>1. \A n \in 1..blk[2] : ByteAt(n) \in Nat
    <3>1. rest * MaxSize \in Nat
      BY <1>2
    <3> QED
      BY <1>2, <3>1 DEF ByteAt
  <2>2. Bytes(blk[2]) \in [1..blk[2] -> Nat]
    BY <2>1 DEF Bytes
  <2> QED
    BY <1>2, <2>2, SeqDef, LenProperties
<1>4. /\ job' \in [kind : {"none", "write", "read"}, data : Seq(Nat), verify : BOOLEAN, checked : BOOLEAN]
      /\ job'.kind = "read" /\ Len(job'.data) = blk[2]
      /\ place' = blk[1] /\ i' = 0 /\ pc' = "bank" /\ done' = "none" /\ held' = <<>>
      /\ UNCHANGED <<memory, window, rest, want, missed>>
  BY <1>1, <1>3 DEF Begin, StartBlockRead
<1>5. MemoryTypeOK'
  BY <1>2, <1>4 DEF MemoryInv, MemoryTypeOK, Forth
<1>6. Lin(blk[1]) + i' = Lin(place)'
  <2>1. Lin(place)' = Lin(blk[1])
    BY <1>4 DEF Lin
  <2> QED
    BY <1>2, <1>4, <2>1
<1>7. Underway'
  BY <1>2, <1>4, <1>6 DEF Underway, Lin
<1>8. held' = ReadFrom(blk[1], i)'
  <2>1. [m \in 1..0 |-> want'[PlaceOf(blk[1], m - 1)]] = <<>>
    OBVIOUS
  <2> QED
    BY <1>4, <2>1 DEF ReadFrom
<1>9. missed' = 0 => memory' = want'
  BY <1>4 DEF MemoryInv, Between, Sound, StartBlockRead
<1>10. ReadInv'
  BY <1>4, <1>6, <1>7, <1>8, <1>9 DEF ReadInv, Aimed, Lin, ReadFrom
<1>11. JobKinds' /\ WriteInv' /\ Between'
  BY <1>4 DEF JobKinds, WriteInv, Between, Forth, Back
<1> QED
  BY <1>5, <1>10, <1>11 DEF MemoryInv

LEMMA ReadChunkKeeps == ASSUME MemoryInv, ReadChunk PROVE MemoryInv'
<1>0. /\ job.kind = "read" /\ pc = "read" /\ Underway /\ MemoryTypeOK /\ ChunkDone(Chunk)
      /\ UNCHANGED <<memory, job, rest, want>>
      /\ missed \in Nat /\ memory \in [Places -> Nat] /\ want \in [Places -> Nat]
      /\ window \in Places /\ place \in Places
      /\ Chunk \in Nat \ {0} /\ i + Chunk <= Len(job.data) /\ Len(job.data) \in Nat /\ i \in Nat
      /\ place[2] + Chunk <= BankSize
  BY ChunkIs DEF MemoryInv, MemoryTypeOK, JobKinds, ReadInv, ReadChunk, Underway
<1>1. \/ missed' = missed /\ held' = held \o Seen(Chunk) /\ window' = Moved(window, Chunk)
      \/ missed' = missed + 1 /\ window' = window
  BY DEF ReadChunk, Works, Fails
<1>2. window' \in Places /\ missed' \in Nat
  <2>1. Moved(window, Chunk) \in Places
    BY <1>0, MovedStays
  <2> QED
    BY <1>0, <1>1, <2>1
<1>3. missed' = 0 =>
         /\ memory' = want'
         /\ \E blk \in Blocks : /\ blk[2] = Len(job.data) /\ Lin(blk[1]) + i = Lin(place)
                               /\ held' = ReadFrom(blk[1], i + Chunk)
  <2>1. SUFFICES ASSUME missed' = 0
        PROVE  /\ memory' = want'
               /\ \E blk \in Blocks : /\ blk[2] = Len(job.data) /\ Lin(blk[1]) + i = Lin(place)
                                     /\ held' = ReadFrom(blk[1], i + Chunk)
    OBVIOUS
  <2>2. missed = 0 /\ held' = held \o Seen(Chunk)
    BY <1>0, <1>1, <2>1
  <2>3. /\ memory = want /\ window = place
        /\ \E blk \in Blocks : /\ blk[2] = Len(job.data) /\ Lin(blk[1]) + i = Lin(place)
                              /\ held = ReadFrom(blk[1], i)
    BY <1>0, <2>2 DEF MemoryInv, ReadInv, Aimed
  <2>4. PICK blk \in Blocks : /\ blk[2] = Len(job.data) /\ Lin(blk[1]) + i = Lin(place)
                              /\ held = ReadFrom(blk[1], i)
    BY <2>3
  <2>5. Seen(Chunk) = [k \in 1..Chunk |-> want[Moved(place, k - 1)]]
    BY <2>3 DEF Seen
  <2>6. held' = ReadFrom(blk[1], i + Chunk)
    <3>1. Chunk \in Nat /\ i + Chunk <= blk[2]
      BY <1>0, <2>4
    <3>2. ReadFrom(blk[1], i) \o [k \in 1..Chunk |-> want[Moved(place, k - 1)]]
             = ReadFrom(blk[1], i + Chunk)
      BY <1>0, <2>4, <3>1, ReadGrows
    <3> QED
      BY <2>2, <2>4, <2>5, <3>2
  <2> QED
    BY <1>0, <2>3, <2>4, <2>6
<1>4. CASE i + Chunk >= Len(job.data)
  <2>1. i + Chunk = Len(job.data) /\ pc' = "idle" /\ done' = "read" /\ UNCHANGED <<i, place>>
    BY <1>0, <1>4 DEF ChunkDone, Finished
  <2>2. missed' = 0 => \E blk \in Blocks : held' = ReadFrom(blk[1], blk[2])'
    BY <1>0, <1>3, <2>1 DEF ReadFrom
  <2>3. MemoryTypeOK'
    BY <1>0, <1>2, <2>1 DEF MemoryTypeOK
  <2> QED
    BY <2>1, <2>2, <2>3 DEF MemoryInv, JobKinds, WriteInv, ReadInv, Between, Forth, Back
<1>5. CASE i + Chunk < Len(job.data)
  <2>1. i' = i + Chunk /\ place' = Advance(Chunk) /\ pc' = "bank" /\ done' = "none"
    BY <1>0, <1>5 DEF ChunkDone, Underway
  <2>2. /\ place' \in Places /\ place' \in Spots
        /\ \A blk \in Blocks : Lin(blk[1]) + i = Lin(place) => Lin(blk[1]) + i' = Lin(place)'
    BY <1>0, <1>5, <2>1, Advances
  <2>3. MemoryTypeOK'
    BY <1>0, <1>2, <2>1, <2>2, SMTT(20) DEF MemoryTypeOK, Forth
  <2>4. Underway'
    <3>1. PICK blk \in Blocks : blk[2] = Len(job.data) /\ Lin(blk[1]) + i = Lin(place)
      BY <1>0 DEF Underway
    <3>2. Lin(blk[1]) + i' = Lin(place)'
      BY <2>2, <3>1
    <3> QED
      BY <1>0, <1>5, <2>1, <2>2, <3>1, <3>2 DEF Underway, Lin
  <2>5. missed' = 0 => \E blk \in Blocks : /\ blk[2] = Len(job'.data) /\ Lin(blk[1]) + i' = Lin(place)'
                                           /\ held' = ReadFrom(blk[1], i)'
    BY <1>0, <1>3, <2>1, <2>2 DEF ReadFrom
  <2>6. ReadInv'
    BY <1>3, <2>1, <2>4, <2>5 DEF ReadInv, Aimed, Lin, ReadFrom
  <2>7. JobKinds' /\ WriteInv' /\ Between'
    BY <1>0, <2>1 DEF JobKinds, WriteInv, Between, Forth, Back
  <2> QED
    BY <2>3, <2>6, <2>7 DEF MemoryInv
<1> QED
  BY <1>0, <1>4, <1>5

(* Every step keeps the invariant.                                         *)
LEMMA MemoryKept == MemoryInv /\ [MemoryNext]_memoryVars => MemoryInv'
<1>1. ASSUME MemoryInv, UNCHANGED memoryVars PROVE MemoryInv'
  <2>1. UNCHANGED <<memory, window, job, i, place, pc, held, rest, done, want, missed>>
    BY <1>1 DEF memoryVars
  <2>2. MemoryTypeOK' /\ JobKinds'
    BY <1>1, <2>1 DEF MemoryInv, MemoryTypeOK, JobKinds
  <2>3. Between'
    BY <1>1, <2>1 DEF MemoryInv, Between, Spent, Sound, ReadFrom
  <2>4. (Sound' => Sound) /\ (Astray => Astray') /\ (Aimed("address", "write") => Aimed("address", "write")')
    BY <2>1 DEF Sound, Astray, Aimed
  <2>5. WriteInv'
    BY <1>1, <2>1, <2>4, Undisturbed DEF MemoryInv, WriteInv
  <2>6. ReadInv'
    BY <1>1, <2>1, Undisturbed DEF MemoryInv, ReadInv, Aimed, Lin, ReadFrom
  <2> QED
    BY <2>2, <2>3, <2>5, <2>6 DEF MemoryInv
<1> QED
  BY <1>1, StartWriteKeeps, NextBlockKeeps, SetKeeps, AimKeeps, WriteChunkKeeps, VerifyChunkKeeps,
     StartBlockReadKeeps, ReadChunkKeeps DEF MemoryNext

(* A behaviour of the driver is one of its memory functions.               *)
LEMMA MemoryRuns == MpuSpec => MemoryInit /\ [][MemoryNext]_memoryVars
<1>1. MpuInit => MemoryInit
  BY DEF MpuInit
<1>2. [MpuNext]_mpuVars => [MemoryNext]_memoryVars
  BY DEF MpuNext, Of, mpuVars
<1> QED
  BY <1>1, <1>2, PTL DEF MpuSpec

(* Blocks that were all compared, in a call that returned true, are in the *)
(* memory of the DMP with every byte in its place, whichever single        *)
(* transaction was lost on the way; so are any blocks when none was, and   *)
(* they read back as they were written: for banks, chunks and blocks of    *)
(* any size.  Of a block for which malloc found no buffer to compare in    *)
(* nothing is said once a transaction was lost.                            *)
THEOREM BlockIsThereHolds == MpuSpec => []BlockIsThere
<1>1. MemoryInv => BlockIsThere
  <2>1. \A blk \in Blocks : ReadFrom(blk[1], blk[2]) = [n \in 1..blk[2] |-> want[PlaceOf(blk[1], n - 1)]]
    BY DEF ReadFrom
  <2> QED
    BY <2>1 DEF MemoryInv, Between, Sound, BlockIsThere
<1> QED
  BY MemoryInitial, MemoryKept, MemoryRuns, <1>1, PTL
=============================================================================
