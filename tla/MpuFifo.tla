------------------------------ MODULE MpuFifo ------------------------------
(***************************************************************************)
(* GetCurrentFIFOPacket of libraries/MPU6050/MPU6050.cpp: fetch the latest *)
(* packet from the sensor's FIFO, however many the sensor has put there.   *)
(* The sensor goes on putting packets into the FIFO between any two bus    *)
(* transactions, and drops the oldest bytes when it is full.               *)
(***************************************************************************)
EXTENDS Integers, Sequences, SequencesExt

CONSTANTS
    Length,      \* bytes of a packet
    Capacity,    \* external: bytes the FIFO holds (1024)
    TooMany,     \* more than these are not worth reading (200)
    BufferLength,\* bytes of one transaction (BUFFER_LENGTH)
    Gap,         \* external: transactions the processor makes, at least, per packet
    MaxAge,      \* bound: packets are told apart up to this age
    MaxLost      \* bound: transactions that fail

ASSUME FifoAssumption ==
    /\ Length \in Nat \ {0} /\ Capacity \in Nat /\ TooMany \in Nat
    /\ Length <= TooMany /\ TooMany < Capacity /\ 2 * Length <= Capacity
    /\ BufferLength \in Nat \ {0} /\ Gap \in Nat \ {0}
    /\ MaxAge \in Nat \ {0} /\ MaxLost \in Nat

VARIABLES
    fifo,    \* external: its bytes, as age of the packet and place in it
    quiet,   \* external: transactions since the last packet, up to Gap
    counted, \* buffer[0] and buffer[1]: the count getFIFOCount read last
    fifoC,   \* fifoC
    late,    \* more than 11 ms have passed since the call
    data,    \* the caller's array
    at,      \* where the call is
    back,    \* what it returned
    fresh,   \* history: packets put in since the count was read
    failed,  \* history: a transaction of this call has failed
    lost

fifoVars == <<fifo, quiet, counted, fifoC, late, data, at, back, fresh, failed, lost>>

WholePacket(age) == [i \in 1..Length |-> <<age, i>>]
Older(s) == [i \in DOMAIN s |-> <<IF s[i][1] < MaxAge THEN s[i][1] + 1 ELSE MaxAge, s[i][2]>>]
Capped(s) == IF Len(s) > Capacity THEN SubSeq(s, Len(s) - Capacity + 1, Len(s)) ELSE s
LesserOf(x, y) == IF x < y THEN x ELSE y

FifoInit ==
    /\ fifo = <<>> /\ quiet = Gap /\ counted = 0 /\ fifoC = 0 /\ late = FALSE
    /\ data = <<>> /\ at = "idle" /\ back = -1 /\ fresh = 0 /\ failed = FALSE /\ lost = 0

\* external: the sensor puts a packet into the FIFO, all of it at once.
Packet ==
    /\ at = "idle" \/ quiet = Gap
    /\ fifo' = Capped(Older(fifo) \o WholePacket(0))
    /\ data' = Older(data)
    /\ quiet' = 0 /\ fresh' = LesserOf(fresh + 1, MaxAge)
    /\ UNCHANGED <<counted, fifoC, late, at, back, failed, lost>>

Tick ==
    /\ at # "idle" /\ ~late /\ late' = TRUE
    /\ UNCHANGED <<fifo, quiet, counted, fifoC, data, at, back, fresh, failed, lost>>

StartPacket ==
    /\ at = "idle" /\ at' = "count" /\ late' = FALSE /\ failed' = FALSE
    /\ quiet' = Gap /\ data' = <<>> /\ fifoC' = 0 /\ back' = -1
    /\ UNCHANGED <<fifo, counted, fresh, lost>>

Transacted == quiet' = LesserOf(quiet + 1, Gap)

(***************************************************************************)
(* What follows each time the count has been read.                         *)
(***************************************************************************)
\* After the loop over packets, or without it: nothing, too late, too few or
\* exactly one packet.
BugConclude(n) ==
    IF n = 0 \/ late THEN "nothing" ELSE "fetch"

Conclude(n) ==
    CASE n = 0 -> "nothing"
      [] n # 0 /\ late -> "nothing"
      [] n = Length /\ ~late -> "fetch"
      [] OTHER -> "count"

AfterCount(n) ==
    CASE n > Length /\ n > TooMany -> "reset"
      [] n > Length /\ n <= TooMany -> "recount"
      [] OTHER -> Conclude(n)

\* while ((fifoC = getFIFOCount()) > length): read away all but one packet.
AfterRecount(n) == IF n > Length THEN "discard" ELSE Conclude(n)

\* while (!(fifoC = getFIFOCount()) && 11 ms have not passed)
BugAfterReset(n) == IF n = 0 THEN "await" ELSE Conclude(n)
AfterReset(n) == IF n = 0 /\ ~late THEN "await" ELSE Conclude(n)

Following(n) ==
    CASE at = "count" -> AfterCount(n)
      [] at = "recount" -> AfterRecount(n)
      [] at = "await" -> AfterReset(n)

Counting == at \in {"count", "recount", "await"}

\* The bytes the discarding loop takes: all but the last packet.
ToDiscard(n) == n - Length

\* The count and where it leads.  A failed read leaves the previous count.
Counted(n) ==
    /\ at' = Following(n)
    /\ fifoC' = IF at' = "discard" THEN ToDiscard(n) ELSE n
    /\ back' = IF at' = "nothing" THEN 0 ELSE back

GetFIFOCount ==
    /\ Counting
    /\ counted' = Len(fifo) /\ Counted(Len(fifo)) /\ fresh' = 0 /\ Transacted
    /\ UNCHANGED <<fifo, late, data, failed, lost>>

GetFIFOCountFails ==
    /\ Counting /\ lost < MaxLost
    /\ Counted(counted) /\ Transacted
    /\ lost' = lost + 1 /\ failed' = TRUE
    /\ UNCHANGED <<fifo, counted, late, data, fresh>>

\* resetFIFO: two transactions (writeBit) of which the second counts.
ResetFifo ==
    /\ at = "reset" /\ at' = "await" /\ fifoC' = 0 /\ Transacted
    /\ fifo' = <<>>
    /\ UNCHANGED <<counted, late, data, back, fresh, failed, lost>>

ResetFails ==
    /\ at = "reset" /\ lost < MaxLost /\ at' = "await" /\ fifoC' = 0 /\ Transacted
    /\ lost' = lost + 1 /\ failed' = TRUE
    /\ UNCHANGED <<fifo, counted, late, data, back, fresh>>

\* Reading more than there is returns the last byte over and over.
Taken(n) == LesserOf(n, Len(fifo))

Discard ==
    /\ at = "discard" /\ Transacted
    /\ LET n == LesserOf(fifoC, BufferLength)
       IN /\ fifo' = SubSeq(fifo, Taken(n) + 1, Len(fifo))
          /\ fifoC' = fifoC - n
          /\ at' = IF fifoC' = 0 THEN "recount" ELSE "discard"
    /\ UNCHANGED <<counted, late, data, back, fresh, failed, lost>>

DiscardFails ==
    /\ at = "discard" /\ lost < MaxLost /\ Transacted
    /\ fifoC' = fifoC - LesserOf(fifoC, BufferLength)
    /\ at' = IF fifoC' = 0 THEN "recount" ELSE "discard"
    /\ lost' = lost + 1 /\ failed' = TRUE
    /\ UNCHANGED <<fifo, counted, late, data, back, fresh>>

Fetch ==
    /\ at = "fetch" /\ Transacted
    /\ data' = SubSeq(fifo, 1, Taken(Length))
    /\ fifo' = SubSeq(fifo, Taken(Length) + 1, Len(fifo))
    /\ back' = 1 /\ at' = "idle"
    /\ UNCHANGED <<counted, fifoC, late, fresh, failed, lost>>

FetchFails ==
    /\ at = "fetch" /\ lost < MaxLost /\ Transacted
    /\ back' = 1 /\ at' = "idle" /\ lost' = lost + 1 /\ failed' = TRUE
    /\ UNCHANGED <<fifo, counted, fifoC, late, data, fresh>>

Return ==
    /\ at = "nothing" /\ at' = "idle"
    /\ UNCHANGED <<fifo, quiet, counted, fifoC, late, data, back, fresh, failed, lost>>

Work ==
    \/ GetFIFOCount \/ GetFIFOCountFails \/ ResetFifo \/ ResetFails
    \/ Discard \/ DiscardFails \/ Fetch \/ FetchFails \/ Return

FifoNext == Packet \/ Tick \/ StartPacket \/ Work

\* The processor goes on with the call and the clock goes on.
FifoFairness == WF_fifoVars(Work) /\ WF_fifoVars(Tick)

FifoSpec == FifoInit /\ [][FifoNext]_fifoVars /\ FifoFairness

(***************************************************************************)
(* Properties.                                                             *)
(***************************************************************************)
\* A call that met no fault and returned 1 has one whole packet, from its
\* first byte to its last, and the latest there was when it was counted:
\* also after an overflow cut a packet, and after an earlier call with a
\* fault left a part of one.
LatestWholePacket ==
    at = "idle" /\ back = 1 /\ ~failed =>
        \E age \in 0..fresh : data = WholePacket(age)

\* A call returns: the packets keep coming, but not faster than it reads.
PacketCallReturns == at # "idle" ~> at = "idle"
=============================================================================
