----------------------------- MODULE MpuMemory -----------------------------
(***************************************************************************)
(* The DMP's memory in libraries/MPU6050/MPU6050.cpp: writeMemoryBlock,    *)
(* readMemoryBlock and writeDMPConfigurationSet.  The memory lies behind   *)
(* three registers: the bank, the address in the bank and a window that    *)
(* moves on with every byte.  A block is moved in chunks that cross no     *)
(* bank boundary, and the bank and the address are set again before each.  *)
(* No status is looked at: only reading back tells a lost transaction, and *)
(* a block is read back only when it was asked for and the heap had a      *)
(* buffer to compare in: without one it is written unverified, and the     *)
(* call returns true.                                                      *)
(***************************************************************************)
EXTENDS Integers, Sequences, FiniteSets

CONSTANTS
    BankSize,   \* MPU6050_DMP_MEMORY_BANK_SIZE
    Banks,      \* MPU6050_DMP_MEMORY_BANKS
    ChunkSize,  \* MPU6050_DMP_MEMORY_CHUNK_SIZE
    MaxSize,    \* bound: bytes of a block
    MaxBlocks,  \* bound: blocks of a configuration set
    MaxMissed   \* bound: transactions that fail

ASSUME MemoryAssumption ==
    /\ BankSize \in Nat \ {0} /\ Banks \in Nat \ {0} /\ ChunkSize \in Nat \ {0}
    /\ MaxSize \in Nat /\ MaxBlocks \in Nat /\ MaxMissed \in Nat

VARIABLES
    memory,   \* external: the chip's memory
    window,   \* external: bank and address the chip has selected
    job,      \* the block in progress: kind, data, verify (asked for, and the
              \* buffer was got), checked (history: so were all before it)
    i,        \* bytes done
    place,    \* bank and address as the driver counts them
    pc,
    held,     \* the verify buffer, or the caller's array for a read
    rest,     \* blocks left of the configuration set
    done,     \* what the call returned
    want,     \* history: what the memory should hold
    missed

memoryVars == <<memory, window, job, i, place, pc, held, rest, done, want, missed>>

Places == (0..(Banks - 1)) \X (0..(BankSize - 1))
Old == 0
NoJob == [kind |-> "none", data |-> <<>>, verify |-> FALSE, checked |-> TRUE]
LesserSize(x, y) == IF x < y THEN x ELSE y

\* external: the window moves on inside its bank.
Moved(p, n) == <<p[1], (p[2] + n) % BankSize>>

\* Where the n-th byte of a block goes, by the map of the memory.
PlaceOf(p, n) == <<p[1] + (p[2] + n) \div BankSize, (p[2] + n) % BankSize>>

Offset(p, q) == (q[1] - p[1]) * BankSize + q[2] - p[2]

\* Blocks lie inside the memory; their bytes are told apart, and from those
\* of the other blocks of a set.
Blocks == {blk \in Places \X (1..MaxSize) : PlaceOf(blk[1], blk[2] - 1) \in Places}
ByteAt(n) == rest * MaxSize + n
Bytes(size) == [n \in 1..size |-> ByteAt(n)]

MemoryInit ==
    /\ memory = [p \in Places |-> Old] /\ want = memory
    /\ window = <<0, 0>> /\ job = NoJob /\ i = 0 /\ place = <<0, 0>> /\ pc = "idle"
    /\ held = <<>> /\ rest = 0 /\ done = "none" /\ missed = 0

\* chunkSize: what is left, and what is left of the bank.
BugChunk == LesserSize(ChunkSize, Len(job.data) - i)
Chunk == LesserSize(LesserSize(ChunkSize, Len(job.data) - i), BankSize - place[2])

Put(m, p, s) ==
    [q \in Places |-> LET n == ((q[2] - p[2]) % BankSize) + 1
                      IN IF q[1] = p[1] /\ n \in 1..Len(s) THEN s[n] ELSE m[q]]

Begin(kind, p, size, verify) ==
    /\ job' = [kind |-> kind, data |-> Bytes(size), verify |-> verify,
               checked |-> verify /\ job.checked]
    /\ place' = p /\ i' = 0 /\ pc' = "bank" /\ done' = "none"
    /\ held' = <<>>

\* verify: the caller asked for it and malloc returned a buffer.
StartWrite ==
    /\ pc = "idle" /\ done = "none"
    /\ \E blk \in Blocks, verify \in BOOLEAN :
          /\ Begin("write", blk[1], blk[2], verify)
          /\ want' = [q \in Places |->
                        LET n == Offset(blk[1], q) + 1
                        IN IF n \in 1..blk[2] THEN ByteAt(n) ELSE want[q]]
    /\ UNCHANGED <<memory, window, rest, missed>>

\* writeDMPConfigurationSet: blocks one after another, each to be verified;
\* it stops at the first that fails.
StartConfigurationSet ==
    /\ pc = "idle" /\ done = "none" /\ rest = 0 /\ MaxBlocks > 0
    /\ rest' = MaxBlocks /\ pc' = "next"
    /\ UNCHANGED <<memory, window, job, i, place, held, done, want, missed>>

NextBlock ==
    /\ pc = "next" /\ rest > 0
    /\ \E blk \in Blocks, buffer \in BOOLEAN :
          /\ Begin("write", blk[1], blk[2], buffer)
          /\ want' = [q \in Places |->
                        LET n == Offset(blk[1], q) + 1
                        IN IF n \in 1..blk[2] THEN ByteAt(n) ELSE want[q]]
    /\ rest' = rest - 1
    /\ UNCHANGED <<memory, window, missed>>

\* A special block: 0x01 enables the DMP's interrupts, any other fails.
Special ==
    /\ pc = "next" /\ rest > 0 /\ rest' = rest - 1
    /\ \/ pc' = "next" /\ done' = done
       \/ pc' = "idle" /\ done' = "false"
    /\ UNCHANGED <<memory, window, job, i, place, held, want, missed>>

EndOfSet ==
    /\ pc = "next" /\ rest = 0 /\ pc' = "idle" /\ done' = "true"
    /\ UNCHANGED <<memory, window, job, i, place, held, rest, want, missed>>

StartBlockRead ==
    /\ pc = "idle" /\ done = "true"
    /\ \E blk \in Blocks : Begin("read", blk[1], blk[2], FALSE)
    /\ UNCHANGED <<memory, window, rest, want, missed>>

Fails == missed < MaxMissed /\ missed' = missed + 1
Works == missed' = missed

\* setMemoryBank and setMemoryStartAddress, before the block and after every
\* chunk and again before a chunk is read back.
SetMemoryBank ==
    /\ pc \in {"bank", "bankAgain"}
    /\ \/ Works /\ window' = <<place[1], window[2]>>
       \/ Fails /\ window' = window
    /\ pc' = IF pc = "bank" THEN "address" ELSE "addressAgain"
    /\ UNCHANGED <<memory, job, i, place, held, rest, done, want>>

SetMemoryStartAddress ==
    /\ pc \in {"address", "addressAgain"}
    /\ \/ Works /\ window' = <<window[1], place[2]>>
       \/ Fails /\ window' = window
    /\ pc' = IF pc = "address" THEN job.kind ELSE "verify"
    /\ UNCHANGED <<memory, job, i, place, held, rest, done, want>>

\* The driver's place after a chunk: the bank goes up when the address wraps.
Advance(n) ==
    LET a == (place[2] + n) % BankSize
    IN <<IF a = 0 THEN place[1] + 1 ELSE place[1], a>>

Finished(how) ==
    /\ IF job.kind = "write" /\ how = "true" /\ rest > 0
       THEN pc' = "next" /\ done' = done
       ELSE pc' = "idle" /\ done' = how
    /\ UNCHANGED <<i, place>>

ChunkDone(n) ==
    IF i + n >= Len(job.data)
    THEN Finished(IF job.kind = "read" THEN "read" ELSE "true")
    ELSE i' = i + n /\ place' = Advance(n) /\ pc' = "bank" /\ done' = done

WriteChunk ==
    /\ pc = "write"
    /\ \/ /\ Works /\ memory' = Put(memory, window, SubSeq(job.data, i + 1, i + Chunk))
          /\ window' = Moved(window, Chunk)
       \/ Fails /\ UNCHANGED <<memory, window>>
    /\ IF job.verify THEN pc' = "bankAgain" /\ UNCHANGED <<i, place, done>> ELSE ChunkDone(Chunk)
    /\ UNCHANGED <<job, held, rest, want>>

\* A read that fails leaves the buffer as it was, or as malloc returned it.
Seen(n) == [k \in 1..n |-> memory[Moved(window, k - 1)]]
Stale(n) == [k \in 1..n |-> IF k <= Len(held) THEN held[k] ELSE Old]

VerifyChunk ==
    /\ pc = "verify"
    /\ \/ Works /\ held' = Seen(Chunk) /\ window' = Moved(window, Chunk)
       \/ Fails /\ held' = Stale(Chunk) /\ window' = window
    /\ IF held' = SubSeq(job.data, i + 1, i + Chunk)
       THEN ChunkDone(Chunk) ELSE Finished("false")
    /\ UNCHANGED <<memory, job, rest, want>>

ReadChunk ==
    /\ pc = "read"
    /\ \/ Works /\ held' = held \o Seen(Chunk) /\ window' = Moved(window, Chunk)
       \/ Fails /\ held' = held \o [k \in 1..Chunk |-> Old] /\ window' = window
    /\ ChunkDone(Chunk)
    /\ UNCHANGED <<memory, job, rest, want>>

MemoryNext ==
    \/ StartWrite \/ StartConfigurationSet \/ NextBlock \/ Special \/ EndOfSet \/ StartBlockRead
    \/ SetMemoryBank \/ SetMemoryStartAddress \/ WriteChunk \/ VerifyChunk \/ ReadChunk

MemorySpec == MemoryInit /\ [][MemoryNext]_memoryVars

(***************************************************************************)
(* Properties.                                                             *)
(***************************************************************************)
\* When a call returned true and each of its blocks was compared, they are in
\* the memory, each byte in its place and no other place touched, whichever
\* one transaction was lost; when none was lost so is any block, and it reads
\* back as it was written.  Of a block that was to be verified and found no
\* buffer the call says true as well, and a lost transaction leaves it
\* damaged: nothing is claimed there.  Two lost ones the comparison may miss: when the bank is
\* set neither for the write nor for the reading back, both go to the same
\* wrong bank.  And the bytes are new to the chip: of a block loaded a second
\* time the comparison cannot tell that a chunk of it went astray.
BlockIsThere ==
    /\ pc = "idle" /\ done = "true" /\ ((job.checked /\ missed <= 1) \/ missed = 0) => memory = want
    /\ pc = "idle" /\ done = "read" /\ missed = 0 =>
          \E blk \in Blocks : held = [n \in 1..blk[2] |-> want[PlaceOf(blk[1], n - 1)]]
=============================================================================
