----------------------------- MODULE LoopMemory -----------------------------
(***************************************************************************)
(* The two arrays of a pass of loop() (main_algo.ino:171, :172, :502-507)  *)
(* on a heap of a few blocks.  The pass ends by setting both pointers to   *)
(* NULL and deleting them afterwards, which deletes nothing.  When new     *)
(* finds no block the processor restarts and the heap is empty again.      *)
(***************************************************************************)
EXTENDS Integers, FiniteSets

CONSTANT HeapBlocks \* how many arrays fit the heap

Block == 1..HeapBlocks
NULL == 0

VARIABLES
    at,          \* the statement reached
    tofReadings, \* the pointers of those names
    icmReadings,
    owned        \* the blocks new has handed out and delete[] not had back

memoryVars == <<at, tofReadings, icmReadings, owned>>

MemoryInit ==
    /\ at = "new tof"
    /\ tofReadings = NULL
    /\ icmReadings = NULL
    /\ owned = {}

NewTof ==
    /\ at = "new tof"
    /\ at' = "new icm"
    /\ tofReadings' \in Block \ owned
    /\ owned' = owned \cup {tofReadings'}
    /\ UNCHANGED icmReadings

NewIcm ==
    /\ at = "new icm"
    /\ at' = "pass"
    /\ icmReadings' \in Block \ owned
    /\ owned' = owned \cup {icmReadings'}
    /\ UNCHANGED tofReadings

(* The body of loop() only reads and writes through the two pointers.      *)
Pass ==
    /\ at = "pass"
    /\ at' = "delete icm"
    /\ tofReadings' = NULL
    /\ icmReadings' = NULL
    /\ UNCHANGED owned

(* delete[] of NULL is allowed and does nothing.                           *)
DeleteIcm ==
    /\ at = "delete icm"
    /\ at' = "delete tof"
    /\ owned' = owned \ {icmReadings}
    /\ UNCHANGED <<tofReadings, icmReadings>>

DeleteTof ==
    /\ at = "delete tof"
    /\ at' = "new tof"
    /\ owned' = owned \ {tofReadings}
    /\ UNCHANGED <<tofReadings, icmReadings>>

Exhausted ==
    /\ at \in {"new tof", "new icm"}
    /\ owned = Block
    /\ at' = "new tof"
    /\ tofReadings' = NULL
    /\ icmReadings' = NULL
    /\ owned' = {}

MemoryNext == NewTof \/ NewIcm \/ Pass \/ DeleteIcm \/ DeleteTof \/ Exhausted

MemorySpec == MemoryInit /\ [][MemoryNext]_memoryVars

(* The sensor sketch gives both arrays back at the end of its loop()       *)
(* ("delete[] tofs; delete[] icm_reads;", sensors_test.ino:43): a pass     *)
(* begins with an empty heap.  In main_algo.ino it does not.               *)
PassLeaksNothing == at = "new tof" => owned = {}
=============================================================================
