---------------------------- MODULE ServerProofs ----------------------------
(***************************************************************************)
(* Theorems about WiFiServer.  CountInv is the inductive invariant behind  *)
(* the reference counts, TurnInv the one behind the turns of available().  *)
(***************************************************************************)
EXTENDS WiFiServer, FiniteSetTheorems, TLAPS

Places == Contexts \union {NoContext}

HoldersOf(hold, c) == {h \in Holders : hold[h] = c}
Waits(queue, c) == \E k \in DOMAIN queue : queue[k] = c

(* Counts, holders and queue agree.                                        *)
CountsAgree(cs, hold, queue) ==
    \A c \in Contexts :
        /\ cs[c].refs = Cardinality(HoldersOf(hold, c))
        /\ cs[c].live <=> cs[c].refs > 0 \/ Waits(queue, c)
        /\ Waits(queue, c) => cs[c].refs = 0
        /\ cs[c].delayed => Waits(queue, c)

ClaimedOnce(queue) == \A i, j \in DOMAIN queue : queue[i] = queue[j] => i = j

Delayed(cs) == {c \in Contexts : cs[c].delayed}

ContextTable == [Contexts -> ContextRecord]

TablesOK ==
    /\ ctx \in ContextTable
    /\ holding \in [Holders -> Places]
    /\ unclaimed \in Seq(Contexts)
    /\ listener \in [open : BOOLEAN, backlog : Nat, pending : Nat]

PositionOK ==
    /\ index \in 0..MaxMonitored
    /\ walk \in [at : {"idle", "fill", "fill?", "find", "end", "end?", "stop"},
                 slot : Slots, into : Guests \union {0}]
    /\ walk.at \in {"fill", "fill?", "find"} => walk.into \in Guests

Tallied ==
    /\ TablesOK
    /\ CountsAgree(ctx, holding, unclaimed)
    /\ ClaimedOnce(unclaimed)
    /\ listener.pending = Cardinality(Delayed(ctx))
    /\ ~listener.open => listener.pending = 0

CountInv == PositionOK /\ Tallied

(* From where the search goes on, how many slots come before s.            *)
Distance(i, s) == IF Turn(i) <= s THEN s - Turn(i) ELSE s + MaxMonitored - Turn(i)

TurnInv ==
    /\ CountInv
    /\ \A s, t \in Slots : holding[s] # NoContext /\ holding[s] = holding[t] => s = t
    /\ \A c \in Contexts : ctx[c].unread = 0 \/ Waits(unclaimed, c) => ctx[c].passed = 0
    /\ \A s \in Slots :
          holding[s] # NoContext =>
              ctx[holding[s]].passed + Distance(index, s) < MaxMonitored

-----------------------------------------------------------------------------
(* How many clients hold a context.                                        *)
LEMMA HoldersFinite == IsFiniteSet(Holders)
<1>1. IsFiniteSet(0..MaxMonitored - 1)
  BY FS_Interval, ServerAssumption
<1>2. QED
  BY <1>1, FS_Union, ServerAssumption DEF Holders, Slots

LEMMA HoldersOfFinite ==
    ASSUME NEW hold, NEW x
    PROVE  /\ IsFiniteSet(HoldersOf(hold, x))
           /\ Cardinality(HoldersOf(hold, x)) \in Nat
<1>1. HoldersOf(hold, x) \in SUBSET Holders
  BY DEF HoldersOf
<1>2. IsFiniteSet(HoldersOf(hold, x))
  BY <1>1, HoldersFinite, FS_Subset
<1>3. QED
  BY <1>2, FS_CardinalityType

LEMMA HeldIsCounted ==
    ASSUME NEW hold, NEW h \in Holders
    PROVE  Cardinality(HoldersOf(hold, hold[h])) > 0
<1>1. h \in HoldersOf(hold, hold[h])
  BY DEF HoldersOf
<1>2. HoldersOf(hold, hold[h]) # {}
  BY <1>1
<1>3. Cardinality(HoldersOf(hold, hold[h])) # 0
  BY <1>2, HoldersOfFinite, FS_EmptySet
<1>4. Cardinality(HoldersOf(hold, hold[h])) \in Nat
  BY HoldersOfFinite
<1>5. QED
  BY <1>3, <1>4

\* what a client that lets d go and takes c changes in the number of x's holders
Change(x, d, c) == (IF x = c THEN 1 ELSE 0) - (IF x = d THEN 1 ELSE 0)

LEMMA HolderMoves ==
    ASSUME NEW hold \in [Holders -> Places], NEW h \in Holders, NEW c \in Places, NEW x \in Contexts
    PROVE  Cardinality(HoldersOf([hold EXCEPT ![h] = c], x)) =
               Cardinality(HoldersOf(hold, x)) + Change(x, hold[h], c)
<1> DEFINE S == HoldersOf(hold, x)
           T == HoldersOf([hold EXCEPT ![h] = c], x)
<1>1. IsFiniteSet(S) /\ Cardinality(S) \in Nat
  BY HoldersOfFinite
<1>2. CASE x = c /\ x # hold[h]
  <2>1. T = S \union {h} /\ h \notin S
    BY <1>2 DEF HoldersOf
  <2>2. Cardinality(S \union {h}) = Cardinality(S) + 1
    BY <2>1, <1>1, FS_AddElement
  <2>3. Cardinality(T) = Cardinality(S) + 1
    BY <2>1, <2>2, Zenon
  <2>4. QED
    BY <2>3, <1>1, <1>2 DEF Change
<1>3. CASE x # c /\ x = hold[h]
  <2>1. T = S \ {h} /\ h \in S
    BY <1>3 DEF HoldersOf
  <2>2. Cardinality(S \ {h}) = Cardinality(S) - 1
    BY <2>1, <1>1, FS_RemoveElement
  <2>3. Cardinality(T) = Cardinality(S) - 1
    BY <2>1, <2>2, Zenon
  <2>4. QED
    BY <2>3, <1>1, <1>3 DEF Change
<1>4. CASE x = c <=> x = hold[h]
  <2>1. T = S
    BY <1>4 DEF HoldersOf
  <2>2. Cardinality(T) = Cardinality(S)
    BY <2>1, Zenon
  <2>3. QED
    BY <2>2, <1>1, <1>4 DEF Change
<1>5. QED
  BY <1>2, <1>3, <1>4

-----------------------------------------------------------------------------
(* A client that held d holds c from now on: what becomes of the counts.   *)
Recount(r, n) == [r EXCEPT !.refs = n]

Moved(cs, d, c) ==
    [x \in Contexts |->
        IF x = c /\ x # d THEN Recount(cs[x], cs[x].refs + 1)
        ELSE IF x = d /\ x # c
        THEN IF cs[x].refs = 1 THEN Deleted ELSE Recount(cs[x], cs[x].refs - 1)
        ELSE cs[x]]

LEMMA DeletedIsContext == Deleted \in ContextRecord
  BY DEF Deleted, ContextRecord

LEMMA Recounted ==
    ASSUME NEW r \in ContextRecord, NEW n \in Nat
    PROVE  /\ Recount(r, n) \in ContextRecord
           /\ Recount(r, n).refs = n
           /\ \A m : Recount(Recount(r, n), m) = Recount(r, m)
           /\ n = r.refs => Recount(r, n) = r
           /\ Recount(r, n).live = r.live /\ Recount(r, n).delayed = r.delayed
           /\ Recount(r, n).unread = r.unread /\ Recount(r, n).passed = r.passed
           /\ r.refs \in Nat
<1>1. Recount(r, n) \in ContextRecord /\ Recount(r, n).refs = n
  BY DEF Recount, ContextRecord
<1>2. ASSUME NEW m PROVE Recount(Recount(r, n), m) = Recount(r, m)
  BY DEF Recount, ContextRecord
<1>3. n = r.refs => Recount(r, n) = r
  BY DEF Recount, ContextRecord
<1>4. r.refs \in Nat
  BY DEF ContextRecord
<1>5. /\ Recount(r, n).live = r.live /\ Recount(r, n).delayed = r.delayed
      /\ Recount(r, n).unread = r.unread /\ Recount(r, n).passed = r.passed
  BY DEF Recount, ContextRecord
<1>6. QED
  BY <1>1, <1>2, <1>3, <1>4, <1>5

LEMMA RefCounts ==
    ASSUME NEW cs \in ContextTable, NEW c \in Places
    PROVE  /\ Ref(cs, c) \in ContextTable
           /\ \A x \in Contexts :
                 Ref(cs, c)[x] = IF x = c THEN Recount(cs[x], cs[x].refs + 1) ELSE cs[x]
<1>1. CASE c = NoContext
  BY <1>1, ServerAssumption DEF Ref
<1>2. CASE c \in Contexts
  <2>1. Recount(cs[c], cs[c].refs + 1) \in ContextRecord
    BY <1>2, Recounted DEF ContextTable
  <2>2. Ref(cs, c) = [cs EXCEPT ![c] = Recount(cs[c], cs[c].refs + 1)]
    BY <1>2, ServerAssumption DEF Ref, Recount
  <2>3. QED
    BY <1>2, <2>1, <2>2 DEF ContextTable
<1>3. QED
  BY <1>1, <1>2 DEF Places

LEMMA UnrefCounts ==
    ASSUME NEW cs \in ContextTable, NEW c \in Places,
           c \in Contexts => cs[c].refs > 0
    PROVE  /\ Unref(cs, c) \in ContextTable
           /\ \A x \in Contexts :
                 Unref(cs, c)[x] = IF x # c THEN cs[x]
                                   ELSE IF cs[x].refs = 1 THEN Deleted
                                   ELSE Recount(cs[x], cs[x].refs - 1)
<1>1. CASE c = NoContext
  BY <1>1, ServerAssumption DEF Unref
<1>2. CASE c \in Contexts /\ cs[c].refs = 1
  BY <1>2, ServerAssumption, DeletedIsContext DEF Unref, ContextTable
<1>3. CASE c \in Contexts /\ cs[c].refs # 1
  <2>1. cs[c] \in ContextRecord
    BY <1>3 DEF ContextTable
  <2>2. cs[c].refs - 1 \in Nat
    BY <1>3, <2>1, Recounted
  <2>3. Recount(cs[c], cs[c].refs - 1) \in ContextRecord
    BY <2>1, <2>2, Recounted
  <2>4. Unref(cs, c) = [cs EXCEPT ![c] = Recount(cs[c], cs[c].refs - 1)]
    BY <1>3, ServerAssumption DEF Unref, Recount
  <2>5. QED
    BY <1>3, <2>3, <2>4 DEF ContextTable
<1>4. QED
  BY <1>1, <1>2, <1>3 DEF Places

LEMMA MovedType ==
    ASSUME NEW cs \in ContextTable, NEW d \in Places, NEW c \in Places,
           d \in Contexts => cs[d].refs > 0
    PROVE  Moved(cs, d, c) \in ContextTable
<1>1. ASSUME NEW x \in Contexts PROVE Moved(cs, d, c)[x] \in ContextRecord
  <2>1. cs[x] \in ContextRecord /\ cs[x].refs \in Nat
    BY Recounted DEF ContextTable
  <2>2. Recount(cs[x], cs[x].refs + 1) \in ContextRecord
    BY <2>1, Recounted
  <2>3. cs[x].refs > 0 => Recount(cs[x], cs[x].refs - 1) \in ContextRecord
    BY <2>1, Recounted
  <2>4. QED
    BY <2>1, <2>2, <2>3, DeletedIsContext DEF Moved
<1>2. QED
  BY <1>1 DEF Moved, ContextTable

(* operator= of a client that is given a context somebody else holds too.  *)
LEMMA AssignMoves ==
    ASSUME NEW cs \in ContextTable, NEW d \in Places, NEW c \in Places,
           d \in Contexts => cs[d].refs > 0,
           d = c /\ d \in Contexts => cs[d].refs > 1
    PROVE  Ref(Unref(cs, d), c) = Moved(cs, d, c)
<1> DEFINE less == Unref(cs, d)
           more == Ref(less, c)
<1>1. /\ less \in ContextTable
      /\ \A x \in Contexts : less[x] = IF x # d THEN cs[x]
                                       ELSE IF cs[x].refs = 1 THEN Deleted
                                       ELSE Recount(cs[x], cs[x].refs - 1)
  BY UnrefCounts
<1>2. /\ more \in ContextTable
      /\ \A x \in Contexts :
            more[x] = IF x = c THEN Recount(less[x], less[x].refs + 1) ELSE less[x]
  BY <1>1, RefCounts
<1> HIDE DEF less, more
<1>3. ASSUME NEW x \in Contexts PROVE more[x] = Moved(cs, d, c)[x]
  <2>1. cs[x] \in ContextRecord /\ cs[x].refs \in Nat
    BY Recounted DEF ContextTable
  <2>2. CASE x = d /\ x = c
    <3>1. cs[x].refs - 1 \in Nat /\ cs[x].refs # 1
      BY <2>1, <2>2
    <3>2. less[x] = Recount(cs[x], cs[x].refs - 1) /\ less[x].refs = cs[x].refs - 1
      BY <1>1, <2>1, <2>2, <3>1, Recounted
    <3>3. more[x] = Recount(less[x], cs[x].refs)
      BY <1>2, <2>1, <2>2, <3>2
    <3>4. more[x] = Recount(cs[x], cs[x].refs)
      BY <2>1, <3>1, <3>2, <3>3, Recounted
    <3>5. more[x] = cs[x]
      BY <2>1, <3>4, Recounted
    <3>6. QED
      BY <2>2, <3>5 DEF Moved
  <2>3. CASE ~(x = d /\ x = c)
    BY <1>1, <1>2, <2>3 DEF Moved
  <2>4. QED
    BY <2>2, <2>3
<1>4. more \in [Contexts -> ContextRecord] /\ Moved(cs, d, c) \in [Contexts -> ContextRecord]
  BY <1>2, MovedType DEF ContextTable
<1>5. more = Moved(cs, d, c)
  BY <1>3, <1>4
<1>6. QED
  BY <1>5 DEF more, less

(* A client returned by value: the temporary counts as well while it lasts. *)
LEMMA TemporaryMoves ==
    ASSUME NEW cs \in ContextTable, NEW d \in Places, NEW c \in Places,
           d \in Contexts => cs[d].refs > 0
    PROVE  Unref(Ref(Unref(Ref(cs, c), d), c), c) = Moved(cs, d, c)
<1> DEFINE one == Ref(cs, c)
           two == Ref(Unref(one, d), c)
           three == Unref(two, c)
<1>1. /\ one \in ContextTable
      /\ \A x \in Contexts : one[x] = IF x = c THEN Recount(cs[x], cs[x].refs + 1) ELSE cs[x]
  BY RefCounts
<1>2. \A x \in Contexts : cs[x] \in ContextRecord /\ cs[x].refs \in Nat
  BY Recounted DEF ContextTable
<1> HIDE DEF one
<1>3. \A x \in Contexts : one[x].refs = IF x = c THEN cs[x].refs + 1 ELSE cs[x].refs
  BY <1>1, <1>2, Recounted
<1>4. two = Moved(one, d, c)
  BY <1>1, <1>2, <1>3, AssignMoves
<1>5. two \in ContextTable
  BY <1>1, <1>2, <1>3, <1>4, MovedType
<1>6. \A x \in Contexts :
         two[x] = IF x = c /\ x # d THEN Recount(one[x], one[x].refs + 1)
                  ELSE IF x = d /\ x # c
                  THEN IF one[x].refs = 1 THEN Deleted ELSE Recount(one[x], one[x].refs - 1)
                  ELSE one[x]
  BY <1>4 DEF Moved
<1> HIDE DEF two
<1>7. \A x \in Contexts : x = c => IF x = d THEN two[x] = Recount(cs[x], cs[x].refs + 1)
                                   ELSE two[x] = Recount(cs[x], cs[x].refs + 2)
  <2> SUFFICES ASSUME NEW x \in Contexts, x = c
               PROVE  IF x = d THEN two[x] = Recount(cs[x], cs[x].refs + 1)
                      ELSE two[x] = Recount(cs[x], cs[x].refs + 2)
    OBVIOUS
  <2>1. CASE x = d
    BY <1>1, <1>6, <2>1
  <2>2. CASE x # d
    <3>1. two[x] = Recount(Recount(cs[x], cs[x].refs + 1), cs[x].refs + 2)
      BY <1>1, <1>2, <1>3, <1>6, <2>2
    <3>2. QED
      BY <1>2, <2>2, <3>1, Recounted
  <2>3. QED
    BY <2>1, <2>2
<1>8. \A x \in Contexts : x = c => two[x].refs = IF x = d THEN cs[x].refs + 1
                                                 ELSE cs[x].refs + 2
  BY <1>2, <1>7, Recounted
<1>9. /\ three \in ContextTable
      /\ \A x \in Contexts : three[x] = IF x # c THEN two[x]
                                        ELSE IF two[x].refs = 1 THEN Deleted
                                        ELSE Recount(two[x], two[x].refs - 1)
  <2>1. c \in Contexts => two[c].refs > 0
    BY <1>2, <1>8
  <2>2. QED
    BY <1>5, <2>1, UnrefCounts
<1> HIDE DEF three
<1>10. ASSUME NEW x \in Contexts PROVE three[x] = Moved(cs, d, c)[x]
  <2>1. CASE x # c
    BY <1>1, <1>6, <1>9, <2>1 DEF Moved
  <2>2. CASE x = c /\ x # d
    <3>1. three[x] = Recount(two[x], cs[x].refs + 1)
      BY <1>2, <1>8, <1>9, <2>2
    <3>2. three[x] = Recount(cs[x], cs[x].refs + 1)
      BY <1>2, <1>7, <2>2, <3>1, Recounted
    <3>3. QED
      BY <2>2, <3>2 DEF Moved
  <2>3. CASE x = c /\ x = d
    <3>1. cs[x].refs > 0
      BY <2>3
    <3>2. three[x] = Recount(two[x], cs[x].refs)
      BY <1>2, <1>8, <1>9, <2>3, <3>1
    <3>3. three[x] = Recount(cs[x], cs[x].refs)
      BY <1>2, <1>7, <2>3, <3>2, Recounted
    <3>4. QED
      BY <1>2, <2>3, <3>3, Recounted DEF Moved
  <2>4. QED
    BY <2>1, <2>2, <2>3
<1>11. three \in [Contexts -> ContextRecord] /\ Moved(cs, d, c) \in [Contexts -> ContextRecord]
  BY <1>9, MovedType DEF ContextTable
<1>12. three = Moved(cs, d, c)
  BY <1>10, <1>11
<1>13. QED
  BY <1>12 DEF three, two, one

(* Before a client takes c from the queue, or from another client.         *)
Ready(cs, hold, queue, left, c) ==
    /\ \A x \in Contexts :
          /\ cs[x].refs = Cardinality(HoldersOf(hold, x))
          /\ cs[x].live <=> cs[x].refs > 0 \/ Waits(queue, x)
          /\ Waits(queue, x) => cs[x].refs = 0
          /\ cs[x].delayed => Waits(left, x)
          /\ Waits(left, x) <=> Waits(queue, x) /\ x # c
    /\ c \in Contexts => cs[c].live

(* Where a client lets one context go and takes another, the counts go on  *)
(* agreeing with the holders.                                              *)
LEMMA Handed ==
    ASSUME NEW cs \in ContextTable, NEW hold \in [Holders -> Places],
           NEW queue, NEW left, NEW h \in Holders, NEW c \in Places,
           Ready(cs, hold, queue, left, c)
    PROVE  /\ CountsAgree(Moved(cs, hold[h], c), [hold EXCEPT ![h] = c], left)
           /\ Moved(cs, hold[h], c) \in ContextTable
           /\ Delayed(Moved(cs, hold[h], c)) = Delayed(cs)
           /\ [hold EXCEPT ![h] = c] \in [Holders -> Places]
<1> DEFINE d == hold[h]
           new == Moved(cs, d, c)
           held == [hold EXCEPT ![h] = c]
<1> USE DEF Ready
<1>1. d \in Places /\ (d \in Contexts => cs[d].refs > 0)
  BY HeldIsCounted
<1>2. \A x \in Contexts :
         new[x] = IF x = c /\ x # d THEN Recount(cs[x], cs[x].refs + 1)
                  ELSE IF x = d /\ x # c
                  THEN IF cs[x].refs = 1 THEN Deleted ELSE Recount(cs[x], cs[x].refs - 1)
                  ELSE cs[x]
  BY DEF Moved
<1>3. \A x \in Contexts :
         Cardinality(HoldersOf(held, x)) =
             Cardinality(HoldersOf(hold, x)) + Change(x, d, c)
  <2>1. ASSUME NEW x \in Contexts
        PROVE  Cardinality(HoldersOf([hold EXCEPT ![h] = c], x)) =
                   Cardinality(HoldersOf(hold, x)) + Change(x, hold[h], c)
    BY HolderMoves, Zenon
  <2>2. QED
    BY <2>1
<1>4. new \in ContextTable
  BY <1>1, MovedType
<1> HIDE DEF new, held, d
<1>5. ASSUME NEW x \in Contexts
      PROVE  /\ new[x].refs = Cardinality(HoldersOf(held, x))
             /\ new[x].live <=> new[x].refs > 0 \/ Waits(left, x)
             /\ Waits(left, x) => new[x].refs = 0
             /\ new[x].delayed => Waits(left, x)
             /\ new[x].delayed <=> cs[x].delayed
  <2>1. cs[x] \in ContextRecord /\ cs[x].refs \in Nat
    BY Recounted DEF ContextTable
  <2>2. CASE x = c /\ x # d
    <3>1. new[x].refs = cs[x].refs + 1 /\ new[x].live = cs[x].live
          /\ new[x].delayed = cs[x].delayed
      BY <1>2, <2>1, <2>2, Recounted
    <3>2. QED
      BY <1>3, <2>1, <2>2, <3>1 DEF Change
  <2>3. CASE x = d /\ x # c /\ cs[x].refs = 1
    <3>1. new[x].refs = 0 /\ ~new[x].live /\ ~new[x].delayed
      BY <1>2, <2>3 DEF Deleted
    <3>2. ~Waits(queue, x) /\ ~cs[x].delayed
      BY <2>3
    <3>3. QED
      BY <1>3, <2>1, <2>3, <3>1, <3>2 DEF Change
  <2>4. CASE x = d /\ x # c /\ cs[x].refs # 1
    <3>1. cs[x].refs > 1 /\ cs[x].refs - 1 \in Nat
      BY <1>1, <2>1, <2>4
    <3>2. new[x].refs = cs[x].refs - 1 /\ new[x].live = cs[x].live
          /\ new[x].delayed = cs[x].delayed
      BY <1>2, <2>1, <2>4, <3>1, Recounted
    <3>3. QED
      BY <1>3, <2>1, <2>4, <3>1, <3>2 DEF Change
  <2>5. CASE x = c /\ x = d
    <3>1. new[x] = cs[x]
      BY <1>2, <2>5
    <3>2. QED
      BY <1>1, <1>3, <2>1, <2>5, <3>1 DEF Change
  <2>6. CASE x # c /\ x # d
    <3>1. new[x] = cs[x]
      BY <1>2, <2>6
    <3>2. QED
      BY <1>3, <2>1, <2>6, <3>1 DEF Change
  <2>7. QED
    BY <2>2, <2>3, <2>4, <2>5, <2>6
<1>6. CountsAgree(new, held, left)
  BY <1>5 DEF CountsAgree
<1>7. Delayed(new) = Delayed(cs)
  BY <1>5 DEF Delayed
<1>8. held \in [Holders -> Places]
  BY DEF held
<1>9. QED
  BY <1>4, <1>6, <1>7, <1>8 DEF new, held, d

-----------------------------------------------------------------------------
LEMMA TypesSplit == ServerTypeOK <=> TablesOK /\ PositionOK
  BY DEF ServerTypeOK, TablesOK, PositionOK, ContextTable, Places

LEMMA CountInit == ServerInit => CountInv
<1> SUFFICES ASSUME ServerInit PROVE CountInv
  OBVIOUS
<1>1. PositionOK
  BY ServerAssumption DEF ServerInit, PositionOK, NoWalk, Slots
<1>2. TablesOK
  BY DeletedIsContext DEF ServerInit, TablesOK, ContextTable, Places, NotListening
<1>3. ASSUME NEW x \in Contexts PROVE HoldersOf(holding, x) = {}
  BY ServerAssumption DEF ServerInit, HoldersOf
<1>4. CountsAgree(ctx, holding, unclaimed) /\ ClaimedOnce(unclaimed)
  <2>1. \A x \in Contexts : Cardinality(HoldersOf(holding, x)) = 0
    BY <1>3, FS_EmptySet, Zenon
  <2>2. \A x \in Contexts : ~Waits(unclaimed, x)
    BY DEF ServerInit, Waits
  <2>3. \A x \in Contexts : ctx[x].refs = 0 /\ ~ctx[x].live /\ ~ctx[x].delayed
    BY DEF ServerInit, Deleted
  <2>4. QED
    BY <2>1, <2>2, <2>3 DEF ServerInit, CountsAgree, ClaimedOnce
<1>5. Delayed(ctx) = {}
  BY DEF ServerInit, Delayed, Deleted
<1>6. QED
  BY <1>1, <1>2, <1>4, <1>5, FS_EmptySet DEF ServerInit, CountInv, Tallied, NotListening

LEMMA DelayedFinite ==
    ASSUME NEW cs
    PROVE  IsFiniteSet(Delayed(cs)) /\ Cardinality(Delayed(cs)) \in Nat
<1>1. Delayed(cs) \in SUBSET Contexts
  BY DEF Delayed
<1>2. QED
  BY <1>1, FS_Subset, FS_CardinalityType, ServerAssumption

(* Steps that hand nothing on: counts and queue stay, places may go.       *)
LEMMA Kept ==
    ASSUME Tallied, UNCHANGED <<holding, unclaimed>>, ctx' \in ContextTable,
           \A x \in Contexts : /\ ctx'[x].refs = ctx[x].refs
                               /\ ctx'[x].live = ctx[x].live
                               /\ ctx'[x].delayed => ctx[x].delayed,
           listener' \in [open : BOOLEAN, backlog : Nat, pending : Nat],
           listener'.pending = Cardinality(Delayed(ctx')),
           ~listener'.open => listener'.pending = 0
    PROVE  Tallied'
<1>1. TablesOK'
  BY DEF Tallied, TablesOK
<1>2. CountsAgree(ctx, holding, unclaimed)'
  BY DEF Tallied, CountsAgree
<1>3. ClaimedOnce(unclaimed)'
  BY DEF Tallied
<1>4. QED
  BY <1>1, <1>2, <1>3 DEF Tallied

(* ... and none of the places either.                                      *)
LEMMA KeptPlaces ==
    ASSUME Tallied, UNCHANGED <<holding, unclaimed, listener>>, ctx' \in ContextTable,
           \A x \in Contexts : /\ ctx'[x].refs = ctx[x].refs
                               /\ ctx'[x].live = ctx[x].live
                               /\ ctx'[x].delayed = ctx[x].delayed
    PROVE  Tallied'
<1>1. Delayed(ctx') = Delayed(ctx)
  BY DEF Delayed
<1>2. listener'.pending = Cardinality(Delayed(ctx'))
  BY <1>1 DEF Tallied
<1>3. listener' \in [open : BOOLEAN, backlog : Nat, pending : Nat]
  BY DEF Tallied, TablesOK
<1>4. ~listener'.open => listener'.pending = 0
  BY DEF Tallied
<1>5. QED
  BY <1>2, <1>3, <1>4, Kept

(* What changes nothing of a context that the counts are about.            *)
LEMMA SameCounts ==
    ASSUME NEW r \in ContextRecord
    PROVE  /\ \A n \in Nat : LET q == [r EXCEPT !.unread = n]
                             IN  q \in ContextRecord /\ q.refs = r.refs /\ q.live = r.live
                                 /\ q.delayed = r.delayed
           /\ LET q == [[r EXCEPT !.unread = 0] EXCEPT !.passed = 0]
              IN  q \in ContextRecord /\ q.refs = r.refs /\ q.live = r.live
                  /\ q.delayed = r.delayed
           /\ LET q == [r EXCEPT !.pcb = FALSE]
              IN  q \in ContextRecord /\ q.refs = r.refs /\ q.live = r.live
                  /\ q.delayed = r.delayed
           /\ LET q == [r EXCEPT !.ended = TRUE]
              IN  q \in ContextRecord /\ q.refs = r.refs /\ q.live = r.live
                  /\ q.delayed = r.delayed
           /\ LET q == [r EXCEPT !.delayed = FALSE]
              IN  q \in ContextRecord /\ q.refs = r.refs /\ q.live = r.live /\ ~q.delayed
           /\ LET q == [[r EXCEPT !.pcb = FALSE] EXCEPT !.delayed = FALSE]
              IN  q \in ContextRecord /\ q.refs = r.refs /\ q.live = r.live /\ ~q.delayed
  BY DEF ContextRecord

LEMMA PlacesGo ==
    ASSUME Tallied, ctx' = NoneDelayed, UNCHANGED <<holding, unclaimed>>,
           listener' \in [open : BOOLEAN, backlog : Nat, pending : {0}]
    PROVE  Tallied'
<1>1. \A x \in Contexts : NoneDelayed[x] = [ctx[x] EXCEPT !.delayed = FALSE]
  BY DEF NoneDelayed
<1>2. \A x \in Contexts : ctx[x] \in ContextRecord
  BY DEF Tallied, TablesOK, ContextTable
<1>3. \A x \in Contexts : /\ ctx'[x] \in ContextRecord
                          /\ ctx'[x].refs = ctx[x].refs
                          /\ ctx'[x].live = ctx[x].live
                          /\ ~ctx'[x].delayed
  <2> SUFFICES ASSUME NEW x \in Contexts
               PROVE  /\ ctx'[x] \in ContextRecord
                      /\ ctx'[x].refs = ctx[x].refs
                      /\ ctx'[x].live = ctx[x].live
                      /\ ~ctx'[x].delayed
    OBVIOUS
  <2>1. ctx'[x] = [ctx[x] EXCEPT !.delayed = FALSE]
    BY <1>1
  <2>2. QED
    BY <1>2, <2>1 DEF ContextRecord
<1>4. ctx' \in ContextTable
  <2>1. NoneDelayed = [x \in Contexts |-> NoneDelayed[x]]
    BY DEF NoneDelayed
  <2>2. QED
    BY <1>3, <2>1 DEF ContextTable
<1>5. Delayed(ctx') = {}
  BY <1>3 DEF Delayed
<1>6. Cardinality(Delayed(ctx')) = 0
  BY <1>5, FS_EmptySet, Zenon
<1>7. /\ listener' \in [open : BOOLEAN, backlog : Nat, pending : Nat]
      /\ listener'.pending = 0
  OBVIOUS
<1>8. QED
  BY <1>3, <1>4, <1>6, <1>7, Kept

LEMMA BeginCount ==
    ASSUME Tallied, NEW backlog \in Backlogs, Begin(backlog)
    PROVE  Tallied'
<1>1. listener' \in [open : BOOLEAN, backlog : Nat, pending : {0}]
  <2>1. backlog \in Nat
    BY ServerAssumption
  <2>2. CASE listener' = NotListening
    BY <2>2 DEF NotListening
  <2>3. CASE listener' = [open |-> TRUE, backlog |-> backlog, pending |-> 0]
    BY <2>1, <2>3
  <2>4. QED
    BY <2>2, <2>3 DEF Begin
<1>2. CASE listener.open
  BY <1>1, <1>2, PlacesGo DEF Begin
<1>3. CASE ~listener.open
  <2>1. ctx' = ctx /\ UNCHANGED <<holding, unclaimed>> /\ listener.pending = 0
    BY <1>3 DEF Begin, Tallied
  <2>2. listener'.pending = listener.pending
    BY <1>1, <2>1
  <2>3. listener' \in [open : BOOLEAN, backlog : Nat, pending : Nat]
    BY <1>1
  <2>4. Delayed(ctx') = Delayed(ctx)
    BY <2>1
  <2>5. listener'.pending = Cardinality(Delayed(ctx'))
    BY <2>2, <2>4 DEF Tallied
  <2>6. ctx' \in ContextTable
    BY <2>1 DEF Tallied, TablesOK
  <2>7. QED
    BY <2>1, <2>2, <2>3, <2>5, <2>6, Kept
<1>4. QED
  BY <1>2, <1>3

LEMMA CloseCount ==
    ASSUME Tallied, CloseListener \/ End
    PROVE  Tallied'
<1>1. CASE listener.open
  <2>1. /\ ctx' = NoneDelayed /\ listener' = NotListening
        /\ UNCHANGED <<holding, unclaimed>>
    BY <1>1 DEF CloseListener, End
  <2>2. listener' \in [open : BOOLEAN, backlog : Nat, pending : {0}]
    BY <2>1 DEF NotListening
  <2>3. QED
    BY <2>1, <2>2, PlacesGo
<1>2. CASE ~listener.open
  <2>1. UNCHANGED <<ctx, listener, holding, unclaimed>>
    BY <1>2 DEF CloseListener, End
  <2>2. ctx' \in ContextTable
    BY <2>1 DEF Tallied, TablesOK
  <2>3. QED
    BY <2>1, <2>2, KeptPlaces
<1>3. QED
  BY <1>1, <1>2

LEMMA OneContextKept ==
    ASSUME Tallied, UNCHANGED <<holding, unclaimed, listener>>, NEW c \in Contexts, NEW r,
           ctx' = [ctx EXCEPT ![c] = r], r \in ContextRecord, r.refs = ctx[c].refs,
           r.live = ctx[c].live, r.delayed = ctx[c].delayed
    PROVE  Tallied'
<1>1. ctx \in ContextTable
  BY DEF Tallied, TablesOK
<1>2. ctx' \in ContextTable
  BY <1>1 DEF ContextTable
<1>3. \A x \in Contexts : /\ ctx'[x].refs = ctx[x].refs
                          /\ ctx'[x].live = ctx[x].live
                          /\ ctx'[x].delayed = ctx[x].delayed
  BY <1>1 DEF ContextTable
<1>4. QED
  BY <1>2, <1>3, KeptPlaces

LEMMA DataCount ==
    ASSUME Tallied, NEW c \in Contexts, OnData(c)
    PROVE  Tallied'
<1>1. ctx[c] \in ContextRecord
  BY DEF Tallied, TablesOK, ContextTable
<1> DEFINE r == [ctx[c] EXCEPT !.unread = 1]
<1>2. r \in ContextRecord /\ r.refs = ctx[c].refs /\ r.live = ctx[c].live
      /\ r.delayed = ctx[c].delayed
  BY <1>1, SameCounts
<1>3. ctx' = [ctx EXCEPT ![c] = r] /\ UNCHANGED <<holding, unclaimed, listener>>
  BY DEF OnData
<1> HIDE DEF r
<1>4. QED
  BY <1>2, <1>3, OneContextKept

(* A client that holds something holds a context.                          *)
LEMMA HeldContext ==
    ASSUME Tallied, NEW h \in Holders, holding[h] # NoContext
    PROVE  holding[h] \in Contexts
  BY DEF Tallied, TablesOK, Places

LEMMA ReadCount ==
    ASSUME Tallied, NEW g \in Guests, ReadClient(g)
    PROVE  Tallied'
<1> DEFINE c == holding[g]
           r == [[ctx[c] EXCEPT !.unread = 0] EXCEPT !.passed = 0]
<1>1. c \in Contexts
  BY HeldContext DEF ReadClient, HasData, Holders
<1>2. ctx \in ContextTable /\ ctx[c] \in ContextRecord
  BY <1>1 DEF Tallied, TablesOK, ContextTable
<1>3. r \in ContextRecord /\ r.refs = ctx[c].refs /\ r.live = ctx[c].live
      /\ r.delayed = ctx[c].delayed
  BY <1>2, SameCounts
<1>4. ctx' = [ctx EXCEPT ![c] = r] /\ UNCHANGED <<holding, unclaimed, listener>>
  BY <1>1, <1>2 DEF ReadClient, ContextTable
<1> HIDE DEF r, c
<1>5. QED
  BY <1>1, <1>3, <1>4, OneContextKept

LEMMA StoppedCount ==
    ASSUME Tallied, NEW hs, Stopped(hs)
    PROVE  Tallied'
<1>1. \A x \in Contexts : ctx[x] \in ContextRecord
  BY DEF Tallied, TablesOK, ContextTable
<1>2. ASSUME NEW x \in Contexts
      PROVE  /\ ctx'[x] \in ContextRecord
             /\ ctx'[x].refs = ctx[x].refs
             /\ ctx'[x].live = ctx[x].live
             /\ ctx'[x].delayed = ctx[x].delayed
  <2>1. ctx'[x] = ctx[x] \/ ctx'[x] = [ctx[x] EXCEPT !.pcb = FALSE]
    BY DEF Stopped
  <2>2. QED
    BY <1>1, <2>1, SameCounts, ZenonT(30)
<1>3. ctx' \in ContextTable
  <2>1. ctx' = [x \in Contexts |-> ctx'[x]]
    BY DEF Stopped
  <2>2. QED
    BY <1>2, <2>1 DEF ContextTable
<1>4. QED
  BY <1>2, <1>3, KeptPlaces DEF Stopped

LEMMA EndStopsCount ==
    ASSUME PositionOK, Tallied, EndStops
    PROVE  Tallied'
<1> DEFINE c == holding[walk.slot]
           r == [ctx[c] EXCEPT !.pcb = FALSE]
<1>1. CASE c \in Contexts
  <2>1. ctx \in ContextTable /\ ctx[c] \in ContextRecord
    BY <1>1 DEF Tallied, TablesOK, ContextTable
  <2>2. r \in ContextRecord /\ r.refs = ctx[c].refs /\ r.live = ctx[c].live
        /\ r.delayed = ctx[c].delayed
    BY <2>1, SameCounts
  <2>3. ctx' = [ctx EXCEPT ![c] = r] /\ UNCHANGED <<holding, unclaimed, listener>>
    BY DEF EndStops
  <2> HIDE DEF r, c
  <2>4. QED
    BY <1>1, <2>2, <2>3, OneContextKept
<1>2. CASE c \notin Contexts
  <2>1. ctx \in ContextTable
    BY DEF Tallied, TablesOK
  <2>2. ctx' = ctx /\ UNCHANGED <<holding, unclaimed, listener>>
    BY <1>2, <2>1 DEF EndStops, ContextTable
  <2>3. QED
    BY <2>1, <2>2, KeptPlaces
<1>3. QED
  BY <1>1, <1>2

(* A context that ends may free its place of the backlog.                  *)
LEMMA FreedCount ==
    ASSUME Tallied, UNCHANGED <<holding, unclaimed>>, NEW c \in Contexts, NEW r,
           ctx' = [ctx EXCEPT ![c] = r], r \in ContextRecord, r.refs = ctx[c].refs,
           r.live = ctx[c].live, r.delayed => ctx[c].delayed,
           listener' = PlacesAfter(ctx')
    PROVE  Tallied'
<1>1. ctx \in ContextTable
  BY DEF Tallied, TablesOK
<1>2. ctx' \in ContextTable
  BY <1>1 DEF ContextTable
<1>3. \A x \in Contexts : /\ ctx'[x].refs = ctx[x].refs
                          /\ ctx'[x].live = ctx[x].live
                          /\ ctx'[x].delayed => ctx[x].delayed
  BY <1>1 DEF ContextTable
<1>4. listener' = [listener EXCEPT !.pending = Cardinality(Delayed(ctx'))]
  BY DEF PlacesAfter, Delayed
<1>5. Cardinality(Delayed(ctx')) \in Nat
  BY DelayedFinite
<1>6. /\ listener' \in [open : BOOLEAN, backlog : Nat, pending : Nat]
      /\ listener'.pending = Cardinality(Delayed(ctx'))
      /\ listener'.open = listener.open
  BY <1>4, <1>5 DEF Tallied, TablesOK
<1>7. ASSUME ~listener'.open PROVE listener'.pending = 0
  <2>1. Cardinality(Delayed(ctx)) = 0
    BY <1>6, <1>7 DEF Tallied
  <2>2. Delayed(ctx) = {}
    BY <2>1, DelayedFinite, FS_EmptySet
  <2>3. Delayed(ctx') = {}
    BY <1>3, <2>2 DEF Delayed
  <2>4. Cardinality(Delayed(ctx')) = 0
    BY <2>3, FS_EmptySet, Zenon
  <2>5. QED
    BY <1>6, <2>4
<1>8. QED
  BY <1>2, <1>3, <1>6, <1>7, Kept

LEMMA EndCount ==
    ASSUME Tallied, NEW c \in Contexts, OnEnd(c) \/ OnFailure(c)
    PROVE  Tallied'
<1> DEFINE ends == [ctx[c] EXCEPT !.ended = TRUE]
           freed == [[ctx[c] EXCEPT !.pcb = FALSE] EXCEPT !.delayed = FALSE]
<1>1. ctx \in ContextTable /\ ctx[c] \in ContextRecord
  BY DEF Tallied, TablesOK, ContextTable
<1>2. /\ ends \in ContextRecord /\ ends.refs = ctx[c].refs /\ ends.live = ctx[c].live
      /\ ends.delayed = ctx[c].delayed
      /\ freed \in ContextRecord /\ freed.refs = ctx[c].refs /\ freed.live = ctx[c].live
      /\ ~freed.delayed
  BY <1>1, SameCounts
<1>3. Freed(ctx, c) = [ctx EXCEPT ![c] = freed]
  BY <1>1 DEF Freed, ContextTable
<1>4. ctx' = [ctx EXCEPT ![c] = ends] \/ ctx' = [ctx EXCEPT ![c] = freed]
  BY <1>3 DEF OnEnd, OnFailure
<1>5. listener' = PlacesAfter(ctx') /\ UNCHANGED <<holding, unclaimed>>
  BY DEF OnEnd, OnFailure
<1> HIDE DEF ends, freed
<1>6. CASE ctx' = [ctx EXCEPT ![c] = ends]
  BY <1>2, <1>5, <1>6, FreedCount
<1>7. CASE ctx' = [ctx EXCEPT ![c] = freed]
  BY <1>2, <1>5, <1>7, FreedCount
<1>8. QED
  BY <1>4, <1>6, <1>7

(* A new connection waits to be claimed.                                   *)
LEMMA QueueGrows ==
    ASSUME NEW queue \in Seq(Contexts), NEW c \in Contexts
    PROVE  /\ Append(queue, c) \in Seq(Contexts)
           /\ \A x : Waits(Append(queue, c), x) <=> Waits(queue, x) \/ x = c
           /\ ClaimedOnce(queue) /\ ~Waits(queue, c) => ClaimedOnce(Append(queue, c))
<1> DEFINE longer == Append(queue, c)
<1>1. /\ longer \in Seq(Contexts) /\ Len(longer) = Len(queue) + 1
      /\ longer[Len(queue) + 1] = c
      /\ \A i \in 1..Len(queue) : longer[i] = queue[i]
  OBVIOUS
<1>2. DOMAIN longer = 1..Len(queue) + 1 /\ DOMAIN queue = 1..Len(queue) /\ Len(queue) \in Nat
  BY <1>1
<1> HIDE DEF longer
<1>3. \A x : Waits(longer, x) <=> Waits(queue, x) \/ x = c
  BY <1>1, <1>2 DEF Waits
<1>4. ClaimedOnce(queue) /\ ~Waits(queue, c) => ClaimedOnce(longer)
  BY <1>1, <1>2 DEF Waits, ClaimedOnce
<1>5. QED
  BY <1>1, <1>3, <1>4 DEF longer

LEMMA AcceptedCount ==
    ASSUME Tallied, OnAccept
    PROVE  Tallied'
<1>1. PICK c \in Contexts : /\ ~ctx[c].live
                           /\ ctx' = [ctx EXCEPT ![c] = Newcomer]
                           /\ unclaimed' = Append(unclaimed, c)
  BY ServerAssumption DEF OnAccept, FreeContext
<1>2. ctx \in ContextTable /\ unclaimed \in Seq(Contexts)
  BY DEF Tallied, TablesOK
<1>3. /\ Newcomer \in ContextRecord /\ Newcomer.refs = 0 /\ Newcomer.live /\ Newcomer.delayed
  BY DEF Newcomer, Deleted, ContextRecord
<1>4. ctx' \in ContextTable
  BY <1>1, <1>2, <1>3 DEF ContextTable
<1>5. \A x \in Contexts : ctx'[x] = IF x = c THEN Newcomer ELSE ctx[x]
  BY <1>1, <1>2 DEF ContextTable
<1>6. ~Waits(unclaimed, c) /\ ~ctx[c].delayed /\ ~(ctx[c].refs > 0)
  BY <1>1 DEF Tallied, CountsAgree
<1>7. /\ unclaimed' \in Seq(Contexts) /\ ClaimedOnce(unclaimed')
      /\ \A x : Waits(unclaimed', x) <=> Waits(unclaimed, x) \/ x = c
  BY <1>1, <1>2, <1>6, QueueGrows DEF Tallied
<1>8. holding' = holding
  BY DEF OnAccept
<1>9. ctx[c].refs = 0
  BY <1>2, <1>6, Recounted DEF ContextTable
<1>10. CountsAgree(ctx', holding', unclaimed')
  BY <1>3, <1>5, <1>7, <1>8, <1>9 DEF Tallied, CountsAgree
<1>11. Cardinality(Delayed(ctx')) = Cardinality(Delayed(ctx)) + 1
  <2>1. Delayed(ctx') = Delayed(ctx) \union {c} /\ c \notin Delayed(ctx)
    BY <1>3, <1>5, <1>6 DEF Delayed
  <2>2. Cardinality(Delayed(ctx) \union {c}) = Cardinality(Delayed(ctx)) + 1
    BY <2>1, DelayedFinite, FS_AddElement
  <2>3. QED
    BY <2>1, <2>2, Zenon
<1>12. /\ listener' \in [open : BOOLEAN, backlog : Nat, pending : Nat]
       /\ listener'.pending = listener.pending + 1 /\ listener'.open
  BY DEF OnAccept, Tallied, TablesOK
<1>13. listener'.pending = Cardinality(Delayed(ctx'))
  BY <1>11, <1>12 DEF Tallied
<1>14. TablesOK'
  BY <1>4, <1>7, <1>8, <1>12 DEF Tallied, TablesOK
<1>15. QED
  BY <1>7, <1>10, <1>12, <1>13, <1>14 DEF Tallied

-----------------------------------------------------------------------------
(* The steps that hand a context on.                                       *)
LEMMA QueueShrinks ==
    ASSUME NEW queue \in Seq(Contexts), queue # <<>>, ClaimedOnce(queue)
    PROVE  /\ Head(queue) \in Contexts /\ Tail(queue) \in Seq(Contexts)
           /\ Waits(queue, Head(queue))
           /\ \A x : Waits(Tail(queue), x) <=> Waits(queue, x) /\ x # Head(queue)
           /\ ClaimedOnce(Tail(queue))
<1> DEFINE rest == Tail(queue)
           c == Head(queue)
<1>1. /\ rest \in Seq(Contexts) /\ c \in Contexts /\ c = queue[1]
      /\ Len(queue) \in Nat /\ Len(queue) > 0 /\ Len(rest) = Len(queue) - 1
      /\ \A i \in 1..Len(queue) - 1 : rest[i] = queue[i + 1]
  OBVIOUS
<1>2. DOMAIN rest = 1..Len(queue) - 1 /\ DOMAIN queue = 1..Len(queue)
  BY <1>1
<1> HIDE DEF rest, c
<1>3. Waits(queue, c)
  BY <1>1, <1>2 DEF Waits
<1>4. ASSUME NEW x PROVE Waits(rest, x) <=> Waits(queue, x) /\ x # c
  <2>1. ASSUME Waits(rest, x) PROVE Waits(queue, x) /\ x # c
    <3>1. PICK k \in 1..Len(queue) - 1 : queue[k + 1] = x
      BY <1>1, <1>2, <2>1 DEF Waits
    <3>2. k + 1 \in DOMAIN queue /\ 1 \in DOMAIN queue /\ k + 1 # 1
      BY <1>1, <1>2
    <3>3. QED
      BY <1>1, <3>1, <3>2 DEF Waits, ClaimedOnce
  <2>2. ASSUME Waits(queue, x), x # c PROVE Waits(rest, x)
    <3>1. PICK k \in 1..Len(queue) : queue[k] = x
      BY <1>2, <2>2 DEF Waits
    <3>2. k # 1
      BY <1>1, <2>2, <3>1
    <3>3. k - 1 \in 1..Len(queue) - 1 /\ (k - 1) + 1 = k
      BY <1>1, <3>2
    <3>4. rest[k - 1] = x
      BY <1>1, <3>1, <3>3
    <3>5. QED
      BY <1>2, <3>3, <3>4 DEF Waits
  <2>3. QED
    BY <2>1, <2>2
<1>5. ASSUME NEW i \in DOMAIN rest, NEW j \in DOMAIN rest, rest[i] = rest[j] PROVE i = j
  <2>1. queue[i + 1] = queue[j + 1] /\ i + 1 \in DOMAIN queue /\ j + 1 \in DOMAIN queue
    BY <1>1, <1>2, <1>5
  <2>2. i + 1 = j + 1
    BY <2>1 DEF ClaimedOnce
  <2>3. QED
    BY <1>2, <2>2
<1>6. QED
  BY <1>1, <1>3, <1>4, <1>5 DEF ClaimedOnce, rest, c

SameTallies(cs) ==
    /\ cs \in ContextTable
    /\ \A x \in Contexts : /\ cs[x].refs = ctx[x].refs /\ cs[x].live = ctx[x].live
                           /\ cs[x].delayed = ctx[x].delayed

(* What a client is given is not waiting.                                  *)
LEMMA HandedOn ==
    ASSUME Tallied, NEW h \in Holders, NEW c \in Places, NEW cs, SameTallies(cs),
           c \in Contexts => ctx[c].refs > 0,
           ctx' = Moved(cs, holding[h], c), holding' = [holding EXCEPT ![h] = c],
           UNCHANGED <<unclaimed, listener>>
    PROVE  Tallied'
<1>1. cs \in ContextTable /\ holding \in [Holders -> Places]
  BY DEF Tallied, TablesOK, SameTallies
<1>2. Ready(cs, holding, unclaimed, unclaimed, c)
  BY DEF Tallied, CountsAgree, Ready, SameTallies
<1>3. /\ CountsAgree(Moved(cs, holding[h], c), [holding EXCEPT ![h] = c], unclaimed)
      /\ Moved(cs, holding[h], c) \in ContextTable
      /\ Delayed(Moved(cs, holding[h], c)) = Delayed(cs)
      /\ [holding EXCEPT ![h] = c] \in [Holders -> Places]
  BY <1>1, <1>2, Handed
<1>4. Delayed(cs) = Delayed(ctx)
  BY DEF SameTallies, Delayed
<1>5. /\ CountsAgree(ctx', holding', unclaimed)
      /\ ctx' \in ContextTable
      /\ Delayed(ctx') = Delayed(ctx)
      /\ holding' \in [Holders -> Places]
  BY <1>3, <1>4, Zenon
<1>6. TablesOK'
  BY <1>5 DEF Tallied, TablesOK
<1>7. QED
  BY <1>5, <1>6 DEF Tallied

LEMMA CtxSame == ASSUME Tallied PROVE SameTallies(ctx)
  BY DEF Tallied, TablesOK, SameTallies

LEMMA LetGoCounts ==
    ASSUME Tallied, NEW h \in Holders
    PROVE  /\ holding[h] \in Places
           /\ holding[h] \in Contexts => ctx[holding[h]].refs > 0
<1>1. holding[h] \in Places
  BY DEF Tallied, TablesOK
<1>2. holding[h] \in Contexts =>
          ctx[holding[h]].refs = Cardinality(HoldersOf(holding, holding[h]))
  BY DEF Tallied, CountsAgree
<1>3. QED
  BY <1>1, <1>2, HeldIsCounted

LEMMA TemporaryCount ==
    ASSUME Tallied, NEW h \in Holders, NEW c \in Places, NEW cs, SameTallies(cs),
           c \in Contexts => ctx[c].refs > 0,
           ctx' = Unref(Assigned(Ref(cs, c), h, c), c),
           holding' = [holding EXCEPT ![h] = c],
           UNCHANGED <<unclaimed, listener>>
    PROVE  Tallied'
<1>1. cs \in ContextTable
  BY DEF SameTallies
<1>2. holding[h] \in Contexts => cs[holding[h]].refs > 0
  BY LetGoCounts DEF SameTallies
<1>3. ctx' = Moved(cs, holding[h], c)
  BY <1>1, <1>2, LetGoCounts, TemporaryMoves DEF Assigned
<1>4. QED
  BY <1>3, HandedOn

LEMMA AcceptCount ==
    ASSUME Tallied, NEW h \in Holders, Accept(h)
    PROVE  Tallied'
<1>1. CASE unclaimed = <<>>
  <2>1. FromTemporary(h, NoContext) /\ UNCHANGED <<unclaimed, listener>>
    BY <1>1 DEF Accept
  <2>2. NoContext \in Places /\ NoContext \notin Contexts
    BY ServerAssumption DEF Places
  <2>3. QED
    BY <2>1, <2>2, CtxSame, TemporaryCount DEF FromTemporary
<1>2. CASE unclaimed # <<>>
  <2> DEFINE c == Head(unclaimed)
             claimed == [ctx EXCEPT ![c].delayed = FALSE]
             d == holding[h]
  <2>1. /\ ctx \in ContextTable /\ holding \in [Holders -> Places]
        /\ unclaimed \in Seq(Contexts) /\ ClaimedOnce(unclaimed)
    BY DEF Tallied, TablesOK
  <2>2. /\ c \in Contexts /\ Tail(unclaimed) \in Seq(Contexts)
        /\ Waits(unclaimed, c)
        /\ \A x : Waits(Tail(unclaimed), x) <=> Waits(unclaimed, x) /\ x # c
        /\ ClaimedOnce(Tail(unclaimed))
    BY <1>2, <2>1, QueueShrinks
  <2>3. /\ ctx' = Unref(Ref(Unref(Ref(claimed, c), d), c), c)
        /\ holding' = [holding EXCEPT ![h] = c]
        /\ unclaimed' = Tail(unclaimed)
        /\ listener' = IF ctx[c].delayed THEN [listener EXCEPT !.pending = @ - 1] ELSE listener
    BY <1>2 DEF Accept, Assigned, PlaceGivenBack
  <2> HIDE DEF c
  <2>4. \A x \in Contexts : ctx[x] \in ContextRecord
    BY <2>1 DEF ContextTable
  <2>5. /\ claimed \in ContextTable
        /\ \A x \in Contexts : /\ claimed[x].refs = ctx[x].refs /\ claimed[x].live = ctx[x].live
                               /\ claimed[x].delayed <=> ctx[x].delayed /\ x # c
    <3> DEFINE r == [ctx[c] EXCEPT !.delayed = FALSE]
    <3>1. r \in ContextRecord /\ r.refs = ctx[c].refs /\ r.live = ctx[c].live /\ ~r.delayed
      BY <2>2, <2>4, SameCounts
    <3>2. claimed = [ctx EXCEPT ![c] = r]
      OBVIOUS
    <3> HIDE DEF r, claimed
    <3>3. QED
      BY <2>1, <2>2, <2>4, <3>1, <3>2 DEF ContextTable, ContextRecord
  <2> HIDE DEF claimed, d
  <2>6. d \in Places /\ (d \in Contexts => claimed[d].refs > 0)
    BY <2>5, LetGoCounts DEF d
  <2>7. ctx' = Moved(claimed, d, c)
    BY <2>2, <2>3, <2>5, <2>6, TemporaryMoves DEF Places
  <2>8. c \in Contexts => ctx[c].live
    BY <2>2 DEF Tallied, CountsAgree
  <2>9. Ready(claimed, holding, unclaimed, Tail(unclaimed), c)
    BY <2>2, <2>5, <2>8 DEF Tallied, CountsAgree, Ready
  <2>10. /\ CountsAgree(ctx', holding', unclaimed')
         /\ ctx' \in ContextTable
         /\ Delayed(ctx') = Delayed(claimed)
         /\ holding' \in [Holders -> Places]
    <3>1. c \in Places
      BY <2>2 DEF Places
    <3>2. /\ CountsAgree(Moved(claimed, holding[h], c), [holding EXCEPT ![h] = c], Tail(unclaimed))
          /\ Moved(claimed, holding[h], c) \in ContextTable
          /\ Delayed(Moved(claimed, holding[h], c)) = Delayed(claimed)
          /\ [holding EXCEPT ![h] = c] \in [Holders -> Places]
      BY <2>1, <2>5, <2>9, <3>1, Handed
    <3>3. QED
      BY <2>3, <2>7, <3>2 DEF d
  <2>11. Cardinality(Delayed(claimed)) =
             IF ctx[c].delayed THEN Cardinality(Delayed(ctx)) - 1 ELSE Cardinality(Delayed(ctx))
    <3>1. Delayed(claimed) = Delayed(ctx) \ {c} /\ (c \in Delayed(ctx) <=> ctx[c].delayed)
      BY <2>2, <2>5 DEF Delayed
    <3>2. Cardinality(Delayed(ctx) \ {c}) =
              IF c \in Delayed(ctx) THEN Cardinality(Delayed(ctx)) - 1 ELSE Cardinality(Delayed(ctx))
      BY DelayedFinite, FS_RemoveElement
    <3>3. QED
      BY <3>1, <3>2, Zenon
  <2>12. Cardinality(Delayed(claimed)) \in Nat
    BY DelayedFinite
  <2>13. /\ listener' \in [open : BOOLEAN, backlog : Nat, pending : Nat]
         /\ listener'.pending = Cardinality(Delayed(claimed))
         /\ ~listener'.open => listener'.pending = 0
    <3>1. /\ listener \in [open : BOOLEAN, backlog : Nat, pending : Nat]
          /\ listener.pending = Cardinality(Delayed(ctx))
          /\ ~listener.open => listener.pending = 0
      BY DEF Tallied, TablesOK
    <3>2. CASE ctx[c].delayed
      <4>1. /\ listener' = [listener EXCEPT !.pending = listener.pending - 1]
            /\ Cardinality(Delayed(claimed)) = listener.pending - 1
        BY <2>3, <2>11, <3>1, <3>2
      <4>2. listener.open
        BY <2>12, <3>1, <4>1
      <4>3. QED
        BY <2>12, <3>1, <4>1, <4>2
    <3>3. CASE ~ctx[c].delayed
      BY <2>3, <2>11, <3>1, <3>3
    <3>4. QED
      BY <3>2, <3>3
  <2>14. TablesOK'
    BY <2>2, <2>3, <2>10, <2>13 DEF TablesOK
  <2>15. listener'.pending = Cardinality(Delayed(ctx'))
    BY <2>10, <2>13, Zenon
  <2>16. QED
    BY <2>2, <2>3, <2>10, <2>13, <2>14, <2>15 DEF Tallied
<1>3. QED
  BY <1>1, <1>2

(* A context that two clients hold is counted more than once.              *)
LEMMA SharedCounts ==
    ASSUME Tallied, NEW g \in Holders, NEW h \in Holders, g # h,
           holding[g] = holding[h], holding[g] \in Contexts
    PROVE  ctx[holding[g]].refs > 1
<1> DEFINE d == holding[g]
           fewer == [holding EXCEPT ![g] = NoContext]
<1>1. holding \in [Holders -> Places] /\ NoContext \in Places /\ NoContext # d
  BY ServerAssumption DEF Tallied, TablesOK, Places
<1>2. Cardinality(HoldersOf(fewer, d)) =
          Cardinality(HoldersOf(holding, d)) + Change(d, d, NoContext)
  BY <1>1, HolderMoves, Zenon
<1>3. fewer[h] = d
  BY <1>1
<1>4. Cardinality(HoldersOf(fewer, d)) > 0
  BY <1>3, HeldIsCounted
<1>5. ctx[d].refs = Cardinality(HoldersOf(holding, d))
  BY DEF Tallied, CountsAgree
<1>6. Cardinality(HoldersOf(holding, d)) \in Nat
  BY HoldersOfFinite
<1> HIDE DEF fewer
<1>7. QED
  BY <1>1, <1>2, <1>4, <1>5, <1>6 DEF Change

LEMMA CopyCount ==
    ASSUME Tallied, NEW g \in Guests, NEW from \in Guests, CopyClient(g, from)
    PROVE  Tallied'
<1> DEFINE c == holding[from]
           d == holding[g]
<1>1. g \in Holders /\ from \in Holders /\ g # from
  BY DEF CopyClient, Holders
<1>2. /\ c \in Places /\ (c \in Contexts => ctx[c].refs > 0)
      /\ d \in Places /\ (d \in Contexts => ctx[d].refs > 0)
  BY <1>1, LetGoCounts
<1>3. d = c /\ d \in Contexts => ctx[d].refs > 1
  BY <1>1, SharedCounts
<1>4. ctx \in ContextTable
  BY DEF Tallied, TablesOK
<1>5. ctx' = Ref(Unref(ctx, d), c) /\ holding' = [holding EXCEPT ![g] = c]
      /\ UNCHANGED <<unclaimed, listener>>
  BY DEF CopyClient, Assigned
<1> HIDE DEF c
<1>6. ctx' = Moved(ctx, holding[g], c)
  BY <1>2, <1>3, <1>4, <1>5, AssignMoves
<1>7. QED
  BY <1>1, <1>2, <1>5, <1>6, CtxSame, HandedOn

LEMMA DropCount ==
    ASSUME Tallied, NEW g \in Guests, DropClient(g)
    PROVE  Tallied'
<1> DEFINE d == holding[g]
<1>1. g \in Holders
  BY DEF Holders
<1>2. d \in Places /\ d # NoContext /\ (d \in Contexts => ctx[d].refs > 0)
  BY <1>1, LetGoCounts DEF DropClient
<1>3. ctx \in ContextTable /\ NoContext \in Places /\ NoContext \notin Contexts
  BY ServerAssumption DEF Tallied, TablesOK, Places
<1>4. Ref(Unref(ctx, d), NoContext) = Moved(ctx, d, NoContext)
  BY <1>2, <1>3, AssignMoves
<1>5. Ref(Unref(ctx, d), NoContext) = Unref(ctx, d)
  BY DEF Ref
<1>6. ctx' = Moved(ctx, holding[g], NoContext) /\ holding' = [holding EXCEPT ![g] = NoContext]
      /\ UNCHANGED <<unclaimed, listener>>
  BY <1>4, <1>5 DEF DropClient
<1>7. QED
  BY <1>1, <1>3, <1>6, CtxSame, HandedOn

LEMMA TurnIsSlot == ASSUME PositionOK PROVE Turn(index) \in Slots
  BY ServerAssumption DEF PositionOK, Turn, Slots

LEMMA PassedOverTallies ==
    ASSUME Tallied, NEW s \in Slots
    PROVE  SameTallies(PassedOver(ctx, s))
<1> DEFINE cs == PassedOver(ctx, s)
<1>1. ASSUME NEW x \in Contexts
      PROVE  /\ cs[x] \in ContextRecord /\ cs[x].refs = ctx[x].refs
             /\ cs[x].live = ctx[x].live /\ cs[x].delayed = ctx[x].delayed
  <2>1. ctx[x] \in ContextRecord
    BY DEF Tallied, TablesOK, ContextTable
  <2>2. \/ cs[x] = ctx[x]
        \/ cs[x] = [ctx[x] EXCEPT !.passed = ctx[x].passed + 1]
        \/ cs[x] = [ctx[x] EXCEPT !.passed = 0]
    BY DEF PassedOver
  <2> HIDE DEF cs
  <2>3. QED
    BY <2>1, <2>2 DEF ContextRecord
<1>2. cs \in ContextTable
  <2>1. cs = [x \in Contexts |-> cs[x]]
    BY DEF PassedOver
  <2> HIDE DEF cs
  <2>2. QED
    BY <1>1, <2>1 DEF ContextTable
<1>3. QED
  BY <1>1, <1>2 DEF SameTallies

LEMMA FindCount ==
    ASSUME PositionOK, Tallied, Find
    PROVE  Tallied'
<1> DEFINE s == Turn(index)
           c == holding[s]
           g == walk.into
<1>1. s \in Slots /\ s \in Holders /\ g \in Guests /\ g \in Holders
  BY TurnIsSlot DEF PositionOK, Holders, Find
<1>2. c \in Places /\ (c \in Contexts => ctx[c].refs > 0)
  BY <1>1, LetGoCounts
<1>3. CASE HasData(c)
  <2>1. /\ ctx' = Unref(Assigned(Ref(PassedOver(ctx, s), c), g, c), c)
        /\ holding' = [holding EXCEPT ![g] = c] /\ UNCHANGED <<unclaimed, listener>>
    BY <1>3 DEF Find
  <2> HIDE DEF s, c, g
  <2>2. SameTallies(PassedOver(ctx, s))
    BY <1>1, PassedOverTallies
  <2>3. QED
    BY <1>1, <1>2, <2>1, <2>2, TemporaryCount
<1>4. CASE ~HasData(c) /\ walk.slot + 1 < MaxMonitored
  <2>1. UNCHANGED <<ctx, holding, unclaimed, listener>>
    BY <1>4 DEF Find
  <2>2. ctx' \in ContextTable
    BY <2>1 DEF Tallied, TablesOK
  <2>3. QED
    BY <2>1, <2>2, KeptPlaces
<1>5. CASE ~HasData(c) /\ ~(walk.slot + 1 < MaxMonitored)
  <2>1. FromTemporary(g, NoContext) /\ UNCHANGED <<unclaimed, listener>>
    BY <1>5 DEF Find
  <2>2. NoContext \in Places /\ NoContext \notin Contexts
    BY ServerAssumption DEF Places
  <2> HIDE DEF g
  <2>3. QED
    BY <1>1, <2>1, <2>2, CtxSame, TemporaryCount DEF FromTemporary
<1>6. QED
  BY <1>3, <1>4, <1>5

-----------------------------------------------------------------------------
(* Where available() and close() are.                                      *)
LEMMA GoesTo ==
    ASSUME PositionOK, index' \in 0..MaxMonitored,
           NEW at \in {"idle", "fill", "fill?", "find", "end", "end?", "stop"},
           NEW slot \in Slots, Goes(at, slot),
           walk.at \in {"fill", "fill?", "find"} \/ at \in {"end", "end?", "stop"}
    PROVE  PositionOK'
  BY DEF PositionOK, Goes

LEMMA StartsAgain ==
    ASSUME PositionOK, index' \in 0..MaxMonitored, walk' = NoWalk
    PROVE  PositionOK'
  BY ServerAssumption DEF PositionOK, NoWalk, Slots

LEMMA NextSlot ==
    ASSUME PositionOK, walk.slot + 1 # MaxMonitored
    PROVE  walk.slot + 1 \in Slots
  BY ServerAssumption DEF PositionOK, Slots

LEMMA FirstSlot == 0 \in Slots
  BY ServerAssumption DEF Slots

LEMMA FillGoesOn ==
    ASSUME PositionOK, index' = index, walk.at \in {"fill", "fill?"},
           AfterSlot("fill", Goes("find", 0))
    PROVE  PositionOK'
<1>1. index' \in 0..MaxMonitored
  BY DEF PositionOK
<1>2. CASE walk.slot + 1 = MaxMonitored
  BY <1>1, <1>2, FirstSlot, GoesTo DEF AfterSlot
<1>3. CASE walk.slot + 1 # MaxMonitored
  BY <1>1, <1>3, NextSlot, GoesTo DEF AfterSlot
<1>4. QED
  BY <1>2, <1>3

LEMMA EndGoesOn ==
    ASSUME PositionOK, index' = index, AfterSlot("end", walk' = NoWalk)
    PROVE  PositionOK'
<1>1. index' \in 0..MaxMonitored
  BY DEF PositionOK
<1>2. CASE walk.slot + 1 = MaxMonitored
  BY <1>1, <1>2, StartsAgain DEF AfterSlot
<1>3. CASE walk.slot + 1 # MaxMonitored
  BY <1>1, <1>3, NextSlot, GoesTo DEF AfterSlot
<1>4. QED
  BY <1>2, <1>3

LEMMA PositionCall ==
    ASSUME PositionOK, ServerCall
    PROVE  PositionOK'
<1>1. CASE End
  BY <1>1, FirstSlot DEF PositionOK, End, NoWalk
<1>2. ASSUME NEW g \in Guests, Available(g) PROVE PositionOK'
  BY <1>2, FirstSlot DEF PositionOK, Available
<1>3. ASSUME UNCHANGED <<index, walk>> PROVE PositionOK'
  BY <1>3 DEF PositionOK
<1>4. ASSUME NEW b \in Backlogs, Begin(b) PROVE UNCHANGED <<index, walk>>
  BY <1>4 DEF Begin
<1>5. ASSUME NEW g \in Guests,
             GuestAccepts(g) \/ DropClient(g) \/ ReadClient(g) \/ StopClient(g)
                 \/ StopAllExcept(g) \/ \E from \in Guests : CopyClient(g, from)
      PROVE  UNCHANGED <<index, walk>>
  BY <1>5 DEF GuestAccepts, DropClient, ReadClient, StopClient, StopAllExcept, Stopped,
              CopyClient
<1>6. CloseListener \/ StopAll => UNCHANGED <<index, walk>>
  BY DEF CloseListener, StopAll, Stopped
<1>7. QED
  BY <1>1, <1>2, <1>3, <1>4, <1>5, <1>6 DEF ServerCall

LEMMA PositionWalk ==
    ASSUME PositionOK, ServerWalks
    PROVE  PositionOK'
<1>1. CASE LookForData
  <2>1. index' = index /\ index' \in 0..MaxMonitored /\ walk.slot \in Slots
    BY <1>1 DEF LookForData, PositionOK
  <2>2. CASE walk.at = "fill" /\ ~HasData(holding[walk.slot])
    <3>1. Goes("fill?", walk.slot)
      BY <1>1, <2>2 DEF LookForData
    <3>2. QED
      BY <2>1, <2>2, <3>1, GoesTo
  <2>3. CASE walk.at = "end" /\ ~HasData(holding[walk.slot])
    <3>1. Goes("end?", walk.slot)
      BY <1>1, <2>3 DEF LookForData
    <3>2. QED
      BY <2>1, <3>1, GoesTo
  <2>4. CASE walk.at = "fill" /\ HasData(holding[walk.slot])
    BY <1>1, <2>1, <2>4, FillGoesOn DEF LookForData
  <2>5. CASE walk.at = "end" /\ HasData(holding[walk.slot])
    <3>1. Goes("stop", walk.slot)
      BY <1>1, <2>5 DEF LookForData
    <3>2. QED
      BY <2>1, <3>1, GoesTo
  <2>6. QED
    BY <1>1, <2>2, <2>3, <2>4, <2>5 DEF LookForData
<1>2. CASE Replace
  BY <1>2, FillGoesOn DEF Replace
<1>3. CASE Keep
  BY <1>3, FillGoesOn DEF Keep
<1>4. CASE Find
  <2>1. index' \in 0..MaxMonitored
    BY <1>4, TurnIsSlot, ServerAssumption DEF Find, Slots
  <2>2. CASE walk' = NoWalk
    BY <2>1, <2>2, StartsAgain
  <2>3. CASE walk.slot + 1 < MaxMonitored /\ Goes("find", walk.slot + 1)
    <3>1. walk.slot + 1 \in Slots
      BY <2>3, ServerAssumption DEF PositionOK, Slots
    <3>2. QED
      BY <1>4, <2>1, <2>3, <3>1, GoesTo DEF Find
  <2>4. QED
    BY <1>4, <2>2, <2>3 DEF Find
<1>5. CASE EndSkips
  BY <1>5, EndGoesOn DEF EndSkips
<1>6. CASE EndStops
  BY <1>6, EndGoesOn DEF EndStops
<1>7. QED
  BY <1>1, <1>2, <1>3, <1>4, <1>5, <1>6 DEF ServerWalks

LEMMA PositionCallback ==
    ASSUME PositionOK, ServerCallback
    PROVE  PositionOK'
<1>1. UNCHANGED <<index, walk>>
  BY DEF ServerCallback, OnAccept, OnData, OnEnd, OnFailure
<1>2. QED
  BY <1>1 DEF PositionOK

-----------------------------------------------------------------------------
LEMMA SameTablesCount ==
    ASSUME Tallied, UNCHANGED <<ctx, holding, unclaimed, listener>>
    PROVE  Tallied'
<1>1. ctx' \in ContextTable
  BY DEF Tallied, TablesOK
<1>2. QED
  BY <1>1, KeptPlaces

LEMMA CountStep ==
    ASSUME CountInv, [ServerNext]_serverVars
    PROVE  CountInv'
<1> USE DEF CountInv
<1>1. ASSUME NEW b \in Backlogs, Begin(b) PROVE Tallied'
  BY <1>1, BeginCount
<1>2. ASSUME CloseListener \/ End PROVE Tallied'
  BY <1>2, CloseCount
<1>3. ASSUME StopAll PROVE Tallied'
  BY <1>3, StoppedCount DEF StopAll
<1>4. ASSUME NEW g \in Guests, GuestAccepts(g) PROVE Tallied'
  BY <1>4, AcceptCount DEF GuestAccepts, Holders
<1>5. ASSUME NEW g \in Guests, DropClient(g) PROVE Tallied'
  BY <1>5, DropCount
<1>6. ASSUME NEW g \in Guests, ReadClient(g) PROVE Tallied'
  BY <1>6, ReadCount
<1>7. ASSUME NEW g \in Guests, Available(g) PROVE Tallied'
  BY <1>7, SameTablesCount DEF Available
<1>8. ASSUME NEW g \in Guests, StopClient(g) \/ StopAllExcept(g) PROVE Tallied'
  BY <1>8, StoppedCount DEF StopClient, StopAllExcept
<1>9. ASSUME NEW g \in Guests, NEW from \in Guests, CopyClient(g, from) PROVE Tallied'
  BY <1>9, CopyCount
<1>10. ASSUME LookForData \/ Keep \/ EndSkips PROVE Tallied'
  BY <1>10, SameTablesCount DEF LookForData, Keep, EndSkips
<1>11. ASSUME Replace PROVE Tallied'
  <2>1. walk.slot \in Holders
    BY DEF PositionOK, Holders
  <2>2. QED
    BY <1>11, <2>1, AcceptCount DEF Replace
<1>12. ASSUME Find PROVE Tallied'
  BY <1>12, FindCount
<1>13. ASSUME EndStops PROVE Tallied'
  BY <1>13, EndStopsCount
<1>14. ASSUME OnAccept PROVE Tallied'
  BY <1>14, AcceptedCount
<1>15. ASSUME NEW c \in Contexts, OnData(c) PROVE Tallied'
  BY <1>15, DataCount
<1>16. ASSUME NEW c \in Contexts, OnEnd(c) \/ OnFailure(c) PROVE Tallied'
  BY <1>16, EndCount
<1>17. CASE UNCHANGED serverVars
  <2>1. PositionOK'
    BY <1>17 DEF PositionOK, serverVars
  <2>2. Tallied'
    BY <1>17, SameTablesCount DEF serverVars
  <2>3. QED
    BY <2>1, <2>2
<1>18. CASE ServerCall
  <2>1. Tallied'
    BY <1>1, <1>2, <1>3, <1>4, <1>5, <1>6, <1>7, <1>8, <1>9, <1>18 DEF ServerCall
  <2>2. QED
    BY <1>18, <2>1, PositionCall
<1>19. CASE ServerWalks
  <2>1. Tallied'
    BY <1>10, <1>11, <1>12, <1>13, <1>19 DEF ServerWalks
  <2>2. QED
    BY <1>19, <2>1, PositionWalk
<1>20. CASE ServerCallback
  <2>1. Tallied'
    BY <1>14, <1>15, <1>16, <1>20 DEF ServerCallback
  <2>2. QED
    BY <1>20, <2>1, PositionCallback
<1>21. QED
  BY <1>17, <1>18, <1>19, <1>20 DEF ServerNext

LEMMA CountsThenCounted == CountInv => ContextsCounted /\ ServerTypeOK
<1> SUFFICES ASSUME CountInv PROVE ContextsCounted /\ ServerTypeOK
  OBVIOUS
<1>1. ASSUME NEW c \in Contexts
      PROVE  LET waiting == \E k \in DOMAIN unclaimed : unclaimed[k] = c
             IN  /\ ctx[c].refs = Cardinality({h \in Holders : holding[h] = c})
                 /\ ctx[c].live => (ctx[c].refs = 0 <=> waiting)
                 /\ ~ctx[c].live => ctx[c].refs = 0 /\ ~waiting
  <2>1. /\ ctx[c].refs = Cardinality(HoldersOf(holding, c))
        /\ ctx[c].live <=> ctx[c].refs > 0 \/ Waits(unclaimed, c)
        /\ Waits(unclaimed, c) => ctx[c].refs = 0
    BY DEF CountInv, Tallied, CountsAgree
  <2>2. ctx[c].refs \in Nat
    BY <2>1, HoldersOfFinite
  <2>3. QED
    BY <2>1, <2>2 DEF HoldersOf, Waits
<1>2. ASSUME unclaimed = <<>> PROVE listener.pending = 0
  <2>1. Delayed(ctx) = {}
    BY <1>2 DEF CountInv, Tallied, CountsAgree, Delayed, Waits
  <2>2. Cardinality(Delayed(ctx)) = 0
    BY <2>1, FS_EmptySet, Zenon
  <2>3. QED
    BY <2>2 DEF CountInv, Tallied
<1>3. ServerTypeOK
  BY TypesSplit DEF CountInv, Tallied
<1>4. QED
  BY <1>1, <1>2, <1>3 DEF ContextsCounted

(* The types of the server's variables hold in every state.                *)
THEOREM ServerTypeCorrect == ServerSpec => []ServerTypeOK
<1>1. ServerInit => CountInv
  BY CountInit
<1>2. CountInv /\ [ServerNext]_serverVars => CountInv'
  BY CountStep
<1>3. CountInv => ServerTypeOK
  BY CountsThenCounted
<1>4. QED
  BY <1>1, <1>2, <1>3, PTL DEF ServerSpec

(* The reference counts of the contexts are those of their holders, and    *)
(* the backlog's places are those of the clients nobody has claimed.       *)
THEOREM CountsHold == ServerSpec => []ContextsCounted
<1>1. ServerInit => CountInv
  BY CountInit
<1>2. CountInv /\ [ServerNext]_serverVars => CountInv'
  BY CountStep
<1>3. CountInv => ContextsCounted
  BY CountsThenCounted
<1>4. QED
  BY <1>1, <1>2, <1>3, PTL DEF ServerSpec

-----------------------------------------------------------------------------
(* The turns of available().  What a step may do to a context that is not  *)
(* about them.                                                             *)
PassKept(cs, x) ==
    \/ cs[x].passed = 0
    \/ cs[x].passed = ctx[x].passed /\ cs[x].unread = ctx[x].unread

LEMMA DistanceBound ==
    ASSUME NEW i \in 0..MaxMonitored, NEW s \in Slots
    PROVE  Distance(i, s) \in 0..MaxMonitored - 1
  BY ServerAssumption DEF Distance, Turn, Slots

LEMMA DistanceShrinks ==
    ASSUME NEW i \in 0..MaxMonitored, NEW s \in Slots, s # Turn(i)
    PROVE  Distance(Turn(i) + 1, s) = Distance(i, s) - 1
  BY ServerAssumption DEF Distance, Turn, Slots

LEMMA MovedPasses ==
    ASSUME NEW cs \in ContextTable, NEW d \in Places, NEW c \in Places, NEW x \in Contexts,
           d \in Contexts => cs[d].refs > 0
    PROVE  \/ Moved(cs, d, c)[x].passed = 0
           \/ /\ Moved(cs, d, c)[x].passed = cs[x].passed
              /\ Moved(cs, d, c)[x].unread = cs[x].unread
<1>1. cs[x] \in ContextRecord /\ cs[x].refs \in Nat
  BY Recounted DEF ContextTable
<1>2. CASE x = c /\ x # d
  <2>1. Moved(cs, d, c)[x] = Recount(cs[x], cs[x].refs + 1)
    BY <1>2 DEF Moved
  <2>2. cs[x].refs + 1 \in Nat
    BY <1>1
  <2>3. QED
    BY <1>1, <2>1, <2>2, Recounted
<1>3. CASE x = d /\ x # c /\ cs[x].refs = 1
  BY <1>3 DEF Moved, Deleted
<1>4. CASE x = d /\ x # c /\ cs[x].refs # 1
  <2>1. Moved(cs, d, c)[x] = Recount(cs[x], cs[x].refs - 1)
    BY <1>4 DEF Moved
  <2>2. cs[x].refs - 1 \in Nat
    BY <1>1, <1>4
  <2>3. QED
    BY <1>1, <2>1, <2>2, Recounted
<1>5. CASE (x = c /\ x = d) \/ (x # c /\ x # d)
  BY <1>5 DEF Moved
<1>6. QED
  BY <1>2, <1>3, <1>4, <1>5

(* Steps that neither replace a monitored client nor find one.             *)
LEMMA TurnsKept ==
    ASSUME TurnInv, CountInv', \A s \in Slots : holding'[s] = holding[s],
           \A x \in Contexts : PassKept(ctx', x),
           \A x \in Contexts : Waits(unclaimed', x) => Waits(unclaimed, x) \/ ctx'[x].passed = 0,
           \/ index' = index
           \/ index' = Turn(index) + 1 /\ ~HasData(holding[Turn(index)])
    PROVE  TurnInv'
<1>1. \A s, t \in Slots : holding'[s] # NoContext /\ holding'[s] = holding'[t] => s = t
  BY DEF TurnInv
<1>2. \A x \in Contexts : ctx[x] \in ContextRecord
  BY DEF TurnInv, CountInv, Tallied, TablesOK, ContextTable
<1>3. ASSUME NEW x \in Contexts, ctx'[x].unread = 0 \/ Waits(unclaimed', x)
      PROVE  ctx'[x].passed = 0
  <2>1. ctx[x].unread = 0 \/ Waits(unclaimed, x) => ctx[x].passed = 0
    BY DEF TurnInv
  <2>2. PassKept(ctx', x)
    OBVIOUS
  <2>3. QED
    BY <1>3, <2>1, <2>2 DEF PassKept
<1>4. ASSUME NEW s \in Slots, holding'[s] # NoContext
      PROVE  ctx'[holding'[s]].passed + Distance(index, s)' < MaxMonitored
  <2> DEFINE x == holding[s]
  <2>1. x \in Contexts /\ holding'[s] = x
    BY <1>4, HeldContext DEF TurnInv, CountInv, Holders
  <2>2. /\ ctx[x].passed \in Nat /\ ctx[x].passed + Distance(index, s) < MaxMonitored
        /\ ctx[x].unread = 0 => ctx[x].passed = 0
    BY <1>2, <1>4, <2>1 DEF TurnInv, ContextRecord
  <2>3. index \in 0..MaxMonitored /\ index' \in 0..MaxMonitored
    BY DEF TurnInv, CountInv, PositionOK
  <2>4. Distance(index, s) \in 0..MaxMonitored - 1 /\ Distance(index', s) \in 0..MaxMonitored - 1
    BY <2>3, DistanceBound
  <2>5. PassKept(ctx', x)
    BY <2>1
  <2>6. Distance(index, s)' = Distance(index', s)
    BY DEF Distance, Turn
  <2> HIDE DEF x
  <2>7. CASE ctx'[x].passed = 0
    BY <2>1, <2>4, <2>6, <2>7, ServerAssumption
  <2>8. CASE ctx'[x].passed = ctx[x].passed /\ index' = index
    BY <2>1, <2>2, <2>6, <2>8
  <2>9. CASE ctx'[x].passed = ctx[x].passed /\ index' = Turn(index) + 1
                 /\ ~HasData(holding[Turn(index)])
    <3>1. CASE s = Turn(index)
      <4>1. ~(ctx[x].unread > 0)
        BY <2>1, <2>9, <3>1, ServerAssumption DEF HasData, x
      <4>2. ctx[x].passed = 0
        <5>1. ctx[x].unread \in Nat
          BY <1>2, <2>1 DEF ContextRecord
        <5>2. QED
          BY <2>2, <4>1, <5>1
      <4>3. QED
        BY <2>7, <2>9, <4>2
    <3>2. CASE s # Turn(index)
      <4>1. Distance(index', s) = Distance(index, s) - 1
        BY <2>3, <2>9, <3>2, DistanceShrinks
      <4>2. QED
        BY <2>1, <2>2, <2>4, <2>6, <2>9, <4>1, ServerAssumption
    <3>3. QED
      BY <3>1, <3>2
  <2>10. QED
    BY <2>5, <2>7, <2>8, <2>9 DEF PassKept
<1>5. QED
  BY <1>1, <1>3, <1>4 DEF TurnInv

LEMMA TemporaryPasses ==
    ASSUME Tallied, NEW h \in Holders, NEW c \in Places, FromTemporary(h, c)
    PROVE  \A x \in Contexts : PassKept(ctx', x)
<1>1. ctx \in ContextTable
  BY DEF Tallied, TablesOK
<1>2. ctx' = Moved(ctx, holding[h], c)
  BY <1>1, LetGoCounts, TemporaryMoves DEF FromTemporary, Assigned
<1>3. ASSUME NEW x \in Contexts PROVE PassKept(Moved(ctx, holding[h], c), x)
  BY <1>1, LetGoCounts, MovedPasses DEF PassKept
<1>4. QED
  BY <1>2, <1>3, Zenon

LEMMA AcceptPasses ==
    ASSUME Tallied, NEW h \in Holders, Accept(h)
    PROVE  /\ \E c \in Places : /\ holding' = [holding EXCEPT ![h] = c]
                                /\ c \in Contexts => Waits(unclaimed, c)
           /\ \A x \in Contexts : Waits(unclaimed', x) => Waits(unclaimed, x)
           /\ \A x \in Contexts : PassKept(ctx', x)
<1>1. CASE unclaimed = <<>>
  <2>1. FromTemporary(h, NoContext) /\ unclaimed' = unclaimed
    BY <1>1 DEF Accept
  <2>2. NoContext \in Places /\ NoContext \notin Contexts
    BY ServerAssumption DEF Places
  <2>3. \A x \in Contexts : PassKept(ctx', x)
    BY <2>1, <2>2, TemporaryPasses
  <2>4. QED
    BY <2>1, <2>2, <2>3 DEF FromTemporary
<1>2. CASE unclaimed # <<>>
  <2> DEFINE c == Head(unclaimed)
             r == [ctx[c] EXCEPT !.delayed = FALSE]
             claimed == [ctx EXCEPT ![c] = r]
             d == holding[h]
  <2>1. /\ ctx \in ContextTable
        /\ unclaimed \in Seq(Contexts) /\ ClaimedOnce(unclaimed)
    BY DEF Tallied, TablesOK
  <2>2. /\ c \in Contexts /\ c \in Places /\ Waits(unclaimed, c)
        /\ \A x : Waits(Tail(unclaimed), x) => Waits(unclaimed, x)
    BY <1>2, <2>1, QueueShrinks DEF Places
  <2>3. /\ ctx' = Unref(Ref(Unref(Ref(claimed, c), d), c), c)
        /\ holding' = [holding EXCEPT ![h] = c]
        /\ unclaimed' = Tail(unclaimed)
    BY <1>2 DEF Accept, Assigned
  <2> HIDE DEF c
  <2>4. \A x \in Contexts : ctx[x] \in ContextRecord
    BY <2>1 DEF ContextTable
  <2>5. /\ r \in ContextRecord /\ r.refs = ctx[c].refs
        /\ r.passed = ctx[c].passed /\ r.unread = ctx[c].unread
    BY <2>2, <2>4 DEF ContextRecord
  <2> HIDE DEF r
  <2>6. claimed \in ContextTable
    BY <2>1, <2>5 DEF ContextTable
  <2>7. \A x \in Contexts : claimed[x] = IF x = c THEN r ELSE ctx[x]
    BY <2>1 DEF ContextTable
  <2> HIDE DEF claimed, d
  <2>8. d \in Places /\ (d \in Contexts => claimed[d].refs > 0)
    BY <2>5, <2>7, LetGoCounts DEF d
  <2>9. ctx' = Moved(claimed, d, c)
    BY <2>2, <2>3, <2>6, <2>8, TemporaryMoves
  <2>10. ASSUME NEW x \in Contexts PROVE PassKept(Moved(claimed, d, c), x)
    <3>1. \/ Moved(claimed, d, c)[x].passed = 0
          \/ /\ Moved(claimed, d, c)[x].passed = claimed[x].passed
             /\ Moved(claimed, d, c)[x].unread = claimed[x].unread
      BY <2>2, <2>6, <2>8, MovedPasses
    <3>2. claimed[x].passed = ctx[x].passed /\ claimed[x].unread = ctx[x].unread
      BY <2>5, <2>7
    <3>3. QED
      BY <3>1, <3>2 DEF PassKept
  <2>11. \A x \in Contexts : PassKept(ctx', x)
    BY <2>9, <2>10, Zenon
  <2>12. QED
    BY <2>2, <2>3, <2>11
<1>3. QED
  BY <1>1, <1>2

LEMMA RecordPasses ==
    ASSUME Tallied, NEW c \in Contexts, NEW r, ctx' = [ctx EXCEPT ![c] = r],
           r.passed = 0 \/ (r.passed = ctx[c].passed /\ r.unread = ctx[c].unread)
    PROVE  \A x \in Contexts : PassKept(ctx', x)
<1>1. ctx \in ContextTable
  BY DEF Tallied, TablesOK
<1>2. \A x \in Contexts : ctx'[x] = IF x = c THEN r ELSE ctx[x]
  BY <1>1 DEF ContextTable
<1>3. QED
  BY <1>2 DEF PassKept

(* Of what the sketch does with its own clients nothing is about turns.    *)
LEMMA CallPasses ==
    ASSUME TurnInv, ServerCall
    PROVE  /\ \A s \in Slots : holding'[s] = holding[s]
           /\ \A x \in Contexts : PassKept(ctx', x)
           /\ \A x \in Contexts : Waits(unclaimed', x) => Waits(unclaimed, x)
           /\ index' = index
<1> DEFINE Goal == /\ \A s \in Slots : holding'[s] = holding[s]
                   /\ \A x \in Contexts : PassKept(ctx', x)
                   /\ \A x \in Contexts : Waits(unclaimed', x) => Waits(unclaimed, x)
                   /\ index' = index
<1>1. /\ Tallied /\ ctx \in ContextTable /\ holding \in [Holders -> Places]
      /\ \A x \in Contexts : ctx[x] \in ContextRecord
  BY DEF TurnInv, CountInv, Tallied, TablesOK, ContextTable
<1>2. \A g \in Guests : g \notin Slots /\ g \in Holders
  BY ServerAssumption DEF Slots, Holders
<1>3. \A s \in Slots : s \in Holders
  BY DEF Holders
<1>4. \A x \in Contexts : PassKept(ctx, x)
  BY DEF PassKept
<1>5. \A x \in Contexts : PassKept(NoneDelayed, x)
  <2>1. ASSUME NEW x \in Contexts PROVE PassKept(NoneDelayed, x)
    <3>1. NoneDelayed[x] = [ctx[x] EXCEPT !.delayed = FALSE]
      BY DEF NoneDelayed
    <3>2. QED
      BY <1>1, <3>1 DEF PassKept, ContextRecord
  <2>2. QED
    BY <2>1
<1>6. ASSUME NEW b \in Backlogs, Begin(b) PROVE Goal
  BY <1>4, <1>5, <1>6 DEF Begin
<1>7. ASSUME CloseListener \/ End PROVE Goal
  BY <1>4, <1>5, <1>7 DEF CloseListener, End
<1>8. ASSUME NEW hs, Stopped(hs) PROVE Goal
  <2>1. ASSUME NEW x \in Contexts PROVE PassKept(ctx', x)
    <3>1. ctx'[x] = ctx[x] \/ ctx'[x] = [ctx[x] EXCEPT !.pcb = FALSE]
      BY <1>8 DEF Stopped
    <3>2. QED
      BY <1>1, <3>1 DEF PassKept, ContextRecord
  <2>2. QED
    BY <1>8, <2>1 DEF Stopped
<1>9. ASSUME NEW g \in Guests, GuestAccepts(g) PROVE Goal
  <2>1. /\ \E c \in Places : holding' = [holding EXCEPT ![g] = c]
        /\ \A x \in Contexts : Waits(unclaimed', x) => Waits(unclaimed, x)
        /\ \A x \in Contexts : PassKept(ctx', x)
    BY <1>1, <1>2, <1>9, AcceptPasses DEF GuestAccepts
  <2>2. \A s \in Slots : holding'[s] = holding[s]
    BY <1>1, <1>2, <1>3, <2>1
  <2>3. QED
    BY <1>9, <2>1, <2>2 DEF GuestAccepts
<1>10. ASSUME NEW g \in Guests, DropClient(g) PROVE Goal
  <2>1. holding[g] \in Places /\ (holding[g] \in Contexts => ctx[holding[g]].refs > 0)
    BY <1>1, <1>2, LetGoCounts
  <2>2. \A x \in Contexts : PassKept(Unref(ctx, holding[g]), x)
    <3>1. NoContext \in Places /\ NoContext # holding[g]
      BY <1>10 DEF DropClient, Places
    <3>2. Ref(Unref(ctx, holding[g]), NoContext) = Moved(ctx, holding[g], NoContext)
      BY <1>1, <2>1, <3>1, AssignMoves
    <3>3. Unref(ctx, holding[g]) = Moved(ctx, holding[g], NoContext)
      BY <3>2 DEF Ref
    <3>4. ASSUME NEW x \in Contexts PROVE PassKept(Moved(ctx, holding[g], NoContext), x)
      BY <1>1, <2>1, <3>1, MovedPasses DEF PassKept
    <3>5. QED
      BY <3>3, <3>4, Zenon
  <2>3. QED
    BY <1>1, <1>2, <1>3, <1>10, <2>2 DEF DropClient
<1>11. ASSUME NEW g \in Guests, ReadClient(g) PROVE Goal
  <2> DEFINE c == holding[g]
             r == [[ctx[c] EXCEPT !.unread = 0] EXCEPT !.passed = 0]
  <2>1. c \in Contexts
    BY <1>1, <1>2, <1>11, HeldContext DEF ReadClient, HasData
  <2>2. ctx' = [ctx EXCEPT ![c] = r]
    BY <1>1, <1>11, <2>1 DEF ReadClient, ContextTable
  <2>3. r.passed = 0
    BY <1>1, <2>1 DEF ContextRecord
  <2> HIDE DEF c, r
  <2>4. \A x \in Contexts : PassKept(ctx', x)
    BY <1>1, <2>1, <2>2, <2>3, RecordPasses
  <2>5. QED
    BY <1>11, <2>4 DEF ReadClient
<1>12. ASSUME NEW g \in Guests, Available(g) PROVE Goal
  BY <1>4, <1>12 DEF Available
<1>13. ASSUME NEW g \in Guests, NEW from \in Guests, CopyClient(g, from) PROVE Goal
  <2> DEFINE c == holding[from]
             d == holding[g]
  <2>1. /\ c \in Places /\ (c \in Contexts => ctx[c].refs > 0)
        /\ d \in Places /\ (d \in Contexts => ctx[d].refs > 0)
    BY <1>1, <1>2, LetGoCounts
  <2>2. ctx' = Ref(Unref(ctx, d), c) /\ holding' = [holding EXCEPT ![g] = c]
    BY <1>13 DEF CopyClient, Assigned
  <2>3. d = c /\ d \in Contexts => ctx[d].refs > 1
    BY <1>1, <1>2, <1>13, SharedCounts DEF CopyClient
  <2> HIDE DEF c, d
  <2>4. ctx' = Moved(ctx, d, c)
    BY <1>1, <2>1, <2>2, <2>3, AssignMoves
  <2>5. ASSUME NEW x \in Contexts PROVE PassKept(Moved(ctx, d, c), x)
    BY <1>1, <2>1, MovedPasses DEF PassKept
  <2>6. \A x \in Contexts : PassKept(ctx', x)
    BY <2>4, <2>5, Zenon
  <2>7. QED
    BY <1>1, <1>2, <1>3, <1>13, <2>2, <2>6 DEF CopyClient
<1> HIDE DEF Goal
<1>14. Goal
  BY <1>6, <1>7, <1>8, <1>9, <1>10, <1>11, <1>12, <1>13
     DEF ServerCall, StopAll, StopClient, StopAllExcept
<1>15. QED
  BY <1>14 DEF Goal

LEMMA CallbackPasses ==
    ASSUME TurnInv, ServerCallback
    PROVE  /\ holding' = holding /\ index' = index
           /\ \A x \in Contexts : PassKept(ctx', x)
           /\ \A x \in Contexts :
                 Waits(unclaimed', x) => Waits(unclaimed, x) \/ ctx'[x].passed = 0
<1>1. /\ Tallied /\ ctx \in ContextTable /\ unclaimed \in Seq(Contexts)
      /\ \A x \in Contexts : ctx[x] \in ContextRecord
  BY DEF TurnInv, CountInv, Tallied, TablesOK, ContextTable
<1>2. holding' = holding /\ index' = index
  BY DEF ServerCallback, OnAccept, OnData, OnEnd, OnFailure
<1>3. ASSUME OnAccept
      PROVE  /\ \A x \in Contexts : PassKept(ctx', x)
             /\ \A x \in Contexts :
                   Waits(unclaimed', x) => Waits(unclaimed, x) \/ ctx'[x].passed = 0
  <2>1. PICK c \in Contexts : ctx' = [ctx EXCEPT ![c] = Newcomer]
                              /\ unclaimed' = Append(unclaimed, c)
    BY <1>3, ServerAssumption DEF OnAccept, FreeContext
  <2>2. Newcomer.passed = 0
    BY DEF Newcomer, Deleted
  <2>3. ctx'[c].passed = 0
    BY <1>1, <2>1, <2>2 DEF ContextTable
  <2>4. \A x \in Contexts : Waits(unclaimed', x) => Waits(unclaimed, x) \/ x = c
    BY <1>1, <2>1, QueueGrows
  <2>5. QED
    BY <1>1, <2>1, <2>2, <2>3, <2>4, RecordPasses
<1>4. ASSUME NEW c \in Contexts, OnData(c) \/ OnEnd(c) \/ OnFailure(c)
      PROVE  /\ \A x \in Contexts : PassKept(ctx', x)
             /\ unclaimed' = unclaimed
  <2> DEFINE data == [ctx[c] EXCEPT !.unread = 1]
             ends == [ctx[c] EXCEPT !.ended = TRUE]
             freed == [[ctx[c] EXCEPT !.pcb = FALSE] EXCEPT !.delayed = FALSE]
  <2>1. \/ OnData(c) /\ ctx' = [ctx EXCEPT ![c] = data]
        \/ ctx' = [ctx EXCEPT ![c] = ends]
        \/ ctx' = [ctx EXCEPT ![c] = freed]
    BY <1>1, <1>4 DEF OnData, OnEnd, OnFailure, Freed, ContextTable
  <2>2. OnData(c) => ctx[c].passed = 0
    BY DEF OnData, TurnInv
  <2>3. /\ data.passed = ctx[c].passed
        /\ ends.passed = ctx[c].passed /\ ends.unread = ctx[c].unread
        /\ freed.passed = ctx[c].passed /\ freed.unread = ctx[c].unread
    BY <1>1 DEF ContextRecord
  <2> HIDE DEF data, ends, freed
  <2>4. \A x \in Contexts : PassKept(ctx', x)
    BY <1>1, <2>1, <2>2, <2>3, RecordPasses
  <2>5. QED
    BY <1>4, <2>4 DEF OnData, OnEnd, OnFailure
<1>5. QED
  BY <1>2, <1>3, <1>4 DEF ServerCallback

(* A monitored client is replaced by one that waited, or by none.          *)
LEMMA ReplaceTurns ==
    ASSUME TurnInv, CountInv', Replace
    PROVE  TurnInv'
<1> DEFINE w == walk.slot
<1>1. w \in Slots /\ w \in Holders /\ Tallied /\ index' = index
  BY DEF TurnInv, CountInv, PositionOK, Holders, Replace
<1>2. /\ Tallied' /\ holding \in [Holders -> Places] /\ \A s \in Slots : s \in Holders
      /\ \A x \in Contexts : ctx'[x] \in ContextRecord
  BY <1>1 DEF CountInv, Tallied, TablesOK, ContextTable, Holders
<1>3. PICK c \in Places : /\ holding' = [holding EXCEPT ![w] = c]
                          /\ c \in Contexts => Waits(unclaimed, c)
  BY <1>1, AcceptPasses DEF Replace
<1>4. /\ \A x \in Contexts : Waits(unclaimed', x) => Waits(unclaimed, x)
      /\ \A x \in Contexts : PassKept(ctx', x)
  BY <1>1, AcceptPasses DEF Replace
<1>5. \A x \in Contexts : ctx[x].unread = 0 \/ Waits(unclaimed, x) => ctx[x].passed = 0
  BY DEF TurnInv
<1>6. \A x \in Contexts : ctx'[x].unread = 0 \/ Waits(unclaimed', x) => ctx'[x].passed = 0
  BY <1>4, <1>5 DEF PassKept
<1>7. c \in Contexts => ctx'[c].passed = 0
  BY <1>3, <1>4, <1>5 DEF PassKept
<1>8. \A s \in Slots : holding'[s] = IF s = w THEN c ELSE holding[s]
  BY <1>1, <1>2, <1>3
<1>9. \A s \in Slots : c \in Contexts => holding[s] # c
  <2> SUFFICES ASSUME NEW s \in Slots, c \in Contexts, holding[s] = c PROVE FALSE
    OBVIOUS
  <2>1. ctx[c].refs = 0
    BY <1>1, <1>3 DEF Tallied, CountsAgree
  <2>2. ctx[holding[s]].refs > 0
    BY <1>1, <1>2, LetGoCounts
  <2>3. QED
    BY <2>1, <2>2
<1> HIDE DEF w
<1>10. ASSUME NEW s \in Slots, NEW t \in Slots,
              holding'[s] # NoContext, holding'[s] = holding'[t]
       PROVE  s = t
  <2>1. \A u, v \in Slots : holding[u] # NoContext /\ holding[u] = holding[v] => u = v
    BY DEF TurnInv
  <2>2. QED
    BY <1>8, <1>9, <1>10, <2>1 DEF Places
<1>11. ASSUME NEW s \in Slots, holding'[s] # NoContext
       PROVE  ctx'[holding'[s]].passed + Distance(index, s)' < MaxMonitored
  <2>1. index \in 0..MaxMonitored
    BY DEF TurnInv, CountInv, PositionOK
  <2>2. Distance(index, s)' = Distance(index, s) /\ Distance(index, s) \in 0..MaxMonitored - 1
    BY <1>1, <2>1, DistanceBound DEF Distance, Turn
  <2>3. CASE s = w
    <3>1. ctx'[holding'[s]].passed = 0
      BY <1>7, <1>8, <1>11, <2>3 DEF Places
    <3>2. QED
      BY <2>2, <3>1, ServerAssumption
  <2>4. CASE s # w
    <3>1. holding'[s] = holding[s] /\ holding[s] \in Contexts
      BY <1>1, <1>2, <1>8, <1>11, <2>4, HeldContext
    <3>2. ctx[holding[s]].passed + Distance(index, s) < MaxMonitored
      BY <1>11, <3>1 DEF TurnInv
    <3>3. ctx'[holding[s]].passed = 0 \/ ctx'[holding[s]].passed = ctx[holding[s]].passed
      BY <1>4, <3>1 DEF PassKept
    <3>4. QED
      BY <2>2, <3>1, <3>2, <3>3, ServerAssumption
  <2>5. QED
    BY <2>3, <2>4
<1>12. QED
  BY <1>6, <1>10, <1>11 DEF TurnInv

(* available() finds a client: it comes first, the others one turn later.  *)
LEMMA FoundTurns ==
    ASSUME TurnInv, CountInv', Find, HasData(holding[Turn(index)])
    PROVE  TurnInv'
<1> DEFINE s == Turn(index)
           c == holding[s]
           g == walk.into
           passed == PassedOver(ctx, s)
           over == {holding[t] : t \in Slots \ {s}} \ {NoContext}
<1>1. /\ Tallied /\ PositionOK /\ ctx \in ContextTable /\ holding \in [Holders -> Places]
      /\ \A x \in Contexts : ctx[x] \in ContextRecord
  BY DEF TurnInv, CountInv, Tallied, TablesOK, ContextTable
<1>2. /\ s \in Slots /\ g \in Guests /\ g \in Holders /\ g \notin Slots
      /\ \A t \in Slots : t \in Holders
  BY <1>1, TurnIsSlot, ServerAssumption DEF PositionOK, Find, Holders, Slots
<1>3. c \in Contexts /\ c \in Places
  BY <1>1, <1>2, HeldContext DEF HasData, Places
<1>4. /\ ctx' = Unref(Assigned(Ref(passed, c), g, c), c)
      /\ holding' = [holding EXCEPT ![g] = c] /\ unclaimed' = unclaimed
      /\ index' = s + 1
  BY DEF Find
<1>5. SameTallies(passed)
  BY <1>1, <1>2, PassedOverTallies
<1>6. holding[g] \in Places /\ (holding[g] \in Contexts => passed[holding[g]].refs > 0)
  BY <1>1, <1>2, <1>5, LetGoCounts DEF SameTallies
<1>7. \A x \in Contexts : \/ ctx'[x].passed = 0
                          \/ ctx'[x].passed = passed[x].passed /\ ctx'[x].unread = passed[x].unread
  <2> HIDE DEF passed, c, g
  <2>1. ctx' = Moved(passed, holding[g], c)
    BY <1>3, <1>4, <1>5, <1>6, TemporaryMoves DEF Assigned, SameTallies
  <2>2. ASSUME NEW x \in Contexts
        PROVE  \/ Moved(passed, holding[g], c)[x].passed = 0
               \/ /\ Moved(passed, holding[g], c)[x].passed = passed[x].passed
                  /\ Moved(passed, holding[g], c)[x].unread = passed[x].unread
    BY <1>3, <1>5, <1>6, MovedPasses DEF SameTallies
  <2>3. QED
    BY <2>1, <2>2, Zenon
<1>8. \A x \in Contexts :
         passed[x] = IF x \in over /\ ctx[x].unread > 0 THEN [ctx[x] EXCEPT !.passed = @ + 1]
                     ELSE IF x = c THEN [ctx[x] EXCEPT !.passed = 0] ELSE ctx[x]
  BY DEF PassedOver
<1>9. \A t \in Slots : holding'[t] = holding[t]
  BY <1>1, <1>2, <1>4
<1>10. \A t, u \in Slots : holding[t] # NoContext /\ holding[t] = holding[u] => t = u
  BY DEF TurnInv
<1>11. c \notin over
  BY <1>2, <1>3, <1>10
<1>12. \A x \in over : x \in Contexts /\ ~Waits(unclaimed, x)
  <2> SUFFICES ASSUME NEW t \in Slots, holding[t] # NoContext
               PROVE  holding[t] \in Contexts /\ ~Waits(unclaimed, holding[t])
    BY <1>2
  <2>1. holding[t] \in Contexts /\ ctx[holding[t]].refs > 0
    BY <1>1, <1>2, HeldContext, LetGoCounts
  <2>2. QED
    BY <1>1, <2>1 DEF Tallied, CountsAgree
<1>13. \A x \in Contexts : ctx[x].unread = 0 \/ Waits(unclaimed, x) => ctx[x].passed = 0
  BY DEF TurnInv
<1>14. \A x \in Contexts : ctx[x].unread \in Nat /\ ctx[x].passed \in Nat
  BY <1>1 DEF ContextRecord
<1>15. \A x \in Contexts :
          /\ passed[x].unread = ctx[x].unread
          /\ passed[x].passed = IF x \in over /\ ctx[x].unread > 0 THEN ctx[x].passed + 1
                                ELSE IF x = c THEN 0 ELSE ctx[x].passed
  BY <1>1, <1>8 DEF ContextRecord
<1> HIDE DEF passed, over, c, g
<1>16. ASSUME NEW x \in Contexts, ctx'[x].unread = 0 \/ Waits(unclaimed', x)
       PROVE  ctx'[x].passed = 0
  BY <1>4, <1>7, <1>12, <1>13, <1>14, <1>15, <1>16
<1>17. ASSUME NEW t \in Slots, holding'[t] # NoContext
       PROVE  ctx'[holding'[t]].passed + Distance(index, t)' < MaxMonitored
  <2> DEFINE x == holding[t]
  <2>1. x \in Contexts /\ holding'[t] = x
    BY <1>1, <1>2, <1>9, <1>17, HeldContext
  <2>2. ctx[x].passed + Distance(index, t) < MaxMonitored
    BY <1>17, <2>1 DEF TurnInv
  <2>3. index \in 0..MaxMonitored /\ index' \in 0..MaxMonitored
    BY DEF TurnInv, CountInv, PositionOK
  <2>4. Distance(index, t) \in 0..MaxMonitored - 1 /\ Distance(index', t) \in 0..MaxMonitored - 1
    BY <2>3, DistanceBound
  <2>5. Distance(index, t)' = Distance(index', t)
    BY DEF Distance, Turn
  <2>6. t # s => Distance(index', t) = Distance(index, t) - 1 /\ x \in over
    BY <1>4, <1>17, <2>1, <2>3, <1>9, DistanceShrinks DEF over
  <2>7. t = s => x = c
    BY DEF c
  <2> HIDE DEF x, s
  <2>8. ctx'[x].passed = 0 \/ ctx'[x].passed = passed[x].passed
    BY <1>7, <2>1
  <2>9. CASE ctx'[x].passed = 0
    BY <2>1, <2>4, <2>5, <2>9, ServerAssumption
  <2>10. CASE ctx'[x].passed = passed[x].passed /\ t = s
    BY <1>11, <1>15, <2>1, <2>4, <2>5, <2>7, <2>10, ServerAssumption
  <2>11. CASE ctx'[x].passed = passed[x].passed /\ t # s
    <3>1. passed[x].passed = 0 \/ passed[x].passed = ctx[x].passed + 1
      BY <1>13, <1>14, <1>15, <2>1, <2>6, <2>11
    <3>2. QED
      BY <1>14, <2>1, <2>2, <2>4, <2>5, <2>6, <2>9, <2>11, <3>1, ServerAssumption
  <2>12. QED
    BY <2>8, <2>9, <2>10, <2>11
<1>18. QED
  BY <1>9, <1>10, <1>16, <1>17 DEF TurnInv

LEMMA WalkTurns ==
    ASSUME TurnInv, CountInv', ServerWalks
    PROVE  TurnInv'
<1>1. /\ Tallied /\ PositionOK /\ ctx \in ContextTable /\ holding \in [Holders -> Places]
      /\ \A x \in Contexts : ctx[x] \in ContextRecord
  BY DEF TurnInv, CountInv, Tallied, TablesOK, ContextTable
<1>2. \A x \in Contexts : PassKept(ctx, x)
  BY DEF PassKept
<1>3. CASE LookForData \/ Keep \/ EndSkips
  <2>1. UNCHANGED <<ctx, holding, unclaimed, index>>
    BY <1>3 DEF LookForData, Keep, EndSkips
  <2>2. QED
    BY <1>2, <2>1, TurnsKept
<1>4. CASE Replace
  BY <1>4, ReplaceTurns
<1>5. CASE EndStops
  <2> DEFINE c == holding[walk.slot]
             r == [ctx[c] EXCEPT !.pcb = FALSE]
  <2>1. UNCHANGED <<holding, unclaimed, index>> /\ ctx' = [ctx EXCEPT ![c] = r]
    BY <1>5 DEF EndStops
  <2>2. c \in Contexts => r.passed = ctx[c].passed /\ r.unread = ctx[c].unread
    BY <1>1 DEF ContextRecord
  <2> HIDE DEF c, r
  <2>3. CASE c \in Contexts
    <3>1. \A x \in Contexts : PassKept(ctx', x)
      BY <1>1, <2>1, <2>2, <2>3, RecordPasses
    <3>2. QED
      BY <2>1, <3>1, TurnsKept
  <2>4. CASE c \notin Contexts
    <3>1. ctx' = ctx
      BY <1>1, <2>1, <2>4 DEF ContextTable
    <3>2. QED
      BY <1>2, <2>1, <3>1, TurnsKept
  <2>5. QED
    BY <2>3, <2>4
<1>6. CASE Find
  <2>1. CASE HasData(holding[Turn(index)])
    BY <1>6, <2>1, FoundTurns
  <2>2. CASE ~HasData(holding[Turn(index)])
    <3>1. index' = Turn(index) + 1 /\ unclaimed' = unclaimed
      BY <1>6 DEF Find
    <3>2. walk.into \in Guests /\ walk.into \in Holders /\ walk.into \notin Slots
          /\ \A s \in Slots : s \in Holders
      BY <1>1, <1>6, ServerAssumption DEF Find, PositionOK, Holders, Slots
    <3>3. CASE walk.slot + 1 < MaxMonitored
      <4>1. UNCHANGED <<ctx, holding>>
        BY <1>6, <2>2, <3>3 DEF Find
      <4>2. QED
        BY <1>2, <2>2, <3>1, <4>1, TurnsKept
    <3>4. CASE ~(walk.slot + 1 < MaxMonitored)
      <4>1. FromTemporary(walk.into, NoContext)
        BY <1>6, <2>2, <3>4 DEF Find
      <4>2. NoContext \in Places
        BY DEF Places
      <4>3. \A x \in Contexts : PassKept(ctx', x)
        BY <1>1, <3>2, <4>1, <4>2, TemporaryPasses
      <4>4. \A s \in Slots : holding'[s] = holding[s]
        BY <1>1, <3>2, <4>1 DEF FromTemporary
      <4>5. QED
        BY <2>2, <3>1, <4>3, <4>4, TurnsKept
    <3>5. QED
      BY <3>3, <3>4
  <2>3. QED
    BY <2>1, <2>2
<1>7. QED
  BY <1>3, <1>4, <1>5, <1>6 DEF ServerWalks

LEMMA TurnInit == ServerInit => TurnInv
<1> SUFFICES ASSUME ServerInit PROVE TurnInv
  OBVIOUS
<1>1. CountInv
  BY CountInit
<1>2. \A s \in Slots : holding[s] = NoContext
  BY DEF ServerInit, Holders
<1>3. \A x \in Contexts : ctx[x].passed = 0
  BY DEF ServerInit, Deleted
<1>4. QED
  BY <1>1, <1>2, <1>3 DEF TurnInv

LEMMA TurnStep ==
    ASSUME TurnInv, [ServerNext]_serverVars
    PROVE  TurnInv'
<1>1. CountInv'
  BY CountStep DEF TurnInv
<1>2. CASE ServerCall
  BY <1>1, <1>2, CallPasses, TurnsKept
<1>3. CASE ServerWalks
  BY <1>1, <1>3, WalkTurns
<1>4. CASE ServerCallback
  BY <1>1, <1>4, CallbackPasses, TurnsKept
<1>5. CASE UNCHANGED serverVars
  <2>1. \A x \in Contexts : PassKept(ctx', x)
    BY <1>5 DEF serverVars, PassKept
  <2>2. QED
    BY <1>1, <1>5, <2>1, TurnsKept DEF serverVars
<1>6. QED
  BY <1>2, <1>3, <1>4, <1>5 DEF ServerNext

LEMMA TurnsAreFair == TurnInv => RoundRobin
<1> SUFFICES ASSUME TurnInv, NEW s \in Slots, holding[s] # NoContext
             PROVE  ctx[holding[s]].passed < MaxMonitored
  BY DEF RoundRobin
<1>1. holding[s] \in Contexts /\ index \in 0..MaxMonitored
  BY HeldContext DEF TurnInv, CountInv, PositionOK, Holders
<1>2. ctx[holding[s]].passed \in Nat
  BY <1>1 DEF TurnInv, CountInv, Tallied, TablesOK, ContextTable, ContextRecord
<1>3. Distance(index, s) \in 0..MaxMonitored - 1
  BY <1>1, DistanceBound
<1>4. ctx[holding[s]].passed + Distance(index, s) < MaxMonitored
  BY DEF TurnInv
<1>5. QED
  BY <1>2, <1>3, <1>4, ServerAssumption

(* However many clients are monitored and however busy they are, none of   *)
(* them is passed over more than once by each of the others.               *)
THEOREM TurnsHold == ServerSpec => []RoundRobin
<1>1. ServerInit => TurnInv
  BY TurnInit
<1>2. TurnInv /\ [ServerNext]_serverVars => TurnInv'
  BY TurnStep
<1>3. TurnInv => RoundRobin
  BY TurnsAreFair
<1>4. QED
  BY <1>1, <1>2, <1>3, PTL DEF ServerSpec
=============================================================================
