-------------------------- MODULE TelemetryProofs --------------------------
(***************************************************************************)
(* Every call of the nanopb encoder takes a stream to a stream, and what   *)
(* it adds does not depend on the stream: it has a cost, the number of     *)
(* bytes it writes, or Never when it fails on every stream.  A function    *)
(* set for a callback field may write another number of bytes on the       *)
(* second pass, so the cost of a call that meets one may be Unknown.  The  *)
(* costs add up over the fields, the elements of an array and the levels   *)
(* of nesting; the sizing pass and the writing pass have the same.         *)
(***************************************************************************)
EXTENDS Telemetry, SequenceTheorems, WellFoundedInduction, TLAPS

(* What is written by recursion on the numbers up to N.                    *)
LEMMA LeastOf ==
    ASSUME NEW S, S \subseteq Nat, S # {}
    PROVE  \E s \in S : \A t \in S : s <= t
<1>1. \E s \in S : \A t \in S : ~ (<<t, s>> \in OpToRel(<, Nat))
  BY NatLessThanWellFounded, WFMin
<1>2. PICK s \in S : \A t \in S : ~ (<<t, s>> \in OpToRel(<, Nat))
  BY <1>1
<1>3. \A t \in S : s <= t
  <2> TAKE t \in S
  <2>1. s \in Nat /\ t \in Nat /\ <<t, s>> \in Nat \X Nat
    OBVIOUS
  <2>2. ~ (t < s)
    BY <1>2, <2>1 DEF OpToRel
  <2> QED
    BY <2>1, <2>2
<1> QED
  BY <1>3

LEMMA Upto ==
    ASSUME NEW N \in Nat, NEW P, 0 \in P, \A i \in 1..N : i - 1 \in P => i \in P
    PROVE  \A i \in 0..N : i \in P
<1> DEFINE S == {i \in 0..N : i \notin P}
<1>1. SUFFICES ASSUME S # {} PROVE FALSE
  OBVIOUS
<1>2. S \subseteq Nat
  OBVIOUS
<1>3. PICK s \in S : \A t \in S : s <= t
  BY <1>1, <1>2, LeastOf
<1>4. s \in 1..N /\ s - 1 \in 0..N /\ s - 1 < s
  BY <1>3
<1>5. s - 1 \in P
  BY <1>3, <1>4
<1> QED
  BY <1>3, <1>4, <1>5

Made(f, a, G, n) == f[0] = a /\ \A i \in 1..n : f[i] = G[i][f[i - 1]]

LEMMA Iterated ==
    ASSUME NEW N \in Nat, NEW S, NEW a \in S, NEW G \in [1..N -> [S -> S]]
    PROVE  \E f \in [0..N -> S] : Made(f, a, G, N)
<1> DEFINE P == {n \in 0..N : \E f \in [0..n -> S] : Made(f, a, G, n)}
<1>1. 0 \in P
  <2> DEFINE f == [i \in 0..0 |-> a]
  <2>1. f \in [0..0 -> S] /\ f[0] = a
    OBVIOUS
  <2> HIDE DEF f
  <2>2. Made(f, a, G, 0)
    BY <2>1 DEF Made
  <2>3. 0 \in 0..N
    OBVIOUS
  <2> QED
    BY <2>1, <2>2, <2>3
<1>2. ASSUME NEW n \in 1..N, n - 1 \in P PROVE n \in P
  <2>1. PICK f \in [0..n - 1 -> S] : Made(f, a, G, n - 1)
    BY <1>2
  <2>0. n - 1 \in 0..n - 1 /\ n \in 0..n /\ 0 \in 0..n /\ n - 1 \in 0..n /\ n - 1 # n /\ n # 0
          /\ n \in 0..N
    OBVIOUS
  <2> DEFINE b == G[n][f[n - 1]]
  <2>2. b \in S
    BY <2>0
  <2> HIDE DEF b
  <2> DEFINE g == [i \in 0..n |-> IF i = n THEN b ELSE f[i]]
  <2>3. \A i \in 0..n - 1 : f[i] \in S /\ g[i] = f[i] /\ i \in 0..n
    OBVIOUS
  <2>4. g \in [0..n -> S]
    <3>1. \A i \in 0..n : i = n \/ i \in 0..n - 1
      OBVIOUS
    <3> QED
      BY <2>2, <2>3, <3>1
  <2>5. g[n] = b
    BY <2>0
  <2> HIDE DEF g
  <2>6. g[0] = a
    BY <2>1, <2>3 DEF Made
  <2>7. g[n] = G[n][g[n - 1]]
    BY <2>0, <2>3, <2>5 DEF b
  <2>8. ASSUME NEW i \in 1..n - 1 PROVE g[i] = G[i][g[i - 1]]
    <3>1. i \in 0..n - 1 /\ i - 1 \in 0..n - 1
      OBVIOUS
    <3> QED
      BY <2>1, <2>3, <3>1 DEF Made
  <2>9. Made(g, a, G, n)
    <3>1. \A i \in 1..n : i = n \/ i \in 1..n - 1
      OBVIOUS
    <3> QED
      BY <2>6, <2>7, <2>8, <3>1 DEF Made
  <2> QED
    BY <2>0, <2>4, <2>9
<1>3. N \in P
  <2> HIDE DEF P
  <2>1. N \in 0..N
    OBVIOUS
  <2> QED
    BY <1>1, <1>2, <2>1, Upto
<1> QED
  BY <1>3

----------------------------------------------------------------------------
\* what a call costs: a number of bytes, Never if it refuses its value whatever
\* the room, Unknown if a callback may write another number of bytes each time
Never == -1
Unknown == -2
Certain == Nat \union {Never}
AnyCost == Certain \union {Unknown}
CostSets == {Nat, Certain, AnyCost}

Plus(c, d) == IF c = Unknown \/ d = Unknown THEN Unknown
              ELSE IF c = Never \/ d = Never THEN Never ELSE c + d

Count(bytes) == Len(bytes)
Filled(s) == Count(s.out)

\* r is s and what a call did to it
Grown(s, r) ==
  /\ r \in Streams
  /\ r.max = s.max /\ (r.sizing <=> s.sizing) /\ s.written <= r.written
  /\ ~s.sizing => Filled(r) + s.written = Filled(s) + r.written
  /\ ~s.sizing /\ s.written <= s.max => r.written <= s.max

\* on a stream with room for it, the call succeeds and writes c bytes
Costing(s, r, c) ==
  /\ ~s.ok => ~r.ok
  /\ s.ok /\ (s.sizing \/ s.written <= s.max) /\ c # Unknown =>
       IF c # Never /\ (s.sizing \/ s.written + c <= s.max)
       THEN r.ok /\ r.written = s.written + c
       ELSE ~r.ok

Call(s, r, c) == Grown(s, r) /\ Costing(s, r, c)

(* A stream is a stream, and its fields have their types.                  *)
LEMMA StreamType ==
    ASSUME NEW s \in Streams
    PROVE  /\ s.ok \in BOOLEAN /\ s.out \in Seq(0..255) /\ s.written \in Nat
           /\ s.max \in Nat /\ s.sizing \in BOOLEAN /\ Filled(s) \in Nat
<1>1. s.out \in Seq(0..255)
  BY DEF Streams
<1> QED
  BY <1>1, LenProperties DEF Streams, Filled, Count

LEMMA CostTypes == /\ \A C \in CostSets : C \subseteq AnyCost /\ 0 \in C
                   /\ \A C \in CostSets : \A c, d \in C : Plus(c, d) \in C
                   /\ \A c \in AnyCost : c \in Int
                   /\ \A c, d \in Nat : Plus(c, d) = c + d
<1>1. ASSUME NEW C \in CostSets PROVE C = Nat \/ C = Certain \/ C = AnyCost
  BY DEF CostSets
<1>2. \A c, d \in Nat : Plus(c, d) \in Nat /\ Plus(c, d) = c + d
  BY DEF Plus, Never, Unknown
<1>3. \A c, d \in Certain : Plus(c, d) \in Certain
  BY DEF Plus, Certain, Never, Unknown
<1>4. \A c, d \in AnyCost : Plus(c, d) \in AnyCost
  BY DEF Plus, Certain, AnyCost, Never, Unknown
<1>5. Nat \subseteq AnyCost /\ Certain \subseteq AnyCost /\ 0 \in Nat /\ 0 \in Certain /\ 0 \in AnyCost
  BY DEF Certain, AnyCost
<1>6. \A c \in AnyCost : c \in Int
  BY DEF Certain, AnyCost, Never, Unknown
<1>7. ASSUME NEW C \in CostSets PROVE C \subseteq AnyCost /\ 0 \in C
  BY <1>1, <1>5
<1>8. ASSUME NEW C \in CostSets, NEW c \in C, NEW d \in C PROVE Plus(c, d) \in C
  BY <1>1, <1>2, <1>3, <1>4
<1> QED
  BY <1>2, <1>6, <1>7, <1>8

(* One call after the other: the costs add up.                             *)
LEMMA CallThen ==
    ASSUME NEW s \in Streams, NEW t, NEW r, NEW c \in AnyCost, NEW d \in AnyCost,
           Call(s, t, c), Call(t, r, d)
    PROVE  Call(s, r, Plus(c, d)) /\ t \in Streams /\ r \in Streams
<1>1. t \in Streams /\ r \in Streams
  BY DEF Call, Grown
<1>2. Grown(s, r)
  <2>1. /\ s.written \in Nat /\ t.written \in Nat /\ r.written \in Nat
        /\ Filled(s) \in Nat /\ Filled(t) \in Nat /\ Filled(r) \in Nat /\ s.max \in Nat
    BY <1>1, StreamType
  <2>2. Grown(s, t) /\ Grown(t, r)
    BY DEF Call
  <2>3. /\ t.max = s.max /\ r.max = s.max
        /\ t.sizing <=> s.sizing
        /\ r.sizing <=> s.sizing
        /\ s.written <= r.written
    BY <2>1, <2>2 DEF Grown
  <2>4. ASSUME ~s.sizing PROVE Filled(r) + s.written = Filled(s) + r.written
    BY <2>1, <2>2, <2>3, <2>4 DEF Grown
  <2>5. ASSUME ~s.sizing, s.written <= s.max PROVE r.written <= s.max
    BY <2>2, <2>3, <2>5 DEF Grown
  <2> QED
    BY <1>1, <2>3, <2>4, <2>5 DEF Grown
<1>3. c \in Int /\ d \in Int /\ (c # Never /\ c # Unknown => c \in Nat)
        /\ (d # Never /\ d # Unknown => d \in Nat)
  BY DEF AnyCost, Certain, Never, Unknown
<1>4. Costing(s, r, Plus(c, d))
  <2>1. ~s.ok => ~r.ok
    BY DEF Call, Costing
  <2>2. ASSUME s.ok, s.sizing \/ s.written <= s.max, Plus(c, d) # Unknown
        PROVE  IF Plus(c, d) # Never /\ (s.sizing \/ s.written + Plus(c, d) <= s.max)
               THEN r.ok /\ r.written = s.written + Plus(c, d)
               ELSE ~r.ok
    <3>1. c # Unknown /\ d # Unknown
      BY <2>2 DEF Plus
    <3>2. t.max = s.max /\ (t.sizing <=> s.sizing)
      BY DEF Call, Grown
    <3>3. CASE c # Never /\ (s.sizing \/ s.written + c <= s.max)
      <4>1. t.ok /\ t.written = s.written + c
        BY <2>2, <3>1, <3>3 DEF Call, Costing
      <4>2. t.sizing \/ t.written <= t.max
        BY <3>2, <3>3, <4>1
      <4>3. IF d # Never /\ (s.sizing \/ s.written + c + d <= s.max)
            THEN r.ok /\ r.written = s.written + c + d ELSE ~r.ok
        BY <3>1, <3>2, <4>1, <4>2 DEF Call, Costing
      <4>4. CASE d = Never
        BY <3>1, <3>3, <4>3, <4>4 DEF Plus, Never, Unknown
      <4>5. CASE d # Never
        <5>1. Plus(c, d) = c + d /\ Plus(c, d) # Never
          BY <3>1, <3>3, <4>5, <1>3 DEF Plus, Never, Unknown
        <5> QED
          BY <1>3, <5>1, <4>3, <4>5, <1>1, StreamType
      <4> QED
        BY <4>4, <4>5
    <3>4. CASE ~ (c # Never /\ (s.sizing \/ s.written + c <= s.max))
      <4>1. ~t.ok
        BY <2>2, <3>1, <3>4 DEF Call, Costing
      <4>2. ~r.ok
        BY <4>1 DEF Call, Costing
      <4>3. Plus(c, d) = Never \/ (~s.sizing /\ ~ (s.written + Plus(c, d) <= s.max))
        BY <1>1, <1>3, <3>1, <3>4, StreamType DEF Plus, Never, Unknown
      <4> QED
        BY <4>2, <4>3
    <3> QED
      BY <3>3, <3>4
  <2> QED
    BY <2>1, <2>2 DEF Costing
<1> QED
  BY <1>1, <1>2, <1>4 DEF Call

LEMMA CallNone ==
    ASSUME NEW s \in Streams
    PROVE  Call(s, s, 0)
BY StreamType DEF Call, Grown, Costing, Never, Unknown

\* after a failure nothing more is done
LEMMA CallHalted ==
    ASSUME NEW s \in Streams, ~s.ok, NEW c
    PROVE  Call(s, s, c)
BY StreamType DEF Call, Grown, Costing

LEMMA CallFailed ==
    ASSUME NEW s \in Streams
    PROVE  Call(s, Failed(s), Never) /\ Failed(s) \in Streams
<1>1. Failed(s) \in Streams /\ Failed(s).max = s.max /\ (Failed(s).sizing <=> s.sizing)
        /\ Failed(s).written = s.written /\ Filled(Failed(s)) = Filled(s) /\ ~Failed(s).ok
  BY DEF Failed, Streams, Filled
<1> QED
  BY <1>1, StreamType DEF Call, Grown, Costing

\* a call of unknown cost
LEMMA CallUnknown ==
    ASSUME NEW s, NEW r, NEW c, Call(s, r, c)
    PROVE  Call(s, r, Unknown)
BY DEF Call, Costing

LEMMA CallSkip ==
    ASSUME NEW s \in Streams, s.sizing, s.ok, NEW n \in Nat
    PROVE  Call(s, Skip(s, n), n)
<1> DEFINE r == Skip(s, n)
<1> DEFINE w == s.written + n
<1>1. r = [s EXCEPT !.written = w]
  BY DEF Skip
<1>2. s.written \in Nat /\ w \in Nat /\ w = s.written + n
  BY StreamType
<1> HIDE DEF r, w
<1>3. /\ r \in Streams /\ r.max = s.max
      /\ r.sizing <=> s.sizing
      /\ r.ok <=> s.ok
      /\ r.written = w
  BY <1>1, <1>2 DEF Streams
<1>4. Grown(s, r)
  <2>1. s.written <= r.written
    BY <1>2, <1>3
  <2> QED
    BY <1>3, <2>1 DEF Grown
<1>5. n # Never /\ n # Unknown
  BY DEF Never, Unknown
<1>6. Costing(s, r, n)
  BY <1>2, <1>3, <1>5 DEF Costing
<1> QED
  BY <1>4, <1>6 DEF Call, r

LEMMA CallAdded ==
    ASSUME NEW s \in Streams, s.ok, NEW n \in Nat, NEW out \in Seq(0..255),
           ~s.sizing => Count(out) = Filled(s) + n,
           ~s.sizing => s.written + n <= s.max \/ n = 0
    PROVE  Call(s, [s EXCEPT !.written = s.written + n, !.out = out], n)
<1> DEFINE w == s.written + n
<1> DEFINE r == [s EXCEPT !.written = w, !.out = out]
<1>1. /\ s.max \in Nat /\ s.written \in Nat
      /\ Filled(s) \in Nat
      /\ w \in Nat
  BY StreamType
<1>2. r = [s EXCEPT !.written = w, !.out = out]
  OBVIOUS
<1>3. w = s.written + n
  OBVIOUS
<1> HIDE DEF w, r
<1>4. /\ r \in Streams /\ r.max = s.max
      /\ r.sizing <=> s.sizing
      /\ r.ok <=> s.ok
      /\ r.written = w /\ r.out = out
  BY <1>1, <1>2 DEF Streams
<1>5. ~s.sizing => Filled(r) = Filled(s) + n
  BY <1>4 DEF Filled
<1>6. Grown(s, r)
  <2>1. s.written <= r.written
    BY <1>1, <1>3, <1>4
  <2>2. ~s.sizing => Filled(r) + s.written = Filled(s) + r.written
    BY <1>1, <1>3, <1>4, <1>5
  <2>3. ~s.sizing /\ s.written <= s.max => r.written <= s.max
    BY <1>1, <1>3, <1>4
  <2> QED
    BY <1>4, <2>1, <2>2, <2>3 DEF Grown
<1>7. n # Never /\ n # Unknown
  BY DEF Never, Unknown
<1>8. s.sizing \/ s.written <= s.max => s.sizing \/ s.written + n <= s.max
  BY <1>1
<1>9. Costing(s, r, n)
  BY <1>3, <1>4, <1>7, <1>8 DEF Costing
<1> QED
  BY <1>6, <1>9 DEF Call, r, w

LEMMA CallWrite ==
    ASSUME NEW s \in Streams, NEW bytes \in Seq(0..255)
    PROVE  Call(s, pb_write(s, bytes), Len(bytes)) /\ Len(bytes) \in Nat
<1> DEFINE n == Len(bytes)
<1>0. n \in Nat /\ (bytes = <<>> => n = 0)
  BY LenProperties
<1>1. CASE ~s.ok
  BY <1>0, <1>1, CallHalted DEF pb_write
<1>2. CASE s.ok /\ ~s.sizing /\ bytes # <<>> /\ s.written + n > s.max
  <2>1. pb_write(s, bytes) = Failed(s)
    BY <1>2 DEF pb_write
  <2> HIDE DEF n
  <2>2. /\ Failed(s) \in Streams /\ Failed(s).max = s.max
        /\ Failed(s).sizing <=> s.sizing
        /\ Failed(s).written = s.written /\ Filled(Failed(s)) = Filled(s) /\ ~Failed(s).ok
    BY DEF Failed, Streams, Filled
  <2>3. Grown(s, Failed(s))
    BY <2>2, StreamType DEF Grown
  <2>4. s.written \in Nat /\ s.max \in Nat
    BY StreamType
  <2>5. ~s.sizing /\ ~ (s.written + n <= s.max)
    BY <1>0, <1>2, <2>4
  <2>6. Costing(s, Failed(s), n)
    BY <2>2, <2>5 DEF Costing
  <2> QED
    BY <1>0, <2>1, <2>3, <2>6 DEF Call, n
<1>3. CASE s.ok /\ ~ (~s.sizing /\ bytes # <<>> /\ s.written + n > s.max)
  <2> DEFINE out == IF s.sizing THEN s.out ELSE s.out \o bytes
  <2>1. pb_write(s, bytes) = [s EXCEPT !.written = s.written + n, !.out = out]
    BY <1>3 DEF pb_write
  <2>2. out \in Seq(0..255) /\ (~s.sizing => Count(out) = Filled(s) + n)
    BY StreamType, ConcatProperties DEF Filled, Count
  <2> HIDE DEF out, n
  <2>3. s.written \in Nat /\ s.max \in Nat
    BY StreamType
  <2>4. ~s.sizing => s.written + n <= s.max \/ n = 0
    BY <1>0, <1>3, <2>3
  <2>5. Call(s, [s EXCEPT !.written = s.written + n, !.out = out], n)
    BY <1>0, <1>3, <2>2, <2>4, CallAdded
  <2> QED
    BY <1>0, <2>1, <2>5 DEF n
<1> QED
  BY <1>1, <1>2, <1>3

LEMMA CallNoRoom ==
    ASSUME NEW s \in Streams, ~s.sizing, NEW n \in Nat, s.written + n > s.max
    PROVE  Call(s, Failed(s), n)
<1>1. /\ Failed(s) \in Streams /\ Failed(s).max = s.max
      /\ Failed(s).sizing <=> s.sizing
      /\ Failed(s).written = s.written /\ Filled(Failed(s)) = Filled(s) /\ ~Failed(s).ok
  BY DEF Failed, Streams, Filled
<1>2. Grown(s, Failed(s))
  BY <1>1, StreamType DEF Grown
<1>3. ~s.sizing /\ ~ (s.written + n <= s.max)
  BY StreamType
<1> QED
  BY <1>1, <1>2, <1>3 DEF Call, Costing

LEMMA GrownFailed ==
    ASSUME NEW s \in Streams, NEW r, Grown(s, r)
    PROVE  Grown(s, Failed(r)) /\ ~Failed(r).ok
<1>1. r \in Streams
  BY DEF Grown
<1>2. /\ Failed(r) \in Streams /\ Failed(r).max = r.max
      /\ Failed(r).sizing <=> r.sizing
      /\ Failed(r).written = r.written /\ Filled(Failed(r)) = Filled(r) /\ ~Failed(r).ok
  BY <1>1 DEF Failed, Streams, Filled
<1> QED
  BY <1>2 DEF Grown

----------------------------------------------------------------------------
\* what F does to a stream has one cost, on every stream
Sound(F, C) == /\ F \in [Streams -> Streams]
               /\ \E c \in C : \A s \in Streams : Call(s, F[s], c)

\* the streams f after each step of a loop over N steps
Run(f, steps, s, N) ==
  /\ f[0] = s /\ InTurn(steps, s) = f[N]
  /\ \A i \in 1..N : f[i] = IF f[i - 1].ok THEN steps[i][f[i - 1]] ELSE f[i - 1]

LEMMA InTurnRuns ==
    ASSUME NEW steps \in Seq([Streams -> Streams]), NEW s \in Streams, NEW N, N = Len(steps)
    PROVE  \E f \in [0..N -> Streams] : Run(f, steps, s, N)
<1> DEFINE Go(i, t) == IF t.ok THEN steps[i][t] ELSE t
<1> DEFINE G == [i \in 1..N |-> [t \in Streams |-> Go(i, t)]]
<1> DEFINE Is(h) == h = [i \in 0..N |-> IF i = 0 THEN s
                                         ELSE LET t == h[i - 1]
                                              IN IF t.ok THEN steps[i][t] ELSE t]
<1>1. N \in Nat
  BY LenProperties
<1>2. \A i \in 1..N : steps[i] \in [Streams -> Streams]
  OBVIOUS
<1>3. \A i \in 1..N, t \in Streams : Go(i, t) \in Streams
  BY <1>2
<1> HIDE DEF Go
<1>4. G \in [1..N -> [Streams -> Streams]]
  BY <1>3
<1>5. \A i \in 1..N, t \in Streams : G[i][t] = Go(i, t)
  OBVIOUS
<1> HIDE DEF G
<1>6. PICK f \in [0..N -> Streams] : Made(f, s, G, N)
  BY <1>1, <1>4, Iterated
<1>7. f[0] = s
  BY <1>6 DEF Made
<1>8. ASSUME NEW i \in 1..N PROVE f[i] = Go(i, f[i - 1])
  <2>1. i - 1 \in 0..N
    BY <1>1
  <2> QED
    BY <1>5, <1>6, <2>1 DEF Made
<1>9. \A i \in 0..N : f[i] = IF i = 0 THEN s ELSE Go(i, f[i - 1])
  <2> TAKE i \in 0..N
  <2>1. i = 0 \/ i \in 1..N
    BY <1>1
  <2>2. i \in 1..N => i # 0
    BY <1>1
  <2> QED
    BY <1>7, <1>8, <2>1, <2>2
<1>10. Is(f)
  BY <1>9 DEF Go
<1>11. Is(CHOOSE h : Is(h))
  BY <1>10
<1> DEFINE h == CHOOSE h : Is(h)
<1>12. InTurn(steps, s) = h[N]
  BY DEF InTurn
<1> HIDE DEF h
<1>13. DOMAIN h = 0..N /\ \A i \in 0..N : h[i] = IF i = 0 THEN s ELSE Go(i, h[i - 1])
  BY <1>11 DEF h, Go
<1> HIDE DEF Is
<1>14. \A i \in 0..N : i \in {k \in 0..N : h[k] = f[k]}
  <2> DEFINE P == {k \in 0..N : h[k] = f[k]}
  <2>1. 0 \in P
    BY <1>1, <1>7, <1>13
  <2>2. ASSUME NEW i \in 1..N, i - 1 \in P PROVE i \in P
    BY <1>1, <1>8, <1>13, <2>2
  <2> HIDE DEF P
  <2>3. \A i \in 0..N : i \in P
    BY <1>1, <2>1, <2>2, Upto
  <2> QED
    BY <2>3 DEF P
<1>15. h[N] = f[N]
  BY <1>1, <1>14
<1> QED
  BY <1>7, <1>8, <1>12, <1>15 DEF Go, Run

(* The cost of a loop is the total of its steps'.                          *)
LEMMA InTurnTotal ==
    ASSUME NEW steps \in Seq([Streams -> Streams]), NEW N, N = Len(steps),
           NEW each \in [1..N -> AnyCost], NEW total \in [0..N -> AnyCost], total[0] = 0,
           \A i \in 1..N : total[i] = Plus(total[i - 1], each[i]),
           \A i \in 1..N : \A s \in Streams : Call(s, steps[i][s], each[i]),
           NEW s \in Streams
    PROVE  Call(s, InTurn(steps, s), total[N])
<1>1. N \in Nat
  BY LenProperties
<1>0. PICK f \in [0..N -> Streams] : Run(f, steps, s, N)
  BY InTurnRuns
<1>2. /\ f[0] = s /\ InTurn(steps, s) = f[N]
      /\ \A i \in 1..N : f[i] = IF f[i - 1].ok THEN steps[i][f[i - 1]] ELSE f[i - 1]
  BY <1>0 DEF Run
<1> DEFINE P == {i \in 0..N : Call(s, f[i], total[i])}
<1>3. 0 \in P
  BY <1>1, <1>2, CallNone
<1>4. ASSUME NEW i \in 1..N, i - 1 \in P PROVE i \in P
  <2>1. i - 1 \in 0..N /\ Call(s, f[i - 1], total[i - 1]) /\ i \in 0..N
    BY <1>1, <1>4
  <2>2. f[i - 1] \in Streams /\ total[i - 1] \in AnyCost /\ each[i] \in AnyCost
    BY <2>1
  <2>3. Call(f[i - 1], f[i], each[i])
    <3>1. CASE f[i - 1].ok
      BY <1>2, <2>2, <3>1
    <3>2. CASE ~f[i - 1].ok
      BY <1>2, <2>2, <3>2, CallHalted
    <3> QED
      BY <3>1, <3>2
  <2>4. Call(s, f[i], Plus(total[i - 1], each[i]))
    BY <2>1, <2>2, <2>3, CallThen
  <2> QED
    BY <2>1, <2>4
<1> HIDE DEF P
<1>5. N \in P
  <2>1. N \in 0..N
    BY <1>1
  <2> QED
    BY <1>1, <1>3, <1>4, <2>1, Upto
<1> QED
  BY <1>2, <1>5 DEF P

(* A loop over sound steps is sound.                                       *)
LEMMA InTurnSound ==
    ASSUME NEW C \in CostSets, NEW steps \in Seq([Streams -> Streams]),
           \A i \in 1..Len(steps) : Sound(steps[i], C)
    PROVE  \E c \in C : \A s \in Streams : Call(s, InTurn(steps, s), c)
<1> DEFINE N == Len(steps)
<1> DEFINE Costs(i, c) == \A s \in Streams : Call(s, steps[i][s], c)
<1> DEFINE each == [i \in 1..N |-> CHOOSE c \in C : Costs(i, c)]
<1> DEFINE H == [i \in 1..N |-> [c \in C |-> Plus(c, each[i])]]
<1>0. N = Len(steps)
  OBVIOUS
<1>1. N \in Nat
  BY LenProperties
<1> HIDE DEF N
<1>2. \A i \in 1..N : \E c \in C : Costs(i, c)
  BY DEF Sound, N
<1> HIDE DEF Costs
<1>3. \A i \in 1..N : each[i] \in C /\ Costs(i, each[i])
  BY <1>2
<1>4. each \in [1..N -> C]
  BY <1>3
<1> HIDE DEF each
<1>5. C \subseteq AnyCost /\ 0 \in C /\ \A c, d \in C : Plus(c, d) \in C
  BY CostTypes
<1>6. H \in [1..N -> [C -> C]] /\ \A i \in 1..N, c \in C : H[i][c] = Plus(c, each[i])
  BY <1>3, <1>5
<1> HIDE DEF H
<1>7. PICK total \in [0..N -> C] : Made(total, 0, H, N)
  BY <1>1, <1>5, <1>6, Iterated
<1>8. total[0] = 0
  BY <1>7 DEF Made
<1>9. ASSUME NEW i \in 1..N PROVE total[i] = Plus(total[i - 1], each[i])
  <2>1. i - 1 \in 0..N
    BY <1>1
  <2> QED
    BY <1>6, <1>7, <2>1 DEF Made
<1>10. total \in [0..N -> AnyCost] /\ each \in [1..N -> AnyCost]
  BY <1>4, <1>5, <1>7
<1>11. \A i \in 1..N : \A s \in Streams : Call(s, steps[i][s], each[i])
  BY <1>3 DEF Costs
<1>12. \A s \in Streams : Call(s, InTurn(steps, s), total[N])
  BY <1>0, <1>8, <1>9, <1>10, <1>11, InTurnTotal
<1>13. total[N] \in C
  BY <1>1, <1>7
<1> QED
  BY <1>12, <1>13

(* A loop whose steps keep within a budget does.                           *)
LEMMA InTurnWithin ==
    ASSUME NEW steps \in Seq([Streams -> Streams]), NEW N, N = Len(steps),
           NEW B \in [0..N -> Nat], B[0] = 0,
           \A i \in 1..N : \E c \in Nat : /\ B[i - 1] + c <= B[i]
                                         /\ \A s \in Streams : Call(s, steps[i][s], c)
    PROVE  \E c \in 0..B[N] : \A s \in Streams : Call(s, InTurn(steps, s), c)
<1> DEFINE Costs(i, c) == B[i - 1] + c <= B[i] /\ \A s \in Streams : Call(s, steps[i][s], c)
<1> DEFINE each == [i \in 1..N |-> CHOOSE c \in Nat : Costs(i, c)]
<1> DEFINE H == [i \in 1..N |-> [c \in Nat |-> c + each[i]]]
<1>1. N \in Nat
  BY LenProperties
<1>2. \A i \in 1..N : \E c \in Nat : Costs(i, c)
  OBVIOUS
<1> HIDE DEF Costs
<1>3. \A i \in 1..N : each[i] \in Nat /\ Costs(i, each[i])
  BY <1>2
<1>4. each \in [1..N -> Nat]
  BY <1>3
<1> HIDE DEF each
<1>5. H \in [1..N -> [Nat -> Nat]] /\ \A i \in 1..N, c \in Nat : H[i][c] = c + each[i]
  BY <1>3
<1> HIDE DEF H
<1>6. PICK total \in [0..N -> Nat] : Made(total, 0, H, N)
  BY <1>1, <1>5, Iterated
<1>7. total[0] = 0
  BY <1>6 DEF Made
<1>8. ASSUME NEW i \in 1..N PROVE i - 1 \in 0..N /\ i \in 0..N /\ total[i] = total[i - 1] + each[i]
  <2>1. i - 1 \in 0..N /\ i \in 0..N
    BY <1>1
  <2> QED
    BY <1>5, <1>6, <2>1 DEF Made
<1>9. ASSUME NEW i \in 1..N PROVE total[i] = Plus(total[i - 1], each[i])
  <2>1. total[i - 1] \in Nat /\ each[i] \in Nat
    BY <1>3, <1>6, <1>8
  <2> QED
    BY <1>8, <2>1, CostTypes
<1>10. total \in [0..N -> AnyCost] /\ each \in [1..N -> AnyCost]
  BY <1>4, <1>6 DEF AnyCost, Certain
<1>11. \A i \in 1..N : \A s \in Streams : Call(s, steps[i][s], each[i])
  BY <1>3 DEF Costs
<1>12. \A s \in Streams : Call(s, InTurn(steps, s), total[N])
  BY <1>7, <1>9, <1>10, <1>11, InTurnTotal
<1>13. \A i \in 1..N : B[i - 1] + each[i] <= B[i]
  BY <1>3 DEF Costs
<1> DEFINE P == {i \in 0..N : total[i] <= B[i]}
<1>14. 0 \in P
  BY <1>1, <1>7
<1>15. ASSUME NEW i \in 1..N, i - 1 \in P PROVE i \in P
  <2>1. i - 1 \in 0..N /\ i \in 0..N /\ total[i - 1] <= B[i - 1]
    BY <1>8, <1>15
  <2>2. total[i - 1] \in Nat /\ B[i - 1] \in Nat /\ B[i] \in Nat /\ each[i] \in Nat
    BY <1>3, <1>6, <2>1
  <2> QED
    BY <1>8, <1>13, <2>1, <2>2
<1> HIDE DEF P
<1>16. N \in P
  <2>1. N \in 0..N
    BY <1>1
  <2> QED
    BY <1>1, <1>14, <1>15, <2>1, Upto
<1>17. total[N] \in 0..B[N]
  <2>1. N \in 0..N /\ total[N] <= B[N]
    BY <1>16 DEF P
  <2>2. total[N] \in Nat /\ B[N] \in Nat
    BY <1>6, <2>1
  <2> QED
    BY <2>1, <2>2
<1> QED
  BY <1>12, <1>17

----------------------------------------------------------------------------
Numbers == [1..GroupCount -> 0..127]

(* A number of 32 bits is groups of seven.                                 *)
LEMMA GroupsType ==
    ASSUME NEW n \in Nat
    PROVE  Groups(n) \in Numbers
<1> DEFINE a == n % 128
<1> DEFINE b == (n \div 128) % 128
<1> DEFINE c == (n \div 16384) % 128
<1> DEFINE d == (n \div 2097152) % 128
<1> DEFINE e == (n \div 268435456) % 16
<1>0. \A k \in Nat : k % 128 \in 0..127 /\ k % 16 \in 0..127
  OBVIOUS
<1>1. \A k : k \in Nat /\ k > 0 => n \div k \in Nat
  OBVIOUS
<1>2. a \in 0..127 /\ b \in 0..127 /\ c \in 0..127 /\ d \in 0..127 /\ e \in 0..127
  BY <1>0, <1>1
<1>3. Groups(n) = [NoBits EXCEPT ![1] = a, ![2] = b, ![3] = c, ![4] = d, ![5] = e]
  BY DEF Groups
<1> HIDE DEF a, b, c, d, e
<1>4. NoBits \in Numbers
  BY DEF NoBits, Numbers
<1> QED
  BY <1>2, <1>3, <1>4 DEF Numbers

(* The bytes of a varint: as many as it has groups.                        *)
LEMMA VarintBytes ==
    ASSUME NEW g \in Numbers
    PROVE  \E bytes \in Seq(0..255) :
             /\ Len(bytes) \in 0..10
             /\ \A s \in Streams : pb_encode_varint_32(s, g) = pb_write(s, bytes)
<1> DEFINE Topmost(i) == (i = 1 \/ g[i] # 0) /\ \A j \in (i+1)..GroupCount : g[j] = 0
<1> DEFINE S == {k \in 0..9 : 10 - k = 1 \/ g[10 - k] # 0}
<1>1. \E i \in 1..GroupCount : Topmost(i)
  <2>1. 9 \in S /\ S \subseteq Nat
    OBVIOUS
  <2>2. PICK k \in S : \A t \in S : k <= t
    BY <2>1, LeastOf
  <2>3. 10 - k \in 1..GroupCount /\ (10 - k = 1 \/ g[10 - k] # 0)
    BY <2>2 DEF GroupCount
  <2>4. ASSUME NEW j \in (10 - k + 1)..GroupCount PROVE g[j] = 0
    <3>1. 10 - j \in 0..9 /\ 10 - (10 - j) = j /\ 10 - j < k
      BY <2>2 DEF GroupCount
    <3>2. 10 - j \notin S
      BY <2>2, <3>1
    <3>3. ~ (10 - (10 - j) = 1 \/ g[10 - (10 - j)] # 0)
      BY <3>1, <3>2
    <3> QED
      BY <3>1, <3>3
  <2> QED
    BY <2>3, <2>4
<1> DEFINE top == CHOOSE i \in 1..GroupCount : Topmost(i)
<1> DEFINE bytes == [i \in 1..top |-> g[i] + IF i < top THEN 128 ELSE 0]
<1>2. top \in 1..GroupCount
  BY <1>1
<1>3. \A s : pb_encode_varint_32(s, g) = pb_write(s, bytes)
  BY DEF pb_encode_varint_32
<1> HIDE DEF top
<1>4. \A i \in 1..top : g[i] + (IF i < top THEN 128 ELSE 0) \in 0..255
  <2> TAKE i \in 1..top
  <2>1. g[i] \in 0..127
    BY <1>2 DEF Numbers, GroupCount
  <2> QED
    BY <2>1
<1>5. top \in Nat
  BY <1>2 DEF GroupCount
<1>6. bytes \in Seq(0..255)
  BY <1>4, <1>5, IsASeq
<1>7. DOMAIN bytes = 1..top
  OBVIOUS
<1> HIDE DEF bytes
<1>8. Len(bytes) \in 0..10
  <2>1. Len(bytes) = top
    BY <1>5, <1>6, <1>7, LenProperties
  <2> QED
    BY <1>2, <2>1 DEF GroupCount
<1> QED
  BY <1>3, <1>6, <1>8

LEMMA VarintWithin ==
    ASSUME NEW g \in Numbers
    PROVE  \E c \in 0..10 : \A s \in Streams : Call(s, pb_encode_varint(s, g), c)
<1>1. CASE g = Groups(g[1])
  <2>1. g[1] \in 0..255
    BY DEF Numbers, GroupCount
  <2> DEFINE b == <<g[1]>>
  <2>2. b \in Seq(0..255)
    BY <2>1
  <2>3. \A s \in Streams : pb_encode_varint(s, g) = pb_write(s, b)
    BY <1>1 DEF pb_encode_varint
  <2>4. Len(b) \in 0..10
    OBVIOUS
  <2> HIDE DEF b
  <2> QED
    BY <2>2, <2>3, <2>4, CallWrite
<1>2. CASE g # Groups(g[1])
  <2>1. PICK bytes \in Seq(0..255) :
          /\ Len(bytes) \in 0..10
          /\ \A s \in Streams : pb_encode_varint_32(s, g) = pb_write(s, bytes)
    BY VarintBytes
  <2>2. \A s \in Streams : pb_encode_varint(s, g) = pb_write(s, bytes)
    BY <1>2, <2>1 DEF pb_encode_varint
  <2> QED
    BY <2>1, <2>2, CallWrite
<1> QED
  BY <1>1, <1>2

LEMMA CallVarint ==
    ASSUME NEW g \in Numbers
    PROVE  \E c \in Nat : \A s \in Streams : Call(s, pb_encode_varint(s, g), c)
BY VarintWithin

LEMMA CallSvarint ==
    ASSUME NEW g \in Numbers
    PROVE  \E c \in Nat : \A s \in Streams : Call(s, pb_encode_svarint(s, g), c)
<1> DEFINE d == Doubled(g)
<1>1. \A i \in 1..GroupCount : AllBits[i] = IF i = GroupCount THEN 1 ELSE 127
  BY DEF AllBits
<1>2. \A i \in 1..GroupCount : d[i] = ((2 * g[i]) % (AllBits[i] + 1))
                                      + (IF i = 1 THEN 0 ELSE g[i - 1] \div 64)
  BY DEF Doubled
<1>3. DOMAIN d = 1..GroupCount /\ d = [i \in 1..GroupCount |-> d[i]]
  BY DEF Doubled
<1> HIDE DEF d
<1>4. \A k \in 0..127 : /\ (2 * k) % 128 \in 0..126
                        /\ (2 * k) % 2 = 0
                        /\ k \div 64 \in 0..1
  OBVIOUS
<1>5. ASSUME NEW i \in 1..GroupCount PROVE d[i] \in 0..AllBits[i] /\ AllBits[i] \in 0..127
  <2>1. i \in 1..10 /\ g[i] \in 0..127
    BY DEF Numbers, GroupCount
  <2>2. (IF i = 1 THEN 0 ELSE g[i - 1] \div 64) \in 0..1
    <3>1. i # 1 => g[i - 1] \in 0..127
      BY <2>1 DEF Numbers, GroupCount
    <3> QED
      BY <1>4, <3>1
  <2> DEFINE carry == IF i = 1 THEN 0 ELSE g[i - 1] \div 64
  <2>3. d[i] = ((2 * g[i]) % (AllBits[i] + 1)) + carry
    BY <1>2
  <2>4. carry \in 0..1
    BY <2>2
  <2> HIDE DEF carry
  <2>5. CASE i = GroupCount
    <3>1. AllBits[i] = 1 /\ AllBits[i] + 1 = 2
      BY <1>1, <2>5
    <3> QED
      BY <1>4, <2>1, <2>3, <2>4, <3>1
  <2>6. CASE i # GroupCount
    <3>1. AllBits[i] = 127 /\ AllBits[i] + 1 = 128
      BY <1>1, <2>6
    <3> QED
      BY <1>4, <2>1, <2>3, <2>4, <3>1
  <2> QED
    BY <2>5, <2>6
<1>6. d \in Numbers
  <2>1. ASSUME NEW i \in 1..GroupCount PROVE d[i] \in 0..127
    <3> DEFINE a == AllBits[i]
    <3>1. a \in 0..127 /\ d[i] \in 0..a
      BY <1>5
    <3> HIDE DEF a
    <3> QED
      BY <3>1
  <2> QED
    BY <1>3, <2>1 DEF Numbers
<1>7. Complement(d) \in Numbers
  <2>1. ASSUME NEW i \in 1..GroupCount PROVE AllBits[i] - d[i] \in 0..127
    <3> DEFINE a == AllBits[i]
    <3>1. a \in 0..127 /\ d[i] \in 0..a
      BY <1>5
    <3> HIDE DEF a
    <3>2. a - d[i] \in 0..127
      BY <3>1
    <3> QED
      BY <3>2 DEF a
  <2> QED
    BY <2>1 DEF Complement, Numbers
<1>8. \A s : pb_encode_svarint(s, g) = pb_encode_varint(s, IF TopBit(g) THEN Complement(d) ELSE d)
  BY DEF pb_encode_svarint, d
<1>9. CASE TopBit(g)
  BY <1>7, <1>8, <1>9, CallVarint
<1>10. CASE ~TopBit(g)
  BY <1>6, <1>8, <1>10, CallVarint
<1> QED
  BY <1>9, <1>10

----------------------------------------------------------------------------
(* Two calls, the second made only when the first succeeded.               *)
LEMMA CallIfOk ==
    ASSUME NEW s \in Streams, NEW t, NEW r, NEW c \in AnyCost, NEW d \in AnyCost,
           Call(s, t, c), ~t.ok => r = t, t.ok => Call(t, r, d)
    PROVE  Call(s, r, Plus(c, d))
<1>1. t \in Streams
  BY DEF Call, Grown
<1>2. Call(t, r, d)
  BY <1>1, CallHalted
<1> QED
  BY <1>2, CallThen

LEMMA NatCosts == /\ Nat \in CostSets /\ Nat \subseteq Certain /\ Nat \subseteq AnyCost
                  /\ Certain \in CostSets /\ Certain \subseteq AnyCost /\ Never \in Certain
                  /\ AnyCost \in CostSets /\ Never \in AnyCost /\ Unknown \in AnyCost
BY DEF CostSets, Certain, AnyCost

LEMMA CallTag ==
    ASSUME NEW wiretype \in Nat, NEW tag \in Nat
    PROVE  \E c \in Nat : \A s \in Streams : Call(s, pb_encode_tag(s, wiretype, tag), c)
<1> DEFINE g == Groups(tag * 8 + wiretype)
<1>1. tag * 8 + wiretype \in Nat
  OBVIOUS
<1>2. g \in Numbers
  BY <1>1, GroupsType
<1>3. \A s : pb_encode_tag(s, wiretype, tag) = pb_encode_varint(s, g)
  BY DEF pb_encode_tag
<1> HIDE DEF g
<1> QED
  BY <1>2, <1>3, CallVarint

LEMMA CallTagForField ==
    ASSUME NEW f, f.tag \in Nat
    PROVE  \E c \in Nat : \A s \in Streams : Call(s, pb_encode_tag_for_field(s, f), c)
<1>1. WireTypeOf(f.type) \in Nat
  BY DEF WireTypeOf, WT_VARINT, WT_32BIT, WT_64BIT, WT_STRING
<1> QED
  BY <1>1, CallTag DEF pb_encode_tag_for_field

LEMMA CallString ==
    ASSUME NEW bytes \in Seq(0..255)
    PROVE  \E c \in Nat : \A s \in Streams : Call(s, pb_encode_string(s, bytes), c)
<1> DEFINE g == Groups(Len(bytes))
<1> DEFINE n == Len(bytes)
<1>1. n \in Nat /\ g \in Numbers
  BY LenProperties, GroupsType
<1>2. \A s : pb_encode_string(s, bytes) = pb_write(pb_encode_varint(s, g), bytes)
  BY DEF pb_encode_string
<1> HIDE DEF g
<1>3. PICK c \in Nat : \A s \in Streams : Call(s, pb_encode_varint(s, g), c)
  BY <1>1, CallVarint
<1>4. \A t \in Streams : Call(t, pb_write(t, bytes), n)
  BY CallWrite
<1> HIDE DEF n
<1>5. ASSUME NEW s \in Streams PROVE Call(s, pb_encode_string(s, bytes), Plus(c, n))
  <2>1. Call(s, pb_encode_varint(s, g), c)
    BY <1>3
  <2>2. pb_encode_varint(s, g) \in Streams
    BY <2>1 DEF Call, Grown
  <2>3. Call(pb_encode_varint(s, g), pb_write(pb_encode_varint(s, g), bytes), n)
    BY <1>4, <2>2
  <2> QED
    BY <1>1, <1>2, <2>1, <2>3, CallThen, NatCosts
<1>6. Plus(c, n) \in Nat
  BY <1>1, CostTypes, NatCosts
<1> QED
  BY <1>5, <1>6

(* A value of a number type has a cost.                                    *)
LEMMA CallScalar ==
    ASSUME NEW f, NEW v, f.type \in Packable, FitsType(f, v)
    PROVE  \E c \in Nat : \A s \in Streams : Call(s, EncodeScalar(s, f, v), c)
<1>1. CASE f.type = "bool"
  <2> DEFINE g == Groups(IF v THEN 1 ELSE 0)
  <2>1. g \in Numbers
    BY GroupsType
  <2>2. \A s : EncodeScalar(s, f, v) = pb_encode_varint(s, g)
    BY <1>1 DEF EncodeScalar, pb_enc_bool
  <2> HIDE DEF g
  <2> QED
    BY <2>1, <2>2, CallVarint
<1>2. CASE f.type \in Varints \ {"bool"}
  <2>1. v \in Numbers
    BY <1>2 DEF FitsType, Numbers, Varints
  <2>2. \A s : EncodeScalar(s, f, v) = pb_enc_varint(s, f, v)
    BY <1>2 DEF EncodeScalar, Varints
  <2>3. CASE f.type = "svarint"
    BY <2>1, <2>2, <2>3, CallSvarint DEF pb_enc_varint
  <2>4. CASE f.type # "svarint"
    BY <2>1, <2>2, <2>4, CallVarint DEF pb_enc_varint
  <2> QED
    BY <2>3, <2>4
<1>3. CASE f.type \in {"fixed32", "fixed64"}
  <2>1. v \in Seq(0..255)
    BY <1>3 DEF FitsType, Varints
  <2>2. \A s : EncodeScalar(s, f, v) = pb_write(s, v)
    BY <1>3 DEF EncodeScalar, pb_enc_fixed
  <2> QED
    BY <2>1, <2>2, CallWrite
<1> QED
  BY <1>1, <1>2, <1>3 DEF Packable

Encoders == [Structs -> [Streams -> Streams]]

LEMMA BufferStream ==
    ASSUME NEW n \in Nat
    PROVE  LET b == pb_ostream_from_buffer(n)
           IN  /\ b \in Streams /\ b.ok /\ ~b.sizing /\ b.written = 0 /\ b.max = n
               /\ Filled(b) = 0
<1>1. <<>> \in Seq(0..255) /\ Len(<<>>) = 0
  OBVIOUS
<1> QED
  BY <1>1 DEF pb_ostream_from_buffer, Streams, Filled, Count

LEMMA SizingStream ==
    /\ PB_OSTREAM_SIZING \in Streams /\ PB_OSTREAM_SIZING.ok /\ PB_OSTREAM_SIZING.sizing
    /\ PB_OSTREAM_SIZING.written = 0
<1> DEFINE b == pb_ostream_from_buffer(0)
<1>1. b \in Streams /\ b.ok /\ b.written = 0
  BY BufferStream
<1>2. PB_OSTREAM_SIZING = [b EXCEPT !.sizing = TRUE]
  BY DEF PB_OSTREAM_SIZING
<1> HIDE DEF b
<1> QED
  BY <1>1, <1>2 DEF Streams

\* what an encoder counts on the sizing stream is its cost
LEMMA Sized ==
    ASSUME NEW c \in AnyCost, NEW r, Call(PB_OSTREAM_SIZING, r, c)
    PROVE  /\ r \in Streams /\ r.written \in Nat
           /\ c # Unknown => IF c = Never THEN ~r.ok ELSE r.ok /\ r.written = c
<1>1. r \in Streams
  BY DEF Call, Grown
<1>2. c # Unknown /\ c # Never => c \in Nat
  BY DEF AnyCost, Certain
<1> QED
  BY <1>1, <1>2, StreamType, SizingStream DEF Call, Costing

(* The second pass of a submessage, on the stream it borrows.              *)
LEMMA SecondPass ==
    ASSUME NEW t \in Streams, t.ok, ~t.sizing, NEW n \in Nat, ~ (t.written + n > t.max),
           NEW c \in AnyCost, c = Unknown \/ c = n,
           NEW sub, Call([t EXCEPT !.max = n, !.written = 0], sub, c)
    PROVE  LET done == [sub EXCEPT !.written = t.written + @, !.max = t.max]
           IN  Call(t, IF sub.written # n THEN Failed(done) ELSE done, c)
<1> DEFINE u == [t EXCEPT !.max = n, !.written = 0]
<1> DEFINE w == t.written + sub.written
<1> DEFINE done == [sub EXCEPT !.written = w, !.max = t.max]
<1>1. u = [t EXCEPT !.max = n, !.written = 0]
  OBVIOUS
<1>2. done = [sub EXCEPT !.written = w, !.max = t.max]
  OBVIOUS
<1>3. w = t.written + sub.written
  OBVIOUS
<1>4. Call(u, sub, c)
  OBVIOUS
<1>5. [sub EXCEPT !.written = t.written + @, !.max = t.max] = done
  OBVIOUS
<1>6. SUFFICES Call(t, IF sub.written # n THEN Failed(done) ELSE done, c)
  BY <1>5
<1> HIDE DEF u, w, done
<1>7. /\ u \in Streams /\ u.max = n /\ u.written = 0 /\ ~u.sizing /\ u.ok
      /\ Filled(u) = Filled(t)
  BY <1>1 DEF Streams, Filled
<1>8. /\ sub \in Streams /\ sub.max = n /\ ~sub.sizing
      /\ Filled(sub) + 0 = Filled(t) + sub.written
      /\ sub.written <= n
  BY <1>4, <1>7 DEF Call, Grown
<1>9. /\ t.written \in Nat /\ t.max \in Nat
      /\ Filled(t) \in Nat /\ Filled(sub) \in Nat /\ sub.written \in Nat /\ w \in Nat
  BY <1>3, <1>8, StreamType
<1>10. /\ done \in Streams /\ done.max = t.max /\ ~done.sizing
       /\ done.ok <=> sub.ok
       /\ done.written = w
       /\ Filled(done) = Filled(sub)
  BY <1>2, <1>8, <1>9 DEF Streams, Filled
<1>11. Grown(t, done)
  <2>1. t.written <= done.written /\ done.written <= t.max
    BY <1>3, <1>8, <1>9, <1>10
  <2>2. Filled(done) + t.written = Filled(t) + done.written
    BY <1>3, <1>8, <1>9, <1>10
  <2> QED
    BY <1>10, <2>1, <2>2 DEF Grown
<1>12. Grown(t, Failed(done)) /\ ~Failed(done).ok
  BY <1>11, GrownFailed
<1>13. CASE c = Unknown
  BY <1>11, <1>12, <1>13 DEF Call, Costing
<1>14. CASE c # Unknown
  <2>1. c = n /\ n # Never
    BY <1>14 DEF Never
  <2>2. sub.ok /\ sub.written = n
    BY <1>4, <1>7, <1>9, <1>14, <2>1 DEF Call, Costing
  <2>3. done.ok /\ done.written = t.written + n /\ t.written + n <= t.max
    BY <1>3, <1>9, <1>10, <2>2
  <2> QED
    BY <1>11, <2>1, <2>2, <2>3 DEF Call, Costing
<1> QED
  BY <1>13, <1>14

(* A submessage: the sizing pass, its size, and the second pass.           *)
LEMMA SubmessageCost ==
    ASSUME NEW p, NEW enc, NEW c \in AnyCost, \A s \in Streams : Call(s, enc[p][s], c),
           NEW sized, sized = enc[p][PB_OSTREAM_SIZING], sized.ok,
           NEW l \in Nat,
           \A s \in Streams : Call(s, pb_encode_varint(s, Groups(sized.written)), l),
           NEW s \in Streams
    PROVE  Call(s, pb_encode_submessage(s, p, enc), Plus(l, c))
<1> DEFINE n == sized.written
<1> DEFINE g == Groups(n)
<1>1. \A t \in Streams : Call(t, enc[p][t], c)
  OBVIOUS
<1>2. /\ n \in Nat
      /\ c # Unknown => IF c = Never THEN ~sized.ok ELSE sized.ok /\ n = c
  BY SizingStream, Sized
<1> DEFINE held(t, sub) ==
             LET done == [sub EXCEPT !.written = t.written + @, !.max = t.max]
             IN  IF sub.written # n THEN Failed(done) ELSE done
<1> DEFINE second(t) ==
             IF ~t.ok THEN t
             ELSE IF t.sizing THEN Skip(t, n)
             ELSE IF t.written + n > t.max THEN Failed(t)
             ELSE held(t, enc[p][[t EXCEPT !.max = n, !.written = 0]])
<1>4. \A r : pb_encode_submessage(r, p, enc) =
               IF ~sized.ok THEN Failed(r) ELSE second(pb_encode_varint(r, g))
  BY DEF pb_encode_submessage
<1>5. ASSUME NEW t \in Streams, t.ok, ~t.sizing, ~ (t.written + n > t.max), c = Unknown \/ c = n
      PROVE  Call(t, held(t, enc[p][[t EXCEPT !.max = n, !.written = 0]]), c)
  <2> DEFINE u == [t EXCEPT !.max = n, !.written = 0]
  <2>1. u \in Streams
    BY <1>2 DEF Streams
  <2>2. Call(u, enc[p][u], c)
    BY <1>1, <2>1
  <2> DEFINE sub == enc[p][u]
  <2>3. Call([t EXCEPT !.max = n, !.written = 0], sub, c)
    BY <2>2
  <2> HIDE DEF sub, n
  <2>4. Call(t, held(t, sub), c)
    BY <1>2, <1>5, <2>3, SecondPass
  <2> QED
    BY <2>4 DEF sub
<1> HIDE DEF held
<1>6. c = Unknown \/ c = n
  BY <1>2
<1>7. \A r \in Streams : Call(r, pb_encode_varint(r, g), l)
  OBVIOUS
<1> HIDE DEF n
<1>8. ASSUME NEW t \in Streams, t.ok PROVE Call(t, second(t), c)
  <2>1. CASE t.sizing
    <3>1. Call(t, Skip(t, n), n)
      BY <1>2, <1>8, <2>1, CallSkip
    <3> QED
      BY <1>6, <1>8, <2>1, <3>1, CallUnknown
  <2>2. CASE ~t.sizing /\ t.written + n > t.max
    <3>1. Call(t, Failed(t), n)
      BY <1>2, <1>8, <2>2, CallNoRoom
    <3> QED
      BY <1>6, <1>8, <2>2, <3>1, CallUnknown
  <2>3. CASE ~t.sizing /\ ~ (t.written + n > t.max)
    BY <1>5, <1>6, <1>8, <2>3
  <2> QED
    BY <2>1, <2>2, <2>3
<1>9. \A t : ~t.ok => second(t) = t
  OBVIOUS
<1>10. pb_encode_submessage(s, p, enc) = second(pb_encode_varint(s, g))
  BY <1>4
<1> HIDE DEF second, g
<1> DEFINE t == pb_encode_varint(s, g)
<1>11. Call(s, t, l) /\ t \in Streams
  BY <1>7 DEF Call, Grown
<1> HIDE DEF t
<1>12. ~t.ok => second(t) = t
  BY <1>9
<1>13. t.ok => Call(t, second(t), c)
  BY <1>8, <1>11
<1>14. Call(s, second(t), Plus(l, c))
  BY <1>11, <1>12, <1>13, CallIfOk, NatCosts
<1> QED
  BY <1>10, <1>14 DEF t

LEMMA CallSubmessage ==
    ASSUME NEW C \in {Certain, AnyCost}, NEW p, NEW enc, Sound(enc[p], C)
    PROVE  \E d \in C : \A s \in Streams : Call(s, pb_encode_submessage(s, p, enc), d)
<1> DEFINE sized == enc[p][PB_OSTREAM_SIZING]
<1>0. C \subseteq AnyCost /\ C \in CostSets /\ Never \in C /\ Nat \subseteq C
  BY NatCosts
<1>1. PICK c \in C : \A s \in Streams : Call(s, enc[p][s], c)
  BY DEF Sound
<1>2. CASE ~sized.ok
  <2>1. \A s \in Streams : pb_encode_submessage(s, p, enc) = Failed(s)
    BY <1>2 DEF pb_encode_submessage
  <2> QED
    BY <1>0, <2>1, CallFailed
<1>3. CASE sized.ok
  <2>1. sized.written \in Nat /\ sized = enc[p][PB_OSTREAM_SIZING]
    BY <1>0, <1>1, SizingStream, Sized
  <2> HIDE DEF sized
  <2>2. PICK l \in Nat : \A s \in Streams : Call(s, pb_encode_varint(s, Groups(sized.written)), l)
    BY <2>1, GroupsType, CallVarint
  <2>3. \A s \in Streams : Call(s, pb_encode_submessage(s, p, enc), Plus(l, c))
    BY <1>0, <1>1, <1>3, <2>1, <2>2, SubmessageCost
  <2>4. Plus(l, c) \in C
    BY <1>0, CostTypes
  <2> QED
    BY <2>3, <2>4
<1> QED
  BY <1>2, <1>3

(* One value of a field, behind its tag.                                   *)
LEMMA CallBasicField ==
    ASSUME NEW C \in {Certain, AnyCost}, NEW f, NEW v, NEW enc,
           f.tag \in Nat, FitsType(f, v),
           f.type = "submsg" => Sound(enc[<<f.sub, v>>], C)
    PROVE  \E d \in C : \A s \in Streams : Call(s, encode_basic_field(s, f, v, enc), d)
<1>0. C \subseteq AnyCost /\ C \in CostSets /\ Never \in C /\ Nat \subseteq C
  BY NatCosts
<1> DEFINE value(t) ==
        IF ~t.ok THEN t
        ELSE CASE f.type \in Packable    -> EncodeScalar(t, f, v)
               [] f.type = "bytes"       -> pb_enc_bytes(t, f, v)
               [] f.type = "string"      -> pb_enc_string(t, f, v)
               [] f.type = "fixedbytes"  -> pb_encode_string(t, v)
               [] f.type = "submsg"      -> pb_encode_submessage(t, <<f.sub, v>>, enc)
<1>1. \A s : encode_basic_field(s, f, v, enc) = value(pb_encode_tag_for_field(s, f))
  BY DEF encode_basic_field
<1>2. \A t : ~t.ok => value(t) = t
  OBVIOUS
<1>3. \E d \in C : \A t \in Streams : t.ok => Call(t, value(t), d)
  <2>1. CASE f.type \in Packable
    <3>1. \A t \in Streams : t.ok => value(t) = EncodeScalar(t, f, v)
      BY <2>1 DEF Packable, Varints
    <3> HIDE DEF value
    <3> QED
      BY <1>0, <2>1, <3>1, CallScalar
  <2>2. CASE f.type = "bytes"
    <3>1. \A t \in Streams : t.ok => value(t) = pb_enc_bytes(t, f, v)
      BY <2>2 DEF Packable, Varints
    <3>2. v \in Seq(0..255)
      BY <2>2 DEF FitsType, Varints
    <3> HIDE DEF value
    <3>3. CASE Len(v) > f.size - 2
      <4>1. \A t \in Streams : t.ok => value(t) = Failed(t)
        BY <3>1, <3>3 DEF pb_enc_bytes
      <4> QED
        BY <1>0, <4>1, CallFailed
    <3>4. CASE ~ (Len(v) > f.size - 2)
      <4>1. \A t \in Streams : t.ok => value(t) = pb_encode_string(t, v)
        BY <3>1, <3>4 DEF pb_enc_bytes
      <4> QED
        BY <1>0, <3>2, <4>1, CallString
    <3> QED
      BY <3>3, <3>4
  <2>3. CASE f.type = "string"
    <3>1. \A t \in Streams : t.ok => value(t) = pb_enc_string(t, f, v)
      BY <2>3 DEF Packable, Varints
    <3>2. v \in Seq(0..255)
      BY <2>3 DEF FitsType, Varints
    <3> HIDE DEF value
    <3>3. CASE Len(v) > f.size - 1
      <4>1. \A t \in Streams : t.ok => value(t) = Failed(t)
        BY <3>1, <3>3 DEF pb_enc_string
      <4> QED
        BY <1>0, <4>1, CallFailed
    <3>4. CASE ~ (Len(v) > f.size - 1)
      <4>1. \A t \in Streams : t.ok => value(t) = pb_encode_string(t, v)
        BY <3>1, <3>4 DEF pb_enc_string
      <4> QED
        BY <1>0, <3>2, <4>1, CallString
    <3> QED
      BY <3>3, <3>4
  <2>4. CASE f.type = "fixedbytes"
    <3>1. \A t \in Streams : t.ok => value(t) = pb_encode_string(t, v)
      BY <2>4 DEF Packable, Varints
    <3>2. v \in Seq(0..255)
      BY <2>4 DEF FitsType, Varints
    <3> HIDE DEF value
    <3> QED
      BY <1>0, <3>1, <3>2, CallString
  <2>5. CASE f.type = "submsg"
    <3>1. \A t \in Streams : t.ok => value(t) = pb_encode_submessage(t, <<f.sub, v>>, enc)
      BY <2>5 DEF Packable, Varints
    <3> HIDE DEF value
    <3> DEFINE p == <<f.sub, v>>
    <3>2. Sound(enc[p], C)
      BY <2>5
    <3>3. \A t \in Streams : t.ok => value(t) = pb_encode_submessage(t, p, enc)
      BY <3>1
    <3> HIDE DEF p
    <3> QED
      BY <3>2, <3>3, CallSubmessage
  <2> HIDE DEF value
  <2>6. \/ f.type \in Packable \/ f.type = "bytes" \/ f.type = "string"
        \/ f.type = "fixedbytes" \/ f.type = "submsg"
    BY DEF FitsType, Packable, Varints
  <2> QED
    BY <2>1, <2>2, <2>3, <2>4, <2>5, <2>6
<1> HIDE DEF value
<1>4. PICK d \in C : \A t \in Streams : t.ok => Call(t, value(t), d)
  BY <1>3
<1>5. PICK l \in Nat : \A s \in Streams : Call(s, pb_encode_tag_for_field(s, f), l)
  BY CallTagForField
<1>6. ASSUME NEW s \in Streams PROVE Call(s, encode_basic_field(s, f, v, enc), Plus(l, d))
  <2> DEFINE t == pb_encode_tag_for_field(s, f)
  <2>1. Call(s, t, l) /\ t \in Streams
    BY <1>5 DEF Call, Grown
  <2> HIDE DEF t
  <2>2. ~t.ok => value(t) = t
    BY <1>2
  <2>3. t.ok => Call(t, value(t), d)
    BY <1>4, <2>1
  <2>4. Call(s, value(t), Plus(l, d))
    BY <1>0, <2>1, <2>2, <2>3, CallIfOk, NatCosts
  <2> QED
    BY <1>1, <2>4 DEF t
<1>7. Plus(l, d) \in C
  BY <1>0, CostTypes
<1> QED
  BY <1>6, <1>7

(* The elements of an array: each has a cost.                              *)
LEMMA CallEach ==
    ASSUME NEW C \in CostSets, NEW f, NEW seq, seq \in Seq(Range(seq)), NEW packed \in BOOLEAN, NEW enc,
           \A v \in Range(seq) :
             \E c \in C : \A t \in Streams :
               Call(t, IF packed THEN EncodeScalar(t, f, v) ELSE encode_basic_field(t, f, v, enc), c)
    PROVE  \E c \in C : \A s \in Streams : Call(s, EachOf(s, f, seq, packed, enc), c)
<1> DEFINE One(t, v) == IF packed THEN EncodeScalar(t, f, v) ELSE encode_basic_field(t, f, v, enc)
<1> DEFINE steps == [i \in 1..Len(seq) |-> [t \in Streams |-> One(t, seq[i])]]
<1>1. \A s : EachOf(s, f, seq, packed, enc) = InTurn(steps, s)
  BY DEF EachOf
<1>2. Len(seq) \in Nat /\ \A i \in 1..Len(seq) : seq[i] \in Range(seq)
  BY LenProperties, ElementOfSeq
<1>3. \A v \in Range(seq) : \E c \in C : \A t \in Streams : Call(t, One(t, v), c)
  OBVIOUS
<1> HIDE DEF One
<1>4. ASSUME NEW i \in 1..Len(seq) PROVE Sound([t \in Streams |-> One(t, seq[i])], C)
  <2>1. PICK c \in C : \A t \in Streams : Call(t, One(t, seq[i]), c)
    BY <1>2, <1>3
  <2>2. \A t \in Streams : One(t, seq[i]) \in Streams
    BY <2>1 DEF Call, Grown
  <2> DEFINE F == [t \in Streams |-> One(t, seq[i])]
  <2>3. F \in [Streams -> Streams] /\ \A t \in Streams : F[t] = One(t, seq[i])
    BY <2>2
  <2> HIDE DEF F
  <2>4. Sound(F, C)
    BY <2>1, <2>3 DEF Sound
  <2> QED
    BY <2>4 DEF F
<1>5. \A i \in 1..Len(seq) : steps[i] = [t \in Streams |-> One(t, seq[i])]
  OBVIOUS
<1>6. \A i \in 1..Len(seq) : steps[i] \in [Streams -> Streams] /\ Sound(steps[i], C)
  BY <1>4, <1>5 DEF Sound
<1>7. steps \in Seq([Streams -> Streams]) /\ Len(steps) = Len(seq)
  <2>1. steps = [i \in 1..Len(seq) |-> steps[i]]
    OBVIOUS
  <2> DEFINE N == Len(seq)
  <2> HIDE DEF steps, N
  <2>2. steps = [i \in 1..N |-> steps[i]] /\ N \in Nat
          /\ \A i \in 1..N : steps[i] \in [Streams -> Streams]
    BY <1>2, <1>6, <2>1 DEF N
  <2>3. steps \in Seq([Streams -> Streams])
    BY <2>2, IsASeq
  <2>4. DOMAIN steps = 1..N
    BY <2>2
  <2>5. Len(steps) = N
    BY <2>2, <2>3, <2>4, LenProperties
  <2> QED
    BY <2>3, <2>5 DEF N
<1> HIDE DEF steps
<1>8. \A i \in 1..Len(steps) : Sound(steps[i], C)
  BY <1>6, <1>7
<1> QED
  BY <1>1, <1>7, <1>8, InTurnSound

\* an array with a field's values in it
LEMMA CallArray ==
    ASSUME NEW C \in {Certain, AnyCost}, NEW f, NEW seq, NEW enc,
           f.tag \in Nat, seq \in Seq(Range(seq)),
           \A v \in Range(seq) : FitsType(f, v) /\ (f.type = "submsg" => Sound(enc[<<f.sub, v>>], C))
    PROVE  \E d \in C : \A s \in Streams : Call(s, encode_array(s, f, seq, enc), d)
<1>0. C \subseteq AnyCost /\ C \in CostSets /\ Never \in C /\ Nat \subseteq C /\ 0 \in C
  BY NatCosts, CostTypes
<1>1. CASE seq = <<>>
  <2>1. \A s \in Streams : encode_array(s, f, seq, enc) = s
    BY <1>1 DEF encode_array
  <2> QED
    BY <1>0, <2>1, CallNone
<1>2. CASE seq # <<>> /\ Len(seq) > f.max
  <2>1. \A s \in Streams : encode_array(s, f, seq, enc) = Failed(s)
    BY <1>2 DEF encode_array
  <2> QED
    BY <1>0, <2>1, CallFailed
<1>3. CASE seq # <<>> /\ ~ (Len(seq) > f.max) /\ f.type \notin Packable
  <2>1. \A s \in Streams : encode_array(s, f, seq, enc) = EachOf(s, f, seq, FALSE, enc)
    BY <1>3 DEF encode_array
  <2>2. \A v \in Range(seq) :
          \E c \in C : \A t \in Streams : Call(t, encode_basic_field(t, f, v, enc), c)
    BY CallBasicField
  <2>3. \E c \in C : \A s \in Streams : Call(s, EachOf(s, f, seq, FALSE, enc), c)
    BY <1>0, <2>2, CallEach
  <2> QED
    BY <2>1, <2>3
<1>4. CASE seq # <<>> /\ ~ (Len(seq) > f.max) /\ f.type \in Packable
  <2> DEFINE size == EachOf(PB_OSTREAM_SIZING, f, seq, TRUE, enc).written
  <2> DEFINE elements(t) == IF ~t.ok THEN t ELSE IF t.sizing THEN Skip(t, size)
                            ELSE EachOf(t, f, seq, TRUE, enc)
  <2>1. \A s : encode_array(s, f, seq, enc) =
                 elements(pb_encode_varint(pb_encode_tag(s, WT_STRING, f.tag), Groups(size)))
    BY <1>4 DEF encode_array
  <2>2. \A v \in Range(seq) : \E c \in Nat : \A t \in Streams : Call(t, EncodeScalar(t, f, v), c)
    BY <1>4, CallScalar
  <2>3. \E c \in Nat : \A s \in Streams : Call(s, EachOf(s, f, seq, TRUE, enc), c)
    BY <2>2, NatCosts, CallEach
  <2>4. PICK e \in Nat : \A s \in Streams : Call(s, EachOf(s, f, seq, TRUE, enc), e)
    BY <2>3
  <2>5. size = e
    <3>1. Call(PB_OSTREAM_SIZING, EachOf(PB_OSTREAM_SIZING, f, seq, TRUE, enc), e)
      BY <2>4, SizingStream
    <3>2. e # Unknown /\ e # Never
      BY DEF Unknown, Never
    <3> QED
      BY <3>1, <3>2, NatCosts, Sized
  <2> HIDE DEF size
  <2>6. \A t : ~t.ok => elements(t) = t
    OBVIOUS
  <2>7. ASSUME NEW t \in Streams, t.ok PROVE Call(t, elements(t), e)
    <3>1. CASE t.sizing
      BY <2>5, <2>7, <3>1, CallSkip
    <3>2. CASE ~t.sizing
      BY <2>4, <2>7, <3>2
    <3> QED
      BY <3>1, <3>2
  <2> HIDE DEF elements
  <2>8. WT_STRING \in Nat
    BY DEF WT_STRING
  <2>9. PICK a \in Nat : \A s \in Streams : Call(s, pb_encode_tag(s, WT_STRING, f.tag), a)
    BY <2>8, CallTag
  <2>10. PICK b \in Nat : \A s \in Streams : Call(s, pb_encode_varint(s, Groups(size)), b)
    <3>1. Groups(size) \in Numbers
      BY <2>5, GroupsType
    <3> QED
      BY <3>1, CallVarint
  <2>11. ASSUME NEW s \in Streams
         PROVE  Call(s, encode_array(s, f, seq, enc), Plus(Plus(a, b), e))
    <3> DEFINE t == pb_encode_tag(s, WT_STRING, f.tag)
    <3> DEFINE u == pb_encode_varint(t, Groups(size))
    <3>1. Call(s, t, a) /\ t \in Streams
      BY <2>9 DEF Call, Grown
    <3>2. encode_array(s, f, seq, enc) = elements(u)
      BY <2>1
    <3> HIDE DEF t
    <3>3. Call(t, u, b) /\ u \in Streams
      BY <2>10, <3>1 DEF Call, Grown
    <3> HIDE DEF u
    <3>4. Call(s, u, Plus(a, b))
      BY <3>1, <3>3, CallThen, NatCosts
    <3>5. Plus(a, b) \in AnyCost
      BY CostTypes, NatCosts
    <3>6. Call(s, elements(u), Plus(Plus(a, b), e))
      BY <2>6, <2>7, <3>3, <3>4, <3>5, CallIfOk, NatCosts
    <3> QED
      BY <3>2, <3>6
  <2>12. Plus(Plus(a, b), e) \in C
    <3>1. Plus(a, b) \in Nat
      BY CostTypes, NatCosts
    <3> QED
      BY <1>0, <3>1, CostTypes
  <2> QED
    BY <2>11, <2>12
<1> QED
  BY <1>1, <1>2, <1>3, <1>4

----------------------------------------------------------------------------
\* the function set for a field, if there is one, writes the same twice
Calm(f, v) == f.alloc = "callback" /\ v # <<>> => v[1] = v[2]

LEMMA StructFacts ==
    ASSUME NEW p \in Structs
    PROVE  /\ p[1] \in Seq(Range(p[1])) /\ Len(p[1]) \in Nat /\ DOMAIN p[1] = 1..Len(p[1])
           /\ \A i \in DOMAIN p[1] : p[1][i].tag \in Nat /\ FitsField(p[1][i], p[2][p[1][i].tag])
<1>1. p[1] \in Seq(Range(p[1]))
  BY StructsAssumption
<1>2. Len(p[1]) \in Nat /\ DOMAIN p[1] = 1..Len(p[1])
  BY <1>1, LenProperties
<1>3. \A i \in DOMAIN p[1] : p[1][i].tag \in Nat /\ FitsField(p[1][i], p[2][p[1][i].tag])
  BY StructsAssumption
<1> QED
  BY <1>1, <1>2, <1>3

\* the values of a field fit its type, and the structs in it are inside the struct
LEMMA HeldFacts ==
    ASSUME NEW p \in Structs, NEW i \in DOMAIN p[1],
           NEW v \in Held(p[1][i], p[2][p[1][i].tag])
    PROVE  /\ FitsType(p[1][i], v)
           /\ p[1][i].type = "submsg" => <<p[1][i].sub, v>> \in Inside(p)
<1>1. FitsType(p[1][i], v)
  BY StructFacts DEF FitsField
<1>2. ASSUME p[1][i].type = "submsg" PROVE <<p[1][i].sub, v>> \in Inside(p)
  BY <1>2 DEF Inside
<1> QED
  BY <1>1, <1>2

LEMMA InsideStructs ==
    ASSUME NEW p \in Structs
    PROVE  Inside(p) \subseteq Structs
<1>1. ASSUME NEW q \in Inside(p) PROVE q \in Structs
  <2>1. PICK i \in DOMAIN p[1] :
          /\ p[1][i].type = "submsg"
          /\ \E v \in Held(p[1][i], p[2][p[1][i].tag]) : q = <<p[1][i].sub, v>>
    BY DEF Inside
  <2>2. PICK v \in Held(p[1][i], p[2][p[1][i].tag]) : q = <<p[1][i].sub, v>>
    BY <2>1
  <2>3. FitsType(p[1][i], v)
    BY HeldFacts
  <2> QED
    BY <2>1, <2>2, <2>3 DEF FitsType, Varints
<1> QED
  BY <1>1

(* The application's function on the stream it gets.                       *)
LEMMA CallCallback ==
    ASSUME NEW C \in {Certain, AnyCost}, NEW f, NEW v, f.alloc = "callback",
           FitsField(f, v), C = AnyCost \/ Calm(f, v)
    PROVE  \E c \in C : \A s \in Streams : Call(s, encode_callback_field(s, v), c)
<1>0. C \subseteq AnyCost /\ Nat \subseteq C /\ 0 \in C
  BY NatCosts, CostTypes
<1>1. CASE v = <<>>
  <2>1. \A s \in Streams : encode_callback_field(s, v) = s
    BY <1>1 DEF encode_callback_field
  <2> QED
    BY <1>0, <2>1, CallNone
<1>2. CASE v # <<>>
  <2>1. v \in Seq(Seq(0..255)) /\ Len(v) \in {0, 2}
    BY DEF FitsField
  <2>2. v[1] \in Seq(0..255) /\ v[2] \in Seq(0..255)
    <3>1. Len(v) # 0
      BY <1>2, <2>1, EmptySeq
    <3>2. 1 \in 1..Len(v) /\ 2 \in 1..Len(v)
      <4>1. Len(v) = 2
        BY <2>1, <3>1
      <4> QED
        BY <4>1
    <3> QED
      BY <2>1, <3>2, ElementOfSeq
  <2>3. \A s : encode_callback_field(s, v) = pb_write(s, IF s.sizing THEN v[1] ELSE v[2])
    BY <1>2 DEF encode_callback_field
  <2> DEFINE a == v[1]
  <2> DEFINE b == v[2]
  <2>4. a \in Seq(0..255) /\ b \in Seq(0..255)
    BY <2>2
  <2>5. \A s : encode_callback_field(s, v) = pb_write(s, IF s.sizing THEN a ELSE b)
    BY <2>3
  <2>6. C = AnyCost \/ a = b
    BY <1>2 DEF Calm
  <2> HIDE DEF a, b
  <2>7. CASE a = b
    <3>1. \A s \in Streams : Call(s, encode_callback_field(s, v), Len(a)) /\ Len(a) \in Nat
      BY <2>4, <2>5, <2>7, CallWrite
    <3>2. Len(a) \in Nat
      BY <2>4, LenProperties
    <3> QED
      BY <1>0, <3>1, <3>2
  <2>8. CASE a # b
    <3>1. ASSUME NEW s \in Streams PROVE Call(s, encode_callback_field(s, v), Unknown)
      <4>1. Call(s, pb_write(s, a), Unknown) /\ Call(s, pb_write(s, b), Unknown)
        BY <2>4, CallWrite, CallUnknown
      <4> QED
        BY <2>5, <4>1
    <3> QED
      BY <2>6, <2>8, <3>1, NatCosts
  <2> QED
    BY <2>7, <2>8
<1> QED
  BY <1>1, <1>2

(* A field of a struct.                                                    *)
LEMMA CallField ==
    ASSUME NEW C \in {Certain, AnyCost}, NEW p \in Structs, NEW i \in DOMAIN p[1], NEW enc,
           C = AnyCost \/ Calm(p[1][i], p[2][p[1][i].tag]),
           \A q \in Inside(p) : Sound(enc[q], C)
    PROVE  \E c \in C : \A s \in Streams : Call(s, encode_field(s, p[1][i], p[2], enc), c)
<1> DEFINE f == p[1][i]
<1> DEFINE m == p[2]
<1> DEFINE v == m[f.tag]
<1> DEFINE absent == \/ f.rule = "oneof" /\ m[0] # f.tag
                     \/ f.rule = "optional" /\ f.alloc = "static" /\ ~v.has
                     \/ f.rule = "singular" /\ pb_check_proto3_default_value(f, m, IsZero)
<1>0. 0 \in C
  BY CostTypes, NatCosts
<1>1. f.tag \in Nat /\ FitsField(f, v) /\ (C = AnyCost \/ Calm(f, v))
  BY StructFacts
<1>2. \A w \in Held(f, v) : FitsType(f, w) /\ (f.type = "submsg" => Sound(enc[<<f.sub, w>>], C))
  BY HeldFacts
<1>3. \A s : encode_field(s, f, m, enc) =
               IF absent THEN s
               ELSE IF f.alloc = "callback" THEN encode_callback_field(s, v)
               ELSE IF f.rule \in {"repeated", "fixarray"} THEN encode_array(s, f, v, enc)
               ELSE encode_basic_field(s, f, IF f.rule = "optional" THEN v.val ELSE v, enc)
  BY DEF encode_field
<1>4. SUFFICES \E c \in C : \A s \in Streams : Call(s, encode_field(s, f, m, enc), c)
  OBVIOUS
<1>5. ~absent => ~ (f.rule = "optional" /\ f.alloc = "static" /\ ~v.has)
  OBVIOUS
<1> HIDE DEF f, m, v, absent
<1>6. CASE absent
  <2>1. \A s \in Streams : encode_field(s, f, m, enc) = s
    BY <1>3, <1>6
  <2> QED
    BY <1>0, <2>1, CallNone
<1>7. CASE ~absent /\ f.alloc = "callback"
  <2>1. \A s \in Streams : encode_field(s, f, m, enc) = encode_callback_field(s, v)
    BY <1>3, <1>7
  <2> QED
    BY <1>1, <1>7, <2>1, CallCallback
<1>8. CASE ~absent /\ f.alloc # "callback" /\ f.rule \in {"repeated", "fixarray"}
  <2>1. \A s \in Streams : encode_field(s, f, m, enc) = encode_array(s, f, v, enc)
    BY <1>3, <1>8
  <2>2. f.alloc = "static" /\ v \in Seq(Range(v))
    BY <1>1, <1>8 DEF FitsField
  <2>3. Held(f, v) = Range(v)
    BY <1>8, <2>2 DEF Held
  <2>4. \A w \in Range(v) : FitsType(f, w) /\ (f.type = "submsg" => Sound(enc[<<f.sub, w>>], C))
    BY <1>2, <2>3
  <2>5. \E d \in C : \A s \in Streams : Call(s, encode_array(s, f, v, enc), d)
    <3>1. f.tag \in Nat /\ v \in Seq(Range(v))
      BY <1>1, <2>2
    <3> QED
      BY <2>4, <3>1, CallArray
  <2> QED
    BY <2>1, <2>5
<1>9. CASE ~absent /\ f.alloc # "callback" /\ f.rule \notin {"repeated", "fixarray"}
  <2> DEFINE w == IF f.rule = "optional" THEN v.val ELSE v
  <2>1. \A s \in Streams : encode_field(s, f, m, enc) = encode_basic_field(s, f, w, enc)
    BY <1>3, <1>9
  <2>2. f.alloc = "static" /\ f.rule \in {"optional", "required", "singular", "oneof"}
    BY <1>1, <1>9 DEF FitsField
  <2>3. w \in Held(f, v)
    <3>1. CASE f.rule = "optional"
      BY <1>5, <1>9, <2>2, <3>1 DEF Held
    <3>2. CASE f.rule # "optional"
      BY <1>9, <2>2, <3>2 DEF Held
    <3> QED
      BY <3>1, <3>2
  <2>4. FitsType(f, w) /\ (f.type = "submsg" => Sound(enc[<<f.sub, w>>], C))
    BY <1>2, <2>3
  <2> HIDE DEF w
  <2> QED
    BY <1>1, <2>1, <2>4, CallBasicField
<1> QED
  BY <1>6, <1>7, <1>8, <1>9

\* the steps of a loop as a sequence
LEMMA StepsType ==
    ASSUME NEW N \in Nat, NEW steps, steps = [i \in 1..N |-> steps[i]],
           \A i \in 1..N : steps[i] \in [Streams -> Streams]
    PROVE  steps \in Seq([Streams -> Streams]) /\ N = Len(steps)
<1>1. steps \in Seq([Streams -> Streams])
  BY IsASeq
<1>2. DOMAIN steps = 1..N
  OBVIOUS
<1> QED
  BY <1>1, <1>2, LenProperties

(* The fields of a struct, one after the other.                            *)
LEMMA CallFields ==
    ASSUME NEW C \in {Certain, AnyCost}, NEW p \in Structs, NEW enc,
           C = AnyCost \/ \A i \in DOMAIN p[1] : Calm(p[1][i], p[2][p[1][i].tag]),
           \A q \in Inside(p) : Sound(enc[q], C)
    PROVE  \E c \in C : \A s \in Streams : Call(s, EncodeFields(s, p[1], p[2], enc), c)
<1> DEFINE One(t, i) == encode_field(t, p[1][i], p[2], enc)
<1> DEFINE N == Len(p[1])
<1> DEFINE steps == [i \in 1..N |-> [t \in Streams |-> One(t, i)]]
<1>0. C \in CostSets
  BY NatCosts
<1>1. \A s : EncodeFields(s, p[1], p[2], enc) = InTurn(steps, s)
  BY DEF EncodeFields
<1>2. N \in Nat /\ DOMAIN p[1] = 1..N
  BY StructFacts
<1>3. ASSUME NEW i \in 1..N PROVE \E c \in C : \A t \in Streams : Call(t, One(t, i), c)
  BY <1>2, CallField
<1> HIDE DEF One, N
<1>4. ASSUME NEW i \in 1..N
      PROVE  steps[i] \in [Streams -> Streams] /\ Sound(steps[i], C)
  <2>1. PICK c \in C : \A t \in Streams : Call(t, One(t, i), c)
    BY <1>3
  <2>2. \A t \in Streams : One(t, i) \in Streams
    BY <2>1 DEF Call, Grown
  <2> DEFINE F == [t \in Streams |-> One(t, i)]
  <2>3. F \in [Streams -> Streams] /\ \A t \in Streams : F[t] = One(t, i)
    BY <2>2
  <2>4. steps[i] = F
    OBVIOUS
  <2> HIDE DEF F, steps
  <2>5. Sound(F, C)
    BY <2>1, <2>3 DEF Sound
  <2> QED
    BY <2>3, <2>4, <2>5
<1>5. steps = [i \in 1..N |-> steps[i]]
  OBVIOUS
<1> HIDE DEF steps
<1>6. \A i \in 1..N : steps[i] \in [Streams -> Streams]
  BY <1>4
<1>7. steps \in Seq([Streams -> Streams]) /\ Len(steps) = N
  BY <1>2, <1>5, <1>6, StepsType
<1>8. \A i \in 1..Len(steps) : Sound(steps[i], C)
  BY <1>4, <1>7
<1> QED
  BY <1>0, <1>1, <1>7, <1>8, InTurnSound

----------------------------------------------------------------------------
Sounds == {enc \in Encoders : \A p \in Structs : Sound(enc[p], AnyCost)}
Level(enc) == [p \in Structs |-> [s \in Streams |-> EncodeFields(s, p[1], p[2], enc)]]
NoLevel == [p \in Structs |-> [s \in Streams |-> Failed(s)]]

LEMMA NoLevelSound ==
    /\ NoLevel \in Sounds
    /\ \A p \in Structs : Sound(NoLevel[p], Certain)
<1>1. ASSUME NEW p \in Structs PROVE Sound(NoLevel[p], Certain)
  <2> DEFINE F == [s \in Streams |-> Failed(s)]
  <2>1. NoLevel[p] = F
    BY DEF NoLevel
  <2>2. F \in [Streams -> Streams] /\ \A s \in Streams : F[s] = Failed(s)
    BY CallFailed
  <2> HIDE DEF F
  <2>3. \A s \in Streams : Call(s, F[s], Never)
    BY <2>2, CallFailed
  <2>4. Sound(F, Certain)
    BY <2>2, <2>3, NatCosts DEF Sound
  <2> QED
    BY <2>1, <2>4
<1>2. \A p \in Structs : Sound(NoLevel[p], AnyCost)
  BY <1>1, NatCosts DEF Sound
<1>3. NoLevel \in Encoders
  <2>1. DOMAIN NoLevel = Structs /\ NoLevel = [p \in Structs |-> NoLevel[p]]
    BY DEF NoLevel
  <2>2. \A p \in Structs : NoLevel[p] \in [Streams -> Streams]
    BY <1>1 DEF Sound
  <2> QED
    BY <2>1, <2>2 DEF Encoders
<1> QED
  BY <1>1, <1>2, <1>3 DEF Sounds

(* One level over what encodes the structs inside.                         *)
LEMMA LevelSound ==
    ASSUME NEW C \in {Certain, AnyCost}, NEW p \in Structs, NEW enc,
           C = AnyCost \/ \A i \in DOMAIN p[1] : Calm(p[1][i], p[2][p[1][i].tag]),
           \A q \in Inside(p) : Sound(enc[q], C)
    PROVE  Sound(Level(enc)[p], C)
<1> DEFINE F == [s \in Streams |-> EncodeFields(s, p[1], p[2], enc)]
<1>1. Level(enc)[p] = F
  BY DEF Level
<1>2. PICK c \in C : \A s \in Streams : Call(s, EncodeFields(s, p[1], p[2], enc), c)
  BY CallFields
<1>3. \A s \in Streams : EncodeFields(s, p[1], p[2], enc) \in Streams
  BY <1>2 DEF Call, Grown
<1>4. F \in [Streams -> Streams] /\ \A s \in Streams : F[s] = EncodeFields(s, p[1], p[2], enc)
  BY <1>3
<1> HIDE DEF F
<1>5. Sound(F, C)
  BY <1>2, <1>4 DEF Sound
<1> QED
  BY <1>1, <1>5

LEMMA LevelOfSounds ==
    ASSUME NEW enc \in Sounds
    PROVE  Level(enc) \in Sounds
<1>1. ASSUME NEW p \in Structs PROVE Sound(Level(enc)[p], AnyCost)
  <2>1. \A q \in Inside(p) : Sound(enc[q], AnyCost)
    BY InsideStructs DEF Sounds
  <2> QED
    BY <2>1, LevelSound
<1>2. Level(enc) \in Encoders
  <2>1. Level(enc) = [p \in Structs |-> Level(enc)[p]]
    BY DEF Level
  <2>2. \A p \in Structs : Level(enc)[p] \in [Streams -> Streams]
    BY <1>1 DEF Sound
  <2> DEFINE L == Level(enc)
  <2>3. L = [p \in Structs |-> L[p]] /\ \A p \in Structs : L[p] \in [Streams -> Streams]
    BY <2>1, <2>2
  <2> HIDE DEF L
  <2>4. L \in Encoders
    BY <2>3 DEF Encoders
  <2> QED
    BY <2>4 DEF L
<1> QED
  BY <1>1, <1>2 DEF Sounds

(* The encoder is the levels one over the other.                           *)
LEMMA EncoderIs ==
    /\ Encoder[0] = NoLevel
    /\ \A n \in 1..MaxNesting + 1 : Encoder[n] = Level(Encoder[n - 1])
    /\ \A n \in 0..MaxNesting + 1 : Encoder[n] \in Sounds
<1> DEFINE M == MaxNesting + 1
<1> DEFINE Body(n, e) == [p \in Structs |-> [s \in Streams |->
                            IF n = 0 THEN Failed(s) ELSE EncodeFields(s, p[1], p[2], e)]]
<1> DEFINE Is(h) == h = [n \in 0..MaxNesting + 1 |->
                           [p \in Structs |-> [s \in Streams |->
                              IF n = 0 THEN Failed(s) ELSE EncodeFields(s, p[1], p[2], h[n - 1])]]]
<1> DEFINE G == [n \in 1..M |-> [e \in Sounds |-> Level(e)]]
<1>1. M \in Nat
  BY StructsAssumption
<1>2. \A e : Body(0, e) = NoLevel
  BY DEF NoLevel
<1>3. \A e, n : n # 0 => Body(n, e) = Level(e)
  BY DEF Level
<1>4. \A h : Is(h) <=> h = [n \in 0..M |-> Body(n, h[n - 1])]
  OBVIOUS
<1>5. Encoder = CHOOSE h : Is(h)
  BY DEF Encoder
<1> HIDE DEF Body, Is, M
<1>6. G \in [1..M -> [Sounds -> Sounds]]
  BY LevelOfSounds
<1>7. \A n \in 1..M, e \in Sounds : G[n][e] = Level(e)
  OBVIOUS
<1> HIDE DEF G
<1>8. PICK f \in [0..M -> Sounds] : Made(f, NoLevel, G, M)
  BY <1>1, <1>6, NoLevelSound, Iterated
<1>9. ASSUME NEW n \in 0..M PROVE f[n] = Body(n, f[n - 1])
  <2>1. CASE n = 0
    BY <1>2, <1>8, <2>1 DEF Made
  <2>2. CASE n # 0
    <3>1. n \in 1..M /\ n - 1 \in 0..M
      BY <1>1, <2>2
    <3>2. f[n] = G[n][f[n - 1]] /\ f[n - 1] \in Sounds
      BY <1>8, <3>1 DEF Made
    <3> QED
      BY <1>3, <1>7, <2>2, <3>1, <3>2
  <2> QED
    BY <2>1, <2>2
<1>10. f = [n \in 0..M |-> Body(n, f[n - 1])]
  BY <1>9
<1>11. Is(Encoder)
  BY <1>4, <1>5, <1>10
<1>12. Encoder = [n \in 0..M |-> Body(n, Encoder[n - 1])]
  BY <1>4, <1>11
<1> DEFINE E == Encoder
<1>13. E = [n \in 0..M |-> Body(n, E[n - 1])]
  BY <1>12
<1> HIDE DEF E
<1>14. \A n \in 0..M : E[n] = Body(n, E[n - 1])
  BY <1>13
<1>15. E[0] = NoLevel
  <2>1. 0 \in 0..M
    BY <1>1
  <2> QED
    BY <1>2, <1>14, <2>1
<1>16. ASSUME NEW n \in 1..M PROVE E[n] = Level(E[n - 1])
  <2>1. n \in 0..M /\ n # 0
    BY <1>1
  <2> QED
    BY <1>3, <1>14, <2>1
<1>17. \A n \in 0..M : E[n] \in Sounds
  <2> DEFINE P == {n \in 0..M : E[n] \in Sounds}
  <2>1. 0 \in P
    BY <1>1, <1>15, NoLevelSound
  <2>2. ASSUME NEW n \in 1..M, n - 1 \in P PROVE n \in P
    BY <1>1, <1>16, <2>2, LevelOfSounds
  <2> HIDE DEF P
  <2>3. \A n \in 0..M : n \in P
    BY <1>1, <2>1, <2>2, Upto
  <2> QED
    BY <2>3 DEF P
<1> QED
  BY <1>15, <1>16, <1>17 DEF E, M

LEMMA SteadyIs ==
    ASSUME NEW n \in 0..MaxNesting, NEW p \in Structs, SteadyTo[n][p]
    PROVE  /\ \A i \in DOMAIN p[1] : Calm(p[1][i], p[2][p[1][i].tag])
           /\ n > 0 => \A q \in Inside(p) : SteadyTo[n - 1][q]
<1> DEFINE M == MaxNesting
<1> DEFINE Alone(r) == \A i \in DOMAIN r[1] :
                         LET v == r[2][r[1][i].tag]
                         IN  r[1][i].alloc = "callback" /\ v # <<>> => v[1] = v[2]
<1> DEFINE All(r, h) == \A q \in Inside(r) : h[q]
<1> DEFINE Body(k, h) == [r \in Structs |-> Alone(r) /\ (k > 0 => All(r, h))]
<1> DEFINE Is(h) == h = [k \in 0..M |-> Body(k, h[k - 1])]
<1> DEFINE S == [Structs -> BOOLEAN]
<1> DEFINE G == [k \in 1..M |-> [h \in S |-> Body(k, h)]]
<1>1. M \in Nat
  BY StructsAssumption
<1>2. SteadyTo = CHOOSE h : Is(h)
  BY DEF SteadyTo
<1>3. \A r \in Structs : Alone(r) => \A i \in DOMAIN r[1] : Calm(r[1][i], r[2][r[1][i].tag])
  BY DEF Calm
<1> HIDE DEF Alone, All, M
<1>4. \A k, h : Body(k, h) \in S
  OBVIOUS
<1>5. \A k, h : \A r \in Structs : Body(k, h)[r] => Alone(r) /\ (k > 0 => All(r, h))
  OBVIOUS
<1>6. \A h, g : Body(0, h) = Body(0, g)
  OBVIOUS
<1> HIDE DEF Body, S
<1>7. G \in [1..M -> [S -> S]] /\ \A k \in 1..M, h \in S : G[k][h] = Body(k, h)
  BY <1>4
<1> HIDE DEF G
<1> DEFINE a == Body(0, SteadyTo)
<1>8. a \in S
  BY <1>4
<1>9. \A h : Body(0, h) = a
  BY <1>6
<1> HIDE DEF a
<1>10. PICK f \in [0..M -> S] : Made(f, a, G, M)
  BY <1>1, <1>7, <1>8, Iterated
<1>11. ASSUME NEW k \in 0..M PROVE f[k] = Body(k, f[k - 1])
  <2>1. CASE k = 0
    BY <1>9, <1>10, <2>1 DEF Made
  <2>2. CASE k # 0
    <3>1. k \in 1..M /\ k - 1 \in 0..M
      BY <1>1, <2>2
    <3> QED
      BY <1>7, <1>10, <3>1 DEF Made
  <2> QED
    BY <2>1, <2>2
<1>12. Is(f)
  BY <1>11
<1>13. Is(SteadyTo)
  BY <1>2, <1>12
<1>14. SteadyTo[n] = Body(n, SteadyTo[n - 1])
  <2> DEFINE h == SteadyTo
  <2>1. h = [k \in 0..M |-> Body(k, h[k - 1])] /\ n \in 0..M
    BY <1>13 DEF M
  <2> HIDE DEF h
  <2>2. h[n] = Body(n, h[n - 1])
    BY <2>1
  <2> QED
    BY <2>2 DEF h
<1>15. Body(n, SteadyTo[n - 1])[p]
  BY <1>14
<1>16. Alone(p) /\ (n > 0 => All(p, SteadyTo[n - 1]))
  BY <1>5, <1>15
<1> QED
  BY <1>3, <1>16 DEF All

(* A struct whose callbacks are steady costs the same every time.          *)
LEMMA EncoderSteady ==
    ASSUME NEW p \in Structs, Steady[p]
    PROVE  Sound(Encoder[MaxNesting + 1][p], Certain)
<1> DEFINE P == {n \in 0..MaxNesting :
                   \A q \in Structs : SteadyTo[n][q] => Sound(Encoder[n + 1][q], Certain)}
<1>0. MaxNesting \in Nat
  BY StructsAssumption
<1>1. 0 \in P
  <2>1. ASSUME NEW q \in Structs, SteadyTo[0][q] PROVE Sound(Encoder[0 + 1][q], Certain)
    <3>1. \A i \in DOMAIN q[1] : Calm(q[1][i], q[2][q[1][i].tag])
      BY <1>0, <2>1, SteadyIs
    <3>2. \A r \in Inside(q) : Sound(NoLevel[r], Certain)
      BY InsideStructs, NoLevelSound
    <3>3. Encoder[0 + 1] = Level(NoLevel)
      BY <1>0, EncoderIs
    <3> QED
      BY <3>1, <3>2, <3>3, LevelSound
  <2> QED
    BY <1>0, <2>1
<1>2. ASSUME NEW n \in 1..MaxNesting, n - 1 \in P PROVE n \in P
  <2>1. n - 1 \in 0..MaxNesting /\ n \in 0..MaxNesting /\ n > 0 /\ n - 1 + 1 = n
          /\ n + 1 \in 1..MaxNesting + 1 /\ n + 1 - 1 = n
    BY <1>0
  <2>2. \A q \in Structs : SteadyTo[n - 1][q] => Sound(Encoder[n][q], Certain)
    BY <1>2, <2>1
  <2>3. Encoder[n + 1] = Level(Encoder[n])
    BY <2>1, EncoderIs
  <2>4. ASSUME NEW q \in Structs, SteadyTo[n][q] PROVE Sound(Encoder[n + 1][q], Certain)
    <3>1. /\ \A i \in DOMAIN q[1] : Calm(q[1][i], q[2][q[1][i].tag])
          /\ \A r \in Inside(q) : SteadyTo[n - 1][r]
      BY <2>1, <2>4, SteadyIs
    <3>2. \A r \in Inside(q) : Sound(Encoder[n][r], Certain)
      BY <2>2, <3>1, InsideStructs
    <3> QED
      BY <2>3, <3>1, <3>2, LevelSound
  <2> QED
    BY <2>1, <2>4
<1> HIDE DEF P
<1>3. MaxNesting \in P
  <2>1. MaxNesting \in 0..MaxNesting
    BY <1>0
  <2> QED
    BY <1>0, <1>1, <1>2, <2>1, Upto
<1> QED
  BY <1>3 DEF P, Steady

----------------------------------------------------------------------------
LEMMA EncodeSound ==
    ASSUME NEW d, NEW m, <<d, m>> \in Structs
    PROVE  /\ Sound(Encoder[MaxNesting + 1][<<d, m>>], AnyCost)
           /\ \A s : pb_encode(s, d, m) = Encoder[MaxNesting + 1][<<d, m>>][s]
<1>1. MaxNesting + 1 \in 0..MaxNesting + 1
  BY StructsAssumption
<1>2. Encoder[MaxNesting + 1] \in Sounds
  BY <1>1, EncoderIs
<1>3. Sound(Encoder[MaxNesting + 1][<<d, m>>], AnyCost)
  BY <1>2 DEF Sounds
<1> QED
  BY <1>3 DEF pb_encode

(* Whatever the framing, and even when a callback changes its mind between *)
(* the passes, the encoder leaves no more in the buffer than fits and has  *)
(* counted what it left there: the guards of pb_write and of the second    *)
(* pass of pb_encode_submessage hold at every level of nesting.            *)
THEOREM NeverBehindTheBuffer ==
    ASSUME NEW d, NEW m, <<d, m>> \in Structs, NEW room \in Nat,
           NEW framing \in {"plain", "delimited", "nullterminated"}
    PROVE  LET s == pb_encode_ex(pb_ostream_from_buffer(room), d, m, framing)
           IN  s \in Streams /\ s.written = Len(s.out) /\ Len(s.out) <= room
<1> DEFINE b == pb_ostream_from_buffer(room)
<1> DEFINE s == pb_encode_ex(b, d, m, framing)
<1> DEFINE E == Encoder[MaxNesting + 1]
<1> DEFINE p == <<d, m>>
<1>1. /\ b \in Streams /\ ~b.sizing /\ b.written = 0 /\ b.max = room
      /\ Filled(b) = 0
  BY BufferStream
<1>2. Sound(E[p], AnyCost) /\ \A t : pb_encode(t, d, m) = E[p][t]
  BY EncodeSound
<1>3. s = CASE framing = "delimited"      -> pb_encode_submessage(b, p, E)
            [] framing = "nullterminated" -> pb_write(pb_encode(b, d, m), <<0>>)
            [] framing = "plain"          -> pb_encode(b, d, m)
  BY DEF pb_encode_ex
<1> HIDE DEF b, s, E, p
<1>4. PICK c \in AnyCost : \A t \in Streams : Call(t, E[p][t], c)
  BY <1>2 DEF Sound
<1>5. Call(b, pb_encode(b, d, m), c)
  BY <1>1, <1>2, <1>4
<1>6. \E e \in AnyCost : Call(b, s, e)
  <2>1. CASE framing = "delimited"
    <3>1. s = pb_encode_submessage(b, p, E)
      BY <1>3, <2>1
    <3> QED
      BY <1>1, <1>2, <3>1, CallSubmessage
  <2>2. CASE framing = "nullterminated"
    <3> DEFINE t == pb_encode(b, d, m)
    <3> DEFINE z == <<0>>
    <3>1. s = pb_write(t, z)
      BY <1>3, <2>2
    <3>2. z \in Seq(0..255)
      OBVIOUS
    <3>3. Call(b, t, c)
      BY <1>5
    <3>4. t \in Streams
      BY <3>3 DEF Call, Grown
    <3> HIDE DEF t, z
    <3>5. Call(t, s, Len(z)) /\ Len(z) \in Nat
      BY <3>1, <3>2, <3>4, CallWrite
    <3> DEFINE n == Len(z)
    <3> HIDE DEF n
    <3>6. Call(t, s, n) /\ n \in AnyCost
      BY <3>5, NatCosts DEF n
    <3>7. Call(b, s, Plus(c, n))
      BY <1>1, <3>3, <3>6, CallThen
    <3>8. Plus(c, n) \in AnyCost
      BY <3>6, CostTypes, NatCosts
    <3> QED
      BY <3>7, <3>8
  <2>3. CASE framing = "plain"
    <3>1. s = pb_encode(b, d, m)
      BY <1>3, <2>3
    <3> QED
      BY <1>5, <3>1
  <2> QED
    BY <2>1, <2>2, <2>3
<1>7. Grown(b, s)
  BY <1>6 DEF Call
<1>8. s \in Streams
  BY <1>7 DEF Grown
<1>9. Filled(s) \in Nat /\ s.written \in Nat
  BY <1>8, StreamType
<1>10. Filled(s) = s.written
  BY <1>1, <1>7, <1>9 DEF Grown
<1>11. s.written <= room
  BY <1>1, <1>7 DEF Grown
<1>12. s \in Streams /\ s.written = Filled(s) /\ Filled(s) <= room
  BY <1>8, <1>10, <1>11
<1> QED
  BY <1>12 DEF b, s, Filled, Count

(* Over both passes, every nesting and every field type: a message whose   *)
(* callbacks write the same on both passes is encoded exactly when the     *)
(* buffer has room for the size pb_get_encoded_size announces, and then    *)
(* takes that size.                                                        *)
THEOREM AnnouncedSizeHolds ==
    ASSUME NEW d, NEW m, <<d, m>> \in Structs, Steady[<<d, m>>], NEW room \in Nat
    PROVE  LET s == pb_encode(pb_ostream_from_buffer(room), d, m)
               size == pb_get_encoded_size(d, m)
           IN  /\ s.ok <=> size.ok /\ size.written <= room
               /\ s.ok => s.written = size.written
<1> DEFINE b == pb_ostream_from_buffer(room)
<1> DEFINE s == pb_encode(b, d, m)
<1> DEFINE size == pb_get_encoded_size(d, m)
<1> DEFINE F == Encoder[MaxNesting + 1][<<d, m>>]
<1>1. b \in Streams /\ b.ok /\ ~b.sizing /\ b.written = 0 /\ b.max = room
  BY BufferStream
<1>2. Sound(F, Certain)
  BY EncoderSteady
<1>3. s = F[b] /\ size = F[PB_OSTREAM_SIZING]
  BY EncodeSound DEF pb_get_encoded_size
<1> HIDE DEF b, s, size, F
<1>4. PICK c \in Certain : \A t \in Streams : Call(t, F[t], c)
  BY <1>2 DEF Sound
<1>5. c # Unknown /\ c \in AnyCost /\ (c # Never => c \in Nat)
  BY NatCosts DEF Certain, Unknown, Never
<1>6. Call(b, s, c) /\ Call(PB_OSTREAM_SIZING, size, c)
  BY <1>1, <1>3, <1>4, SizingStream
<1>7. IF c = Never THEN ~size.ok ELSE size.ok /\ size.written = c
  BY <1>5, <1>6, Sized
<1>8. IF c # Never /\ 0 + c <= room THEN s.ok /\ s.written = 0 + c ELSE ~s.ok
  BY <1>1, <1>5, <1>6 DEF Call, Costing
<1>9. /\ s.ok <=> size.ok /\ size.written <= room
      /\ s.ok => s.written = size.written
  <2>1. CASE c = Never
    BY <1>7, <1>8, <2>1
  <2>2. CASE c # Never
    <3>1. c \in Nat /\ 0 + c = c
      BY <1>5, <2>2
    <3> QED
      BY <1>7, <1>8, <2>2, <3>1
  <2> QED
    BY <2>1, <2>2
<1> QED
  BY <1>9 DEF b, s, size

----------------------------------------------------------------------------
(* How many bytes an event can take: a tag below 16 takes one, a number no *)
(* more than ten, and the size of a submessage below 128 one.              *)
LEMMA ShortVarint ==
    ASSUME NEW k \in 0..127, NEW s \in Streams
    PROVE  Call(s, pb_encode_varint(s, Groups(k)), 1)
<1> DEFINE b == <<k>>
<1>1. k % 128 = k
  OBVIOUS
<1>2. Groups(k)[1] = k
  <2> DEFINE x1 == k % 128
  <2> DEFINE x2 == (k \div 128) % 128
  <2> DEFINE x3 == (k \div 16384) % 128
  <2> DEFINE x4 == (k \div 2097152) % 128
  <2> DEFINE x5 == (k \div 268435456) % 16
  <2>1. Groups(k) = [NoBits EXCEPT ![1] = x1, ![2] = x2, ![3] = x3, ![4] = x4, ![5] = x5]
    BY DEF Groups
  <2>2. x1 = k
    BY <1>1
  <2> HIDE DEF x1, x2, x3, x4, x5
  <2>3. Groups(k)[1] = x1
    BY <2>1 DEF NoBits, GroupCount
  <2> QED
    BY <2>2, <2>3
<1>3. pb_encode_varint(s, Groups(k)) = pb_write(s, b)
  BY <1>2 DEF pb_encode_varint
<1>4. b \in Seq(0..255) /\ Len(b) = 1
  OBVIOUS
<1> HIDE DEF b
<1> QED
  BY <1>3, <1>4, CallWrite

LEMMA ShortTag ==
    ASSUME NEW f, f.tag \in 1..15, NEW s \in Streams
    PROVE  Call(s, pb_encode_tag_for_field(s, f), 1)
<1> DEFINE k == f.tag * 8 + WireTypeOf(f.type)
<1>1. WireTypeOf(f.type) \in 0..5
  BY DEF WireTypeOf, WT_VARINT, WT_32BIT, WT_64BIT, WT_STRING
<1>2. k \in 0..127
  BY <1>1
<1>3. pb_encode_tag_for_field(s, f) = pb_encode_varint(s, Groups(k))
  BY DEF pb_encode_tag_for_field, pb_encode_tag
<1> HIDE DEF k
<1> QED
  BY <1>2, <1>3, ShortVarint

\* the most a field of a message takes whose tags are below 16
MostOf(f) == IF f.type = "bool" THEN 2 ELSE IF f.type = "fixed32" THEN 5 ELSE 11

LEMMA NumberWithin ==
    ASSUME NEW f, NEW v, NEW enc, f.tag \in 1..15, f.type \in {"bool", "uvarint", "fixed32"},
           f.size = 4 \/ f.type # "fixed32", FitsType(f, v)
    PROVE  \E c \in 0..MostOf(f) : \A s \in Streams : Call(s, encode_basic_field(s, f, v, enc), c)
<1> DEFINE value(t) == IF ~t.ok THEN t ELSE EncodeScalar(t, f, v)
<1>1. \A s : encode_basic_field(s, f, v, enc) = value(pb_encode_tag_for_field(s, f))
  BY DEF encode_basic_field, Packable, Varints
<1>2. \E d \in 0..MostOf(f) - 1 : \A t \in Streams : Call(t, EncodeScalar(t, f, v), d)
  <2>1. CASE f.type = "bool"
    <3> DEFINE k == IF v THEN 1 ELSE 0
    <3>1. \A t : EncodeScalar(t, f, v) = pb_encode_varint(t, Groups(k))
      BY <2>1 DEF EncodeScalar, pb_enc_bool
    <3>2. k \in 0..127
      OBVIOUS
    <3> HIDE DEF k
    <3>3. \A t \in Streams : Call(t, EncodeScalar(t, f, v), 1)
      BY <3>1, <3>2, ShortVarint
    <3>4. MostOf(f) = 2
      BY <2>1 DEF MostOf
    <3> QED
      BY <3>3, <3>4
  <2>2. CASE f.type = "uvarint"
    <3>1. \A t : EncodeScalar(t, f, v) = pb_encode_varint(t, v)
      BY <2>2 DEF EncodeScalar, pb_enc_varint
    <3>2. v \in Numbers
      BY <2>2 DEF FitsType, Numbers, Varints
    <3>3. MostOf(f) = 11
      BY <2>2 DEF MostOf
    <3> QED
      BY <3>1, <3>2, <3>3, VarintWithin
  <2>3. CASE f.type = "fixed32"
    <3>1. \A t : EncodeScalar(t, f, v) = pb_write(t, v)
      BY <2>3 DEF EncodeScalar, pb_enc_fixed
    <3>2. v \in Seq(0..255) /\ Len(v) = 4
      BY <2>3 DEF FitsType, Varints
    <3>3. MostOf(f) = 5
      BY <2>3 DEF MostOf
    <3>4. \A t \in Streams : Call(t, EncodeScalar(t, f, v), 4)
      BY <3>1, <3>2, CallWrite
    <3> QED
      BY <3>3, <3>4
  <2> QED
    BY <2>1, <2>2, <2>3
<1>3. PICK d \in 0..MostOf(f) - 1 : \A t \in Streams : Call(t, EncodeScalar(t, f, v), d)
  BY <1>2
<1>4. d \in Nat /\ MostOf(f) \in Nat /\ 1 + d \in 0..MostOf(f)
  <2>1. MostOf(f) \in {2, 5, 11}
    BY DEF MostOf
  <2> QED
    BY <1>3, <2>1
<1>5. ASSUME NEW s \in Streams PROVE Call(s, encode_basic_field(s, f, v, enc), 1 + d)
  <2> DEFINE t == pb_encode_tag_for_field(s, f)
  <2>1. Call(s, t, 1)
    BY ShortTag
  <2>2. t \in Streams
    BY <2>1 DEF Call, Grown
  <2> HIDE DEF t
  <2>3. ~t.ok => value(t) = t
    OBVIOUS
  <2>4. t.ok => Call(t, value(t), d)
    BY <1>3, <2>2
  <2> HIDE DEF value
  <2>5. 1 \in AnyCost /\ d \in AnyCost /\ Plus(1, d) = 1 + d
    BY <1>4, NatCosts, CostTypes
  <2>6. Call(s, value(t), Plus(1, d))
    BY <2>1, <2>2, <2>3, <2>4, <2>5, CallIfOk
  <2> QED
    BY <1>1, <2>5, <2>6 DEF t
<1> QED
  BY <1>4, <1>5

LEMMA SubmessageWithin ==
    ASSUME NEW f, NEW v, NEW enc, f.tag \in 1..15, f.type = "submsg", NEW b \in 0..127,
           NEW c \in 0..b, \A s \in Streams : Call(s, enc[<<f.sub, v>>][s], c),
           NEW s \in Streams
    PROVE  Call(s, encode_basic_field(s, f, v, enc), 2 + c)
<1> DEFINE p == <<f.sub, v>>
<1> DEFINE value(t) == IF ~t.ok THEN t ELSE pb_encode_submessage(t, p, enc)
<1> DEFINE sized == enc[p][PB_OSTREAM_SIZING]
<1>1. encode_basic_field(s, f, v, enc) = value(pb_encode_tag_for_field(s, f))
  BY DEF encode_basic_field, Packable, Varints
<1>2. \A t \in Streams : Call(t, enc[p][t], c)
  OBVIOUS
<1>3. c \in Nat /\ c \in AnyCost /\ c # Never /\ c # Unknown /\ c \in 0..127
  BY NatCosts DEF Never, Unknown
<1>4. sized = enc[p][PB_OSTREAM_SIZING]
  OBVIOUS
<1> HIDE DEF p, sized
<1>5. sized.ok /\ sized.written = c
  BY <1>2, <1>3, <1>4, SizingStream, Sized
<1> DEFINE l == 1
<1>6. \A t \in Streams : Call(t, pb_encode_varint(t, Groups(sized.written)), l)
  BY <1>3, <1>5, ShortVarint
<1>7. l \in Nat /\ sized.ok
  BY <1>5
<1> HIDE DEF l
<1>15. \A t \in Streams : Call(t, pb_encode_submessage(t, p, enc), Plus(l, c))
  BY <1>2, <1>3, <1>4, <1>6, <1>7, SubmessageCost
<1>8. 1 + c \in Nat /\ Plus(1, c) = 1 + c /\ Plus(1, 1 + c) = 2 + c /\ 1 \in AnyCost /\ 1 + c \in AnyCost
  <2>1. c \in Nat /\ 1 \in Nat /\ 1 + c \in Nat /\ 1 + (1 + c) = 2 + c
    BY <1>3
  <2>2. Plus(1, c) = 1 + c /\ Plus(1, 1 + c) = 1 + (1 + c)
    BY <2>1, CostTypes
  <2> QED
    BY <2>1, <2>2, NatCosts
<1> DEFINE t == pb_encode_tag_for_field(s, f)
<1>9. Call(s, t, 1)
  BY ShortTag
<1>10. t \in Streams
  BY <1>9 DEF Call, Grown
<1>11. t = pb_encode_tag_for_field(s, f)
  OBVIOUS
<1> HIDE DEF t
<1>12. ~t.ok => value(t) = t
  OBVIOUS
<1>13. t.ok => Call(t, value(t), 1 + c)
  BY <1>8, <1>10, <1>15 DEF l
<1> HIDE DEF value
<1>14. Call(s, value(t), Plus(1, 1 + c))
  BY <1>8, <1>9, <1>10, <1>12, <1>13, CallIfOk
<1> QED
  BY <1>1, <1>8, <1>11, <1>14

\* the fields of a TelemetryEvent and of the structs in it
Singular(f) == /\ f.rule = "singular" /\ f.alloc = "static" /\ f.tag \in 1..15
               /\ f.type \in {"bool", "uvarint", "fixed32"}
               /\ f.type = "fixed32" => f.size = 4
Optional(f) == /\ f.rule = "optional" /\ f.alloc = "static" /\ f.tag \in 1..15
               /\ f.type = "submsg"

LEMMA SingularWithin ==
    ASSUME NEW p \in Structs, NEW i \in DOMAIN p[1], NEW enc, Singular(p[1][i])
    PROVE  \E c \in 0..MostOf(p[1][i]) :
             \A s \in Streams : Call(s, encode_field(s, p[1][i], p[2], enc), c)
<1> DEFINE f == p[1][i]
<1> DEFINE v == p[2][f.tag]
<1> DEFINE absent == pb_check_proto3_default_value(f, p[2], IsZero)
<1>1. \A s : encode_field(s, f, p[2], enc) = IF absent THEN s ELSE encode_basic_field(s, f, v, enc)
  BY DEF encode_field, Singular
<1>2. v \in Held(f, v)
  BY DEF Held, Singular
<1>3. FitsType(f, v) /\ Singular(f)
  BY <1>2, HeldFacts
<1>4. SUFFICES \E c \in 0..MostOf(f) : \A s \in Streams : Call(s, encode_field(s, f, p[2], enc), c)
  OBVIOUS
<1>5. MostOf(f) \in {2, 5, 11}
  BY <1>3 DEF MostOf, Singular
<1> DEFINE m == p[2]
<1>6. \A s : encode_field(s, f, m, enc) = IF absent THEN s ELSE encode_basic_field(s, f, v, enc)
  BY <1>1
<1> HIDE DEF f, v, absent, m
<1>7. CASE absent
  <2>1. \A s \in Streams : Call(s, encode_field(s, f, m, enc), 0)
    BY <1>6, <1>7, CallNone
  <2> QED
    BY <1>5, <2>1 DEF m
<1>8. CASE ~absent
  <2>1. PICK c \in 0..MostOf(f) : \A s \in Streams : Call(s, encode_basic_field(s, f, v, enc), c)
    BY <1>3, NumberWithin DEF Singular
  <2>2. \A s \in Streams : Call(s, encode_field(s, f, m, enc), c)
    BY <1>6, <1>8, <2>1
  <2> QED
    BY <2>2 DEF m
<1> QED
  BY <1>7, <1>8

LEMMA OptionalWithin ==
    ASSUME NEW p \in Structs, NEW i \in DOMAIN p[1], NEW enc, Optional(p[1][i]), NEW b \in 0..127,
           \A q \in Inside(p) : q[1] = p[1][i].sub =>
             \E c \in 0..b : \A s \in Streams : Call(s, enc[q][s], c)
    PROVE  \E c \in 0..b + 2 : \A s \in Streams : Call(s, encode_field(s, p[1][i], p[2], enc), c)
<1> DEFINE f == p[1][i]
<1> DEFINE v == p[2][f.tag]
<1> DEFINE m == p[2]
<1>1. \A s : encode_field(s, f, m, enc) = IF ~v.has THEN s ELSE encode_basic_field(s, f, v.val, enc)
  BY DEF encode_field, Optional
<1>2. Optional(f)
  OBVIOUS
<1>3. ASSUME v.has PROVE <<f.sub, v.val>> \in Inside(p)
  <2>1. v.val \in Held(f, v)
    BY <1>3 DEF Held, Optional
  <2> QED
    BY <2>1, HeldFacts DEF Optional
<1>4. SUFFICES \E c \in 0..b + 2 : \A s \in Streams : Call(s, encode_field(s, f, m, enc), c)
  OBVIOUS
<1>5. \A q \in Inside(p) : q[1] = f.sub => \E c \in 0..b : \A s \in Streams : Call(s, enc[q][s], c)
  OBVIOUS
<1> HIDE DEF f, v, m
<1>6. CASE ~v.has
  <2>1. \A s \in Streams : Call(s, encode_field(s, f, m, enc), 0)
    BY <1>1, <1>6, CallNone
  <2> QED
    BY <2>1
<1>7. CASE v.has
  <2> DEFINE w == v.val
  <2>1. <<f.sub, w>> \in Inside(p) /\ <<f.sub, w>>[1] = f.sub
    BY <1>3, <1>7
  <2>2. PICK c \in 0..b : \A s \in Streams : Call(s, enc[<<f.sub, w>>][s], c)
    BY <1>5, <2>1
  <2>3. \A s : encode_field(s, f, m, enc) = encode_basic_field(s, f, w, enc)
    BY <1>1, <1>7
  <2> HIDE DEF w
  <2>4. f.tag \in 1..15 /\ f.type = "submsg" /\ b \in 0..127
    BY <1>2 DEF Optional
  <2>5. \A s \in Streams : Call(s, encode_basic_field(s, f, w, enc), 2 + c)
    BY <2>2, <2>4, SubmessageWithin
  <2>6. \A s \in Streams : Call(s, encode_field(s, f, m, enc), 2 + c)
    BY <2>3, <2>5
  <2>7. 2 + c \in 0..b + 2
    BY <2>2
  <2> QED
    BY <2>6, <2>7
<1> QED
  BY <1>6, <1>7

LEMMA UnsetNothing ==
    ASSUME NEW f, NEW m, NEW enc, f.alloc = "callback", m[f.tag] = <<>>, NEW s \in Streams
    PROVE  Call(s, encode_field(s, f, m, enc), 0)
<1>1. encode_field(s, f, m, enc) = s
  BY DEF encode_field, encode_callback_field
<1> QED
  BY <1>1, CallNone

(* A struct whose fields keep within a budget does.                        *)
LEMMA FieldsWithin ==
    ASSUME NEW p \in Structs, NEW enc, NEW N, N = Len(p[1]),
           NEW B \in [0..N -> Nat], B[0] = 0,
           \A i \in 1..N :
             \E c \in Nat : /\ B[i - 1] + c <= B[i]
                            /\ \A s \in Streams : Call(s, encode_field(s, p[1][i], p[2], enc), c)
    PROVE  \E c \in 0..B[N] : \A s \in Streams : Call(s, Level(enc)[p][s], c)
<1> DEFINE One(t, i) == encode_field(t, p[1][i], p[2], enc)
<1> DEFINE steps == [i \in 1..N |-> [t \in Streams |-> One(t, i)]]
<1>1. \A s \in Streams : Level(enc)[p][s] = EncodeFields(s, p[1], p[2], enc)
  BY DEF Level
<1>2. N \in Nat
  BY StructFacts
<1>3. \A s : EncodeFields(s, p[1], p[2], enc) = InTurn(steps, s)
  BY DEF EncodeFields
<1>4. ASSUME NEW i \in 1..N
      PROVE \E c \in Nat : B[i - 1] + c <= B[i] /\ \A t \in Streams : Call(t, One(t, i), c)
  OBVIOUS
<1> HIDE DEF One
<1>5. ASSUME NEW i \in 1..N
      PROVE  /\ steps[i] \in [Streams -> Streams]
             /\ \E c \in Nat : B[i - 1] + c <= B[i] /\ \A t \in Streams : Call(t, steps[i][t], c)
  <2>1. PICK c \in Nat : B[i - 1] + c <= B[i] /\ \A t \in Streams : Call(t, One(t, i), c)
    BY <1>4
  <2>2. \A t \in Streams : One(t, i) \in Streams
    BY <2>1 DEF Call, Grown
  <2> DEFINE F == [t \in Streams |-> One(t, i)]
  <2>3. F \in [Streams -> Streams] /\ \A t \in Streams : F[t] = One(t, i)
    BY <2>2
  <2>4. steps[i] = F
    OBVIOUS
  <2> HIDE DEF F, steps
  <2> QED
    BY <2>1, <2>3, <2>4
<1>6. steps = [i \in 1..N |-> steps[i]]
  OBVIOUS
<1> HIDE DEF steps
<1>7. \A i \in 1..N : steps[i] \in [Streams -> Streams]
  BY <1>5
<1>8. steps \in Seq([Streams -> Streams]) /\ N = Len(steps)
  BY <1>2, <1>6, <1>7, StepsType
<1>9. \E c \in 0..B[N] : \A s \in Streams : Call(s, InTurn(steps, s), c)
  BY <1>5, <1>8, InTurnWithin
<1> QED
  BY <1>1, <1>3, <1>9

LEMMA FlatWithin ==
    ASSUME NEW p \in Structs, NEW enc, NEW N, N = Len(p[1]),
           NEW B \in [0..N -> Nat], B[0] = 0,
           \A i \in 1..N : \/ Singular(p[1][i]) /\ B[i - 1] + MostOf(p[1][i]) <= B[i]
                           \/ /\ p[1][i].alloc = "callback" /\ p[2][p[1][i].tag] = <<>>
                              /\ B[i - 1] = B[i]
    PROVE  \E c \in 0..B[N] : \A s \in Streams : Call(s, Level(enc)[p][s], c)
<1>1. N \in Nat /\ DOMAIN p[1] = 1..N
  BY StructFacts
<1>2. ASSUME NEW i \in 1..N
      PROVE  \E c \in Nat : /\ B[i - 1] + c <= B[i]
                            /\ \A s \in Streams : Call(s, encode_field(s, p[1][i], p[2], enc), c)
  <2>1. B[i - 1] \in Nat /\ B[i] \in Nat
    <3>1. i - 1 \in 0..N /\ i \in 0..N
      BY <1>1
    <3> QED
      BY <3>1
  <2>2. CASE Singular(p[1][i]) /\ B[i - 1] + MostOf(p[1][i]) <= B[i]
    <3>1. PICK c \in 0..MostOf(p[1][i]) :
            \A s \in Streams : Call(s, encode_field(s, p[1][i], p[2], enc), c)
      BY <1>1, <2>2, SingularWithin
    <3>2. MostOf(p[1][i]) \in Nat
      BY <2>2 DEF MostOf, Singular
    <3>3. c \in Nat /\ B[i - 1] + c <= B[i]
      BY <2>1, <2>2, <3>1, <3>2
    <3> QED
      BY <3>1, <3>3
  <2>3. CASE /\ p[1][i].alloc = "callback" /\ p[2][p[1][i].tag] = <<>>
             /\ B[i - 1] = B[i]
    <3>1. \A s \in Streams : Call(s, encode_field(s, p[1][i], p[2], enc), 0)
      BY <2>3, UnsetNothing
    <3>2. B[i - 1] + 0 <= B[i]
      BY <2>1, <2>3
    <3> QED
      BY <3>1, <3>2
  <2> QED
    BY <2>2, <2>3
<1> QED
  BY <1>2, FieldsWithin

(* The sizes telemetry.pb.h gives for the structs of floats are the most   *)
(* they take; an enumerator that is not checked may take ten bytes.        *)
LEMMA FloatsWithin ==
    ASSUME NEW n \in 0..15, NEW q \in Structs, q[1] = Floats(n), NEW enc
    PROVE  \E c \in 0..5 * n : \A s \in Streams : Call(s, Level(enc)[q][s], c)
<1> DEFINE B == [i \in 0..n |-> 5 * i]
<1>1. Len(q[1]) = n
  BY DEF Floats
<1>2. ASSUME NEW i \in 1..n PROVE Singular(q[1][i]) /\ MostOf(q[1][i]) = 5
  <2>1. q[1][i] = Float(i)
    BY DEF Floats
  <2> QED
    BY <2>1 DEF Float, Field, Singular, MostOf
<1>3. B \in [0..n -> Nat] /\ B[0] = 0 /\ B[n] = 5 * n
  OBVIOUS
<1>4. \A i \in 1..n : B[i - 1] + 5 <= B[i]
  OBVIOUS
<1> HIDE DEF B
<1>5. \A i \in 1..n : Singular(q[1][i]) /\ B[i - 1] + MostOf(q[1][i]) <= B[i]
  BY <1>2, <1>4
<1> QED
  BY <1>1, <1>3, <1>5, FlatWithin

LEMMA EnumWithin ==
    ASSUME NEW q \in Structs, q[1] = <<Enum(1)>>, NEW enc
    PROVE  \E c \in 0..11 : \A s \in Streams : Call(s, Level(enc)[q][s], c)
<1> DEFINE B == [i \in 0..1 |-> 11 * i]
<1>1. Len(q[1]) = 1 /\ q[1][1] = Enum(1)
  OBVIOUS
<1>2. Singular(q[1][1]) /\ MostOf(q[1][1]) = 11
  BY <1>1 DEF Enum, Field, Singular, MostOf
<1>3. B \in [0..1 -> Nat] /\ B[0] = 0 /\ B[1] = 11
  OBVIOUS
<1> HIDE DEF B
<1>4. \A i \in 1..1 : Singular(q[1][i]) /\ B[i - 1] + MostOf(q[1][i]) <= B[i]
  BY <1>2, <1>3
<1> QED
  BY <1>1, <1>3, <1>4, FlatWithin

LEMMA LocationWithin ==
    ASSUME NEW q \in Structs, q[1] = LocationDesc, q[2][3] = <<>>, NEW enc
    PROVE  \E c \in 0..22 : \A s \in Streams : Call(s, Level(enc)[q][s], c)
<1> DEFINE B == [i \in 0..3 |-> IF i = 3 THEN 22 ELSE 11 * i]
<1>1. /\ Len(q[1]) = 3 /\ q[1][1] = Enum(1) /\ q[1][2] = Enum(2)
      /\ q[1][3] = Field(3, "repeated", "varint", 4, 1, <<>>, "callback")
  BY DEF LocationDesc
<1>2. /\ Singular(q[1][1]) /\ MostOf(q[1][1]) = 11
      /\ Singular(q[1][2]) /\ MostOf(q[1][2]) = 11
      /\ q[1][3].alloc = "callback" /\ q[1][3].tag = 3
  BY <1>1 DEF Enum, Field, Singular, MostOf
<1>3. B \in [0..3 -> Nat] /\ B[0] = 0 /\ B[1] = 11 /\ B[2] = 22 /\ B[3] = 22
  OBVIOUS
<1> HIDE DEF B
<1>4. \A i \in 1..3 : \/ Singular(q[1][i]) /\ B[i - 1] + MostOf(q[1][i]) <= B[i]
                      \/ /\ q[1][i].alloc = "callback" /\ q[2][q[1][i].tag] = <<>>
                         /\ B[i - 1] = B[i]
  <2> TAKE i \in 1..3
  <2>1. CASE i = 1
    BY <1>2, <1>3, <2>1
  <2>2. CASE i = 2
    BY <1>2, <1>3, <2>2
  <2>3. CASE i = 3
    BY <1>2, <1>3, <2>3
  <2> QED
    BY <2>1, <2>2, <2>3
<1> DEFINE N == 3
<1>5. /\ N = Len(q[1])
      /\ B \in [0..N -> Nat]
      /\ B[0] = 0 /\ B[N] = 22
      /\ \A i \in 1..N : \/ Singular(q[1][i]) /\ B[i - 1] + MostOf(q[1][i]) <= B[i]
                         \/ /\ q[1][i].alloc = "callback" /\ q[2][q[1][i].tag] = <<>>
                            /\ B[i - 1] = B[i]
  BY <1>1, <1>3, <1>4
<1> HIDE DEF N
<1>6. \E c \in 0..B[N] : \A s \in Streams : Call(s, Level(enc)[q][s], c)
  BY <1>5, FlatWithin
<1> QED
  BY <1>5, <1>6

\* an event none of whose callback functions is set; the upload functions set none
NoFunction(e) == \A v \in Held(pb_TelemetryEvent_fields[5], e[5]) : v[3] = <<>>

(* A level of the encoder over one that encodes the structs inside.        *)
LEMMA EventWithin ==
    ASSUME NEW p \in Structs, p[1] = pb_TelemetryEvent_fields, NoFunction(p[2]), NEW enc,
           \A q \in Inside(p) : \E down : enc[q] = Level(down)[q]
    PROVE  \E c \in 0..126 : \A s \in Streams : Call(s, Level(enc)[p][s], c)
<1> DEFINE B == [i \in 0..9 |-> IF i < 4 THEN 17 * i ELSE IF i = 4 THEN 63 ELSE IF i = 5 THEN 87
                                 ELSE IF i = 6 THEN 100 ELSE IF i = 7 THEN 113
                                 ELSE IF i = 8 THEN 124 ELSE 126]
<1> DEFINE Below(d, b) == \A q \in Inside(p) :
                            q[1] = d => \E c \in 0..b : \A s \in Streams : Call(s, enc[q][s], c)
<1> DEFINE Fits(i, b) == \E c \in 0..b : \A s \in Streams : Call(s, encode_field(s, p[1][i], p[2], enc), c)
<1>0. DOMAIN p[1] = 1..9 /\ Len(p[1]) = 9
  BY DEF pb_TelemetryEvent_fields
<1>1. /\ p[1][1] = Sub(1, Floats(3)) /\ p[1][2] = Sub(2, Floats(3)) /\ p[1][3] = Sub(3, Floats(3))
      /\ p[1][4] = Sub(4, Floats(2)) /\ p[1][5] = Sub(5, LocationDesc)
      /\ p[1][6] = Sub(6, <<Enum(1)>>) /\ p[1][7] = Sub(7, <<Enum(1)>>)
      /\ p[1][8] = Enum(8) /\ p[1][9] = Field(9, "singular", "bool", 1, 1, <<>>, "static")
  BY DEF pb_TelemetryEvent_fields
<1>2. \A t \in 1..15 : \A d : Optional(Sub(t, d)) /\ Sub(t, d).sub = d
  BY DEF Sub, Field, Optional
<1>3. ASSUME NEW i \in 1..9, NEW d, p[1][i] = Sub(i, d), NEW b \in 0..127, Below(d, b)
      PROVE  Fits(i, b + 2)
  <2>1. Optional(p[1][i]) /\ p[1][i].sub = d /\ i \in DOMAIN p[1]
    BY <1>0, <1>2, <1>3
  <2>2. \A q \in Inside(p) : q[1] = p[1][i].sub =>
          \E c \in 0..b : \A s \in Streams : Call(s, enc[q][s], c)
    BY <1>3, <2>1
  <2>3. \E c \in 0..b + 2 : \A s \in Streams : Call(s, encode_field(s, p[1][i], p[2], enc), c)
    BY <2>1, <2>2, OptionalWithin
  <2> QED
    BY <2>3
<1>4. ASSUME NEW n \in 0..15, NEW q \in Inside(p), q[1] = Floats(n)
      PROVE  \E c \in 0..5 * n : \A s \in Streams : Call(s, enc[q][s], c)
  BY <1>4, InsideStructs, FloatsWithin
<1>5. ASSUME NEW q \in Inside(p), q[1] = <<Enum(1)>>
      PROVE  \E c \in 0..11 : \A s \in Streams : Call(s, enc[q][s], c)
  BY <1>5, InsideStructs, EnumWithin
<1>6. ASSUME NEW q \in Inside(p), q[1] = LocationDesc
      PROVE  \E c \in 0..22 : \A s \in Streams : Call(s, enc[q][s], c)
  <2>1. PICK i \in DOMAIN p[1] :
          /\ p[1][i].type = "submsg"
          /\ \E v \in Held(p[1][i], p[2][p[1][i].tag]) : q = <<p[1][i].sub, v>>
    BY DEF Inside
  <2>2. PICK v \in Held(p[1][i], p[2][p[1][i].tag]) : q = <<p[1][i].sub, v>>
    BY <2>1
  <2>3. p[1][i].sub = LocationDesc /\ q[2] = v
    BY <1>6, <2>2
  <2>4. /\ Floats(3) # LocationDesc /\ Floats(2) # LocationDesc /\ <<Enum(1)>> # LocationDesc
        /\ <<>> # LocationDesc
    <3>1. Floats(3)[1] = Float(1) /\ Floats(2)[1] = Float(1) /\ LocationDesc[1] = Enum(1)
      BY DEF Floats, LocationDesc
    <3>2. Float(1).type # Enum(1).type
      BY DEF Float, Enum, Field
    <3>3. Len(<<Enum(1)>>) # Len(LocationDesc) /\ Len(<<>>) # Len(LocationDesc)
      BY DEF LocationDesc
    <3> QED
      BY <3>1, <3>2, <3>3
  <2>5. i = 5 /\ p[1][i].tag = 5
    <3>1. i \in 1..9
      BY <1>0
    <3>2. p[1][8].sub = <<>> /\ p[1][9].sub = <<>> /\ p[1][5].tag = 5
      BY <1>1 DEF Enum, Sub, Field
    <3>3. /\ p[1][1].sub = Floats(3) /\ p[1][2].sub = Floats(3) /\ p[1][3].sub = Floats(3)
          /\ p[1][4].sub = Floats(2) /\ p[1][6].sub = <<Enum(1)>> /\ p[1][7].sub = <<Enum(1)>>
      BY <1>1, <1>2
    <3> DEFINE S(k) == p[1][k].sub
    <3>4. S(i) = LocationDesc
      BY <2>3
    <3>5. \A k \in {1, 2, 3, 4, 6, 7, 8, 9} : S(k) # LocationDesc
      BY <2>4, <3>2, <3>3
    <3> HIDE DEF S
    <3>6. i \notin {1, 2, 3, 4, 6, 7, 8, 9}
      BY <3>4, <3>5
    <3>7. i = 5
      BY <3>1, <3>6
    <3> QED
      BY <3>2, <3>7
  <2>6. v \in Held(pb_TelemetryEvent_fields[5], p[2][5])
    BY <2>2, <2>5
  <2>7. q[2][3] = <<>>
    BY <2>3, <2>6 DEF NoFunction
  <2> QED
    BY <1>6, <2>7, InsideStructs, LocationWithin
<1>7. Below(Floats(3), 15) /\ Below(Floats(2), 10) /\ Below(<<Enum(1)>>, 11) /\ Below(LocationDesc, 22)
  <2>1. Below(Floats(3), 15)
    BY <1>4
  <2>2. Below(Floats(2), 10)
    BY <1>4
  <2> QED
    BY <1>5, <1>6, <2>1, <2>2
<1> HIDE DEF Below, Fits
<1>8. /\ Fits(1, 15 + 2) /\ Fits(2, 15 + 2) /\ Fits(3, 15 + 2) /\ Fits(4, 10 + 2)
      /\ Fits(5, 22 + 2) /\ Fits(6, 11 + 2) /\ Fits(7, 11 + 2)
  BY <1>1, <1>3, <1>7
<1>9. /\ Fits(1, 17) /\ Fits(2, 17) /\ Fits(3, 17) /\ Fits(4, 12)
      /\ Fits(5, 24) /\ Fits(6, 13) /\ Fits(7, 13)
  BY <1>8
<1>10. Fits(8, 11) /\ Fits(9, 2)
  <2>1. Singular(p[1][8]) /\ MostOf(p[1][8]) = 11 /\ Singular(p[1][9]) /\ MostOf(p[1][9]) = 2
    BY <1>1 DEF Enum, Field, Singular, MostOf
  <2>2. 8 \in DOMAIN p[1] /\ 9 \in DOMAIN p[1]
    BY <1>0
  <2> QED
    BY <2>1, <2>2, SingularWithin DEF Fits
<1>11. /\ B \in [0..9 -> Nat] /\ B[0] = 0 /\ B[1] = 17 /\ B[2] = 34 /\ B[3] = 51 /\ B[4] = 63
       /\ B[5] = 87 /\ B[6] = 100 /\ B[7] = 113 /\ B[8] = 124 /\ B[9] = 126
  OBVIOUS
<1> HIDE DEF B
<1>12. ASSUME NEW i \in 1..9 PROVE \E b \in Nat : Fits(i, b) /\ B[i - 1] + b <= B[i]
  <2>1. \/ i = 1 /\ Fits(i, 17) /\ B[i - 1] + 17 <= B[i]
        \/ i = 2 /\ Fits(i, 17) /\ B[i - 1] + 17 <= B[i]
        \/ i = 3 /\ Fits(i, 17) /\ B[i - 1] + 17 <= B[i]
        \/ i = 4 /\ Fits(i, 12) /\ B[i - 1] + 12 <= B[i]
        \/ i = 5 /\ Fits(i, 24) /\ B[i - 1] + 24 <= B[i]
        \/ i = 6 /\ Fits(i, 13) /\ B[i - 1] + 13 <= B[i]
        \/ i = 7 /\ Fits(i, 13) /\ B[i - 1] + 13 <= B[i]
        \/ i = 8 /\ Fits(i, 11) /\ B[i - 1] + 11 <= B[i]
        \/ i = 9 /\ Fits(i, 2) /\ B[i - 1] + 2 <= B[i]
    BY <1>9, <1>10, <1>11
  <2> QED
    BY <2>1
<1>13. ASSUME NEW i \in 1..9
       PROVE  \E c \in Nat : /\ B[i - 1] + c <= B[i]
                             /\ \A s \in Streams : Call(s, encode_field(s, p[1][i], p[2], enc), c)
  <2>1. PICK b \in Nat : Fits(i, b) /\ B[i - 1] + b <= B[i]
    BY <1>12
  <2>2. PICK c \in 0..b : \A s \in Streams : Call(s, encode_field(s, p[1][i], p[2], enc), c)
    BY <2>1 DEF Fits
  <2>3. B[i - 1] \in Nat /\ B[i] \in Nat
    <3>1. i - 1 \in 0..9 /\ i \in 0..9
      OBVIOUS
    <3> QED
      BY <1>11, <3>1
  <2>4. c \in Nat /\ B[i - 1] + c <= B[i]
    BY <2>1, <2>2, <2>3
  <2> QED
    BY <2>2, <2>4
<1>14. \E c \in 0..B[9] : \A s \in Streams : Call(s, Level(enc)[p][s], c)
  BY <1>0, <1>11, <1>13, FieldsWithin
<1> QED
  BY <1>11, <1>14

LEMMA FirstInside == MaxNesting = 0 => InsideAt[0] = Encoded
<1> SUFFICES ASSUME MaxNesting = 0 PROVE InsideAt[0] = Encoded
  OBVIOUS
<1> DEFINE Is(h) == h = [n \in 0..MaxNesting |-> IF n = 0 THEN Encoded
                                                 ELSE UNION {Inside(p) : p \in h[n - 1]}]
<1> DEFINE g == [n \in 0..0 |-> Encoded]
<1>1. Is(g)
  OBVIOUS
<1>2. InsideAt = CHOOSE h : Is(h)
  BY DEF InsideAt
<1> HIDE DEF g
<1>3. Is(InsideAt)
  BY <1>1, <1>2
<1> QED
  BY <1>3

(* The 128 bytes of _uploadEvent hold every TelemetryEvent without a set   *)
(* callback, whatever its floats and enumerators, checked or not: the      *)
(* encoder never fails for want of room.                                   *)
THEOREM EveryEventFits ==
    ASSUME NEW e, <<pb_TelemetryEvent_fields, e>> \in Structs, NoFunction(e)
    PROVE  _uploadEvent(e).ok /\ _uploadEvent(e).written <= 126
<1> DEFINE p == <<pb_TelemetryEvent_fields, e>>
<1> DEFINE M == MaxNesting
<1> DEFINE enc == Encoder[M]
<1> DEFINE b == pb_ostream_from_buffer(EventBuffer)
<1>1. p \in Structs /\ p[1] = pb_TelemetryEvent_fields /\ p[2] = e /\ NoFunction(p[2])
  OBVIOUS
<1>2. b \in Streams /\ b.ok /\ b.written = 0 /\ b.max = 128 /\ ~b.sizing
  BY BufferStream DEF EventBuffer
<1>3. M \in Nat /\ M + 1 - 1 = M
  BY StructsAssumption
<1>4. Encoder[M + 1] = Level(enc)
  BY <1>3, EncoderIs
<1>5. _uploadEvent(e) = Level(enc)[p][b]
  BY <1>4 DEF _uploadEvent, pb_encode
<1> HIDE DEF p, b
<1>6. \A q \in Inside(p) : \E down : enc[q] = Level(down)[q]
  <2>1. CASE M = 0
    <3>1. p \in InsideAt[MaxNesting]
      BY <1>1, <2>1, FirstInside DEF Structs
    <3> QED
      BY <3>1, StructsAssumption
  <2>2. CASE M # 0
    <3>1. M \in 1..MaxNesting + 1
      BY <1>3, <2>2
    <3>2. enc = Level(Encoder[M - 1])
      BY <3>1, EncoderIs
    <3> QED
      BY <3>2
  <2> QED
    BY <2>1, <2>2
<1> HIDE DEF enc
<1>7. PICK c \in 0..126 : \A s \in Streams : Call(s, Level(enc)[p][s], c)
  BY <1>1, <1>6, EventWithin
<1>8. Call(b, _uploadEvent(e), c)
  BY <1>2, <1>5, <1>7
<1>9. c # Never /\ c # Unknown /\ c \in 0..126
  BY <1>7 DEF Never, Unknown
<1> QED
  BY <1>2, <1>8, <1>9 DEF Call, Costing

----------------------------------------------------------------------------
\* what the invariant rests on: the last call was one of the encoder's
LastCall ==
  /\ kind \in Kinds /\ mode \in Modes[kind]
  /\ \/ last = NoCall
     \/ \E m \in Messages[kind], room \in Rooms[kind] :
          last = [m |-> m, room |-> room,
                  s |-> pb_encode_ex(pb_ostream_from_buffer(room), Desc[kind], m, mode)]

LEMMA LastCallHolds == TelemetrySpec => []LastCall
<1>1. TelemetryInit => LastCall
  BY DEF TelemetryInit, LastCall
<1>2. LastCall /\ [TelemetryNext]_senderVars => LastCall'
  <2> SUFFICES ASSUME LastCall, [TelemetryNext]_senderVars PROVE LastCall'
    OBVIOUS
  <2>1. ASSUME NEW m \in Messages[kind], NEW room \in Rooms[kind], Send(m, room) PROVE LastCall'
    <3>1. /\ kind' = kind /\ mode' = mode
          /\ last' = [m |-> m, room |-> room,
                      s |-> pb_encode_ex(pb_ostream_from_buffer(room), Desc[kind], m, mode)]
      BY <2>1 DEF Send
    <3> QED
      BY <3>1 DEF LastCall
  <2>2. ASSUME NEW n \in 0..Len(wire) - 1, Break(n) PROVE LastCall'
    BY <2>2 DEF Break, LastCall
  <2>3. CASE UNCHANGED senderVars
    BY <2>3 DEF senderVars, LastCall
  <2> QED
    BY <2>1, <2>2, <2>3 DEF TelemetryNext
<1> QED
  BY <1>1, <1>2, PTL DEF TelemetrySpec

(* The encoder never writes behind its buffer, counts what it wrote, and   *)
(* gives up on an encodable message only when the buffer is smaller than   *)
(* the announced size (pb_write, pb_encode_submessage, pb_encode_ex).      *)
THEOREM EncoderHoldsTheBuffer == TelemetrySpec => []BufferHeld
<1>1. LastCall => BufferHeld
  <2> SUFFICES ASSUME LastCall, last # NoCall PROVE BufferHeld
    BY DEF BufferHeld
  <2>1. PICK m \in Messages[kind], room \in Rooms[kind] :
          last = [m |-> m, room |-> room,
                  s |-> pb_encode_ex(pb_ostream_from_buffer(room), Desc[kind], m, mode)]
    BY DEF LastCall
  <2> DEFINE s == pb_encode_ex(pb_ostream_from_buffer(room), Desc[kind], m, mode)
  <2> DEFINE size == pb_get_encoded_size(Desc[kind], m)
  <2>2. last.m = m /\ last.room = room /\ last.s = s
    BY <2>1
  <2>3. room \in Nat /\ mode \in {"plain", "delimited", "nullterminated"}
    BY SenderAssumption DEF LastCall
  <2>4. <<Desc[kind], m>> \in Structs
    BY DEF LastCall, Structs, Encoded
  <2>5. s.written = Len(s.out) /\ Len(s.out) <= room
    BY <2>3, <2>4, NeverBehindTheBuffer
  <2>6. ASSUME mode = "plain", Steady[<<Desc[kind], m>>]
        PROVE  /\ s.ok <=> size.ok /\ size.written <= room
               /\ s.ok => s.written = size.written
    <3>1. s = pb_encode(pb_ostream_from_buffer(room), Desc[kind], m)
      BY <2>6 DEF pb_encode_ex
    <3> QED
      BY <2>3, <2>4, <2>6, <3>1, AnnouncedSizeHolds
  <2> HIDE DEF s, size
  <2> QED
    BY <2>2, <2>5, <2>6 DEF BufferHeld, size
<1> QED
  BY <1>1, LastCallHolds, PTL
=============================================================================
