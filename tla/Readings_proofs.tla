---------------------------- MODULE Readings_proofs ----------------------------
(***************************************************************************)
(* Proofs about what the driver makes of a data line.                      *)
(*                                                                         *)
(* The rain path, for every counter size, cap and wraparound threshold     *)
(* that satisfy RainAssumption, and any number of glitches; and after it   *)
(* the other sensors, for every weather, glitch and correction table that  *)
(* satisfy SensorsAssumption and FramesAssumption.                         *)
(***************************************************************************)
EXTENDS RainCounter, Sensors, TLAPS

\* A plausible rise of the counter, across the wrap or not, is read back as
\* exactly that many tips by rain_delta_tips.
LEMMA DeltaExact ==
  ASSUME NEW c \in Counts, NEW k \in 0 .. MaxTips
  PROVE  RainDeltaTips(c, RoseBy(c, k)) = k
  BY RainAssumption
  DEF Counts, RainDeltaTips, RoseBy, Plausible, Unwrapped

\* rain_delta_tips returns a rejection or a count of tips within the cap.
LEMMA DeltaRange ==
  ASSUME NEW from \in Counts \cup {NoCount}, NEW new \in Counts
  PROVE  RainDeltaTips(from, new) \in (0 .. MaxTips) \cup {NoCount}
  BY RainAssumption
  DEF Counts, RainDeltaTips, Plausible, Unwrapped

\* So does rain_tips_with_anchor.
LEMMA TipsRange ==
  ASSUME NEW a \in Counts \cup {NoCount}, NEW l \in Counts \cup {NoCount},
         NEW new \in Counts
  PROVE  RainTipsWithAnchor(a, l, new) \in (0 .. MaxTips) \cup {NoCount}
  BY DeltaRange DEF RainTipsWithAnchor

\* What one reading, clean or not, may change.
LEMMA BookReadingTypes ==
  ASSUME TypeOK, NEW count \in Counts, NEW at \in Nat \cup {NoCount},
         BookReading(count, at)
  PROVE  /\ last' \in Counts \cup {NoCount}
         /\ anchor' \in Counts \cup {NoCount}
         /\ booked' \in Nat
         /\ lastAt' \in Nat \cup {NoCount}
         /\ anchorAt' \in Nat \cup {NoCount}
<1> DEFINE tips == RainTipsWithAnchor(anchor, last, count)
<1>1. tips \in (0 .. MaxTips) \cup {NoCount}
  BY TipsRange DEF TypeOK
<1>2. last' = count /\ lastAt' = at
  BY DEF BookReading, Resync
<1>3. CASE tips = NoCount
  BY <1>2, <1>3 DEF BookReading, TypeOK
<1>4. CASE tips # NoCount
  <2>1. anchor' = count /\ anchorAt' = at /\ booked' = booked + tips
    BY <1>4 DEF BookReading
  <2>2. tips \in Nat
    BY <1>1, <1>4, RainAssumption
  <2> QED
    BY <1>2, <2>1, <2>2 DEF TypeOK
<1> QED
  BY <1>3, <1>4

\* Every variable keeps its type; in particular nothing is ever un-booked.
THEOREM TypeCorrect == Spec => []TypeOK
<1>1. Init => TypeOK
  BY DEF Init, TypeOK
<1>2. TypeOK /\ [Next]_vars => TypeOK'
  <2> SUFFICES ASSUME TypeOK, [Next]_vars
               PROVE  TypeOK'
    OBVIOUS
  <2>1. CASE Tip
    BY <2>1, RainAssumption DEF Tip, TypeOK, RoseBy, Counts
  <2>2. CASE PowerCycle
    BY <2>2, RainAssumption DEF PowerCycle, TypeOK, Counts
  <2>3. CASE CleanFrame
    <3>1. bucket \in Counts /\ fallen \in Nat \cup {NoCount}
      BY DEF TypeOK
    <3>2. BookReading(bucket, fallen)
      BY <2>3 DEF CleanFrame
    <3> QED
      BY <2>3, <3>1, <3>2, BookReadingTypes DEF CleanFrame, TypeOK
  <2>4. CASE GlitchedFrame
    <3>1. PICK count \in Counts \ {bucket} : BookReading(count, NoCount)
      BY <2>4 DEF GlitchedFrame
    <3>2. /\ last' \in Counts \cup {NoCount}
          /\ anchor' \in Counts \cup {NoCount}
          /\ booked' \in Nat
          /\ lastAt' \in Nat \cup {NoCount}
          /\ anchorAt' \in Nat \cup {NoCount}
      BY <3>1, BookReadingTypes
    <3>3. bucket' = bucket /\ fallen' = fallen /\ disturbances' \in Nat
      BY <2>4 DEF GlitchedFrame, TypeOK
    <3> QED
      BY <3>2, <3>3 DEF TypeOK, Counts
  <2>5. CASE CoRejectedFrame
    BY <2>5 DEF CoRejectedFrame, SkipCounter, TypeOK
  <2>6. CASE Restart
    BY <2>6 DEF Restart, TypeOK
  <2>7. CASE UNCHANGED vars
    BY <2>7 DEF vars, TypeOK
  <2> QED
    BY <2>1, <2>2, <2>3, <2>4, <2>5, <2>6, <2>7 DEF Next
<1> QED
  BY <1>1, <1>2, PTL DEF Spec

------------------------------------------------------------------------------
(* The baselines. *)

\* A baseline just read off a clean frame is the counter itself.
LEMMA TracksFresh ==
  ASSUME TypeOK
  PROVE  TracksBucket(bucket, fallen)
  BY RainAssumption DEF TypeOK, TracksBucket, RoseBy, Counts

\* What a reading leaves in the two baselines: itself, or the old anchor.
LEMMA BookReadingBaselines ==
  ASSUME NEW count \in Counts, NEW at, BookReading(count, at)
  PROVE  /\ last' = count /\ lastAt' = at
         /\ \/ anchor' = anchor /\ anchorAt' = anchorAt
            \/ anchor' = count /\ anchorAt' = at
  BY DEF BookReading, Resync

\* Neither baseline is moved by a reading the driver knew to be corrupt: each is
\* the transmitter's counter as it was when the baseline was read.
THEOREM BaselinesTrack == Spec => []BaselineInv
<1>1. Init => BaselineInv
  BY DEF Init, BaselineInv, TracksBucket
<1>2. TypeOK /\ BaselineInv /\ [Next]_vars => BaselineInv'
  <2> SUFFICES ASSUME TypeOK, BaselineInv, [Next]_vars
               PROVE  BaselineInv'
    OBVIOUS
  <2>1. CASE Tip
    <3>1. TracksBucket(last, lastAt)' /\ TracksBucket(anchor, anchorAt)'
      <4>1. /\ last' = last /\ lastAt' = lastAt
            /\ anchor' = anchor /\ anchorAt' = anchorAt
        BY <2>1 DEF Tip
      <4>2. /\ lastAt # NoCount => last \in Counts /\ lastAt \in Nat
            /\ anchorAt # NoCount => anchor \in Counts /\ anchorAt \in Nat
        BY DEF TypeOK, BaselineInv, TracksBucket
      <4>3. fallen \in Nat /\ fallen' = fallen + 1 /\ bucket' = RoseBy(bucket, 1)
        BY <2>1 DEF Tip, TypeOK
      <4> QED
        BY <4>1, <4>2, <4>3, RainAssumption
        DEF BaselineInv, TracksBucket, RoseBy, Counts
    <3> QED
      BY <2>1, <3>1 DEF BaselineInv, Tip
  <2>2. CASE PowerCycle
    BY <2>2 DEF PowerCycle, BaselineInv, TracksBucket
  <2>3. CASE CleanFrame
    <3>1. bucket \in Counts /\ BookReading(bucket, fallen)
      BY <2>3 DEF CleanFrame, TypeOK
    <3>2. bucket' = bucket /\ fallen' = fallen
      BY <2>3 DEF CleanFrame
    <3>3. /\ last' = bucket /\ lastAt' = fallen
          /\ \/ anchor' = anchor /\ anchorAt' = anchorAt
             \/ anchor' = bucket /\ anchorAt' = fallen
      BY <3>1, BookReadingBaselines
    <3>4. TracksBucket(bucket, fallen)
      BY TracksFresh
    <3>5. last' # NoCount
      BY <3>1, <3>3, RainAssumption DEF Counts
    <3> QED
      BY <3>2, <3>3, <3>4, <3>5 DEF BaselineInv, TracksBucket
  <2>4. CASE GlitchedFrame
    <3>1. PICK count \in Counts \ {bucket} : BookReading(count, NoCount)
      BY <2>4 DEF GlitchedFrame
    <3>2. bucket' = bucket /\ fallen' = fallen
      BY <2>4 DEF GlitchedFrame
    <3>3. /\ last' = count /\ lastAt' = NoCount
          /\ \/ anchor' = anchor /\ anchorAt' = anchorAt
             \/ anchor' = count /\ anchorAt' = NoCount
      BY <3>1, BookReadingBaselines
    <3>4. last' # NoCount
      BY <3>1, <3>3, RainAssumption DEF Counts
    <3> QED
      BY <3>2, <3>3, <3>4 DEF BaselineInv, TracksBucket
  <2>5. CASE CoRejectedFrame
    BY <2>5 DEF CoRejectedFrame, SkipCounter, BaselineInv, TracksBucket
  <2>6. CASE Restart
    BY <2>6 DEF Restart, BaselineInv, TracksBucket
  <2>7. CASE UNCHANGED vars
    BY <2>7 DEF vars, BaselineInv, TracksBucket
  <2> QED
    BY <2>1, <2>2, <2>3, <2>4, <2>5, <2>6, <2>7 DEF Next
<1> QED
  BY <1>1, <1>2, TypeCorrect, PTL DEF Spec

------------------------------------------------------------------------------
(* The steps. *)

\* A baseline within the cap of the rain since it was read gives that rain.
LEMMA RiseReadBack ==
  ASSUME TypeOK, NEW count, NEW at \in Nat, TracksBucket(count, at),
         fallen - at \in 0 .. MaxTips
  PROVE  count \in Counts /\ RainDeltaTips(count, bucket) = fallen - at
<1>1. fallen \in Nat /\ at # NoCount
  BY RainAssumption DEF TypeOK
<1>2. fallen - at < CounterSize
  BY <1>1, RainAssumption
<1>3. count \in Counts /\ bucket = RoseBy(count, fallen - at)
  BY <1>1, <1>2 DEF TracksBucket
<1> QED
  BY <1>3, DeltaExact

\* A clean frame within the cap of the last accepted count books exactly the
\* rain since then, whatever was rejected in between (DEC-0218).
THEOREM BooksExactly == Spec => ExactBooking
<1> DEFINE Exact == CleanFrame /\ anchorAt # NoCount /\ fallen - anchorAt \in 0 .. MaxTips
                      => /\ booked' = booked + (fallen - anchorAt)
                         /\ anchorAt' = fallen
<1>1. TypeOK /\ BaselineInv => Exact
  <2> SUFFICES ASSUME TypeOK, BaselineInv, CleanFrame, anchorAt # NoCount,
                      fallen - anchorAt \in 0 .. MaxTips
               PROVE  /\ booked' = booked + (fallen - anchorAt)
                      /\ anchorAt' = fallen
    OBVIOUS
  <2>1. anchorAt \in Nat
    BY DEF TypeOK
  <2>2. anchor \in Counts /\ RainDeltaTips(anchor, bucket) = fallen - anchorAt
    BY <2>1, RiseReadBack DEF BaselineInv
  <2>3. fallen - anchorAt # NoCount
    BY RainAssumption
  <2>4. RainTipsWithAnchor(anchor, last, bucket) = fallen - anchorAt
    BY <2>2, <2>3, RainAssumption DEF RainTipsWithAnchor, Counts
  <2> QED
    BY <2>3, <2>4 DEF CleanFrame, BookReading
<1>2. TypeOK /\ BaselineInv => [Exact]_vars
  BY <1>1
<1> QED
  BY <1>2, TypeCorrect, BaselinesTrack, PTL DEF ExactBooking, Exact

\* The filter never freezes on a stale baseline: one clean reading, accepted or
\* not, is enough for the next clean one within the cap to be accepted.
THEOREM NeverFreezes == Spec => NeverStalls
<1> DEFINE Accepts == CleanFrame /\ lastAt # NoCount /\ fallen - lastAt \in 0 .. MaxTips
                        => anchorAt' = fallen /\ booked' >= booked
<1>1. TypeOK /\ BaselineInv => Accepts
  <2> SUFFICES ASSUME TypeOK, BaselineInv, CleanFrame, lastAt # NoCount,
                      fallen - lastAt \in 0 .. MaxTips
               PROVE  anchorAt' = fallen /\ booked' >= booked
    OBVIOUS
  <2> DEFINE tips == RainTipsWithAnchor(anchor, last, bucket)
  <2>1. lastAt \in Nat /\ booked \in Nat
    BY DEF TypeOK
  <2>2. RainDeltaTips(last, bucket) = fallen - lastAt
    BY <2>1, RiseReadBack DEF BaselineInv
  <2>3. fallen - lastAt # NoCount
    BY RainAssumption
  <2>4. tips # NoCount
    BY <2>2, <2>3 DEF RainTipsWithAnchor
  <2>5. tips \in 0 .. MaxTips
    BY <2>4, TipsRange DEF TypeOK
  <2>6. anchorAt' = fallen /\ booked' = booked + tips
    BY <2>4 DEF CleanFrame, BookReading
  <2> QED
    BY <2>1, <2>5, <2>6, RainAssumption
<1>2. TypeOK /\ BaselineInv => [Accepts]_vars
  BY <1>1
<1> QED
  BY <1>2, TypeCorrect, BaselinesTrack, PTL DEF NeverStalls, Accepts

------------------------------------------------------------------------------
(* Phantom rain. *)

\* What so many disturbances are worth.
Worth(d) == MaxTips * (d + d \div StepsInTurn)

LEMMA Sizes ==
  /\ MaxTips \in Nat /\ 0 < MaxTips /\ CounterSize \in Nat /\ 2 * MaxTips < CounterSize
  /\ NoCount \notin Int
BY RainAssumption

LEMMA Product ==
  ASSUME NEW a \in Nat, NEW b \in Nat
  PROVE  /\ MaxTips * a \in Nat
         /\ MaxTips * (a + b) = MaxTips * a + MaxTips * b
         /\ MaxTips * (a + 1) = MaxTips * a + MaxTips
         /\ a <= b => MaxTips * a <= MaxTips * b
BY Sizes

LEMMA Turn ==
  /\ StepsInTurn \in Nat /\ 0 < StepsInTurn
  /\ MaxTips * StepsInTurn < CounterSize
  /\ CounterSize <= MaxTips * (StepsInTurn + 1)
BY Sizes DEF StepsInTurn

LEMMA Turns ==
  ASSUME NEW d \in Nat, NEW e \in Nat, d <= e
  PROVE  /\ d \div StepsInTurn \in Nat
         /\ d \div StepsInTurn <= e \div StepsInTurn
         /\ d + StepsInTurn <= e => d \div StepsInTurn + 1 <= e \div StepsInTurn
BY Turn

\* Each disturbance more is worth a capped step more.
LEMMA WorthGrows ==
  ASSUME NEW d \in Nat, NEW e \in Nat, d <= e
  PROVE  /\ Worth(d) \in Nat
         /\ Worth(d) <= Worth(e)
         /\ Worth(d) + MaxTips <= Worth(d + 1)
<1> DEFINE Steps(n) == n + n \div StepsInTurn
<1>1. Steps(d) \in Nat /\ Steps(e) \in Nat /\ Steps(d + 1) \in Nat
      /\ Steps(d) <= Steps(e) /\ Steps(d) + 1 <= Steps(d + 1)
  BY Turns
<1>2. \A n \in Nat : Worth(n) = MaxTips * Steps(n)
  BY DEF Worth
<1> HIDE DEF Steps
<1>3. Worth(d) \in Nat /\ Worth(d) <= Worth(e)
  BY <1>1, <1>2, Product
<1>4. MaxTips * (Steps(d) + 1) <= Worth(d + 1)
  BY <1>1, <1>2, Product
<1>5. MaxTips * (Steps(d) + 1) = Worth(d) + MaxTips
  BY <1>1, <1>2, Product
<1>6. QED
  BY <1>3, <1>4, <1>5

\* Steps of so many disturbances that one more would complete a turn are worth
\* that one more.
LEMMA WorthOfTurn ==
  ASSUME NEW d \in Nat, NEW j \in Nat, NEW e \in Nat, d + j <= e,
         NEW s \in Nat, s <= MaxTips * j, CounterSize <= s + MaxTips
  PROVE  Worth(d) + s + MaxTips <= Worth(e)
<1>1. StepsInTurn <= j
  <2>1. CounterSize <= MaxTips * (j + 1)
    BY Sizes, Product
  <2>2. j + 1 <= StepsInTurn => MaxTips * (j + 1) <= MaxTips * StepsInTurn
    BY Turn, Product
  <2>3. QED
    BY <2>1, <2>2, Turn, Sizes, Product
<1> DEFINE n == d + d \div StepsInTurn
           m == e + e \div StepsInTurn
<1>2. n \in Nat /\ m \in Nat /\ n + (j + 1) <= m
  BY <1>1, Turn, Turns
<1>3. Worth(d) = MaxTips * n /\ Worth(e) = MaxTips * m
  BY DEF Worth
<1> HIDE DEF n, m
<1>4. /\ MaxTips * (n + (j + 1)) = MaxTips * n + MaxTips * (j + 1)
      /\ MaxTips * (j + 1) = MaxTips * j + MaxTips
      /\ MaxTips * n \in Nat /\ MaxTips * m \in Nat /\ MaxTips * j \in Nat
  <2>1. j + 1 \in Nat
    OBVIOUS
  <2>2. QED
    BY <1>2, <2>1, Product
<1>5. MaxTips * (n + (j + 1)) <= MaxTips * m
  <2>1. n + (j + 1) \in Nat
    BY <1>2
  <2>2. QED
    BY <1>2, <2>1, Product
<1>6. QED
  BY <1>3, <1>4, <1>5, Sizes

\* What rain_delta_tips accepts is a rise of the counter by so much.
LEMMA DeltaMeans ==
  ASSUME NEW c \in Counts, NEW new \in Counts, RainDeltaTips(c, new) # NoCount
  PROVE  /\ RainDeltaTips(c, new) \in 0 .. MaxTips
         /\ new = RoseBy(c, RainDeltaTips(c, new))
BY RainAssumption DEF Counts, RainDeltaTips, RoseBy, Plausible, Unwrapped

LEMMA RoseTwice ==
  ASSUME NEW c \in Counts, NEW s \in Nat, NEW t \in Nat, s + t < CounterSize
  PROVE  RoseBy(RoseBy(c, s), t) = RoseBy(c, s + t) /\ RoseBy(c, s) \in Counts
BY Sizes DEF Counts, RoseBy

LEMMA RoseInjective ==
  ASSUME NEW c \in Counts, NEW s \in Nat, NEW t \in Nat, s < CounterSize, t < CounterSize,
         RoseBy(c, s) = RoseBy(c, t)
  PROVE  s = t
BY Sizes DEF Counts, RoseBy

Bounded == booked <= fallen + Worth(disturbances)

\* There is room for one step more.
Spare == booked + MaxTips <= fallen + Worth(disturbances)

\* The count is a true one, o at `fallen' = x, and the s tips booked since of
\* disturbances, less than a turn even with the next step.
Chain(count) ==
  \E o \in Counts, x \in Nat, s \in Nat, d \in Nat, j \in Nat :
    /\ x <= fallen /\ fallen - x < CounterSize /\ bucket = RoseBy(o, fallen - x)
    /\ count = RoseBy(o, s) /\ s + MaxTips < CounterSize
    /\ d + j <= disturbances /\ s <= MaxTips * j
    /\ booked <= x + s + Worth(d)

\* What has been booked when a baseline is used next.
Owed(count, at) ==
  count # NoCount =>
    IF at # NoCount THEN booked <= at + Worth(disturbances)
                    ELSE Spare \/ Chain(count)

PhantomInv == Bounded /\ Owed(last, lastAt) /\ Owed(anchor, anchorAt)

\* A clean frame, over whichever baseline, books no more than has fallen.
LEMMA CleanStep ==
  ASSUME TypeOK, Bounded, NEW c \in Counts \cup {NoCount}, NEW at \in Nat \cup {NoCount},
         TracksBucket(c, at), Owed(c, at), RainDeltaTips(c, bucket) # NoCount
  PROVE  booked + RainDeltaTips(c, bucket) <= fallen + Worth(disturbances)
<1> DEFINE t == RainDeltaTips(c, bucket)
<1>1. booked \in Nat /\ fallen \in Nat /\ bucket \in Counts /\ Worth(disturbances) \in Nat
  BY WorthGrows DEF TypeOK
<1>2. CASE c = NoCount
  <2>1. t = 0
    BY <1>2 DEF RainDeltaTips
  <2>2. QED
    BY <1>1, <2>1 DEF Bounded
<1>3. CASE c # NoCount
  <2>1. t \in 0 .. MaxTips /\ bucket = RoseBy(c, t) /\ c \in Counts
    BY <1>1, <1>3, DeltaMeans
  <2> HIDE DEF t
  <2>2. CASE at # NoCount
    <3>1. at \in Nat /\ at <= fallen /\ booked <= at + Worth(disturbances)
      BY <1>3, <2>2 DEF Owed, TracksBucket
    <3>2. t <= fallen - at
      <4>1. CASE fallen - at < CounterSize
        <5>1. bucket = RoseBy(c, fallen - at)
          BY <2>2, <4>1 DEF TracksBucket
        <5>2. t \in Nat /\ t < CounterSize /\ fallen - at \in Nat
          BY <1>1, <2>1, <3>1, Sizes
        <5>3. t = fallen - at
          BY <2>1, <4>1, <5>1, <5>2, RoseInjective
        <5>4. QED
          BY <5>3, <1>1, <3>1
      <4>2. QED
        BY <1>1, <2>1, <3>1, <4>1, Sizes
    <3>3. QED
      BY <1>1, <2>1, <3>1, <3>2 DEF t
  <2>3. CASE at = NoCount /\ Spare
    BY <1>1, <2>1, <2>3, Sizes DEF Spare, t
  <2>4. CASE at = NoCount /\ Chain(c)
    <3>1. PICK o \in Counts, x \in Nat, s \in Nat, d \in Nat, j \in Nat :
            /\ x <= fallen /\ fallen - x < CounterSize /\ bucket = RoseBy(o, fallen - x)
            /\ c = RoseBy(o, s) /\ s + MaxTips < CounterSize
            /\ d + j <= disturbances /\ s <= MaxTips * j
            /\ booked <= x + s + Worth(d)
      BY <2>4 DEF Chain
    <3>2. bucket = RoseBy(o, s + t) /\ s + t < CounterSize
      <4>1. t \in Nat /\ s + t < CounterSize
        BY <2>1, <3>1, Sizes
      <4>2. bucket = RoseBy(RoseBy(o, s), t)
        BY <2>1, <3>1
      <4>3. QED
        BY <3>1, <4>1, <4>2, RoseTwice
    <3>3. s + t = fallen - x
      <4> DEFINE u == s + t
                 v == fallen - x
      <4>1. u \in Nat /\ v \in Nat /\ u < CounterSize /\ v < CounterSize
        BY <1>1, <2>1, <3>1, <3>2, Sizes
      <4>2. RoseBy(o, u) = RoseBy(o, v)
        BY <3>1, <3>2
      <4> HIDE DEF u, v
      <4>3. u = v
        BY <3>1, <4>1, <4>2, RoseInjective
      <4>4. QED
        BY <4>3 DEF u, v
    <3>4. Worth(d) \in Nat /\ Worth(d) <= Worth(disturbances)
      BY <3>1, WorthGrows DEF TypeOK
    <3>5. QED
      BY <1>1, <2>1, <3>1, <3>3, <3>4 DEF t
  <2>5. QED
    BY <1>3, <2>2, <2>3, <2>4 DEF Owed
<1>4. QED
  BY <1>2, <1>3

\* A glitched frame leaves room for the step back, or is one more of a chain.
LEMMA GlitchStep ==
  ASSUME TypeOK, Bounded, NEW c \in Counts \cup {NoCount}, NEW at \in Nat \cup {NoCount},
         TracksBucket(c, at), Owed(c, at), NEW new \in Counts,
         RainDeltaTips(c, new) # NoCount,
         booked' = booked + RainDeltaTips(c, new), disturbances' = disturbances + 1,
         UNCHANGED <<bucket, fallen>>
  PROVE  Bounded' /\ (Spare' \/ Chain(new)')
<1> DEFINE t == RainDeltaTips(c, new)
<1>1. booked \in Nat /\ fallen \in Nat /\ bucket \in Counts /\ disturbances \in Nat
  BY DEF TypeOK
<1>2. /\ Worth(disturbances) \in Nat /\ Worth(disturbances + 1) \in Nat
      /\ Worth(disturbances) + MaxTips <= Worth(disturbances + 1)
  BY <1>1, WorthGrows
<1>3. CASE c = NoCount
  <2>1. t = 0
    BY <1>3 DEF RainDeltaTips
  <2>2. QED
    BY <1>1, <1>2, <2>1, Sizes DEF Bounded, Spare
<1>4. CASE c # NoCount
  <2>1. t \in 0 .. MaxTips /\ new = RoseBy(c, t) /\ c \in Counts
    BY <1>1, <1>4, DeltaMeans
  <2> HIDE DEF t
  <2>2. booked' = booked + t
    BY DEF t
  <2>3. Bounded'
    BY <1>1, <1>2, <2>1, <2>2, Sizes DEF Bounded
  <2>4. CASE at # NoCount
    <3>1. at \in Nat /\ at <= fallen /\ booked <= at + Worth(disturbances)
      BY <1>4, <2>4 DEF Owed, TracksBucket
    <3>2. CASE fallen - at < CounterSize
      <4>1. bucket = RoseBy(c, fallen - at)
        BY <2>4, <3>2 DEF TracksBucket
      <4>2. t <= MaxTips * 1 /\ t + MaxTips < CounterSize
        BY <2>1, Sizes
      <4>3. t \in Nat /\ 1 \in Nat /\ disturbances + 1 <= disturbances'
        BY <1>1, <2>1, Sizes
      <4>4. booked' <= at + t + Worth(disturbances)
        BY <1>1, <1>2, <2>1, <2>2, <3>1, Sizes
      <4>5. fallen' = fallen /\ bucket' = bucket
        OBVIOUS
      <4>6. Chain(new)'
        BY <1>1, <2>1, <3>1, <3>2, <4>1, <4>2, <4>3, <4>4, <4>5 DEF Chain
      <4>7. QED
        BY <2>3, <4>6
    <3>3. CASE ~(fallen - at < CounterSize)
      <4>1. Spare'
        BY <1>1, <1>2, <2>1, <2>2, <3>1, <3>3, Sizes DEF Spare
      <4>2. QED
        BY <2>3, <4>1
    <3>4. QED
      BY <3>2, <3>3
  <2>5. CASE at = NoCount /\ Spare
    <3>1. Spare'
      BY <1>1, <1>2, <2>1, <2>2, <2>5, Sizes DEF Spare
    <3>2. QED
      BY <2>3, <3>1
  <2>6. CASE at = NoCount /\ Chain(c)
    <3>1. PICK o \in Counts, x \in Nat, s \in Nat, d \in Nat, j \in Nat :
            /\ x <= fallen /\ fallen - x < CounterSize /\ bucket = RoseBy(o, fallen - x)
            /\ c = RoseBy(o, s) /\ s + MaxTips < CounterSize
            /\ d + j <= disturbances /\ s <= MaxTips * j
            /\ booked <= x + s + Worth(d)
      BY <2>6 DEF Chain
    <3>2. new = RoseBy(o, s + t)
      BY <2>1, <3>1, Sizes, RoseTwice
    <3>3. s + t \in Nat /\ s + t <= MaxTips * (j + 1)
      BY <2>1, <3>1, Sizes, Product
    <3>4. j + 1 \in Nat /\ d + (j + 1) <= disturbances + 1 /\ disturbances + 1 \in Nat
      BY <1>1, <3>1
    <3>5. CASE s + t + MaxTips < CounterSize
      <4>1. booked + t <= x + (s + t) + Worth(d)
        BY <1>1, <2>1, <3>1, WorthGrows
      <4>2. Chain(new)'
        BY <1>1, <2>2, <3>1, <3>2, <3>3, <3>4, <3>5, <4>1 DEF Chain
      <4>3. QED
        BY <2>3, <4>2
    <3>6. CASE CounterSize <= s + t + MaxTips
      <4>1. Worth(d) + (s + t) + MaxTips <= Worth(disturbances + 1)
        BY <3>3, <3>4, <3>6, WorthOfTurn
      <4>2. Spare'
        BY <1>1, <1>2, <2>1, <2>2, <3>1, <4>1, WorthGrows, Sizes DEF Spare
      <4>3. QED
        BY <2>3, <4>2
    <3>7. QED
      BY <2>1, <3>3, <3>5, <3>6, Sizes
  <2>7. QED
    BY <1>4, <2>4, <2>5, <2>6 DEF Owed
<1>5. QED
  BY <1>3, <1>4

\* A baseline that is left alone owes what it owed, however the air is disturbed.
LEMMA OwedKept ==
  ASSUME TypeOK, NEW c \in Counts \cup {NoCount}, NEW at \in Nat \cup {NoCount}, Owed(c, at),
         disturbances' \in Nat, disturbances <= disturbances', UNCHANGED <<bucket, fallen, booked>>
  PROVE  (c # NoCount =>
            IF at # NoCount THEN booked <= at + Worth(disturbances)
                            ELSE Spare \/ Chain(c))'
<1>1. booked \in Nat /\ fallen \in Nat /\ disturbances \in Nat
  BY DEF TypeOK
<1>2. /\ Worth(disturbances) \in Nat /\ Worth(disturbances') \in Nat
      /\ Worth(disturbances) <= Worth(disturbances')
  BY <1>1, WorthGrows
<1>3. CASE c = NoCount
  BY <1>3
<1>4. CASE c # NoCount /\ at # NoCount
  BY <1>1, <1>2, <1>4 DEF Owed
<1>5. CASE c # NoCount /\ at = NoCount /\ Spare
  <2>1. Spare'
    BY <1>1, <1>2, <1>5, Sizes DEF Spare
  <2>2. QED
    BY <1>5, <2>1
<1>6. CASE c # NoCount /\ at = NoCount /\ Chain(c)
  <2>1. \A n \in Nat : n <= disturbances => n <= disturbances'
    BY <1>1
  <2>2. Chain(c)'
    BY <1>6, <2>1 DEF Chain
  <2>3. QED
    BY <1>6, <2>2
<1>7. QED
  BY <1>3, <1>4, <1>5, <1>6 DEF Owed

\* Rain adds to a chain; rain of a whole turn since its start makes room instead.
LEMMA OwedOverTip ==
  ASSUME TypeOK, NEW c \in Counts \cup {NoCount}, NEW at \in Nat \cup {NoCount}, Owed(c, at),
         Tip
  PROVE  (c # NoCount =>
            IF at # NoCount THEN booked <= at + Worth(disturbances)
                            ELSE Spare \/ Chain(c))'
<1>1. /\ booked \in Nat /\ fallen \in Nat /\ disturbances \in Nat
      /\ booked' = booked /\ fallen' = fallen + 1 /\ disturbances' = disturbances
      /\ bucket' = RoseBy(bucket, 1)
  BY DEF TypeOK, Tip
<1>2. Worth(disturbances) \in Nat
  BY <1>1, WorthGrows
<1>3. CASE c = NoCount
  BY <1>3
<1>4. CASE c # NoCount /\ at # NoCount
  BY <1>1, <1>2, <1>4 DEF Owed
<1>5. CASE c # NoCount /\ at = NoCount /\ Spare
  <2>1. Spare'
    BY <1>1, <1>2, <1>5, Sizes DEF Spare
  <2>2. QED
    BY <1>5, <2>1
<1>6. CASE c # NoCount /\ at = NoCount /\ Chain(c)
  <2>1. PICK o \in Counts, x \in Nat, s \in Nat, d \in Nat, j \in Nat :
          /\ x <= fallen /\ fallen - x < CounterSize /\ bucket = RoseBy(o, fallen - x)
          /\ c = RoseBy(o, s) /\ s + MaxTips < CounterSize
          /\ d + j <= disturbances /\ s <= MaxTips * j
          /\ booked <= x + s + Worth(d)
    BY <1>6 DEF Chain
  <2>2. CASE fallen + 1 - x < CounterSize
    <3> DEFINE v == fallen - x
    <3>1. v \in Nat /\ v + 1 < CounterSize /\ v + 1 = fallen' - x /\ x <= fallen'
      BY <1>1, <2>1, <2>2, Sizes
    <3>2. bucket' = RoseBy(RoseBy(o, v), 1)
      BY <1>1, <2>1
    <3> HIDE DEF v
    <3>3. bucket' = RoseBy(o, v + 1)
      BY <3>1, <3>2, RoseTwice
    <3>4. bucket' = RoseBy(o, fallen' - x) /\ fallen' - x < CounterSize
      BY <3>1, <3>3
    <3>5. Chain(c)'
      BY <1>1, <2>1, <3>1, <3>4 DEF Chain
    <3>6. QED
      BY <1>6, <3>5
  <2>3. CASE fallen + 1 - x >= CounterSize
    <3>1. Worth(d) \in Nat /\ Worth(d) <= Worth(disturbances)
      BY <1>1, <2>1, WorthGrows
    <3>2. Spare'
      BY <1>1, <1>2, <2>1, <2>3, <3>1, Sizes DEF Spare
    <3>3. QED
      BY <1>6, <3>2
  <2>4. QED
    BY <1>1, <2>1, <2>2, <2>3, Sizes
<1>7. QED
  BY <1>3, <1>4, <1>5, <1>6 DEF Owed

\* A frame that is accepted has been measured against one of the baselines.
LEMMA OneBaseline ==
  ASSUME NEW count, RainTipsWithAnchor(anchor, last, count) # NoCount
  PROVE  RainTipsWithAnchor(anchor, last, count) \in
           {RainDeltaTips(anchor, count), RainDeltaTips(last, count)}
BY DEF RainTipsWithAnchor

LEMMA PhantomStep ==
  ASSUME TypeOK, BaselineInv, PhantomInv, [Next]_vars
  PROVE  PhantomInv'
<1>1. /\ booked \in Nat /\ fallen \in Nat /\ bucket \in Counts /\ disturbances \in Nat
      /\ fallen # NoCount
      /\ last \in Counts \cup {NoCount} /\ lastAt \in Nat \cup {NoCount}
      /\ anchor \in Counts \cup {NoCount} /\ anchorAt \in Nat \cup {NoCount}
  BY Sizes DEF TypeOK
<1>2. /\ Worth(disturbances) \in Nat /\ Worth(disturbances + 1) \in Nat
      /\ Worth(disturbances) + MaxTips <= Worth(disturbances + 1)
  BY <1>1, WorthGrows
<1>3. /\ Bounded /\ Owed(last, lastAt) /\ Owed(anchor, anchorAt)
      /\ TracksBucket(last, lastAt) /\ TracksBucket(anchor, anchorAt)
  BY DEF PhantomInv, BaselineInv
<1>4. CASE Tip
  <2>1. Bounded'
    BY <1>1, <1>2, <1>3, <1>4 DEF Bounded, Tip
  <2>2. Owed(last, lastAt)'
    <3>1. last' = last /\ lastAt' = lastAt
      BY <1>4 DEF Tip
    <3>2. QED
      BY <1>1, <1>3, <1>4, <3>1, OwedOverTip DEF Owed
  <2>3. Owed(anchor, anchorAt)'
    <3>1. anchor' = anchor /\ anchorAt' = anchorAt
      BY <1>4 DEF Tip
    <3>2. QED
      BY <1>1, <1>3, <1>4, <3>1, OwedOverTip DEF Owed
  <2>4. QED
    BY <2>1, <2>2, <2>3 DEF PhantomInv
<1>5. CASE PowerCycle
  <2>1. /\ booked' = booked /\ fallen' = fallen /\ disturbances' = disturbances + 1
        /\ lastAt' = NoCount /\ anchorAt' = NoCount
    BY <1>5 DEF PowerCycle
  <2>2. Bounded' /\ Spare'
    BY <1>1, <1>2, <1>3, <2>1, Sizes DEF Bounded, Spare
  <2>3. QED
    BY <2>1, <2>2 DEF PhantomInv, Owed
<1>6. CASE CleanFrame
  <2> DEFINE tips == RainTipsWithAnchor(anchor, last, bucket)
  <2>1. /\ last' = bucket /\ lastAt' = fallen
        /\ bucket' = bucket /\ fallen' = fallen /\ disturbances' = disturbances
    BY <1>6 DEF CleanFrame, BookReading, Resync
  <2>2. CASE tips = NoCount
    <3>1. booked' = booked /\ anchor' = anchor /\ anchorAt' = anchorAt
      BY <1>6, <2>2 DEF CleanFrame, BookReading
    <3>2. Bounded' /\ Owed(last, lastAt)'
      BY <1>1, <1>3, <2>1, <3>1 DEF Bounded, Owed
    <3>3. Owed(anchor, anchorAt)'
      BY <1>1, <1>3, <2>1, <3>1, OwedKept DEF Owed
    <3>4. QED
      BY <3>2, <3>3 DEF PhantomInv
  <2>3. CASE tips # NoCount
    <3>1. booked' = booked + tips /\ anchor' = bucket /\ anchorAt' = fallen
      BY <1>6, <2>3 DEF CleanFrame, BookReading
    <3>2. booked + tips <= fallen + Worth(disturbances)
      <4>1. CASE tips = RainDeltaTips(anchor, bucket)
        BY <1>1, <1>3, <2>3, <4>1, CleanStep
      <4>2. CASE tips = RainDeltaTips(last, bucket)
        BY <1>1, <1>3, <2>3, <4>2, CleanStep
      <4>3. QED
        BY <2>3, <4>1, <4>2, OneBaseline
    <3>3. booked' <= fallen' + Worth(disturbances')
      BY <2>1, <3>1, <3>2
    <3>4. Bounded'
      BY <3>3 DEF Bounded
    <3>5. Owed(last, lastAt)' /\ Owed(anchor, anchorAt)'
      BY <1>1, <2>1, <3>1, <3>3 DEF Owed
    <3>6. QED
      BY <3>4, <3>5 DEF PhantomInv
  <2>4. QED
    BY <2>2, <2>3
<1>7. CASE GlitchedFrame
  <2>1. PICK new \in Counts \ {bucket} : BookReading(new, NoCount)
    BY <1>7 DEF GlitchedFrame
  <2> DEFINE tips == RainTipsWithAnchor(anchor, last, new)
  <2>2. /\ last' = new /\ lastAt' = NoCount
        /\ bucket' = bucket /\ fallen' = fallen /\ disturbances' = disturbances + 1
    BY <1>7, <2>1 DEF GlitchedFrame, BookReading, Resync
  <2>3. CASE tips = NoCount
    <3>1. booked' = booked /\ anchor' = anchor /\ anchorAt' = anchorAt
      BY <2>1, <2>3 DEF BookReading
    <3>2. Bounded' /\ Spare'
      BY <1>1, <1>2, <1>3, <2>2, <3>1, Sizes DEF Bounded, Spare
    <3>3. Owed(last, lastAt)'
      BY <2>2, <3>2 DEF Owed
    <3>4. disturbances' \in Nat /\ disturbances <= disturbances'
      BY <1>1, <2>2
    <3>5. Owed(anchor, anchorAt)'
      BY <1>1, <1>3, <2>2, <3>1, <3>4, OwedKept DEF Owed
    <3>6. QED
      BY <3>2, <3>3, <3>5 DEF PhantomInv
  <2>4. CASE tips # NoCount
    <3>1. booked' = booked + tips /\ anchor' = new /\ anchorAt' = NoCount
      BY <2>1, <2>4 DEF BookReading
    <3>2. Bounded' /\ (Spare' \/ Chain(new)')
      <4>1. CASE tips = RainDeltaTips(anchor, new)
        BY <1>1, <1>3, <2>2, <2>4, <3>1, <4>1, GlitchStep
      <4>2. CASE tips = RainDeltaTips(last, new)
        BY <1>1, <1>3, <2>2, <2>4, <3>1, <4>2, GlitchStep
      <4>3. QED
        BY <2>4, <4>1, <4>2, OneBaseline
    <3>3. Chain(new)' => Chain(last)' /\ Chain(anchor)'
      BY <2>2, <3>1 DEF Chain
    <3>4. QED
      BY <2>2, <3>1, <3>2, <3>3 DEF PhantomInv, Owed
  <2>5. QED
    BY <2>3, <2>4
<1>8. CASE CoRejectedFrame \/ UNCHANGED vars
  <2>1. UNCHANGED vars
    BY <1>8 DEF CoRejectedFrame, SkipCounter, vars
  <2>2. QED
    BY <1>3, <2>1 DEF vars, PhantomInv, Bounded, Owed, Spare, Chain
<1>9. CASE Restart
  <2>1. /\ booked' = booked /\ fallen' = fallen /\ disturbances' = disturbances
        /\ last' = NoCount /\ anchor' = NoCount
    BY <1>9 DEF Restart
  <2>2. QED
    BY <1>3, <2>1 DEF PhantomInv, Bounded, Owed
<1>10. QED
  BY <1>4, <1>5, <1>6, <1>7, <1>8, <1>9 DEF Next

\* Rain the driver invents is bounded by what was wrong on the air, at whatever
\* rate it rains and however often the driver restarts.
THEOREM PhantomBounded == Spec => []PhantomBound
<1>1. Init => PhantomInv
  <2> SUFFICES ASSUME Init PROVE PhantomInv
    OBVIOUS
  <2>1. Worth(disturbances) \in Nat /\ booked = 0 /\ fallen = 0
    BY WorthGrows DEF Init
  <2>2. Owed(last, lastAt) /\ Owed(anchor, anchorAt)
    BY DEF Init, Owed
  <2>3. QED
    BY <2>1, <2>2 DEF PhantomInv, Bounded
<1>2. TypeOK /\ BaselineInv /\ PhantomInv /\ [Next]_vars => PhantomInv'
  BY PhantomStep
<1>3. PhantomInv => PhantomBound
  BY DEF PhantomInv, Bounded, PhantomBound, Worth
<1>4. QED
  BY <1>1, <1>2, <1>3, TypeCorrect, BaselinesTrack, PTL DEF Spec

------------------------------------------------------------------------------
(* Sensors: the frequency errors of hops.                                  *)

\* What waits is the last error stored on its channel; where none waits, the last
\* one stored was yielded; and the errors of the last packet were yielded, so that
\* a repeat of it loses none.
FreqInv ==
  /\ \A c \in DOMAIN latest :
       IF c \in DOMAIN pending THEN pending[c] = latest[c]
       ELSE c \in DOMAIN shown /\ shown[c] = latest[c]
  /\ \A c \in DOMAIN lastPkt[2] : c \in DOMAIN shown /\ shown[c] = lastPkt[2][c]

LEMMA FreqInvInit == SensorsInit => FreqInv
  BY DEF SensorsInit, FreqInv, NoKeys

LEMMA FreqInvDataLine ==
  ASSUME FreqInv, NEW f, DataLine(f)
  PROVE  FreqInv'
<1>1. pending' = NoKeys /\ latest' = latest
  BY DEF DataLine
<1>2. CASE IsRepeat(Decoded[f])
  <2>1. lastPkt' = lastPkt /\ shown' = shown /\ lastPkt[2] = pending
    BY <1>2 DEF DataLine, IsRepeat, MergePendingFreqFields
  <2> QED
    BY <1>1, <2>1 DEF FreqInv, NoKeys
<1>3. CASE ~IsRepeat(Decoded[f])
  <2>1. lastPkt'[2] = pending /\ shown' = pending @@ shown
    BY <1>3 DEF DataLine, MergePendingFreqFields
  <2> QED
    BY <1>1, <2>1 DEF FreqInv, NoKeys, @@
<1> QED
  BY <1>2, <1>3

LEMMA FreqInvHopLine ==
  ASSUME FreqInv, NEW c, NEW e, NEW tx, HopLine(c, e, tx)
  PROVE  FreqInv'
<1> DEFINE stored == StoredError(c, e, tx)
<1>1. CASE Distance(e, 0) > 20000
  BY <1>1 DEF HopLine, NewDriver, FreqInv, NoKeys
<1>2. CASE ~(Distance(e, 0) > 20000)
  <2>1. /\ pending' = stored @@ pending /\ latest' = stored @@ latest
        /\ lastPkt' = lastPkt /\ shown' = shown
    BY <1>2 DEF HopLine, CachePendingFreqFields
  <2> HIDE DEF stored
  <2> QED
    BY <2>1 DEF FreqInv, @@
<1> QED
  BY <1>1, <1>2

LEMMA FreqInvStep == FreqInv /\ [SensorsNext]_sensorsVars => FreqInv'
<1> SUFFICES ASSUME FreqInv, [SensorsNext]_sensorsVars PROVE FreqInv'
  OBVIOUS
<1>1. CASE \E f \in Genuine(sky) \cup Glitched : DataLine(f)
  BY <1>1, FreqInvDataLine
<1>2. CASE \E c \in HopChannels, e \in HopErrors, i \in DOMAIN ActiveTrIds :
             HopLine(c, e, ActiveTrIds[i])
  BY <1>2, FreqInvHopLine
<1>3. CASE WeatherChanges \/ Tick \/ UNCHANGED sensorsVars
  BY <1>3 DEF WeatherChanges, Tick, sensorsVars, readings, history, FreqInv
<1> QED
  BY <1>1, <1>2, <1>3 DEF SensorsNext

\* No frequency error is lost between its hop and a packet: neither a repeat that
\* is dropped nor a driver that starts anew takes one with it that was not yielded.
THEOREM FrequenciesReachPackets == SensorsSpec => []FreqNotLost
<1>1. FreqInv => FreqNotLost
  BY DEF FreqInv, FreqNotLost
<1> QED
  BY <1>1, FreqInvInit, FreqInvStep, PTL DEF SensorsSpec

Counters == {nulled, glitched, stepped, wrong, wrongSeed}

CountersType == Counters \subseteq [Watched -> Nat]

\* The baseline of k is not what the sky calls for.
Astray(k) == k \in DOMAIN baseline /\ baseline[k][1] # Truth(k)

\* A baseline that is off the truth is a null still to come, and paid for too.
NullsInv ==
  \A k \in Watched :
    nulled[k] + (IF Astray(k) THEN 1 ELSE 0) <= 2 * glitched[k] + stepped[k]

\* Nothing but a glitch or a change of the weather takes it off the truth.
GlitchInv ==
  \A k \in Watched :
    /\ k \in DOMAIN baseline => baseline[k][1] # Null
    /\ Astray(k) => glitched[k] >= 1 \/ stepped[k] > 0
    /\ wrong[k] > 0 => glitched[k] >= 2 \/ stepped[k] > 0 \/ wrongSeed[k] > 0

------------------------------------------------------------------------------
(* Readings with a step test are numbers. *)

LEMMA StepLimits == \A k \in DeltaKeys : Limits[k][3] \in Nat
  BY DEF Limits, DeltaKeys, Null

Numeric(fields) == \A k \in DOMAIN Limits \cap DOMAIN fields : fields[k] \in Int

LEMMA NumericNone == Numeric(NoKeys)
  BY DEF Numeric, NoKeys

LEMMA NumericItem ==
  ASSUME NEW k, NEW v, k \in DOMAIN Limits => v \in Int
  PROVE  Numeric(k :> v)
  BY DEF Numeric, :>

LEMMA NumericOver ==
  ASSUME NEW f, NEW g, Numeric(f), Numeric(g)
  PROVE  Numeric(f @@ g)
  BY DEF Numeric, @@

\* A place of the grid that x lies at, or two neighbours.
LEMMA BracketPlaces ==
  ASSUME NEW grid, NEW xs, Grid(grid, xs), NEW x \in xs
  PROVE  LET b == Bracket(grid, x)
         IN  /\ b[1] \in DOMAIN grid /\ b[2] \in DOMAIN grid
             /\ b[1] = b[2] \/ b[1] < b[2]
<1> DEFINE At(i) == grid[i] >= x /\ \A j \in 1 .. i - 1 : grid[j] < x
           above == CHOOSE i \in DOMAIN grid : At(i)
<1>1. \E i \in DOMAIN grid : At(i)
  BY DEF Grid
<1>2. above \in DOMAIN grid
  BY <1>1
<1>3. DOMAIN grid = 1 .. Len(grid) /\ Len(grid) \in Nat /\ Len(grid) >= 2
  BY DEF Grid
<1>4. Bracket(grid, x) = IF grid[above] = x THEN <<above, above>>
                         ELSE IF above > 1 THEN <<above - 1, above>> ELSE <<1, 2>>
  BY DEF Bracket
<1> HIDE DEF above
<1> QED
  BY <1>2, <1>3, <1>4

LEMMA RoundedNumber ==
  ASSUME NEW num \in Int, NEW den \in Nat \ {0}
  PROVE  Rounded(num, den) \in Int
<1>1. num \div den \in Int
  OBVIOUS
<1> QED
  BY <1>1 DEF Rounded

\* The form of both interpolations.
LEMMA InterpolationNumber ==
  ASSUME NEW d \in Int, NEW low \in Int, NEW high \in Int, NEW x \in Int, NEW from \in Int
  PROVE  d * low + (x - from) * (high - low) \in Int
  OBVIOUS

LEMMA ProductPositive == ASSUME NEW a \in Nat \ {0}, NEW b \in Nat \ {0} PROVE a * b \in Nat \ {0}
  OBVIOUS

LEMMA GridRises ==
  ASSUME NEW grid, NEW xs, Grid(grid, xs), NEW i \in DOMAIN grid, NEW j \in DOMAIN grid, i < j
  PROVE  grid[i] < grid[j]
  BY DEF Grid

LEMMA TableNumbers ==
  ASSUME NEW s \in DOMAIN EcSpeeds, NEW a \in DOMAIN EcAngles
  PROVE  /\ EcSpeeds[s] \in Int /\ EcAngles[a] \in Int
         /\ EcTable[s][a] \in Int
<1>1. EcSpeeds \in Seq(Int) /\ EcAngles \in Seq(Int)
  BY FramesAssumption DEF Grid
<1>2. EcTable[s] \in [DOMAIN EcAngles -> Int]
  BY FramesAssumption
<1> QED
  BY <1>1, <1>2

\* Where the tables hold whole numbers, so does the corrected speed.
LEMMA SpeedNumber ==
  ASSUME NEW mph \in 0 .. 255, NEW angle \in 0 .. 255
  PROVE  calc_wind_speed_ec(mph, angle) \in Int
<1> DEFINE x == IF angle > 128 THEN 256 - angle ELSE angle
           s == Bracket(EcSpeeds, mph)
           a == Bracket(EcAngles, x)
           dy == IF s[1] = s[2] THEN 1 ELSE EcSpeeds[s[2]] - EcSpeeds[s[1]]
           dx == EcAngles[a[2]] - EcAngles[a[1]]
           at(j) == dy * EcTable[s[1]][j]
                    + (mph - EcSpeeds[s[1]]) * (EcTable[s[2]][j] - EcTable[s[1]][j])
           num == dx * at(a[1]) + (x - EcAngles[a[1]]) * (at(a[2]) - at(a[1]))
<1>1. calc_wind_speed_ec(mph, angle) =
        IF mph \notin 3 .. 150 THEN mph
        ELSE IF dx = 0 THEN mph + EcTable[s[1]][a[1]]
        ELSE mph + Rounded(num, dx * dy)
  BY DEF calc_wind_speed_ec
<1>2. CASE mph \notin 3 .. 150
  BY <1>1, <1>2
<1>3. CASE mph \in 3 .. 150
  <2>1. x \in 0 .. 128
    OBVIOUS
  <2>2. /\ s[1] \in DOMAIN EcSpeeds /\ s[2] \in DOMAIN EcSpeeds
        /\ s[1] = s[2] \/ s[1] < s[2]
    BY <1>3, BracketPlaces, FramesAssumption
  <2>3. /\ a[1] \in DOMAIN EcAngles /\ a[2] \in DOMAIN EcAngles
        /\ a[1] = a[2] \/ a[1] < a[2]
    BY <2>1, BracketPlaces, FramesAssumption
  <2> HIDE DEF x, s, a
  <2>4. \A j \in {a[1], a[2]} : EcTable[s[1]][j] \in Int /\ EcTable[s[2]][j] \in Int
    BY <2>2, <2>3, TableNumbers
  <2>5. /\ EcSpeeds[s[1]] \in Int /\ EcSpeeds[s[2]] \in Int
        /\ EcAngles[a[1]] \in Int /\ EcAngles[a[2]] \in Int
    BY <2>2, <2>3, TableNumbers
  <2>6. dy \in Nat \ {0}
    <3>1. s[1] # s[2] => EcSpeeds[s[1]] < EcSpeeds[s[2]]
      BY <2>2, FramesAssumption, GridRises
    <3> QED
      BY <2>5, <3>1
  <2>7. dx \in Nat
    <3>1. a[1] # a[2] => EcAngles[a[1]] < EcAngles[a[2]]
      BY <2>3, FramesAssumption, GridRises
    <3> QED
      BY <2>5, <3>1
  <2> HIDE DEF dy, dx
  <2>8. \A j \in {a[1], a[2]} : at(j) \in Int
    BY <2>4, <2>5, <2>6, InterpolationNumber
  <2> HIDE DEF at
  <2>9. num \in Int
    BY <2>1, <2>5, <2>7, <2>8, InterpolationNumber
  <2>10. dx # 0 => dx * dy \in Nat \ {0}
    BY <2>6, <2>7, ProductPositive
  <2> HIDE DEF num
  <2>11. dx # 0 => Rounded(num, dx * dy) \in Int
    BY <2>9, <2>10, RoundedNumber
  <2> QED
    BY <1>1, <2>2, <2>3, <2>4, <2>11
<1> QED
  BY <1>2, <1>3

LEMMA GenuineFrames ==
  ASSUME NEW s \in Weather
  PROVE  Genuine(s) \subseteq Frames
<1>1. Iss \in 0 .. 8 /\ LeafSoil \in 0 .. 8
  <2>1. Configured[1] = Iss /\ Configured[5] = LeafSoil /\ DOMAIN Configured = 1 .. 5
    BY DEF Configured
  <2>2. Iss \in Range(Configured) /\ LeafSoil \in Range(Configured)
    BY <2>1 DEF Range
  <2> QED
    BY <2>2, SensorsAssumption DEF Channels
<1>2. s \in [speed : 0 .. 255, dir : 0 .. 255, temp : 0 .. 4095]
  BY FramesAssumption
<1>3. s.speed \in 0 .. 255 /\ s.dir \in 0 .. 255 /\ s.temp \in 0 .. 4095
  BY <1>2
<1>4. ASSUME NEW t \in {8} \cup DOMAIN Ordinary
      PROVE  [ch |-> IF t = 15 THEN LeafSoil ELSE Iss, low |-> FALSE, type |-> t,
              mph |-> s.speed, dir |-> s.dir,
              raw |-> IF t = 8 THEN s.temp ELSE Ordinary[t], flag |-> TRUE] \in Frames
  <2> DEFINE ch == IF t = 15 THEN LeafSoil ELSE Iss
             raw == IF t = 8 THEN s.temp ELSE Ordinary[t]
  <2>1. ch \in 0 .. 8
    BY <1>1, Zenon
  <2>2. raw \in 0 .. 4095
    <3>1. CASE t = 8
      BY <1>3, <3>1
    <3>2. CASE t # 8
      <4>1. Ordinary[t] \in 0 .. 4095
        BY <3>2, FramesAssumption
      <4>2. raw = Ordinary[t]
        BY <3>2
      <4> HIDE DEF raw
      <4>3. QED
        BY <4>1, <4>2
    <3>3. QED
      BY <3>1, <3>2
  <2>3. t \in 0 .. 15
    BY FramesAssumption
  <2> HIDE DEF ch, raw
  <2>4. [ch |-> ch, low |-> FALSE, type |-> t, mph |-> s.speed, dir |-> s.dir, raw |-> raw,
         flag |-> TRUE] \in Frames
    BY <1>3, <2>1, <2>2, <2>3 DEF Frames
  <2>5. QED
    BY <2>4 DEF ch, raw
<1>5. QED
  BY <1>4 DEF Genuine

\* What a thermistor reads is a number, whatever its raw count.
LEMMA ThermistorNumber == ASSUME NEW raw PROVE ThermistorTemp(raw) \in Int
  BY SensorsAssumption DEF ThermistorTemp

LEMMA WindNumeric == ASSUME NEW f \in Frames PROVE Numeric(WindFields(f))
<1>1. calc_wind_speed_ec(f.mph, f.dir) \in Int
  <2>1. f.mph \in 0 .. 255 /\ f.dir \in 0 .. 255
    BY DEF Frames
  <2> QED
    BY <2>1, SpeedNumber
<1>2. "wind_dir" \notin DOMAIN Limits
  BY DEF Limits
<1>3. Numeric("wind_speed" :> 0 @@ "wind_dir" :> Null)
  BY <1>2, NumericItem, NumericOver
<1>4. Numeric("wind_speed" :> calc_wind_speed_ec(f.mph, f.dir) @@ "wind_dir" :> WindDirection(f.dir))
  BY <1>1, <1>2, NumericItem, NumericOver
<1> QED
  BY <1>3, <1>4, NumericNone DEF WindFields

LEMMA MessageNumeric == ASSUME NEW f \in Frames PROVE Numeric(MessageFields(f))
<1>1. f.raw \in Nat
  <2> DEFINE Raws == 0 .. 4095
  <2>1. f.raw \in Raws
    BY DEF Frames
  <2>2. Raws \subseteq Nat
    OBVIOUS
  <2> HIDE DEF Raws
  <2> QED
    BY <2>1, <2>2
<1>2. Numeric(TemperatureFields(f))
  <2>1. (IF ~f.flag THEN ThermistorTemp(f.raw \div 4)
         ELSE IF f.raw >= 2048 THEN f.raw - 4096 ELSE f.raw) \in Int
    BY <1>1, ThermistorNumber
  <2> QED
    BY <2>1, NumericItem, NumericNone DEF TemperatureFields
<1>3. Numeric(HumidityFields(f))
  <2>1. (IF f.flag THEN f.raw ELSE (710230 - 301 * f.raw) \div 100) \in Int
    BY <1>1
  <2> QED
    BY <2>1, NumericItem, NumericNone DEF HumidityFields
<1>4. Numeric(RainRateFields(f))
  <2> DEFINE num == (IF f.flag THEN 360 ELSE 5760) * RainPerTip
             rate == CASE f.raw = 1023 -> 0 [] f.raw = 0 -> Null [] OTHER -> num \div f.raw
  <2>1. num \in Nat
    BY SensorsAssumption
  <2> HIDE DEF num
  <2>2. rate \in Int
    BY <1>1, <2>1 DEF Null
  <2>3. RainRateFields(f) = IF f.ch # Iss THEN NoKeys ELSE "rain_rate" :> rate
    BY DEF RainRateFields, num
  <2> HIDE DEF rate
  <2> QED
    BY <2>2, <2>3, NumericItem, NumericNone
<1>5. Numeric(RainCountFields(f))
  <2>1. f.raw % 128 \in Int
    BY <1>1
  <2> QED
    BY <2>1, NumericItem, NumericNone DEF RainCountFields
<1>6. (1757936 * f.raw) \div 1000000 \in Int
  BY <1>1
<1>7. Impossible \notin DOMAIN Limits
  BY DEF Impossible, Limits
<1> QED
  BY <1>1, <1>2, <1>3, <1>4, <1>5, <1>6, <1>7, NumericItem, NumericNone
  DEF MessageFields

LEMMA LeafSoilNumeric == ASSUME NEW f PROVE Numeric(LeafSoilFields(f))
<1> DEFINE Foreign(fields) == DOMAIN fields \cap DOMAIN Limits = {}
<1>1. ASSUME NEW k \in {"bat_leaf_soil", "soil_temp", "leaf_temp", "soil_moisture", "leaf_wetness"},
             NEW v
      PROVE  Numeric(k :> v)
  <2>1. k \notin DOMAIN Limits
    BY DEF Limits
  <2> QED
    BY <2>1, NumericItem
<1> QED
  BY <1>1, NumericOver, NumericNone DEF LeafSoilFields

\* Every decoded reading that has limits is a number.
LEMMA ReadingsAreNumbers ==
  ASSUME NEW f \in Frames
  PROVE  Numeric(parse_raw(f))
<1>1. Numeric("channel" :> f.ch)
  <2>1. "channel" \notin DOMAIN Limits
    BY DEF Limits
  <2> QED
    BY <2>1, NumericItem
<1>2. Numeric(BatteryKey(f.ch) :> Bit(f.low))
  BY NumericItem DEF Bit
<1>3. Numeric(IF Weatherly(f)
              THEN BatteryKey(f.ch) :> Bit(f.low) @@ WindFields(f) @@ MessageFields(f)
              ELSE IF f.ch = LeafSoil THEN LeafSoilFields(f) ELSE NoKeys)
  BY <1>2, WindNumeric, MessageNumeric, LeafSoilNumeric, NumericOver, NumericNone
<1> QED
  BY <1>1, <1>3, NumericOver DEF parse_raw

------------------------------------------------------------------------------
(* The step test. *)

\* What a reading off the truth, or a baseline off it, has cost and will cost.
SensorsInv == sky \in Weather /\ CountersType /\ NullsInv /\ GlitchInv

LEMMA SensorsInvInit == SensorsInit => SensorsInv
  BY DEF SensorsInit, SensorsInv, CountersType, Counters, NullsInv, GlitchInv, Astray, Zero,
         NoKeys

LEMMA CountIs ==
  ASSUME NEW counter \in [Watched -> Nat], NEW keys
  PROVE  /\ Count(counter, keys) \in [Watched -> Nat]
         /\ \A k \in Watched : Count(counter, keys)[k] =
              IF k \in keys THEN counter[k] + 1 ELSE counter[k]
  BY DEF Count

\* A reading never jumps from itself.
LEMMA NoJumpFromItself ==
  ASSUME NEW data, NEW k \in DeltaKeys, Numeric(data), Jumps(data, k)
  PROVE  data[k] # baseline[k][1]
<1>1. k \in DOMAIN Limits /\ k \in DOMAIN data
  BY DEF DeltaKeys, Jumps, Reads
<1>2. data[k] \in Int
  BY <1>1 DEF Numeric
<1> QED
  BY <1>2, StepLimits DEF Jumps, Distance

\* A data line that is not corrupt and no repeat: what it leaves of each baseline.
LEMMA ResyncedIs ==
  ASSUME NEW data, NEW k \in DeltaKeys
  PROVE  LET b == Resynced(data)
         IN  IF Reads(data, k) THEN k \in DOMAIN b /\ b[k][1] = data[k]
             ELSE /\ k \in DOMAIN b <=> k \in DOMAIN baseline
                  /\ b[k] = baseline[k] \/ k \notin DOMAIN baseline
  BY DEF Resynced, @@

LEMMA DecodedNumeric ==
  ASSUME sky \in Weather, NEW f \in Genuine(sky) \cup Glitched
  PROVE  Numeric(Decoded[f])
<1>1. f \in Frames
  BY GenuineFrames, FramesAssumption
<1>2. f \in Delivered
  BY DEF Delivered
<1>3. Decoded[f] = parse_raw(f)
  BY <1>2 DEF Decoded
<1> QED
  BY <1>1, <1>3, ReadingsAreNumbers

\* Only a frame without proof against it, and a reading that does not jump, is
\* published.
LEMMA PublishedPassed ==
  ASSUME NEW data, NEW k \in DeltaKeys, NEW freq,
         LET vetted == IF Proven(data) THEN CoRejected(data) ELSE Vetted(data)
         IN  Reads(ToPacket(vetted, freq, Proven(data)).data, k)
  PROVE  ~Proven(data) /\ ~Jumps(data, k)
<1>1. k \in WeatherKeys /\ k # "rain_count" /\ k # "wind_dir"
  BY DEF DeltaKeys, WeatherKeys, Limits
<1>2. Reads(IF Proven(data) THEN CoRejected(data) ELSE Vetted(data), k)
  BY <1>1 DEF ToPacket, Reads, CoRejected, Vetted
<1> QED
  BY <1>1, <1>2 DEF Reads, CoRejected, Vetted

LEMMA SensorsInvDataLine ==
  ASSUME SensorsInv, NEW f \in Genuine(sky) \cup Glitched, DataLine(f)
  PROVE  SensorsInv'
<1> DEFINE data == Decoded[f]
           corrupt == Proven(data)
           vetted == IF corrupt THEN CoRejected(data) ELSE Vetted(data)
           isWrong(k) == Reads(data, k) /\ data[k] # Truth(k)
           nulls == {k \in Watched : ~corrupt /\ Jumps(data, k)}
           glitches == {k \in Watched : ~corrupt /\ isWrong(k)}
           wrongs == {k \in Watched :
                        /\ Reads(ToPacket(vetted, pending, corrupt).data, k) /\ isWrong(k)
                        /\ Truth(k) # Null => Distance(data[k], Truth(k)) > Limits[k][3]}
           seeds == {k \in Watched : ~corrupt /\ isWrong(k) /\ ~Fresh(k)}
<1>1. sky' = sky /\ stepped' = stepped
  BY DEF DataLine
<1>2. CASE IsRepeat(data)
  BY <1>1, <1>2 DEF DataLine, SensorsInv, CountersType, Counters, NullsInv, GlitchInv, Astray,
                    Truth
<1>3. CASE ~IsRepeat(data)
  <2>1. /\ baseline' = IF corrupt THEN baseline ELSE Resynced(data)
        /\ nulled' = Count(nulled, nulls)
        /\ glitched' = Count(glitched, glitches)
        /\ wrong' = Count(wrong, wrongs)
        /\ wrongSeed' = Count(wrongSeed, seeds)
    BY <1>3 DEF DataLine
  <2>2. Numeric(data) /\ Watched \subseteq DeltaKeys
    BY DecodedNumeric, SensorsAssumption DEF SensorsInv
  <2> HIDE DEF data, corrupt, vetted, nulls, glitches, wrongs, seeds
  <2>3. CountersType'
    BY <1>1, <2>1, CountIs DEF SensorsInv, CountersType, Counters
  <2> SUFFICES ASSUME NEW k \in Watched
               PROVE  /\ nulled'[k] + (IF Astray(k)' THEN 1 ELSE 0) <= 2 * glitched'[k] + stepped'[k]
                      /\ k \in DOMAIN baseline' => baseline'[k][1] # Null
                      /\ Astray(k)' => glitched'[k] >= 1 \/ stepped'[k] > 0
                      /\ wrong'[k] > 0 => glitched'[k] >= 2 \/ stepped'[k] > 0 \/ wrongSeed'[k] > 0
    BY <1>1, <2>3 DEF SensorsInv, NullsInv, GlitchInv
  <2>4. /\ nulled[k] \in Nat /\ glitched[k] \in Nat /\ stepped[k] \in Nat /\ wrong[k] \in Nat
        /\ wrongSeed[k] \in Nat
        /\ nulled'[k] = IF k \in nulls THEN nulled[k] + 1 ELSE nulled[k]
        /\ glitched'[k] = IF k \in glitches THEN glitched[k] + 1 ELSE glitched[k]
        /\ wrong'[k] = IF k \in wrongs THEN wrong[k] + 1 ELSE wrong[k]
        /\ wrongSeed'[k] = IF k \in seeds THEN wrongSeed[k] + 1 ELSE wrongSeed[k]
    BY <2>1, CountIs DEF SensorsInv, CountersType, Counters
  <2>5. /\ nulled[k] + (IF Astray(k) THEN 1 ELSE 0) <= 2 * glitched[k] + stepped[k]
        /\ k \in DOMAIN baseline => baseline[k][1] # Null
        /\ Astray(k) => glitched[k] >= 1 \/ stepped[k] > 0
        /\ wrong[k] > 0 => glitched[k] >= 2 \/ stepped[k] > 0 \/ wrongSeed[k] > 0
    BY DEF SensorsInv, NullsInv, GlitchInv
  <2>6. Truth(k)' = Truth(k)
    BY <1>1 DEF Truth
  <2>7. CASE corrupt
    <3>1. k \notin nulls /\ k \notin glitches /\ k \notin seeds /\ k \notin wrongs
      BY <2>2, <2>7, PublishedPassed DEF nulls, glitches, seeds, wrongs, vetted, corrupt
    <3>2. Astray(k)' <=> Astray(k)
      BY <2>1, <2>6, <2>7 DEF Astray
    <3> QED
      BY <1>1, <2>1, <2>4, <2>5, <2>7, <3>1, <3>2
  <2>8. CASE ~corrupt /\ ~Reads(data, k)
    <3>1. k \notin nulls /\ k \notin glitches /\ k \notin seeds /\ k \notin wrongs
      BY <2>8 DEF nulls, glitches, seeds, wrongs, Jumps
    <3>2. /\ k \in DOMAIN baseline' <=> k \in DOMAIN baseline
          /\ k \in DOMAIN baseline => baseline'[k] = baseline[k]
      BY <2>1, <2>2, <2>8, ResyncedIs
    <3>3. Astray(k)' <=> Astray(k)
      BY <2>6, <3>2 DEF Astray
    <3> QED
      BY <1>1, <2>4, <2>5, <3>1, <3>2, <3>3
  <2>9. CASE ~corrupt /\ Reads(data, k)
    <3>1. k \in DOMAIN baseline' /\ baseline'[k][1] = data[k] /\ data[k] # Null
      BY <2>1, <2>2, <2>9, ResyncedIs DEF Reads
    <3>2. CASE data[k] = Truth(k)
      <4>1. k \notin glitches /\ k \notin seeds /\ k \notin wrongs /\ ~Astray(k)'
        BY <2>6, <3>1, <3>2 DEF glitches, seeds, wrongs, Astray
      <4>2. k \in nulls => Astray(k)
        <5>1. ASSUME Jumps(data, k) PROVE k \in DOMAIN baseline /\ baseline[k][1] # data[k]
          BY <2>2, <5>1, NoJumpFromItself DEF Jumps, Fresh
        <5> QED
          BY <3>2, <5>1 DEF Astray, nulls
      <4> QED
        BY <1>1, <2>4, <2>5, <3>1, <4>1, <4>2
    <3>3. CASE data[k] # Truth(k)
      <4>1. k \in glitches
        BY <2>9, <3>3 DEF glitches
      <4>2. k \in wrongs => k \in seeds \/ Astray(k)
        <5> SUFFICES ASSUME k \in wrongs, k \notin seeds PROVE Astray(k)
          OBVIOUS
        <5>1. Fresh(k)
          BY <2>9, <3>3 DEF seeds
        <5>2. k \in DOMAIN baseline
          BY <5>1 DEF Fresh
        <5>3. ~Jumps(data, k)
          BY <2>2, PublishedPassed DEF wrongs, vetted, corrupt
        <5>4. ~(Distance(data[k], baseline[k][1]) > Limits[k][3])
          BY <2>9, <5>1, <5>3 DEF Jumps
        <5>5. Truth(k) # Null => Distance(data[k], Truth(k)) > Limits[k][3]
          BY DEF wrongs
        <5>6. baseline[k][1] # Null
          BY <2>5, <5>2
        <5> QED
          BY <5>2, <5>4, <5>5, <5>6 DEF Astray
      <4> QED
        BY <1>1, <2>4, <2>5, <3>1, <4>1, <4>2
    <3> QED
      BY <3>2, <3>3
  <2> QED
    BY <2>7, <2>8, <2>9
<1> QED
  BY <1>2, <1>3

LEMMA SensorsInvStep == SensorsInv /\ [SensorsNext]_sensorsVars => SensorsInv'
<1> SUFFICES ASSUME SensorsInv, [SensorsNext]_sensorsVars PROVE SensorsInv'
  OBVIOUS
<1>1. CASE \E f \in Genuine(sky) \cup Glitched : DataLine(f)
  BY <1>1, SensorsInvDataLine
<1>2. CASE \E c \in HopChannels, e \in HopErrors, i \in DOMAIN ActiveTrIds :
             HopLine(c, e, ActiveTrIds[i])
  <2>1. sky' = sky /\ UNCHANGED <<nulled, glitched, stepped, wrong, wrongSeed>>
    BY <1>2 DEF HopLine
  <2>2. baseline' = baseline \/ baseline' = NoKeys
    BY <1>2 DEF HopLine, NewDriver
  <2>3. \A k \in Watched : Astray(k)' => Astray(k)
    BY <2>1, <2>2 DEF Astray, NoKeys, Truth
  <2>4. NullsInv'
    <3> SUFFICES ASSUME NEW k \in Watched
                 PROVE  nulled[k] + (IF Astray(k)' THEN 1 ELSE 0) <= 2 * glitched[k] + stepped[k]
      BY <2>1 DEF NullsInv
    <3>1. nulled[k] + (IF Astray(k) THEN 1 ELSE 0) <= 2 * glitched[k] + stepped[k]
      BY DEF SensorsInv, NullsInv
    <3>2. nulled[k] \in Nat /\ glitched[k] \in Nat /\ stepped[k] \in Nat
      BY DEF SensorsInv, CountersType, Counters
    <3> QED
      BY <2>3, <3>1, <3>2
  <2>5. GlitchInv'
    BY <2>1, <2>2, <2>3 DEF SensorsInv, GlitchInv, NoKeys
  <2> QED
    BY <2>1, <2>4, <2>5 DEF SensorsInv, CountersType, Counters
<1>3. CASE WeatherChanges
  <2> DEFINE steps == {k \in Watched : Truth(k) # TrueReadings[sky'][k]}
  <2>1. /\ sky' \in Weather /\ stepped' = Count(stepped, steps)
        /\ UNCHANGED <<baseline, nulled, glitched, wrong, wrongSeed>>
    BY <1>3 DEF WeatherChanges, readings
  <2>2. \A k \in Watched : Astray(k)' => Astray(k) \/ k \in steps
    BY <2>1 DEF Astray, Truth
  <2> HIDE DEF steps
  <2>3. /\ stepped' \in [Watched -> Nat]
        /\ \A k \in Watched : stepped'[k] = IF k \in steps THEN stepped[k] + 1 ELSE stepped[k]
    BY <2>1, CountIs DEF SensorsInv, CountersType, Counters
  <2>4. \A k \in Watched : /\ nulled[k] \in Nat /\ glitched[k] \in Nat /\ stepped[k] \in Nat
                           /\ wrong[k] \in Nat
    BY DEF SensorsInv, CountersType, Counters
  <2>5. NullsInv'
    <3> SUFFICES ASSUME NEW k \in Watched
                 PROVE  nulled'[k] + (IF Astray(k)' THEN 1 ELSE 0) <= 2 * glitched'[k] + stepped'[k]
      BY DEF NullsInv
    <3>1. nulled[k] + (IF Astray(k) THEN 1 ELSE 0) <= 2 * glitched[k] + stepped[k]
      BY DEF SensorsInv, NullsInv
    <3>2. nulled'[k] = nulled[k] /\ glitched'[k] = glitched[k]
      BY <2>1
    <3>3. stepped'[k] = IF k \in steps THEN stepped[k] + 1 ELSE stepped[k]
      BY <2>3
    <3>4. Astray(k)' => Astray(k) \/ k \in steps
      BY <2>2
    <3> QED
      BY <2>4, <3>1, <3>2, <3>3, <3>4
  <2>6. GlitchInv'
    BY <2>1, <2>2, <2>3, <2>4 DEF SensorsInv, GlitchInv
  <2> QED
    BY <2>1, <2>3, <2>5, <2>6 DEF SensorsInv, CountersType, Counters
<1>4. CASE Tick \/ UNCHANGED sensorsVars
  BY <1>4 DEF Tick, sensorsVars, readings, history, SensorsInv, CountersType, Counters,
              NullsInv, GlitchInv, Astray, Truth
<1> QED
  BY <1>1, <1>2, <1>3, <1>4 DEF SensorsNext

\* Every reading the step test nulls was paid for by a glitch or by the weather.
THEOREM NullsArePaidFor == SensorsSpec => []NullsPaidFor
<1>1. SensorsInv => NullsPaidFor
  <2> SUFFICES ASSUME SensorsInv, NEW k \in Watched
               PROVE  nulled[k] <= 2 * glitched[k] + stepped[k]
    BY DEF NullsPaidFor
  <2>1. nulled[k] \in Nat /\ glitched[k] \in Nat /\ stepped[k] \in Nat
    BY DEF SensorsInv, CountersType, Counters
  <2> QED
    BY <2>1 DEF SensorsInv, NullsInv
<1> QED
  BY <1>1, SensorsInvInit, SensorsInvStep, PTL DEF SensorsSpec

\* A lone glitch met with a fresh baseline, in steady weather, is not published.
THEOREM GlitchesAreHeldBack == SensorsSpec => []GlitchHeldBack
<1>1. SensorsInv => GlitchHeldBack
  BY DEF SensorsInv, GlitchInv, GlitchHeldBack
<1> QED
  BY <1>1, SensorsInvInit, SensorsInvStep, PTL DEF SensorsSpec

================================================================================
