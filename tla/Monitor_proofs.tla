---------------------------- MODULE Monitor_proofs ----------------------------
(***************************************************************************)
(* Proofs about the outage monitor, for every length of its windows, every *)
(* cooldown, and any number of restarts, rotations and failed writes:      *)
(* remedies are bounded, a verdict rests on records heard since, no        *)
(* episode is lost, an alert rests on a loss of reception, and a report    *)
(* tells every row once.  The reports' composition with the monitor        *)
(* implements the monitor.                                                 *)
(***************************************************************************)
EXTENDS Reports, FiniteSetTheorems, TLAPS

AccType == [lag : Nat, count : Nat, bad : Nat, empty : Nat, first : BOOLEAN]
WdType == [tries : Nat, pending : BOOLEAN, escalated : BOOLEAN, sinceReset : Nat]

AirTypes ==
  /\ acc \in AccType /\ wd \in WdType
  /\ remedies \in Nat /\ heard \in Nat

LedgerTypes ==
  /\ onset \in Nat /\ mirror \in Nat /\ restarts \in Nat
  /\ episodes \in 0 .. MaxEpisodes
  /\ rows \in [Episodes -> Nat]

\* A window that counted a record has begun.
CountBegun == acc.count > 0 => acc.first

\* The tries are those of which the verdict was bad, and a pending remedy is one more.
TriesInv ==
  /\ wd.tries <= MaxTries
  /\ wd.pending => wd.tries < MaxTries

\* Each remedy since the last record is pending, or was judged.
RemedyInv == acc.first => remedies <= wd.tries + (IF wd.pending THEN 1 ELSE 0)

\* A verdict that is due is given when the next window closes, which is within one
\* window: and so before the cooldown lets another remedy pass.
VerdictInTime ==
  (~blind /\ wd.pending /\ wd.sinceReset >= Verify) =>
    /\ wd.sinceReset - Verify < acc.lag \/ acc.lag >= Window
    /\ acc.first => acc.lag < Window

\* What the window under way has counted was heard since the pending remedy, or the
\* window began before it, and closes before the verdict is due.
CountHeard ==
  (~blind /\ wd.pending /\ acc.count > heard) =>
    wd.sinceReset <= acc.lag /\ acc.lag < Window

AirInv ==
  /\ AirTypes /\ CountBegun /\ TriesInv /\ RemedyInv /\ VerdictInTime /\ CountHeard
  /\ EffectiveMeansHeard

\* An episode that a restart cannot lose.
Recorded(e) == rows[e] > 0 \/ e \in excused

\* The episode on the disk is the one in memory, or either is safe without the other.
LedgerInv ==
  /\ LedgerTypes
  /\ alert <=> onset # 0
  /\ ~up => onset = 0
  /\ onset <= episodes /\ mirror <= episodes
  /\ (up /\ onset # mirror) => \A e \in {onset, mirror} \ {0} : Recorded(e)
  /\ \A e \in 1 .. episodes : e \in {onset, mirror} \/ Recorded(e)
  /\ \A e \in Episodes : e > episodes => rows[e] = 0
  /\ \A e \in Episodes : rows[e] <= restarts + (IF e \in {onset, mirror} THEN 0 ELSE 1)

------------------------------------------------------------------------------
(* The operators. *)

LEMMA Numbers ==
  /\ Window \in Nat /\ Window > 0 /\ Sustain \in Nat /\ Sustain > 0
  /\ Full \in Nat /\ MinGood \in Nat /\ MinGood > 0
  /\ Verify \in Nat /\ Window < Verify
  /\ Cooldown \in Nat /\ Verify + Window <= Cooldown
  /\ MaxTries \in Nat /\ MaxTries > 0
  /\ MaxLag \in Nat /\ Window < MaxLag
  /\ MaxEpisodes \in Nat
<1>1. {Window, Sustain, Full, MinGood, Verify, Cooldown, MaxTries, Stale} \subseteq Nat \ {0}
  BY MonitorAssumption
<1>2. {MaxLag, MaxEpisodes, MaxRestarts, MaxFailures} \subseteq Nat
  BY MonitorAssumption
<1>3. Window < Verify /\ Verify + Window <= Cooldown /\ Window < MaxLag
  BY MonitorAssumption
<1>4. QED
  BY <1>1, <1>2, <1>3

LEMMA UpToBounds ==
  ASSUME NEW bound \in Nat, NEW m \in Nat
  PROVE  /\ UpTo(bound, m) \in Nat /\ UpTo(bound, m) <= m /\ UpTo(bound, m) <= bound
         /\ UpTo(bound, m) = m \/ (UpTo(bound, m) = bound /\ bound < m)
BY DEF UpTo

\* What a poll reads into the window under way.
LEMMA WindowRead ==
  ASSUME AirTypes, NEW rotated \in BOOLEAN, NEW n \in Nat
  PROVE  LET a == AccJudged(rotated, n)
         IN  /\ a \in AccType
             /\ blind => a = Fresh
             /\ ~blind => a.first = ((~rotated /\ acc.first) \/ n > 0)
             /\ (~blind /\ rotated) => a.lag = 0 /\ a.count = UpTo(MinGood, n)
             /\ (~blind /\ ~rotated) => /\ a.lag = UpTo(MaxLag, acc.lag + 1)
                                        /\ a.count = UpTo(MinGood, acc.count + n)
<1> DEFINE b == AccAtPoll(rotated)
           r == AccRead(rotated, n)
<1>1. Fresh \in AccType /\ Fresh.lag = 0 /\ Fresh.count = 0 /\ Fresh.first = FALSE
  BY DEF Fresh, AccType
<1>2. UpTo(MaxLag, acc.lag + 1) \in Nat
  BY Numbers DEF UpTo, AirTypes, AccType
<1>3. rotated => b = Fresh
  BY DEF AccAtPoll
<1>4. ~rotated => b = [acc EXCEPT !.lag = UpTo(MaxLag, acc.lag + 1)]
  BY DEF AccAtPoll
<1>5. b \in AccType
  BY <1>1, <1>2, <1>3, <1>4 DEF AirTypes, AccType
<1>6. ~rotated => /\ b.lag = UpTo(MaxLag, acc.lag + 1) /\ b.count = acc.count
                  /\ b.first = acc.first
  BY <1>4 DEF AirTypes, AccType
<1>7. r = [b EXCEPT !.count = UpTo(MinGood, b.count + n), !.first = b.first \/ n > 0]
  BY DEF AccRead
<1> HIDE DEF b, r
<1>8. UpTo(MinGood, b.count + n) \in Nat
  BY <1>5, Numbers DEF UpTo, AccType
<1>9. (b.first \/ n > 0) \in BOOLEAN
  OBVIOUS
<1>10. r \in AccType
  BY <1>5, <1>7, <1>8, <1>9 DEF AccType
<1>11. /\ r.lag = b.lag /\ r.count = UpTo(MinGood, b.count + n)
       /\ r.first = (b.first \/ n > 0)
  BY <1>5, <1>7 DEF AccType
<1>12. AccJudged(rotated, n) = IF blind THEN Fresh ELSE r
  BY DEF AccJudged, StartOver, r
<1>13. rotated => b.lag = 0 /\ b.count = 0 /\ b.first = FALSE
  BY <1>1, <1>3
<1>14. 0 + n = n
  OBVIOUS
<1>15. QED
  BY <1>1, <1>6, <1>10, <1>11, <1>12, <1>13, <1>14

\* What closing a window makes of it.
LEMMA WindowAfter ==
  ASSUME NEW a \in AccType
  PROVE  /\ After(a) \in AccType
         /\ ~Closes(a) => After(a) = a
         /\ Closes(a) => /\ After(a).lag = a.lag - Window /\ After(a).count = 0
                         /\ After(a).first = TRUE
                         /\ After(a).bad = 0 <=> a.count >= MinGood
                         /\ After(a) = Closed(a)
<1>1. ~Closes(a) => After(a) = a
  BY DEF After
<1>2. ASSUME Closes(a)
      PROVE  /\ After(a) \in AccType
             /\ After(a).lag = a.lag - Window /\ After(a).count = 0
             /\ After(a).first = TRUE /\ After(a) = Closed(a)
             /\ After(a).bad = 0 <=> a.count >= MinGood
  <2> DEFINE bad == IF a.count < MinGood THEN UpTo(Sustain, a.bad + 1) ELSE 0
             empty == IF a.count = 0 THEN UpTo(Sustain, a.empty + 1) ELSE 0
             lag == a.lag - Window
  <2>1. After(a) = [a EXCEPT !.lag = lag, !.count = 0, !.bad = bad, !.empty = empty]
    BY <1>2 DEF After, Closed
  <2>2. lag \in Nat /\ a.first = TRUE
    BY <1>2, Numbers DEF Closes, AccType
  <2>3. UpTo(Sustain, a.bad + 1) \in Nat \ {0} /\ UpTo(Sustain, a.empty + 1) \in Nat
    BY Numbers DEF UpTo, AccType
  <2>4. bad \in Nat /\ empty \in Nat
    BY <2>3
  <2>5. bad = 0 <=> a.count >= MinGood
    BY <2>3, Numbers DEF AccType
  <2> HIDE DEF bad, empty, lag
  <2>6. After(a) \in AccType
    <3>1. After(a) = [lag |-> lag, count |-> 0, bad |-> bad, empty |-> empty, first |-> a.first]
      BY <2>1 DEF AccType
    <3>2. a.first \in BOOLEAN
      BY DEF AccType
    <3>3. QED
      BY <2>2, <2>4, <3>1, <3>2 DEF AccType
  <2>7. /\ After(a).lag = lag /\ After(a).count = 0 /\ After(a).bad = bad
        /\ After(a).first = TRUE
    BY <2>1, <2>2 DEF AccType
  <2>8. After(a) = Closed(a)
    BY <1>2 DEF After
  <2>9. QED
    BY <2>5, <2>6, <2>7, <2>8 DEF lag
<1>3. QED
  BY <1>1, <1>2

\* What a poll's lines make of the watchdog.  A remedy leaves sinceReset at 0, and
\* nothing else does.
LEMMA WatchdogRead ==
  ASSUME AirTypes, NEW rotated \in BOOLEAN, NEW ev, NEW inhibited \in BOOLEAN
  PROVE  LET w == WdRead(rotated, ev, inhibited)
         IN  /\ w \in WdType /\ w.tries = wd.tries
             /\ w.sinceReset = 0 => /\ w.pending /\ wd.tries < MaxTries
                                    /\ wd.sinceReset + 1 >= Cooldown
             /\ w.sinceReset # 0 => /\ w.sinceReset = UpTo(Cooldown, wd.sinceReset + 1)
                                    /\ w.pending = (wd.pending /\ ~rotated)
<1> DEFINE s == UpTo(Cooldown, wd.sinceReset + 1)
           v == WdAtPoll(rotated)
           w == WdRead(rotated, ev, inhibited)
<1>1. s \in Nat /\ s > 0 /\ s <= wd.sinceReset + 1
  BY Numbers DEF UpTo, AirTypes, WdType
<1> HIDE DEF s
<1>2. v = [wd EXCEPT !.sinceReset = s, !.pending = IF rotated THEN FALSE ELSE wd.pending]
  BY DEF WdAtPoll, Void, AirTypes, WdType, s
<1>3. (IF rotated THEN FALSE ELSE wd.pending) \in BOOLEAN
  BY DEF AirTypes, WdType
<1>4. v \in WdType /\ v.tries = wd.tries /\ v.sinceReset = s
      /\ v.pending = (wd.pending /\ ~rotated)
  BY <1>1, <1>2, <1>3 DEF AirTypes, WdType
<1> HIDE DEF v
<1>5. \/ w = v
      \/ w = [v EXCEPT !.escalated = TRUE]
      \/ /\ w = [v EXCEPT !.sinceReset = 0, !.pending = TRUE]
         /\ v.sinceReset >= Cooldown /\ ~(v.tries >= MaxTries)
  BY DEF WdRead, WatchdogStall, WatchdogNotRunning, Remedied, Fires, v
<1> HIDE DEF w
<1>6. CASE w = v
  BY <1>1, <1>4, <1>6 DEF s, w
<1>7. CASE w = [v EXCEPT !.escalated = TRUE]
  <2>1. w \in WdType /\ w.tries = v.tries /\ w.sinceReset = v.sinceReset /\ w.pending = v.pending
    BY <1>4, <1>7 DEF WdType
  <2>2. QED
    BY <1>1, <1>4, <2>1 DEF s, w
<1>8. CASE /\ w = [v EXCEPT !.sinceReset = 0, !.pending = TRUE]
           /\ v.sinceReset >= Cooldown /\ ~(v.tries >= MaxTries)
  <2>1. w \in WdType /\ w.tries = v.tries /\ w.sinceReset = 0 /\ w.pending = TRUE
    BY <1>4, <1>8 DEF WdType
  <2>2. wd.tries \in Nat /\ wd.sinceReset \in Nat
    BY DEF AirTypes, WdType
  <2>3. wd.tries < MaxTries
    BY <1>4, <1>8, <2>2, Numbers
  <2>4. wd.sinceReset + 1 >= Cooldown
    BY <1>1, <1>4, <1>8, <2>2, Numbers
  <2>5. QED
    BY <1>4, <2>1, <2>3, <2>4 DEF w
<1>9. QED
  BY <1>5, <1>6, <1>7, <1>8

\* What the verdict and a recovery make of the watchdog.
LEMMA WatchdogAfter ==
  ASSUME NEW a \in AccType, NEW w \in WdType
  PROVE  LET v == WdAfter(a, w)
             good == Closes(a) /\ Closed(a).bad = 0
         IN  /\ v \in WdType /\ v.sinceReset = w.sinceReset
             /\ v.pending => w.pending /\ ~(Closes(a) /\ Due(w)) /\ v.tries = w.tries
             /\ \/ v.tries = w.tries /\ v.pending = w.pending
                \/ v.tries = 0 /\ ~v.pending /\ good
                \/ v.tries = w.tries + 1 /\ ~v.pending /\ w.pending
<1> DEFINE bad == After(a).bad
           p == WatchdogPoll(w, bad)
           j == IF Closes(a) THEN p ELSE w
           v == WdAfter(a, w)
           good == Closes(a) /\ bad = 0
<1>1. Closes(a) => After(a) = Closed(a)
  BY DEF After
<1>2. v = IF Closes(a) THEN WatchdogRecovered(j, bad) ELSE j
  BY DEF WdAfter, JudgesVerdict
<1>3. w.tries \in Nat /\ w.pending \in BOOLEAN
  BY DEF WdType
<1> HIDE DEF bad, v
<1>4. \/ ~Due(w) /\ p = w
      \/ /\ Due(w) /\ bad = 0
         /\ p = [tries |-> 0, pending |-> FALSE, escalated |-> FALSE, sinceReset |-> w.sinceReset]
      \/ /\ Due(w) /\ bad # 0
         /\ p = [tries |-> w.tries + 1, pending |-> FALSE, escalated |-> w.escalated,
                 sinceReset |-> w.sinceReset]
  BY DEF WatchdogPoll, Void, WdType
<1> HIDE DEF p
<1>5. w.tries + 1 \in Nat /\ w.escalated \in BOOLEAN /\ w.sinceReset \in Nat /\ 0 \in Nat
  BY <1>3 DEF WdType
<1>6. FALSE \in BOOLEAN
  OBVIOUS
<1>7. /\ p \in WdType /\ p.sinceReset = w.sinceReset
      /\ \/ ~Due(w) /\ p.tries = w.tries /\ p.pending = w.pending
         \/ Due(w) /\ bad = 0 /\ p.tries = 0 /\ p.pending = FALSE
         \/ Due(w) /\ p.tries = w.tries + 1 /\ p.pending = FALSE
  <2>1. p \in WdType
    <3>1. CASE p = w
      BY <3>1
    <3>2. CASE p = [tries |-> 0, pending |-> FALSE, escalated |-> FALSE, sinceReset |-> w.sinceReset]
      BY <1>5, <1>6, <3>2 DEF WdType
    <3>3. CASE p = [tries |-> w.tries + 1, pending |-> FALSE, escalated |-> w.escalated,
                    sinceReset |-> w.sinceReset]
      BY <1>5, <1>6, <3>3 DEF WdType
    <3>4. QED
      BY <1>4, <3>1, <3>2, <3>3
  <2>2. QED
    BY <1>4, <2>1
<1>8. Due(w) => w.pending
  BY DEF Due
<1>9. /\ j \in WdType /\ j.sinceReset = w.sinceReset
      /\ \/ ~(Closes(a) /\ Due(w)) /\ j.tries = w.tries /\ j.pending = w.pending
         \/ good /\ j.tries = 0 /\ j.pending = FALSE
         \/ w.pending /\ j.tries = w.tries + 1 /\ j.pending = FALSE
  BY <1>7, <1>8
<1> HIDE DEF j
<1>10. \/ v = j
      \/ /\ good
         /\ v = [tries |-> 0, pending |-> FALSE, escalated |-> FALSE, sinceReset |-> j.sinceReset]
  BY <1>2, <1>9 DEF WatchdogRecovered, Void, WdType, v
<1>11. CASE v = j
  BY <1>1, <1>9, <1>11 DEF bad, v
<1>12. CASE /\ good
            /\ v = [tries |-> 0, pending |-> FALSE, escalated |-> FALSE, sinceReset |-> j.sinceReset]
  <2>1. v \in WdType /\ v.sinceReset = j.sinceReset /\ v.tries = 0 /\ v.pending = FALSE
    <3>1. j.sinceReset \in Nat
      BY <1>9 DEF WdType
    <3>2. QED
      BY <1>12, <1>5, <1>6, <3>1 DEF WdType
  <2>2. QED
    BY <1>1, <1>9, <1>12, <2>1 DEF bad, v
<1>13. QED
  BY <1>10, <1>11, <1>12

LEMMA Voided ==
  ASSUME NEW w \in WdType
  PROVE  Void(w) \in WdType /\ Void(w).pending = FALSE /\ Void(w).tries = w.tries
<1>1. Void(w).pending = FALSE /\ Void(w).tries = w.tries
  BY DEF Void, WdType
<1>2. Void(w) \in WdType
  <2>1. \A b \in BOOLEAN : [w EXCEPT !.pending = b] \in WdType
    BY DEF WdType
  <2>2. QED
    BY <2>1 DEF Void
<1>3. QED
  BY <1>1, <1>2

------------------------------------------------------------------------------
(* The remedies and their verdicts. *)

\* The first poll after a gap: nothing is counted, and no remedy is pending.
LEMMA SeeingAgain ==
  ASSUME AirInv, blind,
         NEW rotated \in BOOLEAN, NEW ev, NEW n \in 0 .. Full, NEW wrote \in BOOLEAN,
         NEW inhibited \in BOOLEAN, NEW ok \in BOOLEAN,
         Poll(rotated, ev, n, wrote, inhibited, ok), AirTypes'
  PROVE  AirInv'
<1> DEFINE v == WdRead(rotated, ev, inhibited)
           w == Void(v)
<1>1. n \in Nat /\ v \in WdType /\ v.tries = wd.tries
  BY Numbers, WatchdogRead DEF AirInv
<1>2. /\ acc' = After(AccJudged(rotated, n)) /\ wd' = WdAfter(AccJudged(rotated, n), w)
      /\ verdict' = VerdictOf(AccJudged(rotated, n), w) /\ blind' = FALSE
  BY DEF Poll, Judge
<1>3. AccJudged(rotated, n) = Fresh /\ Fresh \in AccType
  BY <1>1, WindowRead DEF AirInv
<1> HIDE DEF v
<1>4. w \in WdType /\ w.pending = FALSE /\ w.tries = wd.tries
  BY <1>1, Voided
<1> HIDE DEF w
<1>5. acc'.first = FALSE /\ acc'.count = 0
  BY <1>2, <1>3 DEF After, Closes, Fresh
<1>6. /\ wd'.pending => w.pending
      /\ wd'.tries = w.tries \/ wd'.tries = 0 \/ w.pending
  BY <1>2, <1>3, <1>4, WatchdogAfter
<1>7. wd'.pending = FALSE
  BY <1>4, <1>6 DEF AirTypes, WdType
<1>8. verdict' = "none"
  BY <1>2, <1>4 DEF VerdictOf, Due
<1>9. TriesInv'
  BY <1>4, <1>6, <1>7, Numbers DEF AirInv, TriesInv
<1>10. CountBegun' /\ RemedyInv'
  BY <1>5 DEF CountBegun, RemedyInv
<1>11. VerdictInTime' /\ CountHeard' /\ EffectiveMeansHeard'
  BY <1>7, <1>8 DEF VerdictInTime, CountHeard, EffectiveMeansHeard
<1>12. QED
  BY <1>9, <1>10, <1>11 DEF AirInv

\* Any other poll that judges.
LEMMA Judging ==
  ASSUME AirInv, ~blind,
         NEW rotated \in BOOLEAN, NEW ev, NEW n \in 0 .. Full, NEW wrote \in BOOLEAN,
         NEW inhibited \in BOOLEAN, NEW ok \in BOOLEAN,
         Poll(rotated, ev, n, wrote, inhibited, ok), AirTypes'
  PROVE  AirInv'
<1> DEFINE a == AccJudged(rotated, n)
           w == WdRead(rotated, ev, inhibited)
           fired == w.sinceReset = 0
           good == Closes(a) /\ Closed(a).bad = 0
           before == IF n > 0 THEN 0 ELSE remedies
<1>1. n \in Nat
  BY Numbers
<1>2. /\ acc' = After(a) /\ wd' = WdAfter(a, w) /\ verdict' = VerdictOf(a, w) /\ blind' = FALSE
      /\ remedies' = IF good THEN 0
                     ELSE IF fired THEN UpTo(MaxTries + 1, before + 1) ELSE before
      /\ heard' = IF fired THEN 0
                  ELSE IF wd.pending THEN UpTo(MinGood, heard + n) ELSE MinGood
  BY DEF Poll, Judge, Heard
<1>3. /\ a \in AccType
      /\ a.first = ((~rotated /\ acc.first) \/ n > 0)
      /\ rotated => a.lag = 0 /\ a.count = UpTo(MinGood, n)
      /\ ~rotated => /\ a.lag = UpTo(MaxLag, acc.lag + 1)
                     /\ a.count = UpTo(MinGood, acc.count + n)
  BY <1>1, WindowRead DEF AirInv
<1>4. /\ w \in WdType /\ w.tries = wd.tries
      /\ fired => w.pending /\ wd.tries < MaxTries /\ wd.sinceReset + 1 >= Cooldown
      /\ ~fired => /\ w.sinceReset = UpTo(Cooldown, wd.sinceReset + 1)
                   /\ w.pending = (wd.pending /\ ~rotated)
  BY WatchdogRead DEF AirInv
<1> HIDE DEF a, w
<1>5. /\ ~Closes(a) => acc' = a
      /\ Closes(a) => /\ acc'.lag = a.lag - Window /\ acc'.count = 0 /\ acc'.first = TRUE
                      /\ acc'.bad = 0 <=> a.count >= MinGood
                      /\ acc' = Closed(a)
  BY <1>2, <1>3, WindowAfter
<1>6. /\ wd'.sinceReset = w.sinceReset
      /\ wd'.pending => w.pending /\ ~(Closes(a) /\ Due(w)) /\ wd'.tries = w.tries
      /\ \/ wd'.tries = w.tries /\ wd'.pending = w.pending
         \/ wd'.tries = 0 /\ ~wd'.pending /\ good
         \/ wd'.tries = w.tries + 1 /\ ~wd'.pending /\ w.pending
  BY <1>2, <1>3, <1>4, WatchdogAfter
<1>7. /\ acc.lag \in Nat /\ acc.count \in Nat /\ acc.first \in BOOLEAN
      /\ wd.tries \in Nat /\ wd.sinceReset \in Nat /\ wd.pending \in BOOLEAN
      /\ remedies \in Nat /\ heard \in Nat
  BY DEF AirInv, AirTypes, AccType, WdType
<1>8. a.lag \in Nat /\ a.count \in Nat /\ w.sinceReset \in Nat
  BY <1>3, <1>4 DEF AccType, WdType
<1>9. good <=> Closes(a) /\ a.count >= MinGood
  BY <1>5
<1> HIDE DEF good
<1>10. CountBegun'
  <2>1. a.count > 0 => a.first
    <3>1. rotated /\ n = 0 => a.count = 0
      BY <1>3, Numbers DEF UpTo
    <3>2. ~rotated /\ n = 0 /\ acc.count = 0 => a.count = 0
      BY <1>3, Numbers DEF UpTo
    <3>3. acc.count # 0 => acc.first
      BY <1>7 DEF AirInv, CountBegun
    <3>4. n > 0 => a.first
      BY <1>3
    <3>5. ~rotated /\ acc.first => a.first
      BY <1>3
    <3>6. n > 0 \/ n = 0
      BY <1>1
    <3>7. a.count = 0 => ~(a.count > 0)
      OBVIOUS
    <3>8. QED
      BY <3>1, <3>2, <3>3, <3>4, <3>5, <3>6, <3>7
  <2>2. QED
    BY <1>5, <2>1 DEF CountBegun
<1>11. TriesInv'
  <2>1. w.pending => wd.tries < MaxTries
    BY <1>4 DEF AirInv, TriesInv
  <2>2. wd.tries <= MaxTries
    BY DEF AirInv, TriesInv
  <2>3. wd'.pending => wd'.tries < MaxTries
    BY <1>4, <1>6, <2>1
  <2>4. wd'.tries <= MaxTries
    <3>1. w.pending => wd.tries + 1 <= MaxTries
      BY <1>7, <2>1, Numbers
    <3>2. 0 <= MaxTries
      BY Numbers
    <3>3. QED
      BY <1>4, <1>6, <2>2, <3>1, <3>2
  <2>5. QED
    BY <2>3, <2>4 DEF TriesInv
<1>12. ASSUME ~fired
       PROVE  /\ w.pending = (wd.pending /\ ~rotated)
              /\ w.sinceReset <= wd.sinceReset + 1
              /\ w.pending => heard' = UpTo(MinGood, heard + n)
  <2>1. w.sinceReset = UpTo(Cooldown, wd.sinceReset + 1)
    BY <1>4, <1>12
  <2>2. w.sinceReset <= wd.sinceReset + 1
    BY <1>7, <2>1, Numbers DEF UpTo
  <2>3. QED
    BY <1>2, <1>4, <1>12, <2>2
<1>13. Due(w) => ~fired
  BY Numbers DEF Due
<1>14. VerdictInTime'
  <2> SUFFICES ASSUME wd'.pending, wd'.sinceReset >= Verify
               PROVE  /\ wd'.sinceReset - Verify < acc'.lag \/ acc'.lag >= Window
                      /\ acc'.first => acc'.lag < Window
    BY DEF VerdictInTime
  <2>1. Due(w) /\ ~Closes(a)
    BY <1>6 DEF Due
  <2>2. wd.pending /\ ~rotated /\ w.sinceReset <= wd.sinceReset + 1
    BY <1>12, <1>13, <2>1 DEF Due
  <2>3. acc' = a /\ a.lag = UpTo(MaxLag, acc.lag + 1)
    BY <1>3, <1>5, <2>1, <2>2
  <2>4. a.first => a.lag < Window
    BY <1>8, <2>1, Numbers DEF Closes
  <2>5. w.sinceReset - Verify < a.lag \/ a.lag >= Window
    <3>1. CASE acc.lag + 1 > MaxLag
      BY <1>8, <2>3, <3>1, Numbers DEF UpTo
    <3>2. CASE ~(acc.lag + 1 > MaxLag)
      <4>1. a.lag = acc.lag + 1
        BY <2>3, <3>2 DEF UpTo
      <4>2. wd.sinceReset >= Verify => wd.sinceReset - Verify < acc.lag \/ acc.lag >= Window
        BY <2>2 DEF AirInv, VerdictInTime
      <4>3. CASE wd.sinceReset >= Verify
        BY <1>7, <1>8, <2>2, <4>1, <4>2, <4>3, Numbers
      <4>4. CASE ~(wd.sinceReset >= Verify)
        BY <1>7, <1>8, <2>2, <4>1, <4>4, Numbers
      <4>5. QED
        BY <4>3, <4>4
    <3>3. QED
      BY <3>1, <3>2
  <2>6. QED
    BY <1>6, <2>3, <2>4, <2>5
<1>15. RemedyInv'
  <2> DEFINE pending == IF wd.pending THEN 1 ELSE 0
  <2> SUFFICES ASSUME acc'.first
               PROVE  remedies' <= wd'.tries + (IF wd'.pending THEN 1 ELSE 0)
    BY DEF RemedyInv
  <2>1. a.first
    BY <1>5 DEF Closes
  <2>2. wd'.tries \in Nat
    BY DEF AirTypes, WdType
  <2>3. CASE good
    BY <1>2, <2>2, <2>3
  <2>4. ~(n > 0) => ~rotated /\ acc.first /\ remedies <= wd.tries + pending
    <3>1. ~(n > 0) => ~rotated /\ acc.first
      BY <1>3, <2>1
    <3>2. QED
      BY <3>1 DEF AirInv, RemedyInv
  <2>5. CASE ~good /\ fired
    <3>1. wd'.tries + (IF wd'.pending THEN 1 ELSE 0) = wd.tries + 1
      BY <1>4, <1>6, <1>7, <2>5
    <3>2. wd.sinceReset + 1 >= Cooldown
      BY <1>4, <2>5
    <3>3. wd.pending /\ acc.first => FALSE
      <4> SUFFICES ASSUME wd.pending, acc.first PROVE FALSE
        OBVIOUS
      <4>1. wd.sinceReset >= Verify
        BY <1>7, <3>2, Numbers
      <4>2. acc.lag < Window /\ (wd.sinceReset - Verify < acc.lag \/ acc.lag >= Window)
        BY <4>1 DEF AirInv, VerdictInTime
      <4>3. QED
        BY <1>7, <3>2, <4>2, Numbers
    <3>4. before \in Nat /\ before <= wd.tries
      BY <1>7, <2>4, <3>3
    <3>5. UpTo(MaxTries + 1, before + 1) <= before + 1
      BY <3>4, Numbers DEF UpTo
    <3>6. UpTo(MaxTries + 1, before + 1) \in Nat
      BY <3>4, Numbers DEF UpTo
    <3>7. UpTo(MaxTries + 1, before + 1) <= wd.tries + 1
      BY <1>7, <3>4, <3>5, <3>6
    <3>8. QED
      BY <1>2, <2>5, <3>1, <3>7
  <2>6. CASE ~good /\ ~fired
    <3>1. remedies' = before
      BY <1>2, <2>6
    <3>2. CASE n > 0
      BY <2>2, <3>1, <3>2
    <3>3. CASE ~(n > 0)
      <4>1. w.pending = wd.pending
        BY <1>7, <1>12, <2>4, <2>6, <3>3
      <4>2. wd'.tries + (IF wd'.pending THEN 1 ELSE 0) = wd.tries + pending
        BY <1>4, <1>6, <1>7, <2>6, <4>1
      <4>3. QED
        BY <2>4, <3>1, <3>3, <4>2
    <3>4. QED
      BY <3>2, <3>3
  <2>7. QED
    BY <2>3, <2>5, <2>6
<1>16. CountHeard'
  <2> SUFFICES ASSUME wd'.pending, acc'.count > heard'
               PROVE  wd'.sinceReset <= acc'.lag /\ acc'.lag < Window
    BY DEF CountHeard
  <2>1. heard' \in Nat /\ acc'.count \in Nat
    BY DEF AirTypes, AccType
  <2>2. ~Closes(a) /\ acc' = a
    BY <1>5, <2>1
  <2>3. a.first /\ a.lag < Window
    <3>1. acc'.count > 0
      BY <2>1
    <3>2. a.first
      BY <1>10, <2>2, <3>1 DEF CountBegun
    <3>3. QED
      BY <1>8, <2>2, <3>2, Numbers DEF Closes
  <2>4. w.pending
    BY <1>6
  <2>5. CASE fired
    BY <1>6, <1>8, <2>2, <2>3, <2>5
  <2>6. CASE ~fired
    <3>1. wd.pending /\ ~rotated /\ w.sinceReset <= wd.sinceReset + 1
      BY <1>12, <2>4, <2>6
    <3>2. heard' = UpTo(MinGood, heard + n) /\ a.count = UpTo(MinGood, acc.count + n)
      BY <1>3, <1>12, <2>4, <2>6, <3>1
    <3>3. acc.count > heard
      BY <1>1, <1>7, <2>2, <3>2, Numbers DEF UpTo
    <3>4. wd.sinceReset <= acc.lag /\ acc.lag < Window
      BY <3>1, <3>3 DEF AirInv, CountHeard
    <3>5. a.lag = acc.lag + 1
      BY <1>3, <1>7, <3>1, <3>4, Numbers DEF UpTo
    <3>6. w.sinceReset <= a.lag
      BY <1>7, <1>8, <3>1, <3>4, <3>5
    <3>7. QED
      BY <1>6, <2>2, <2>3, <3>6
  <2>7. QED
    BY <2>5, <2>6
<1>17. EffectiveMeansHeard'
  <2> SUFFICES ASSUME verdict' = "effective" PROVE heard' >= MinGood
    BY DEF EffectiveMeansHeard
  <2>1. Closes(a) /\ Due(w) /\ a.count >= MinGood
    <3>1. JudgesVerdict(a) /\ Due(w) /\ After(a).bad = 0
      BY <1>2 DEF VerdictOf
    <3>2. QED
      BY <1>2, <1>5, <3>1 DEF JudgesVerdict
  <2>2. ~fired /\ w.pending /\ w.sinceReset >= Verify
    BY <1>13, <2>1 DEF Due
  <2>3. wd.pending /\ ~rotated /\ w.sinceReset <= wd.sinceReset + 1
    BY <1>12, <2>2
  <2>4. heard' = UpTo(MinGood, heard + n) /\ a.count = UpTo(MinGood, acc.count + n)
    BY <1>3, <1>12, <2>2, <2>3
  <2>5. acc.count + n >= MinGood
    BY <1>1, <1>7, <2>1, <2>4, Numbers DEF UpTo
  <2>6. CASE acc.count > heard
    <3>1. wd.sinceReset <= acc.lag /\ acc.lag < Window
      BY <2>3, <2>6 DEF AirInv, CountHeard
    <3>2. QED
      BY <1>7, <1>8, <2>2, <2>3, <3>1, Numbers
  <2>7. CASE ~(acc.count > heard)
    <3>1. heard + n >= MinGood
      BY <1>1, <1>7, <2>5, <2>7, Numbers
    <3>2. QED
      BY <1>1, <1>7, <2>4, <3>1, Numbers DEF UpTo
  <2>8. QED
    BY <2>6, <2>7
<1>18. QED
  BY <1>10, <1>11, <1>14, <1>15, <1>16, <1>17 DEF AirInv

LEMMA PollTypes ==
  ASSUME AirTypes,
         NEW rotated \in BOOLEAN, NEW ev, NEW n \in 0 .. Full, NEW wrote \in BOOLEAN,
         NEW inhibited \in BOOLEAN, NEW ok \in BOOLEAN,
         Poll(rotated, ev, n, wrote, inhibited, ok)
  PROVE  AirTypes'
<1> DEFINE a == AccJudged(rotated, n)
           v == WdRead(rotated, ev, inhibited)
           w == IF blind THEN Void(v) ELSE v
           fired == v.sinceReset = 0
           good == Closes(a) /\ Closed(a).bad = 0
           before == IF n > 0 THEN 0 ELSE remedies
<1>1. n \in Nat /\ remedies \in Nat /\ heard \in Nat
  BY Numbers DEF AirTypes
<1>2. acc' = After(a) /\ wd' = WdAfter(a, w) /\ Heard(n, fired, good)
  BY DEF Poll, Judge
<1>3. a \in AccType
  BY <1>1, WindowRead
<1>4. v \in WdType
  BY WatchdogRead
<1>5. w \in WdType
  BY <1>4, Voided
<1> HIDE DEF a, w, fired, good
<1>6. acc' \in AccType /\ wd' \in WdType
  BY <1>2, <1>3, <1>5, WindowAfter, WatchdogAfter
<1>7. before \in Nat
  BY <1>1
<1> HIDE DEF before
<1>8. remedies' \in Nat
  <2>1. UpTo(MaxTries + 1, before + 1) \in Nat
    BY <1>7, Numbers DEF UpTo
  <2>2. remedies' = IF good THEN 0 ELSE IF fired THEN UpTo(MaxTries + 1, before + 1) ELSE before
    BY <1>2 DEF Heard, before
  <2>3. QED
    BY <1>7, <2>1, <2>2
<1>9. heard' \in Nat
  <2>1. UpTo(MinGood, heard + n) \in Nat /\ MinGood \in Nat
    BY <1>1, Numbers DEF UpTo
  <2>2. heard' = IF fired THEN 0 ELSE IF wd.pending THEN UpTo(MinGood, heard + n) ELSE MinGood
    BY <1>2 DEF Heard
  <2>3. QED
    BY <2>1, <2>2
<1>10. QED
  BY <1>6, <1>8, <1>9 DEF AirTypes

LEMMA PollAir ==
  ASSUME AirInv,
         NEW rotated \in BOOLEAN, NEW ev, NEW n \in 0 .. Full, NEW wrote \in BOOLEAN,
         NEW inhibited \in BOOLEAN, NEW ok \in BOOLEAN,
         Poll(rotated, ev, n, wrote, inhibited, ok)
  PROVE  AirInv'
<1>1. AirTypes'
  BY PollTypes DEF AirInv
<1>2. CASE blind
  BY <1>1, <1>2, SeeingAgain
<1>3. CASE ~blind
  BY <1>1, <1>3, Judging
<1>4. QED
  BY <1>2, <1>3

\* A poll that judges nothing: all clocks go on, and nothing else changes.
LEMMA BlindAir ==
  ASSUME AirInv, PollBlind
  PROVE  AirInv'
<1>1. /\ blind' = TRUE /\ verdict' = "none"
      /\ acc' = [acc EXCEPT !.lag = UpTo(MaxLag, acc.lag + 1)]
      /\ wd' = [wd EXCEPT !.sinceReset = UpTo(Cooldown, wd.sinceReset + 1)]
      /\ remedies' = remedies
      /\ heard' = IF wd.pending THEN UpTo(MinGood, heard + 0) ELSE MinGood
  BY DEF PollBlind, AccAtPoll, WdAtPoll, Heard
<1>2. acc \in AccType /\ wd \in WdType /\ remedies \in Nat /\ heard \in Nat
  BY DEF AirInv, AirTypes
<1>3. /\ UpTo(MaxLag, acc.lag + 1) \in Nat
      /\ UpTo(Cooldown, wd.sinceReset + 1) \in Nat
      /\ UpTo(MinGood, heard + 0) \in Nat /\ MinGood \in Nat
  BY <1>2, Numbers DEF UpTo, AccType, WdType
<1>4. acc' \in AccType /\ acc'.first = acc.first /\ acc'.count = acc.count
  BY <1>1, <1>2, <1>3 DEF AccType
<1>5. wd' \in WdType /\ wd'.tries = wd.tries /\ wd'.pending = wd.pending
  BY <1>1, <1>2, <1>3 DEF WdType
<1>6. AirTypes'
  BY <1>1, <1>2, <1>3, <1>4, <1>5 DEF AirTypes
<1>7. CountBegun' /\ TriesInv' /\ RemedyInv'
  BY <1>1, <1>4, <1>5 DEF AirInv, CountBegun, TriesInv, RemedyInv
<1>8. VerdictInTime' /\ CountHeard' /\ EffectiveMeansHeard'
  BY <1>1 DEF VerdictInTime, CountHeard, EffectiveMeansHeard
<1>9. QED
  BY <1>6, <1>7, <1>8 DEF AirInv

LEMMA DiesAir ==
  ASSUME AirInv, Dies
  PROVE  AirInv'
<1>1. /\ acc' = Fresh /\ wd' = Armed /\ blind' = FALSE /\ verdict' = "none"
      /\ heard' = MinGood /\ remedies' = remedies
  BY DEF Dies
<1>2. /\ Fresh \in AccType /\ Fresh.count = 0 /\ Fresh.first = FALSE
      /\ Armed.pending = FALSE /\ Armed.tries = 0
  BY DEF Fresh, Armed, AccType
<1>3. Armed \in WdType
  BY Numbers DEF Armed, WdType
<1>4. AirTypes'
  BY <1>1, <1>2, <1>3, Numbers DEF AirInv, AirTypes
<1>5. CountBegun' /\ TriesInv' /\ RemedyInv'
  BY <1>1, <1>2, Numbers DEF CountBegun, TriesInv, RemedyInv
<1>6. VerdictInTime' /\ CountHeard' /\ EffectiveMeansHeard'
  BY <1>1, <1>2 DEF VerdictInTime, CountHeard, EffectiveMeansHeard
<1>7. QED
  BY <1>4, <1>5, <1>6 DEF AirInv

LEMMA AirKept ==
  ASSUME AirInv, UNCHANGED <<acc, wd, blind, histories>>
  PROVE  AirInv'
BY DEF AirInv, AirTypes, CountBegun, TriesInv, RemedyInv, VerdictInTime, CountHeard,
       EffectiveMeansHeard, histories

\* Every poll of Next is one of these.
LEMMA NextCases ==
  ASSUME Next
  PROVE  \/ \E rotated \in BOOLEAN, ev \in Events, n \in 0 .. Full, wrote \in BOOLEAN,
               inhibited \in BOOLEAN, ok \in BOOLEAN :
              Poll(rotated, ev, n, wrote, inhibited, ok)
         \/ PollBlind \/ Crash \/ CrashInClose \/ Start
<1>1. ASSUME NEW rotated \in BOOLEAN, NEW ev \in Events, NEW n \in 0 .. Full,
             NEW ok \in {TRUE} \cup {failures = MaxFailures},
             \/ Poll(rotated, ev, n, TRUE, FALSE, ok)
             \/ ev = "stall" /\ Poll(rotated, ev, n, TRUE, TRUE, ok)
      PROVE  \E r \in BOOLEAN, e \in Events, m \in 0 .. Full, wrote \in BOOLEAN,
               inhibited \in BOOLEAN, o \in BOOLEAN : Poll(r, e, m, wrote, inhibited, o)
  <2>1. ok \in BOOLEAN
    OBVIOUS
  <2>2. \/ Poll(rotated, ev, n, TRUE, FALSE, ok)
        \/ Poll(rotated, ev, n, TRUE, TRUE, ok)
    BY <1>1
  <2>3. QED
    BY <2>1, <2>2
<1>2. ASSUME Poll(FALSE, "none", 0, FALSE, FALSE, TRUE)
      PROVE  \E r \in BOOLEAN, e \in Events, m \in 0 .. Full, wrote \in BOOLEAN,
               inhibited \in BOOLEAN, o \in BOOLEAN : Poll(r, e, m, wrote, inhibited, o)
  <2>1. "none" \in Events /\ 0 \in 0 .. Full
    BY Numbers DEF Events
  <2>2. QED
    BY <1>2, <2>1
<1>3. QED
  BY <1>1, <1>2 DEF Next

LEMMA AirStep == AirInv /\ [Next]_vars => AirInv'
<1> SUFFICES ASSUME AirInv, [Next]_vars PROVE AirInv'
  OBVIOUS
<1>1. CASE Next
  <2>1. CASE Crash \/ CrashInClose
    BY <2>1, DiesAir DEF Crash, CrashInClose
  <2>2. CASE Start
    BY <2>2, AirKept DEF Start
  <2>3. QED
    BY <1>1, <2>1, <2>2, NextCases, PollAir, BlindAir
<1>2. CASE UNCHANGED vars
  BY <1>2, AirKept DEF vars, judging
<1>3. QED
  BY <1>1, <1>2

LEMMA AirInit == Init => AirInv
<1> SUFFICES ASSUME Init PROVE AirInv
  OBVIOUS
<1>1. /\ acc = Fresh /\ wd = Armed /\ verdict = "none" /\ remedies = 0 /\ heard = MinGood
  BY DEF Init
<1>2. /\ Fresh \in AccType /\ Fresh.count = 0 /\ Fresh.first = FALSE
      /\ Armed.pending = FALSE /\ Armed.tries = 0
  BY DEF Fresh, Armed, AccType
<1>3. Armed \in WdType
  BY Numbers DEF Armed, WdType
<1>4. AirTypes
  BY <1>1, <1>2, <1>3, Numbers DEF AirTypes
<1>5. CountBegun /\ TriesInv /\ RemedyInv
  BY <1>1, <1>2, Numbers DEF CountBegun, TriesInv, RemedyInv
<1>6. VerdictInTime /\ CountHeard /\ EffectiveMeansHeard
  BY <1>1, <1>2 DEF VerdictInTime, CountHeard, EffectiveMeansHeard
<1>7. QED
  BY <1>4, <1>5, <1>6 DEF AirInv

THEOREM AirInvariant == Spec => []AirInv
BY AirInit, AirStep, PTL DEF Spec

\* However long a stall lasts, it gets MaxTries remedies as long as the reception
\* accounting runs: a remedy's verdict falls before the cooldown allows the next.
THEOREM RemediesAreBounded == Spec => []RemediesBounded
<1>1. AirInv => RemediesBounded
  <2> SUFFICES ASSUME AirInv, acc.first PROVE remedies <= MaxTries
    BY DEF RemediesBounded
  <2>1. remedies \in Nat /\ wd.tries \in Nat
    BY DEF AirInv, AirTypes, WdType
  <2>2. CASE wd.pending
    BY <2>1, <2>2, Numbers DEF AirInv, RemedyInv, TriesInv
  <2>3. CASE ~wd.pending
    BY <2>1, <2>3, Numbers DEF AirInv, RemedyInv, TriesInv
  <2>4. QED
    BY <2>2, <2>3
<1>2. QED
  BY <1>1, AirInvariant, PTL

\* No remedy is called effective that was not followed by the records of a good
\* window, whatever rotates, restarts or goes blind between the two.
THEOREM EffectiveRemediesWereHeard == Spec => []EffectiveMeansHeard
<1>1. AirInv => EffectiveMeansHeard
  BY DEF AirInv
<1>2. QED
  BY <1>1, AirInvariant, PTL

------------------------------------------------------------------------------
(* The ledger of episodes. *)

\* What a poll writes: r and l say that it ends an episode and begins one.
LEMMA LedgerMoves ==
  ASSUME LedgerInv, up, UNCHANGED <<up, restarts>>,
         NEW r \in BOOLEAN, NEW l \in BOOLEAN, NEW ok \in BOOLEAN,
         r => alert, l => ~alert /\ episodes < MaxEpisodes,
         alert' = ((alert /\ ~r) \/ l),
         episodes' = IF l THEN episodes + 1 ELSE episodes,
         onset' = IF l THEN episodes' ELSE IF r THEN 0 ELSE onset,
         rows' = IF r /\ onset # 0 /\ ok THEN [rows EXCEPT ![onset] = @ + 1] ELSE rows,
         \/ ok /\ mirror' = onset' /\ excused' = excused
         \/ mirror' = mirror /\ excused' = excused \cup ({onset, onset', mirror} \ {0}) /\ ~ok
         \/ mirror' = mirror /\ excused' = excused /\ ~r /\ ~l
  PROVE  LedgerInv'
<1>1. /\ onset \in Nat /\ mirror \in Nat /\ restarts \in Nat /\ episodes \in Nat
      /\ episodes <= MaxEpisodes /\ rows \in [Episodes -> Nat]
      /\ onset <= episodes /\ mirror <= episodes
  BY Numbers DEF LedgerInv, LedgerTypes
<1>2. (alert <=> onset # 0) /\ (l => onset = 0) /\ (r => onset # 0)
  BY DEF LedgerInv
<1>3. episodes' \in Nat /\ episodes <= episodes' /\ episodes' <= MaxEpisodes
  BY <1>1, Numbers
<1>4. onset' \in Nat /\ onset' <= episodes'
  BY <1>1, <1>3
<1>5. mirror' \in Nat /\ mirror' <= episodes'
  BY <1>1, <1>3, <1>4
<1>6. onset # 0 => onset \in Episodes
  BY <1>1, Numbers DEF Episodes
<1>7. rows' \in [Episodes -> Nat]
  BY <1>1, <1>6
<1>8. \A e \in Episodes : rows'[e] = IF r /\ ok /\ e = onset THEN rows[e] + 1 ELSE rows[e]
  BY <1>1, <1>2, <1>6
<1>9. \A e \in Episodes : Recorded(e) => Recorded(e)'
  BY <1>1, <1>8 DEF Recorded
<1>10. LedgerTypes'
  BY <1>1, <1>3, <1>4, <1>5, <1>7 DEF LedgerTypes
<1>11. alert' <=> onset' # 0
  <2>1. CASE l
    <3>1. onset' = episodes + 1 /\ episodes + 1 # 0
      BY <1>1, <2>1
    <3>2. alert'
      BY <2>1
    <3>3. QED
      BY <3>1, <3>2
  <2>2. CASE ~l /\ r
    BY <2>2
  <2>3. CASE ~l /\ ~r
    BY <1>2, <2>3
  <2>4. QED
    BY <2>1, <2>2, <2>3
<1>12. (onset' # mirror') => \A e \in {onset', mirror'} \ {0} : Recorded(e)'
  <2>1. CASE mirror' = mirror /\ excused' = excused /\ ~r /\ ~l
    BY <2>1, <1>2 DEF LedgerInv, Recorded
  <2>2. CASE mirror' = mirror /\ excused' = excused \cup ({onset, onset', mirror} \ {0})
    BY <2>2 DEF Recorded
  <2>3. QED
    BY <2>1, <2>2
<1>13. \A e \in 1 .. episodes' : e \in {onset', mirror'} \/ Recorded(e)'
  <2> SUFFICES ASSUME NEW e \in 1 .. episodes' PROVE e \in {onset', mirror'} \/ Recorded(e)'
    OBVIOUS
  <2>1. e \in Episodes /\ e # 0
    BY <1>1, <1>3, Numbers DEF Episodes
  <2>2. CASE l /\ e = episodes'
    BY <2>2
  <2>3. CASE ~(l /\ e = episodes')
    <3>1. e \in 1 .. episodes
      BY <1>1, <1>3, <2>3
    <3>2. e \in {onset, mirror} \/ Recorded(e)
      BY <3>1 DEF LedgerInv
    <3>3. CASE mirror' = mirror /\ excused' = excused /\ ~r /\ ~l
      BY <1>9, <2>1, <3>2, <3>3
    <3>4. CASE mirror' = mirror /\ excused' = excused \cup ({onset, onset', mirror} \ {0})
      BY <1>9, <2>1, <3>2, <3>4 DEF Recorded
    <3>5. CASE ok /\ mirror' = onset' /\ excused' = excused
      <4>1. CASE e = onset
        <5>1. r => rows'[e] > 0
          BY <1>1, <1>8, <2>1, <3>5, <4>1
        <5>2. ~r => onset' = onset
          BY <1>2, <2>1, <4>1
        <5>3. QED
          BY <4>1, <5>1, <5>2 DEF Recorded
      <4>2. CASE e = mirror /\ e # onset
        BY <1>9, <2>1, <4>2 DEF LedgerInv
      <4>3. QED
        BY <1>9, <2>1, <3>2, <4>1, <4>2
    <3>6. QED
      BY <3>3, <3>4, <3>5
  <2>4. QED
    BY <2>2, <2>3
<1>14. \A e \in Episodes : e > episodes' => rows'[e] = 0
  BY <1>1, <1>3, <1>8 DEF LedgerInv, Episodes
<1>15. \A e \in Episodes : rows'[e] <= restarts + (IF e \in {onset', mirror'} THEN 0 ELSE 1)
  <2> SUFFICES ASSUME NEW e \in Episodes
               PROVE  rows'[e] <= restarts + (IF e \in {onset', mirror'} THEN 0 ELSE 1)
    OBVIOUS
  <2>1. rows[e] \in Nat /\ e # 0 /\ e \in Nat
    BY <1>1, Numbers DEF Episodes
  <2>2. rows[e] <= restarts + (IF e \in {onset, mirror} THEN 0 ELSE 1)
    BY DEF LedgerInv
  <2>3. CASE r /\ ok /\ e = onset
    <3>1. rows[e] <= restarts /\ rows'[e] = rows[e] + 1
      BY <1>1, <1>8, <2>2, <2>3
    <3>2. e \notin {onset', mirror'}
      BY <1>2, <2>1, <2>3
    <3>3. QED
      BY <1>1, <2>1, <3>1, <3>2
  <2>4. CASE ~(r /\ ok /\ e = onset)
    <3>1. rows'[e] = rows[e]
      BY <1>8, <2>4
    <3>2. e \in {onset', mirror'} => rows[e] <= restarts
      <4>1. CASE e \in {onset, mirror}
        BY <1>1, <2>2, <4>1
      <4>2. CASE e \notin {onset, mirror} /\ e \in {onset', mirror'}
        <5>1. e = episodes + 1
          BY <2>1, <4>2
        <5>2. rows[e] = 0
          BY <1>1, <5>1 DEF LedgerInv
        <5>3. QED
          BY <1>1, <5>2
      <4>3. QED
        BY <4>1, <4>2
    <3>3. rows[e] <= restarts + 1
      BY <1>1, <2>1, <2>2
    <3>4. QED
      BY <1>1, <3>1, <3>2, <3>3
  <2>5. QED
    BY <2>3, <2>4
<1>16. QED
  BY <1>4, <1>5, <1>10, <1>11, <1>12, <1>13, <1>14, <1>15 DEF LedgerInv

LEMMA PollLedger ==
  ASSUME LedgerInv,
         NEW rotated \in BOOLEAN, NEW ev, NEW n \in 0 .. Full, NEW wrote \in BOOLEAN,
         NEW inhibited \in BOOLEAN, NEW ok \in BOOLEAN,
         Poll(rotated, ev, n, wrote, inhibited, ok)
  PROVE  LedgerInv'
<1> DEFINE a == AccJudged(rotated, n)
           w == IF blind THEN Void(WdRead(rotated, ev, inhibited)) ELSE WdRead(rotated, ev, inhibited)
           fired == WdRead(rotated, ev, inhibited).sinceReset = 0
           r == Recovers(a)
           l == Alerts(a)
           writes == r \/ l \/ ev \in {"stall", "counted"}
<1>1. up /\ UNCHANGED <<up, restarts>> /\ Judge(rotated, ev, n, fired, a, w, ok)
  BY DEF Poll
<1> HIDE DEF a, w, fired
<1>2. (r => alert) /\ (l => ~alert)
  BY DEF Recovers, Alerts
<1>3. r \in BOOLEAN /\ l \in BOOLEAN
  BY DEF Recovers, Alerts
<1> HIDE DEF r, l
<1>4. /\ l => episodes < MaxEpisodes
      /\ alert' = ((alert /\ ~r) \/ l)
      /\ episodes' = IF l THEN episodes + 1 ELSE episodes
      /\ onset' = IF l THEN episodes' ELSE IF r THEN 0 ELSE onset
      /\ rows' = IF r /\ onset # 0 /\ ok THEN [rows EXCEPT ![onset] = @ + 1] ELSE rows
      /\ IF writes THEN Persist(onset', ok) ELSE UNCHANGED <<mirror, failures, excused>>
  BY <1>1 DEF Judge, r, l
<1>5. \/ ok /\ mirror' = onset' /\ excused' = excused
      \/ mirror' = mirror /\ excused' = excused \cup ({onset, onset', mirror} \ {0}) /\ ~ok
      \/ mirror' = mirror /\ excused' = excused /\ ~r /\ ~l
  BY <1>4 DEF Persist
<1>6. QED
  BY <1>1, <1>2, <1>3, <1>4, <1>5, LedgerMoves

\* What a monitor that dies leaves on the disk.
LEMMA DiesLedger ==
  ASSUME LedgerInv, Crash \/ CrashInClose
  PROVE  LedgerInv'
<1>1. /\ up /\ restarts' = restarts + 1 /\ up' = FALSE /\ alert' = FALSE /\ onset' = 0
      /\ mirror' = mirror /\ episodes' = episodes /\ excused' = excused
      /\ \/ rows' = rows
         \/ onset # 0 /\ rows' = [rows EXCEPT ![onset] = @ + 1]
  BY DEF Crash, CrashInClose, Dies, RowFirst
<1>2. /\ onset \in Nat /\ mirror \in Nat /\ restarts \in Nat /\ episodes \in Nat
      /\ episodes <= MaxEpisodes /\ rows \in [Episodes -> Nat]
      /\ onset <= episodes /\ mirror <= episodes
  BY Numbers DEF LedgerInv, LedgerTypes
<1>3. onset # 0 => onset \in Episodes
  BY <1>2, Numbers DEF Episodes
<1>4. rows' \in [Episodes -> Nat]
  BY <1>1, <1>2, <1>3
<1>5. \A e \in Episodes : rows'[e] = rows[e] \/ (e = onset /\ rows'[e] = rows[e] + 1)
  BY <1>1, <1>2, <1>3
<1>6. \A e \in Episodes : Recorded(e) => Recorded(e)'
  BY <1>1, <1>2, <1>5 DEF Recorded
<1>7. LedgerTypes'
  BY <1>1, <1>2, <1>4 DEF LedgerInv, LedgerTypes
<1>8. \A e \in 1 .. episodes : e \in {0, mirror} \/ Recorded(e)'
  <2> SUFFICES ASSUME NEW e \in 1 .. episodes PROVE e \in {0, mirror} \/ Recorded(e)'
    OBVIOUS
  <2>1. e \in Episodes /\ e # 0
    BY <1>2, Numbers DEF Episodes
  <2>2. e \in {onset, mirror} \/ Recorded(e)
    BY DEF LedgerInv
  <2>3. e = onset /\ onset # mirror => Recorded(e)
    BY <1>1, <2>1 DEF LedgerInv
  <2>4. QED
    BY <1>6, <2>1, <2>2, <2>3
<1>9. \A e \in Episodes : e > episodes => rows'[e] = 0
  BY <1>2, <1>5 DEF LedgerInv, Episodes
<1>10. \A e \in Episodes : rows'[e] <= restarts' + (IF e \in {0, mirror} THEN 0 ELSE 1)
  <2> SUFFICES ASSUME NEW e \in Episodes
               PROVE  rows'[e] <= restarts' + (IF e \in {0, mirror} THEN 0 ELSE 1)
    OBVIOUS
  <2>1. rows[e] \in Nat
    BY <1>2
  <2>2. rows[e] <= restarts + (IF e \in {onset, mirror} THEN 0 ELSE 1)
    BY DEF LedgerInv
  <2>3. CASE e = onset
    BY <1>1, <1>2, <1>5, <2>1, <2>2, <2>3
  <2>4. CASE e # onset
    <3>1. rows'[e] = rows[e]
      BY <1>5, <2>4
    <3>2. rows[e] <= restarts + 1
      BY <1>2, <2>1, <2>2
    <3>3. QED
      BY <1>1, <1>2, <2>1, <3>1, <3>2
  <2>5. QED
    BY <2>3, <2>4
<1>11. onset' = 0 /\ ~up' /\ onset' <= episodes' /\ mirror' <= episodes'
  BY <1>1, <1>2
<1>12. QED
  BY <1>1, <1>7, <1>8, <1>9, <1>10, <1>11 DEF LedgerInv

LEMMA StartLedger ==
  ASSUME LedgerInv, Start
  PROVE  LedgerInv'
<1>1. /\ up' = TRUE /\ onset' = mirror /\ alert' = (mirror # 0) /\ mirror' = mirror
      /\ UNCHANGED <<rows, excused, episodes, restarts>> /\ ~up
  BY DEF Start, disk
<1>2. onset = 0
  BY <1>1 DEF LedgerInv
<1>3. mirror \in Nat /\ LedgerTypes'
  BY <1>1 DEF LedgerInv, LedgerTypes
<1>4. /\ alert' <=> onset' # 0
      /\ ~up' => onset' = 0
      /\ onset' <= episodes' /\ mirror' <= episodes'
  BY <1>1 DEF LedgerInv
<1>5. (onset' # mirror') => \A e \in {onset', mirror'} \ {0} : Recorded(e)'
  BY <1>1
<1>6. \A e \in 1 .. episodes' : e \in {onset', mirror'} \/ Recorded(e)'
  BY <1>1, <1>2 DEF LedgerInv, Recorded
<1>7. \A e \in Episodes : e > episodes' => rows'[e] = 0
  BY <1>1 DEF LedgerInv
<1>8. \A e \in Episodes : rows'[e] <= restarts' + (IF e \in {onset', mirror'} THEN 0 ELSE 1)
  <2>1. \A e \in Episodes : e # 0
    BY Numbers DEF Episodes
  <2>2. QED
    BY <1>1, <1>2, <2>1 DEF LedgerInv
<1>9. QED
  BY <1>3, <1>4, <1>5, <1>6, <1>7, <1>8 DEF LedgerInv

LEMMA LedgerKept ==
  ASSUME LedgerInv, UNCHANGED <<up, alert, onset, disk, episodes, restarts>>
  PROVE  LedgerInv'
BY DEF LedgerInv, LedgerTypes, Recorded, disk

LEMMA LedgerStep == LedgerInv /\ [Next]_vars => LedgerInv'
<1> SUFFICES ASSUME LedgerInv, [Next]_vars PROVE LedgerInv'
  OBVIOUS
<1>1. CASE Next
  <2>1. CASE PollBlind
    BY <2>1, LedgerKept DEF PollBlind
  <2>2. QED
    BY <1>1, <2>1, NextCases, PollLedger, DiesLedger, StartLedger
<1>2. CASE UNCHANGED vars
  BY <1>2, LedgerKept DEF vars, judging
<1>3. QED
  BY <1>1, <1>2

LEMMA LedgerInit == Init => LedgerInv
<1> SUFFICES ASSUME Init PROVE LedgerInv
  OBVIOUS
<1>1. /\ up /\ ~alert /\ onset = 0 /\ mirror = 0 /\ episodes = 0 /\ restarts = 0
      /\ rows = [e \in Episodes |-> 0]
  BY DEF Init
<1>2. LedgerTypes
  BY <1>1, Numbers DEF LedgerTypes
<1>3. \A e \in Episodes : rows[e] = 0 /\ e # 0
  BY <1>1, Numbers DEF Episodes
<1>4. \A e \in Episodes : rows[e] <= restarts + (IF e \in {onset, mirror} THEN 0 ELSE 1)
  BY <1>1, <1>3
<1>5. QED
  BY <1>1, <1>2, <1>3, <1>4 DEF LedgerInv

THEOREM LedgerInvariant == Spec => []LedgerInv
BY LedgerInit, LedgerStep, PTL DEF Spec

\* No episode whose writes succeeded is lost, whenever the monitor dies, and each
\* death can at worst write one more row of it.
THEOREM NoEpisodeIsLost == Spec => []EpisodesKept
<1>1. LedgerInv => EpisodesKept
  <2> SUFFICES ASSUME LedgerInv, NEW e \in 1 .. episodes
               PROVE  /\ rows[e] > 0 \/ e \in {onset, mirror} \/ e \in excused
                      /\ rows[e] <= 1 + restarts
    BY DEF EpisodesKept, LedgerInv
  <2>1. e \in Episodes
    BY Numbers DEF LedgerInv, LedgerTypes, Episodes
  <2>2. rows[e] \in Nat /\ restarts \in Nat
    BY <2>1 DEF LedgerInv, LedgerTypes
  <2>3. rows[e] > 0 \/ e \in {onset, mirror} \/ e \in excused
    BY DEF LedgerInv, Recorded
  <2>4. rows[e] <= restarts + (IF e \in {onset, mirror} THEN 0 ELSE 1)
    BY <2>1 DEF LedgerInv
  <2>5. rows[e] <= 1 + restarts
    BY <2>2, <2>4
  <2>6. QED
    BY <2>3, <2>5
<1>2. QED
  BY <1>1, LedgerInvariant, PTL

------------------------------------------------------------------------------
(* The streaks of bad windows, and the alert. *)

Cap == (Sustain - 1) * Window

HistoryTypes ==
  /\ fullRun \in Nat /\ lowFor \in Nat /\ silentFor \in Nat /\ backlog \in BOOLEAN
  /\ acc.bad <= Sustain /\ acc.empty <= Sustain

\* Before the first record nothing is judged, and nothing overdue.
Unbegun == ~acc.first => acc.bad = 0 /\ acc.empty = 0 /\ acc.count = 0 /\ ~backlog

\* A window that is still overdue when the poll is over was just begun.
OverdueIsNew == ~blind /\ acc.first /\ acc.lag >= Window => acc.count = 0

\* The clock is not overdue, and the monitor sees.
OnTime == ~blind /\ ~backlog

LagInv == OnTime /\ acc.first => acc.lag < Window

\* Polls of full reception fill a window.
FilledInv ==
  OnTime /\ acc.lag <= Window /\ fullRun >= acc.lag =>
    acc.count >= MinGood \/ acc.count >= acc.lag * Full

\* The last bad window was not full, and so reception is not surely good since.
BadInv ==
  OnTime /\ acc.first /\ acc.bad > 0 =>
    /\ fullRun < Window + acc.lag
    /\ lowFor >= Cap \/ lowFor > (acc.bad - 1) * Window + acc.lag

\* No record came in since the first of the empty windows.
EmptyInv ==
  OnTime /\ acc.count = 0 =>
    silentFor >= Cap \/ silentFor >= acc.empty * Window + acc.lag

StreakInv ==
  /\ HistoryTypes /\ Unbegun /\ OverdueIsNew
  /\ LagInv /\ FilledInv /\ BadInv /\ EmptyInv

LEMMA StreakNumbers ==
  /\ Full > 0 /\ Window > 1 /\ Window * Full >= MinGood
  /\ Cap \in Nat /\ SureRun \in Nat /\ SureRun = 2 * Window - 1
<1>1. Window * Full >= MinGood /\ Full < MinGood
  BY MonitorAssumption
<1>2. Full # 0
  <2>1. Window * 0 = 0
    BY Numbers
  <2>2. QED
    BY <1>1, <2>1, Numbers
<1>3. Window # 1
  <2>1. 1 * Full = Full
    BY Numbers
  <2>2. QED
    BY <1>1, <2>1, Numbers
<1>4. Cap \in Nat
  BY Numbers DEF Cap
<1>5. QED
  BY <1>1, <1>2, <1>3, <1>4, Numbers DEF SureRun

\* One more window's worth of polls, or of records.
LEMMA OneMore ==
  ASSUME NEW k \in Nat, NEW m \in Nat
  PROVE  (k + 1) * m = k * m + m /\ k * m \in Nat /\ (k + 1) * m \in Nat
OBVIOUS

LEMMA Multiples ==
  ASSUME NEW k \in Nat, NEW j \in Nat, NEW m \in Nat, k <= j
  PROVE  k * m <= j * m
<1>1. PICK d \in Nat : j = k + d
  <2>1. j - k \in Nat /\ j = k + (j - k)
    OBVIOUS
  <2>2. QED
    BY <2>1
<1>2. (k + d) * m = k * m + d * m /\ d * m \in Nat /\ k * m \in Nat
  OBVIOUS
<1>3. QED
  BY <1>1, <1>2

\* The streaks of bad and of empty windows after a poll's lines were read.
LEMMA StreaksRead ==
  ASSUME AirTypes, ~blind, NEW rotated \in BOOLEAN, NEW n \in Nat
  PROVE  LET a == AccJudged(rotated, n)
         IN  /\ a.bad = IF rotated THEN 0 ELSE acc.bad
             /\ a.empty = IF rotated THEN 0 ELSE acc.empty
<1>1. AccJudged(rotated, n) = [AccAtPoll(rotated) EXCEPT
        !.count = UpTo(MinGood, AccAtPoll(rotated).count + n),
        !.first = AccAtPoll(rotated).first \/ n > 0]
  BY DEF AccJudged, AccRead
<1>2. Fresh \in AccType /\ Fresh.bad = 0 /\ Fresh.empty = 0
  BY DEF Fresh, AccType
<1>3. UpTo(MaxLag, acc.lag + 1) \in Nat
  BY Numbers DEF UpTo, AirTypes, AccType
<1>4. rotated => AccAtPoll(rotated) = Fresh
  BY DEF AccAtPoll
<1>5. ~rotated => AccAtPoll(rotated) = [acc EXCEPT !.lag = UpTo(MaxLag, acc.lag + 1)]
  BY DEF AccAtPoll
<1>6. /\ AccAtPoll(rotated) \in AccType
      /\ AccAtPoll(rotated).bad = IF rotated THEN 0 ELSE acc.bad
      /\ AccAtPoll(rotated).empty = IF rotated THEN 0 ELSE acc.empty
  BY <1>2, <1>3, <1>4, <1>5 DEF AirTypes, AccType
<1>7. QED
  BY <1>1, <1>6 DEF AccType

\* The same after a window was closed.
LEMMA StreaksClosed ==
  ASSUME NEW a \in AccType, Closes(a)
  PROVE  /\ After(a).bad = IF a.count < MinGood THEN UpTo(Sustain, a.bad + 1) ELSE 0
         /\ After(a).empty = IF a.count = 0 THEN UpTo(Sustain, a.empty + 1) ELSE 0
BY DEF After, Closed, AccType

\* What a poll says about the air.
LEMMA AirHeard ==
  ASSUME HistoryTypes, NEW n \in 0 .. Full, NEW fired, NEW good, Heard(n, fired, good)
  PROVE  /\ fullRun' \in Nat /\ lowFor' \in Nat /\ silentFor' \in Nat
         /\ n # Full => fullRun' = 0
         /\ fullRun' <= fullRun + 1
         /\ fullRun' # SureRun => lowFor' = UpTo(Cap, lowFor + 1)
         /\ n = 0 => silentFor' = UpTo(Cap, silentFor + 1)
<1>1. /\ fullRun' = (IF n = Full THEN UpTo(SureRun, fullRun + 1) ELSE 0)
      /\ lowFor' = IF fullRun' = SureRun THEN 0 ELSE UpTo(Cap, lowFor + 1)
      /\ silentFor' = IF n > 0 THEN 0 ELSE UpTo(Cap, silentFor + 1)
  BY DEF Heard, Cap
<1>2. fullRun \in Nat /\ lowFor \in Nat /\ silentFor \in Nat
  BY DEF HistoryTypes
<1>3. /\ UpTo(SureRun, fullRun + 1) \in Nat /\ UpTo(SureRun, fullRun + 1) <= fullRun + 1
      /\ UpTo(Cap, lowFor + 1) \in Nat /\ UpTo(Cap, silentFor + 1) \in Nat
  BY <1>2, StreakNumbers DEF UpTo
<1>4. n = 0 => ~(n > 0)
  OBVIOUS
<1>5. QED
  BY <1>1, <1>2, <1>3, <1>4

\* The first poll after a gap starts over.
LEMMA StreakSeesAgain ==
  ASSUME StreakInv, AirTypes, blind,
         NEW rotated \in BOOLEAN, NEW ev, NEW n \in 0 .. Full, NEW wrote \in BOOLEAN,
         NEW inhibited \in BOOLEAN, NEW ok \in BOOLEAN,
         Poll(rotated, ev, n, wrote, inhibited, ok)
  PROVE  StreakInv'
<1>1. n \in Nat
  BY Numbers
<1>2. AccJudged(rotated, n) = Fresh
  BY <1>1, WindowRead
<1>3. ~Closes(Fresh) /\ After(Fresh) = Fresh
  BY DEF Closes, After, Fresh
<1>4. PICK fired : /\ acc' = Fresh /\ backlog' = FALSE
                   /\ Heard(n, fired, FALSE)
  <2> DEFINE v == WdRead(rotated, ev, inhibited)
             fires == v.sinceReset = 0
             w == IF blind THEN Void(v) ELSE v
  <2>1. PICK fired : Judge(rotated, ev, n, fired, Fresh, w, ok)
    <3>1. Judge(rotated, ev, n, fires, AccJudged(rotated, n), w, ok)
      BY DEF Poll
    <3> HIDE DEF w, fires
    <3>2. QED
      BY <1>2, <3>1
  <2> HIDE DEF w
  <2>2. acc' = Fresh
    BY <1>3, <2>1 DEF Judge
  <2>3. backlog' = FALSE
    BY <2>1 DEF Judge, Fresh
  <2>4. Heard(n, fired, FALSE)
    <3>1. (Closes(Fresh) /\ Closed(Fresh).bad = 0) = FALSE
      BY <1>3
    <3>2. Heard(n, fired, Closes(Fresh) /\ Closed(Fresh).bad = 0)
      BY <2>1 DEF Judge
    <3>3. QED
      BY <3>1, <3>2
  <2>5. QED
    BY <2>2, <2>3, <2>4
<1>5. /\ acc'.lag = 0 /\ acc'.count = 0 /\ acc'.bad = 0 /\ acc'.empty = 0
      /\ acc'.first = FALSE
  BY <1>4 DEF Fresh
<1>6. fullRun' \in Nat /\ lowFor' \in Nat /\ silentFor' \in Nat
  BY <1>4, AirHeard DEF StreakInv
<1>7. 0 * Window = 0 /\ 0 * Full = 0
  BY Numbers
<1>8. HistoryTypes'
  <2>1. 0 <= Sustain
    BY Numbers
  <2>2. backlog' \in BOOLEAN
    BY <1>4
  <2>3. QED
    BY <1>5, <1>6, <2>1, <2>2 DEF HistoryTypes
<1>9. Unbegun' /\ OverdueIsNew'
  BY <1>4, <1>5 DEF Unbegun, OverdueIsNew
<1>10. LagInv' /\ BadInv'
  BY <1>5 DEF LagInv, BadInv
<1>11. FilledInv' /\ EmptyInv'
  BY <1>5, <1>6, <1>7 DEF FilledInv, EmptyInv
<1>12. QED
  BY <1>8, <1>9, <1>10, <1>11 DEF StreakInv

\* What a poll that reads n records makes of the window under way, a being that window
\* once they were read.
Judged(a, rotated, n) ==
  /\ a.first = ((~rotated /\ acc.first) \/ n > 0)
  /\ rotated => a.lag = 0 /\ a.count = UpTo(MinGood, n) /\ a.bad = 0 /\ a.empty = 0
  /\ ~rotated => /\ a.lag = UpTo(MaxLag, acc.lag + 1)
                 /\ a.count = UpTo(MinGood, acc.count + n)
                 /\ a.bad = acc.bad /\ a.empty = acc.empty
  /\ ~(a.first /\ a.lag >= Window) =>
       /\ acc' = a
       /\ backlog' = IF ~a.first THEN FALSE
                     ELSE IF rotated \/ ~acc.first THEN a.lag > Window
                     ELSE backlog
  /\ a.first /\ a.lag >= Window =>
       /\ acc'.first = TRUE /\ acc'.lag = a.lag - Window /\ acc'.count = 0
       /\ acc'.bad = IF a.count < MinGood THEN UpTo(Sustain, a.bad + 1) ELSE 0
       /\ acc'.empty = IF a.count = 0 THEN UpTo(Sustain, a.empty + 1) ELSE 0
       /\ backlog' = IF a.count >= MinGood THEN FALSE
                     ELSE IF rotated \/ ~acc.first THEN a.lag > Window
                     ELSE backlog
  /\ \E fired, good : Heard(n, fired, good)

LEMMA StreakSees ==
  ASSUME AirTypes, ~blind,
         NEW rotated \in BOOLEAN, NEW ev, NEW n \in 0 .. Full, NEW wrote \in BOOLEAN,
         NEW inhibited \in BOOLEAN, NEW ok \in BOOLEAN,
         Poll(rotated, ev, n, wrote, inhibited, ok)
  PROVE  \E a \in AccType : Judged(a, rotated, n)
<1> DEFINE a == AccJudged(rotated, n)
           v == WdRead(rotated, ev, inhibited)
           fired == v.sinceReset = 0
           w == IF blind THEN Void(v) ELSE v
           good == Closes(a) /\ Closed(a).bad = 0
<1>1. n \in Nat
  BY Numbers
<1>2. /\ a \in AccType
      /\ a.first = ((~rotated /\ acc.first) \/ n > 0)
      /\ rotated => a.lag = 0 /\ a.count = UpTo(MinGood, n)
      /\ ~rotated => /\ a.lag = UpTo(MaxLag, acc.lag + 1)
                     /\ a.count = UpTo(MinGood, acc.count + n)
  BY <1>1, WindowRead
<1>3. /\ a.bad = IF rotated THEN 0 ELSE acc.bad
      /\ a.empty = IF rotated THEN 0 ELSE acc.empty
  BY <1>1, StreaksRead
<1>4. Judge(rotated, ev, n, fired, a, w, ok)
  BY DEF Poll
<1> HIDE DEF a, fired, w
<1>5. /\ acc' = After(a)
      /\ Heard(n, fired, good)
      /\ backlog' = IF ~a.first \/ good THEN FALSE
                    ELSE IF rotated \/ ~acc.first THEN a.lag > Window
                    ELSE backlog
  BY <1>4 DEF Judge
<1>6. Closes(a) <=> a.first /\ a.lag >= Window
  BY DEF Closes
<1>7. good <=> Closes(a) /\ a.count >= MinGood
  BY <1>2, WindowAfter
<1> HIDE DEF good
<1>8. ~Closes(a) => acc' = a
  BY <1>2, <1>5, WindowAfter
<1>9. Closes(a) =>
        /\ acc'.first = TRUE /\ acc'.lag = a.lag - Window /\ acc'.count = 0
        /\ acc'.bad = IF a.count < MinGood THEN UpTo(Sustain, a.bad + 1) ELSE 0
        /\ acc'.empty = IF a.count = 0 THEN UpTo(Sustain, a.empty + 1) ELSE 0
  BY <1>2, <1>5, WindowAfter, StreaksClosed
<1>10. ~Closes(a) => backlog' = IF ~a.first THEN FALSE
                                ELSE IF rotated \/ ~acc.first THEN a.lag > Window
                                ELSE backlog
  BY <1>5, <1>7
<1>11. Closes(a) => backlog' = IF a.count >= MinGood THEN FALSE
                               ELSE IF rotated \/ ~acc.first THEN a.lag > Window
                               ELSE backlog
  BY <1>5, <1>6, <1>7
<1>12. \E f, g : Heard(n, f, g)
  BY <1>5
<1>13. QED
  BY <1>2, <1>3, <1>6, <1>8, <1>9, <1>10, <1>11, <1>12 DEF Judged

\* A poll of a log that rotated.
LEMMA StreakRotated ==
  ASSUME StreakInv, NEW n \in 0 .. Full, NEW a \in AccType, Judged(a, TRUE, n)
  PROVE  StreakInv'
<1>1. /\ a.first <=> n > 0
      /\ a.lag = 0 /\ a.count = UpTo(MinGood, n) /\ a.bad = 0 /\ a.empty = 0
      /\ ~(a.first /\ a.lag >= Window) =>
           /\ acc' = a
           /\ backlog' = IF ~a.first THEN FALSE ELSE a.lag > Window
      /\ \E fired, good : Heard(n, fired, good)
  <2>1. a.first = ((~TRUE /\ acc.first) \/ n > 0)
    BY DEF Judged
  <2>2. a.lag = 0 /\ a.count = UpTo(MinGood, n) /\ a.bad = 0 /\ a.empty = 0
    BY DEF Judged
  <2>3. ~(a.first /\ a.lag >= Window) =>
           /\ acc' = a
           /\ backlog' = IF ~a.first THEN FALSE ELSE a.lag > Window
    BY DEF Judged
  <2>4. \E fired, good : Heard(n, fired, good)
    BY DEF Judged
  <2>5. QED
    BY <2>1, <2>2, <2>3, <2>4
<1>2. n \in Nat /\ ~(0 >= Window) /\ ~(0 > Window)
  BY Numbers
<1>3. acc' = a
  BY <1>1, <1>2
<1>4. backlog' = FALSE
  <2>1. (a.lag > Window) = FALSE
    BY <1>1, <1>2
  <2>2. ~(a.first /\ a.lag >= Window)
    BY <1>1, <1>2
  <2>3. QED
    BY <1>1, <2>1, <2>2
<1>5. /\ acc'.lag = 0 /\ acc'.bad = 0 /\ acc'.empty = 0
      /\ (acc'.first <=> n > 0) /\ acc'.count = UpTo(MinGood, n)
  BY <1>1, <1>3
<1>6. fullRun' \in Nat /\ lowFor' \in Nat /\ silentFor' \in Nat
  BY <1>1, AirHeard DEF StreakInv
<1>7. 0 * Window = 0 /\ 0 * Full = 0
  BY Numbers
<1>8. ~(n > 0) => acc'.count = 0
  BY <1>2, <1>5, Numbers DEF UpTo
<1>9. acc'.count \in Nat
  BY <1>2, <1>5, Numbers DEF UpTo
<1>10. HistoryTypes'
  <2>1. 0 <= Sustain
    BY Numbers
  <2>2. backlog' \in BOOLEAN
    BY <1>4
  <2>3. QED
    BY <1>5, <1>6, <2>1, <2>2 DEF HistoryTypes
<1>11. Unbegun'
  BY <1>4, <1>5, <1>8 DEF Unbegun
<1>12. OverdueIsNew' /\ LagInv' /\ BadInv'
  BY <1>2, <1>5, Numbers DEF OverdueIsNew, LagInv, BadInv
<1>13. FilledInv' /\ EmptyInv'
  BY <1>5, <1>6, <1>7, <1>9 DEF FilledInv, EmptyInv
<1>14. QED
  BY <1>10, <1>11, <1>12, <1>13 DEF StreakInv

\* A poll that closes no window.
LEMMA StreakGoesOn ==
  ASSUME StreakInv, AirTypes, ~blind, NEW n \in 0 .. Full, NEW a \in AccType,
         Judged(a, FALSE, n), ~(a.first /\ a.lag >= Window)
  PROVE  StreakInv'
<1> SUFFICES
      ASSUME a.first = (acc.first \/ n > 0),
             a.lag = UpTo(MaxLag, acc.lag + 1), a.count = UpTo(MinGood, acc.count + n),
             a.bad = acc.bad, a.empty = acc.empty, acc' = a,
             backlog' = IF ~a.first THEN FALSE
                        ELSE IF ~acc.first THEN a.lag > Window ELSE backlog,
             NEW fired, NEW good, Heard(n, fired, good)
      PROVE  StreakInv'
  BY DEF Judged
<1>1. /\ acc.lag \in Nat /\ acc.count \in Nat /\ acc.bad \in Nat /\ acc.empty \in Nat
      /\ acc.first \in BOOLEAN /\ a.first \in BOOLEAN
      /\ a.lag \in Nat /\ a.count \in Nat /\ n \in Nat
  BY Numbers DEF AirTypes, AccType
<1>2. HistoryTypes /\ Unbegun /\ LagInv /\ FilledInv /\ BadInv /\ EmptyInv
  BY DEF StreakInv
<1>3. /\ fullRun' \in Nat /\ lowFor' \in Nat /\ silentFor' \in Nat
      /\ n # Full => fullRun' = 0
      /\ fullRun' <= fullRun + 1
      /\ fullRun' # SureRun => lowFor' = UpTo(Cap, lowFor + 1)
      /\ n = 0 => silentFor' = UpTo(Cap, silentFor + 1)
  BY <1>2, AirHeard
<1>4. fullRun \in Nat /\ lowFor \in Nat /\ silentFor \in Nat
  BY <1>2 DEF HistoryTypes
<1>5. a.lag > 0 /\ a.lag <= acc.lag + 1 /\ (a.lag <= Window => a.lag = acc.lag + 1)
  BY <1>1, Numbers DEF UpTo
<1>6. a.first => a.lag < Window
  BY <1>1, Numbers
<1>7. backlog' = IF ~acc.first THEN FALSE ELSE backlog
  <2>1. a.first => (a.lag > Window) = FALSE
    BY <1>1, <1>6, Numbers
  <2>2. acc.first => a.first
    OBVIOUS
  <2>3. QED
    BY <2>1, <2>2
<1>8. ~acc.first => acc.bad = 0 /\ acc.empty = 0 /\ acc.count = 0 /\ ~backlog
  BY <1>2 DEF Unbegun
<1>9. a.count = 0 => acc.count = 0 /\ n = 0
  BY <1>1, Numbers DEF UpTo
<1>10. HistoryTypes'
  <2>1. acc'.bad <= Sustain /\ acc'.empty <= Sustain
    BY <1>2 DEF HistoryTypes
  <2>2. backlog' \in BOOLEAN
    BY <1>2, <1>7 DEF HistoryTypes
  <2>3. QED
    BY <1>3, <2>1, <2>2 DEF HistoryTypes
<1>11. Unbegun'
  <2> SUFFICES ASSUME ~a.first PROVE a.bad = 0 /\ a.empty = 0 /\ a.count = 0 /\ ~backlog'
    BY DEF Unbegun
  <2>1. ~acc.first /\ ~(n > 0)
    OBVIOUS
  <2>2. n = 0
    BY <1>1, <2>1
  <2>3. a.count = 0
    BY <1>8, <2>1, <2>2, Numbers DEF UpTo
  <2>4. QED
    BY <1>7, <1>8, <2>1, <2>3
<1>12. OverdueIsNew' /\ LagInv'
  BY <1>1, <1>6, Numbers DEF OverdueIsNew, LagInv
<1>13. OnTime' => OnTime
  BY <1>7, <1>8 DEF OnTime
<1>14. FilledInv'
  <2> SUFFICES ASSUME OnTime', a.lag <= Window, fullRun' >= a.lag
               PROVE  a.count >= MinGood \/ a.count >= a.lag * Full
    BY DEF FilledInv
  <2>1. n = Full /\ fullRun >= acc.lag /\ acc.lag <= Window /\ a.lag = acc.lag + 1
    BY <1>1, <1>3, <1>4, <1>5, Numbers
  <2>2. acc.count >= MinGood \/ acc.count >= acc.lag * Full
    BY <1>2, <1>13, <2>1 DEF FilledInv
  <2>3. a.count >= MinGood \/ a.count >= acc.count + Full
    BY <1>1, <2>1, Numbers DEF UpTo
  <2>4. acc.count >= MinGood => a.count >= MinGood
    BY <1>1, Numbers DEF UpTo
  <2>5. a.lag * Full = acc.lag * Full + Full /\ acc.lag * Full \in Nat
    BY <1>1, <2>1, Numbers, OneMore
  <2>6. QED
    BY <1>1, <2>2, <2>3, <2>4, <2>5, Numbers
<1>15. BadInv'
  <2> SUFFICES ASSUME OnTime', a.first, a.bad > 0
               PROVE  /\ fullRun' < Window + a.lag
                      /\ lowFor' >= Cap \/ lowFor' > (a.bad - 1) * Window + a.lag
    BY DEF BadInv
  <2>1. acc.first
    BY <1>8
  <2>2. a.lag = acc.lag + 1 /\ a.lag < Window
    BY <1>1, <1>5, <1>6, Numbers
  <2>3. /\ fullRun < Window + acc.lag
        /\ lowFor >= Cap \/ lowFor > (acc.bad - 1) * Window + acc.lag
    BY <1>2, <1>13, <2>1 DEF BadInv
  <2>4. fullRun' < Window + a.lag
    BY <1>1, <1>3, <1>4, <2>2, <2>3, Numbers
  <2>5. lowFor' = UpTo(Cap, lowFor + 1)
    BY <1>1, <1>3, <2>2, <2>4, Numbers, StreakNumbers
  <2>6. (acc.bad - 1) * Window \in Nat
    BY <1>1, Numbers, OneMore
  <2>7. QED
    BY <1>1, <1>4, <2>2, <2>3, <2>4, <2>5, <2>6, StreakNumbers DEF UpTo
<1>16. EmptyInv'
  <2> SUFFICES ASSUME OnTime', a.count = 0
               PROVE  silentFor' >= Cap \/ silentFor' >= a.empty * Window + a.lag
    BY DEF EmptyInv
  <2>1. silentFor >= Cap \/ silentFor >= acc.empty * Window + acc.lag
    BY <1>2, <1>9, <1>13 DEF EmptyInv
  <2>2. silentFor' = UpTo(Cap, silentFor + 1)
    BY <1>3, <1>9
  <2>3. acc.empty * Window \in Nat
    BY <1>1, Numbers, OneMore
  <2>4. QED
    BY <1>1, <1>4, <1>5, <2>1, <2>2, <2>3, StreakNumbers DEF UpTo
<1>17. QED
  BY <1>10, <1>11, <1>12, <1>14, <1>15, <1>16 DEF StreakInv

\* A poll that closes a window.
LEMMA StreakCloses ==
  ASSUME StreakInv, AirTypes, ~blind, NEW n \in 0 .. Full, NEW a \in AccType,
         Judged(a, FALSE, n), a.first, a.lag >= Window
  PROVE  StreakInv'
<1> SUFFICES
      ASSUME a.lag = UpTo(MaxLag, acc.lag + 1), a.count = UpTo(MinGood, acc.count + n),
             a.bad = acc.bad, a.empty = acc.empty,
             acc'.first = TRUE, acc'.lag = a.lag - Window, acc'.count = 0,
             acc'.bad = IF a.count < MinGood THEN UpTo(Sustain, a.bad + 1) ELSE 0,
             acc'.empty = IF a.count = 0 THEN UpTo(Sustain, a.empty + 1) ELSE 0,
             backlog' = IF a.count >= MinGood THEN FALSE
                        ELSE IF ~acc.first THEN a.lag > Window ELSE backlog,
             NEW fired, NEW good, Heard(n, fired, good)
      PROVE  StreakInv'
  BY DEF Judged
<1>1. /\ acc.lag \in Nat /\ acc.count \in Nat /\ acc.bad \in Nat /\ acc.empty \in Nat
      /\ a.lag \in Nat /\ a.count \in Nat /\ n \in Nat
  BY Numbers DEF AirTypes, AccType
<1>2. /\ HistoryTypes /\ Unbegun /\ OverdueIsNew
      /\ LagInv /\ FilledInv /\ BadInv /\ EmptyInv
  BY DEF StreakInv
<1>3. /\ fullRun' \in Nat /\ lowFor' \in Nat /\ silentFor' \in Nat
      /\ n # Full => fullRun' = 0
      /\ fullRun' <= fullRun + 1
      /\ fullRun' # SureRun => lowFor' = UpTo(Cap, lowFor + 1)
      /\ n = 0 => silentFor' = UpTo(Cap, silentFor + 1)
  BY <1>2, AirHeard
<1>4. fullRun \in Nat /\ lowFor \in Nat /\ silentFor \in Nat /\ backlog \in BOOLEAN
  BY <1>2 DEF HistoryTypes
<1>5. ~acc.first => acc.bad = 0 /\ acc.empty = 0 /\ acc.count = 0 /\ ~backlog
  BY <1>2 DEF Unbegun
<1>6. HistoryTypes'
  <2>1. acc'.bad <= Sustain /\ acc'.empty <= Sustain
    BY <1>1, Numbers DEF UpTo
  <2>2. backlog' \in BOOLEAN
    <3>1. (a.lag > Window) \in BOOLEAN
      OBVIOUS
    <3>2. QED
      BY <1>4, <3>1
  <2>3. QED
    BY <1>3, <2>1, <2>2 DEF HistoryTypes
<1>7. Unbegun' /\ OverdueIsNew'
  BY DEF Unbegun, OverdueIsNew
<1> SUFFICES ASSUME OnTime' PROVE StreakInv'
  BY <1>6, <1>7 DEF StreakInv, LagInv, FilledInv, BadInv, EmptyInv
<1>8. ~backlog'
  BY DEF OnTime
\* The window closes in time.
<1>9. acc.lag = Window - 1
  <2>1. CASE ~acc.first /\ a.count < MinGood
    <3>1. ~(a.count >= MinGood)
      BY <1>1, <2>1, Numbers
    <3>2. ~(a.lag > Window)
      BY <1>8, <2>1, <3>1
    <3>3. QED
      BY <1>1, <3>2, Numbers DEF UpTo
  <2>2. CASE ~acc.first /\ a.count >= MinGood
    <3>1. n < MinGood
      BY MonitorAssumption, Numbers
    <3>2. QED
      BY <1>1, <1>5, <2>2, <3>1, Numbers DEF UpTo
  <2>3. CASE acc.first /\ a.count >= MinGood
    <3>1. acc.count # 0
      <4>1. n < MinGood
        BY MonitorAssumption, Numbers
      <4>2. QED
        BY <1>1, <2>3, <4>1, Numbers DEF UpTo
    <3>2. ~(acc.lag >= Window)
      BY <1>2, <2>3, <3>1 DEF OverdueIsNew
    <3>3. QED
      BY <1>1, <3>2, Numbers DEF UpTo
  <2>4. CASE acc.first /\ a.count < MinGood
    <3>1. ~(a.count >= MinGood)
      BY <1>1, <2>4, Numbers
    <3>2. acc.lag < Window
      BY <1>2, <1>8, <2>4, <3>1 DEF LagInv, OnTime
    <3>3. QED
      BY <1>1, <3>2, Numbers DEF UpTo
  <2>5. QED
    BY <1>1, <2>1, <2>2, <2>3, <2>4, Numbers
<1>10. acc'.lag = 0
  BY <1>1, <1>9, Numbers DEF UpTo
<1>11. 0 * Full = 0 /\ 0 * Window = 0
  BY Numbers
<1>12. LagInv' /\ FilledInv'
  BY <1>10, <1>11, Numbers DEF LagInv, FilledInv
<1>13. a.count < MinGood => OnTime
  BY <1>1, <1>5, <1>8, Numbers DEF OnTime
\* A window of full polls is a good one.
<1>14. a.count < MinGood => fullRun' < Window
  <2> SUFFICES ASSUME a.count < MinGood, fullRun' >= Window PROVE FALSE
    BY <1>3, Numbers
  <2>1. n = Full /\ fullRun >= acc.lag /\ acc.lag <= Window
    BY <1>1, <1>3, <1>4, <1>9, Numbers
  <2>2. acc.count >= MinGood \/ acc.count >= acc.lag * Full
    BY <1>2, <1>13, <2>1 DEF FilledInv
  <2>3. acc.count + Full < MinGood
    BY <1>1, <2>1, Numbers DEF UpTo
  <2>4. acc.lag + 1 = Window
    BY <1>1, <1>9, Numbers
  <2>5. Window * Full = acc.lag * Full + Full /\ acc.lag * Full \in Nat
    BY <1>1, <2>4, Numbers, OneMore
  <2>6. QED
    BY <1>1, <2>2, <2>3, <2>5, Numbers, StreakNumbers
<1>15. BadInv'
  <2> SUFFICES ASSUME acc'.bad > 0
               PROVE  /\ fullRun' < Window
                      /\ lowFor' >= Cap \/ lowFor' > (acc'.bad - 1) * Window
    <3>1. (acc'.bad - 1) * Window + 0 = (acc'.bad - 1) * Window
      <4>1. acc'.bad \in Nat
        BY <1>1, Numbers DEF UpTo
      <4>2. (acc'.bad - 1) * Window \in Int
        BY <4>1, Numbers
      <4>3. QED
        BY <4>2
    <3>2. Window + 0 = Window
      BY Numbers
    <3>3. QED
      BY <1>10, <3>1, <3>2 DEF BadInv
  <2>1. a.count < MinGood /\ acc'.bad = UpTo(Sustain, acc.bad + 1)
    OBVIOUS
  <2>2. fullRun' < Window
    BY <1>14, <2>1
  <2>3. lowFor' = UpTo(Cap, lowFor + 1)
    BY <1>3, <2>2, Numbers, StreakNumbers
  <2>4. acc'.bad \in Nat /\ acc'.bad - 1 \in Nat /\ acc'.bad - 1 <= acc.bad
    BY <1>1, <2>1, Numbers DEF UpTo
  <2>5. lowFor >= Cap \/ lowFor + 1 > acc.bad * Window
    <3>1. CASE acc.bad = 0
      BY <1>4, <1>11, <3>1
    <3>2. CASE acc.bad > 0
      <4>1. acc.first
        BY <1>5, <3>2
      <4>2. lowFor >= Cap \/ lowFor > (acc.bad - 1) * Window + acc.lag
        BY <1>2, <1>13, <2>1, <3>2, <4>1 DEF BadInv
      <4>3. /\ acc.bad * Window = (acc.bad - 1) * Window + Window
            /\ (acc.bad - 1) * Window \in Nat
        <5>1. acc.bad - 1 \in Nat /\ (acc.bad - 1) + 1 = acc.bad
          BY <1>1, <3>2
        <5>2. QED
          BY <5>1, Numbers, OneMore
      <4>4. QED
        BY <1>4, <1>9, <4>2, <4>3, Numbers
    <3>3. QED
      BY <1>1, <3>1, <3>2
  <2>6. (acc'.bad - 1) * Window <= acc.bad * Window
    BY <1>1, <2>4, Numbers, Multiples
  <2>7. (acc'.bad - 1) * Window \in Nat /\ acc.bad * Window \in Nat
    BY <1>1, <2>4, Numbers, OneMore
  <2>8. QED
    BY <1>4, <2>2, <2>3, <2>5, <2>6, <2>7, StreakNumbers DEF UpTo
<1>16. EmptyInv'
  <2> SUFFICES silentFor' >= Cap \/ silentFor' >= acc'.empty * Window
    <3>1. acc'.empty \in Nat
      BY <1>1, Numbers DEF UpTo
    <3>2. acc'.empty * Window \in Nat
      BY <3>1, Numbers, OneMore
    <3>3. acc'.empty * Window + 0 = acc'.empty * Window
      BY <3>2
    <3>4. QED
      BY <1>10, <3>3 DEF EmptyInv
  <2>1. CASE a.count # 0
    BY <1>3, <1>11, <2>1
  <2>2. CASE a.count = 0
    <3>1. acc.count = 0 /\ n = 0
      BY <1>1, <2>2, Numbers DEF UpTo
    <3>2. silentFor >= Cap \/ silentFor >= acc.empty * Window + acc.lag
      BY <1>2, <1>13, <2>2, <3>1, Numbers DEF EmptyInv
    <3>3. silentFor' = UpTo(Cap, silentFor + 1)
      BY <1>3, <3>1
    <3>4. /\ (acc.empty + 1) * Window = acc.empty * Window + Window
          /\ acc.empty * Window \in Nat
      BY <1>1, Numbers, OneMore
    <3>5. acc'.empty \in Nat /\ acc'.empty <= acc.empty + 1 /\ acc.empty + 1 \in Nat
      BY <1>1, <2>2, Numbers DEF UpTo
    <3>6. acc'.empty * Window <= (acc.empty + 1) * Window /\ acc'.empty * Window \in Nat
      BY <3>5, Numbers, Multiples, OneMore
    <3>7. QED
      BY <1>1, <1>4, <1>9, <3>2, <3>3, <3>4, <3>6, Numbers, StreakNumbers DEF UpTo
  <2>3. QED
    BY <2>1, <2>2
<1>17. QED
  BY <1>6, <1>7, <1>12, <1>15, <1>16 DEF StreakInv

LEMMA PollStreak ==
  ASSUME StreakInv, AirTypes,
         NEW rotated \in BOOLEAN, NEW ev, NEW n \in 0 .. Full, NEW wrote \in BOOLEAN,
         NEW inhibited \in BOOLEAN, NEW ok \in BOOLEAN,
         Poll(rotated, ev, n, wrote, inhibited, ok)
  PROVE  StreakInv'
<1>1. CASE blind
  BY <1>1, StreakSeesAgain
<1>2. CASE ~blind
  <2>1. PICK a \in AccType : Judged(a, rotated, n)
    BY <1>2, StreakSees
  <2>2. CASE rotated
    <3>1. Judged(a, TRUE, n)
      <4>1. rotated = TRUE
        BY <2>2
      <4>2. QED
        BY <2>1, <4>1
    <3>2. QED
      BY <3>1, StreakRotated
  <2>3. CASE ~rotated
    <3>1. Judged(a, FALSE, n)
      <4>1. rotated = FALSE
        BY <2>3
      <4>2. QED
        BY <2>1, <4>1
    <3>2. QED
      BY <1>2, <3>1, StreakGoesOn, StreakCloses
  <2>4. QED
    BY <2>2, <2>3
<1>3. QED
  BY <1>1, <1>2

\* A blind poll judges nothing, and what it would count is thrown away after it.
LEMMA BlindStreak ==
  ASSUME StreakInv, AirTypes, PollBlind
  PROVE  StreakInv'
<1>1. /\ blind' = TRUE /\ backlog' = backlog
      /\ acc' = [acc EXCEPT !.lag = UpTo(MaxLag, acc.lag + 1)]
      /\ Heard(0, FALSE, FALSE)
  BY DEF PollBlind, AccAtPoll
<1>2. /\ acc'.bad = acc.bad /\ acc'.empty = acc.empty /\ acc'.count = acc.count
      /\ acc'.first = acc.first
  BY <1>1 DEF AirTypes, AccType
<1>3. fullRun' \in Nat /\ lowFor' \in Nat /\ silentFor' \in Nat
  <2>1. 0 \in 0 .. Full
    BY Numbers
  <2>2. QED
    BY <1>1, <2>1, AirHeard DEF StreakInv
<1>4. HistoryTypes'
  BY <1>1, <1>2, <1>3 DEF StreakInv, HistoryTypes
<1>5. Unbegun'
  BY <1>1, <1>2 DEF StreakInv, Unbegun
<1>6. OverdueIsNew' /\ LagInv' /\ FilledInv' /\ BadInv' /\ EmptyInv'
  BY <1>1 DEF OverdueIsNew, LagInv, FilledInv, BadInv, EmptyInv, OnTime
<1>7. QED
  BY <1>4, <1>5, <1>6 DEF StreakInv

LEMMA DiesStreak ==
  ASSUME Dies
  PROVE  StreakInv'
<1>1. /\ acc' = Fresh /\ blind' = FALSE /\ backlog' = FALSE
      /\ fullRun' = 0 /\ lowFor' = 0 /\ silentFor' = 0
  BY DEF Dies
<1>2. /\ acc'.lag = 0 /\ acc'.count = 0 /\ acc'.bad = 0 /\ acc'.empty = 0
      /\ acc'.first = FALSE
  BY <1>1 DEF Fresh
<1>3. HistoryTypes'
  <2>1. 0 <= Sustain
    BY Numbers
  <2>2. backlog' \in BOOLEAN
    BY <1>1
  <2>3. QED
    BY <1>1, <1>2, <2>1, <2>2 DEF HistoryTypes
<1>4. Unbegun' /\ OverdueIsNew'
  BY <1>1, <1>2 DEF Unbegun, OverdueIsNew
<1>5. LagInv' /\ BadInv'
  BY <1>2 DEF LagInv, BadInv
<1>6. 0 * Window = 0 /\ 0 * Full = 0
  BY Numbers
<1>7. FilledInv' /\ EmptyInv'
  BY <1>1, <1>2, <1>6 DEF FilledInv, EmptyInv
<1>8. QED
  BY <1>3, <1>4, <1>5, <1>7 DEF StreakInv

LEMMA StreakKept ==
  ASSUME StreakInv, UNCHANGED <<acc, blind, histories>>
  PROVE  StreakInv'
BY DEF StreakInv, HistoryTypes, Unbegun, OverdueIsNew, OnTime, LagInv, FilledInv, BadInv,
       EmptyInv, histories

LEMMA StreakStep == AirInv /\ StreakInv /\ [Next]_vars => StreakInv'
<1> SUFFICES ASSUME AirInv, StreakInv, [Next]_vars PROVE StreakInv'
  OBVIOUS
<1>1. AirTypes
  BY DEF AirInv
<1>2. CASE Next
  <2>1. CASE Crash \/ CrashInClose
    BY <2>1, DiesStreak DEF Crash, CrashInClose
  <2>2. CASE Start
    BY <2>2, StreakKept DEF Start
  <2>3. QED
    BY <1>1, <1>2, <2>1, <2>2, NextCases, PollStreak, BlindStreak
<1>3. CASE UNCHANGED vars
  BY <1>3, StreakKept DEF vars, judging
<1>4. QED
  BY <1>2, <1>3

LEMMA StreakInit == Init => StreakInv
<1> SUFFICES ASSUME Init PROVE StreakInv
  OBVIOUS
<1>1. /\ acc = Fresh /\ blind = FALSE /\ backlog = FALSE
      /\ fullRun = 0 /\ lowFor = 0 /\ silentFor = 0
  BY DEF Init
<1>2. /\ acc.lag = 0 /\ acc.count = 0 /\ acc.bad = 0 /\ acc.empty = 0
      /\ acc.first = FALSE
  BY <1>1 DEF Fresh
<1>3. HistoryTypes
  <2>1. 0 <= Sustain
    BY Numbers
  <2>2. backlog \in BOOLEAN
    BY <1>1
  <2>3. QED
    BY <1>1, <1>2, <2>1, <2>2 DEF HistoryTypes
<1>4. Unbegun /\ OverdueIsNew
  BY <1>1, <1>2 DEF Unbegun, OverdueIsNew
<1>5. LagInv /\ BadInv
  BY <1>2 DEF LagInv, BadInv
<1>6. 0 * Window = 0 /\ 0 * Full = 0
  BY Numbers
<1>7. FilledInv /\ EmptyInv
  BY <1>1, <1>2, <1>6 DEF FilledInv, EmptyInv
<1>8. QED
  BY <1>3, <1>4, <1>5, <1>7 DEF StreakInv

LEMMA StreakInvariant == Spec => []StreakInv
BY AirInvariant, StreakInit, StreakStep, PTL DEF Spec

\* A remedy's verdict takes back the escalation only in a good window.
LEMMA EscalationStays ==
  ASSUME NEW a \in AccType, NEW w \in WdType, w.escalated, After(a).bad # 0
  PROVE  WdAfter(a, w).escalated
<1> DEFINE bad == After(a).bad
           p == WatchdogPoll(w, bad)
<1>1. p.escalated /\ (p = w \/ p = [Void(w) EXCEPT !.tries = @ + 1])
  <2>1. Void(w) \in WdType /\ Void(w).escalated = w.escalated
    <3>1. \A b \in BOOLEAN : /\ [w EXCEPT !.pending = b] \in WdType
                             /\ [w EXCEPT !.pending = b].escalated = w.escalated
      BY DEF WdType
    <3>2. QED
      BY <3>1 DEF Void
  <2>2. p = w \/ p = [Void(w) EXCEPT !.tries = @ + 1]
    BY DEF WatchdogPoll
  <2>3. [Void(w) EXCEPT !.tries = @ + 1].escalated = Void(w).escalated
    BY <2>1 DEF WdType
  <2>4. QED
    BY <2>1, <2>2, <2>3
<1> HIDE DEF p, bad
<1>2. WdAfter(a, w) = p \/ WdAfter(a, w) = w
  BY DEF WdAfter, WatchdogRecovered, p, bad
<1>3. QED
  BY <1>1, <1>2

\* What an alert rests on, at the poll that raises it.
LEMMA AlertPoll ==
  ASSUME AirTypes, StreakInv',
         NEW rotated \in BOOLEAN, NEW ev, NEW n \in 0 .. Full, NEW wrote \in BOOLEAN,
         NEW inhibited \in BOOLEAN, NEW ok \in BOOLEAN,
         Poll(rotated, ev, n, wrote, inhibited, ok), mail' # "none", ~backlog'
  PROVE  /\ lowFor' >= Cap
         /\ mail' = "DOWN" => silentFor' >= Cap \/ wd'.escalated
<1> DEFINE a == AccJudged(rotated, n)
           v == WdRead(rotated, ev, inhibited)
           w == IF blind THEN Void(v) ELSE v
           fired == v.sinceReset = 0
<1>1. n \in Nat
  BY Numbers
<1>2. a \in AccType
  BY <1>1, WindowRead
<1>3. w \in WdType
  BY WatchdogRead, Voided
<1>4. blind' = FALSE /\ Judge(rotated, ev, n, fired, a, w, ok)
  BY DEF Poll
<1> HIDE DEF a, w, fired
<1>5. /\ acc' = After(a) /\ wd' = WdAfter(a, w)
      /\ mail' = IF ~Alerts(a) THEN "none"
                 ELSE IF FullOutage(Closed(a), w) THEN "DOWN" ELSE "LOW"
  BY <1>4 DEF Judge
<1>6. Alerts(a)
  BY <1>5
<1>7. Closes(a) /\ acc' = Closed(a) /\ acc'.bad >= Sustain
  BY <1>5, <1>6 DEF Alerts, After
<1>8. /\ acc' \in AccType /\ acc'.first = TRUE /\ acc'.count = 0
  BY <1>2, <1>5, <1>7, WindowAfter
<1>9. /\ acc'.bad = Sustain /\ acc'.bad > 0 /\ acc'.lag \in Nat /\ acc'.empty \in Nat
      /\ acc'.bad # 0
  <2>1. acc'.bad <= Sustain
    BY DEF StreakInv, HistoryTypes
  <2>2. acc'.bad \in Nat /\ acc'.lag \in Nat /\ acc'.empty \in Nat
    BY <1>8 DEF AccType
  <2>3. QED
    BY <1>7, <2>1, <2>2, Numbers
<1>10. lowFor' \in Nat /\ silentFor' \in Nat /\ OnTime'
  BY <1>4 DEF StreakInv, HistoryTypes, OnTime
<1>11. lowFor' >= Cap
  <2>1. lowFor' >= Cap \/ lowFor' > (acc'.bad - 1) * Window + acc'.lag
    BY <1>8, <1>9, <1>10 DEF StreakInv, BadInv
  <2>2. (acc'.bad - 1) * Window = Cap
    BY <1>9 DEF Cap
  <2>3. QED
    BY <1>9, <1>10, <2>1, <2>2, StreakNumbers
<1>12. ASSUME mail' = "DOWN"
       PROVE  silentFor' >= Cap \/ wd'.escalated
  <2>1. FullOutage(Closed(a), w)
    BY <1>5, <1>6, <1>12
  <2>2. acc'.empty >= Sustain \/ w.escalated
    BY <1>7, <2>1 DEF FullOutage
  <2>3. CASE w.escalated
    BY <1>2, <1>3, <1>5, <1>9, <2>3, EscalationStays
  <2>4. CASE acc'.empty >= Sustain
    <3>1. silentFor' >= Cap \/ silentFor' >= acc'.empty * Window + acc'.lag
      BY <1>8, <1>10 DEF StreakInv, EmptyInv
    <3>2. /\ Sustain * Window = (Sustain - 1) * Window + Window
          /\ (Sustain - 1) * Window \in Nat
      <4>1. Sustain - 1 \in Nat /\ (Sustain - 1) + 1 = Sustain
        BY Numbers
      <4>2. QED
        BY <4>1, Numbers, OneMore
    <3>3. Sustain * Window <= acc'.empty * Window /\ acc'.empty * Window \in Nat
      BY <1>9, <2>4, Numbers, Multiples, OneMore
    <3>4. Sustain * Window >= Cap /\ Sustain * Window \in Nat
      BY <3>2, Numbers DEF Cap
    <3>5. QED
      BY <1>9, <1>10, <3>1, <3>3, <3>4, StreakNumbers
  <2>5. QED
    BY <2>2, <2>3, <2>4
<1>13. QED
  BY <1>11, <1>12

\* An alert of a monitor whose clock was on time rests on reception that was bad for
\* all of its windows, and one that says DOWN on a silence as long, or on a watchdog
\* that gave up: never on a gap in what the monitor saw, nor on a restart.
THEOREM AlertsRestOnLoss == Spec => AlertMeansLoss
<1>1. AirInv /\ StreakInv' /\ [Next]_vars =>
        [(mail' # mail /\ mail' # "none" /\ ~backlog') =>
           /\ lowFor' >= (Sustain - 1) * Window
           /\ mail' = "DOWN" => silentFor' >= (Sustain - 1) * Window \/ wd'.escalated]_vars
  <2> SUFFICES ASSUME AirInv, StreakInv', Next, mail' # mail, mail' # "none", ~backlog'
               PROVE  /\ lowFor' >= Cap
                      /\ mail' = "DOWN" => silentFor' >= Cap \/ wd'.escalated
    BY DEF Cap
  <2>1. AirTypes
    BY DEF AirInv
  <2>2. ~PollBlind
    BY DEF PollBlind
  <2>3. ~(Crash \/ CrashInClose)
    BY DEF Crash, CrashInClose, Dies
  <2>4. ~Start
    BY DEF Start, histories
  <2>5. QED
    BY <2>1, <2>2, <2>3, <2>4, NextCases, AlertPoll
<1>2. QED
  BY <1>1, AirInvariant, StreakInvariant, PTL DEF Spec, AlertMeansLoss

------------------------------------------------------------------------------
(* The reports. *)

reportingVars == <<vars, watched, reportVars>>

\* The report under way began with a block, of a day that is not over.
BlockInv ==
  /\ clock \in Nat /\ wu_report_start \in Nat
  /\ wu_report_start <= PeriodFloor(clock)

\* The rows that are yet to come belong to the report under way.
RowsInv ==
  /\ DOMAIN archive \subseteq Nat /\ DOMAIN reported = DOMAIN archive
  /\ RowsReportedOnce

\* The monitor remembers the mail it sent, as long as it runs.
BatteryInv ==
  /\ battery \in [low : BOOLEAN, mails : Nat] /\ battery_alerted \in BOOLEAN
  /\ LowToldOnce
  /\ up => (battery.low <=> battery_alerted)
  /\ ~up => ~battery.low

\* Reception that was seen is in the window under way, but for its first poll, of which
\* a blind monitor throws the records away; or it has closed a window of this report.
SightInv ==
  /\ sight \in Nat /\ wu_hourly_buckets \in BOOLEAN /\ ~unsent
  /\ ~up => sight = 0
  /\ blind => sight = 0 \/ sight > Window
  /\ sight > 0 /\ ~wu_hourly_buckets =>
       sight <= acc.lag + 1 /\ acc.lag < Window

\* A behaviour that follows the alerts leaves the reports alone.
AlertsOnly == watched = "alerts" => sight = 0 /\ ~battery_alerted /\ ~battery.low

ReportsInv == BlockInv /\ RowsInv /\ BatteryInv /\ SightInv /\ AlertsOnly

LEMMA ReportNumbers ==
  /\ Day \in Nat /\ Day > 0
  /\ RF_REPORT_INTERVAL_HOURS \in Nat /\ RF_REPORT_INTERVAL_HOURS > 0
  /\ BATTERY_LOW_MIN_MINUTES \in Nat /\ BATTERY_LOW_MIN_MINUTES > 0
<1>1. {Day, RF_REPORT_INTERVAL_HOURS, BATTERY_LOW_MIN_MINUTES} \subseteq Nat \ {0}
  BY ReportsAssumption
<1>2. QED
  BY <1>1

\* Whole blocks of length d in x, and what is left of x after them.
Whole(x, d) == x \div d
Left(x, d) == x % d

LEMMA WholeAndLeft ==
  ASSUME NEW x \in Nat, NEW d \in Nat, d > 0
  PROVE  /\ Whole(x, d) \in Nat /\ Left(x, d) \in Nat /\ Left(x, d) < d
         /\ Whole(x, d) * d \in Nat /\ x = Whole(x, d) * d + Left(x, d)
<1>1. Whole(x, d) \in Nat
  BY DEF Whole
<1>2. Left(x, d) \in Nat /\ Left(x, d) < d
  BY DEF Left
<1>3. Left(x, d) = x - d * Whole(x, d)
  BY DEF Whole, Left
<1>4. d * Whole(x, d) = Whole(x, d) * d /\ Whole(x, d) * d \in Nat
  BY <1>1
<1>5. QED
  BY <1>1, <1>2, <1>3, <1>4

LEMMA WholeGrows ==
  ASSUME NEW x \in Nat, NEW y \in Nat, x <= y, NEW d \in Nat, d > 0
  PROVE  Whole(x, d) <= Whole(y, d)
<1>1. /\ Whole(x, d) \in Nat /\ Left(x, d) \in Nat
      /\ Whole(x, d) * d \in Nat /\ x = Whole(x, d) * d + Left(x, d)
  BY WholeAndLeft
<1>2. /\ Whole(y, d) \in Nat /\ Left(y, d) \in Nat /\ Left(y, d) < d
      /\ Whole(y, d) * d \in Nat /\ y = Whole(y, d) * d + Left(y, d)
  BY WholeAndLeft
<1>3. ASSUME Whole(y, d) + 1 <= Whole(x, d)
      PROVE  FALSE
  <2>1. (Whole(y, d) + 1) * d <= Whole(x, d) * d
    BY <1>1, <1>2, <1>3, Multiples
  <2>2. (Whole(y, d) + 1) * d = Whole(y, d) * d + d
    BY <1>2, OneMore
  <2>3. QED
    BY <1>1, <1>2, <2>1, <2>2
<1>4. QED
  BY <1>1, <1>2, <1>3

LEMMA FloorIs ==
  ASSUME NEW t \in Nat
  PROVE  PeriodFloor(t) = Whole(t, Day) * Day
           + Whole(Left(t, Day), RF_REPORT_INTERVAL_HOURS) * RF_REPORT_INTERVAL_HOURS
BY DEF PeriodFloor, Whole, Left

\* A block begins no later than what is in it, and not before its day.
LEMMA FloorBelow ==
  ASSUME NEW t \in Nat
  PROVE  /\ PeriodFloor(t) \in Nat /\ PeriodFloor(t) <= t
         /\ Whole(t, Day) * Day <= PeriodFloor(t)
<1> DEFINE r == Left(t, Day)
           I == RF_REPORT_INTERVAL_HOURS
<1>1. /\ r \in Nat /\ Whole(t, Day) * Day \in Nat /\ t = Whole(t, Day) * Day + r
  BY ReportNumbers, WholeAndLeft
<1> HIDE DEF r
<1>2. Left(r, I) \in Nat /\ Whole(r, I) * I \in Nat /\ r = Whole(r, I) * I + Left(r, I)
  BY <1>1, ReportNumbers, WholeAndLeft
<1>3. PeriodFloor(t) = Whole(t, Day) * Day + Whole(r, I) * I
  BY FloorIs DEF r
<1> HIDE DEF I
<1>4. QED
  BY <1>1, <1>2, <1>3

\* Blocks follow each other as time does.
LEMMA FloorGrows ==
  ASSUME NEW t \in Nat, NEW u \in Nat, t <= u
  PROVE  PeriodFloor(t) <= PeriodFloor(u)
<1> DEFINE p == Whole(t, Day)
           q == Whole(u, Day)
           r == Left(t, Day)
           s == Left(u, Day)
           I == RF_REPORT_INTERVAL_HOURS
<1>1. p \in Nat /\ r \in Nat /\ r < Day /\ p * Day \in Nat /\ t = p * Day + r
  BY ReportNumbers, WholeAndLeft
<1>2. q \in Nat /\ s \in Nat /\ s < Day /\ q * Day \in Nat /\ u = q * Day + s
  BY ReportNumbers, WholeAndLeft
<1>3. p <= q
  BY ReportNumbers, WholeGrows
<1>4. /\ PeriodFloor(t) \in Nat /\ PeriodFloor(t) <= t
      /\ PeriodFloor(u) \in Nat /\ q * Day <= PeriodFloor(u)
  BY FloorBelow
<1>5. /\ PeriodFloor(t) = p * Day + Whole(r, I) * I
      /\ PeriodFloor(u) = q * Day + Whole(s, I) * I
  BY FloorIs
<1> HIDE DEF p, q, r, s
<1>6. CASE p = q
  <2>1. r <= s
    BY <1>1, <1>2, <1>6
  <2>2. Whole(r, I) <= Whole(s, I) /\ Whole(r, I) \in Nat /\ Whole(s, I) \in Nat
    BY <1>1, <1>2, <2>1, ReportNumbers, WholeGrows, WholeAndLeft
  <2>3. Whole(r, I) * I <= Whole(s, I) * I
    BY <2>2, ReportNumbers, Multiples
  <2>4. Whole(r, I) * I \in Nat /\ Whole(s, I) * I \in Nat
    BY <1>1, <1>2, ReportNumbers, WholeAndLeft
  <2> HIDE DEF I
  <2>5. QED
    BY <1>1, <1>2, <1>5, <1>6, <2>3, <2>4
<1>7. CASE p + 1 <= q
  <2>1. (p + 1) * Day <= q * Day
    BY <1>1, <1>2, <1>7, ReportNumbers, Multiples
  <2>2. (p + 1) * Day = p * Day + Day
    BY <1>1, ReportNumbers, OneMore
  <2>3. QED
    BY <1>1, <1>2, <1>4, <2>1, <2>2, ReportNumbers
<1>8. QED
  BY <1>1, <1>2, <1>3, <1>6, <1>7

------------------------------------------------------------------------------
(* Reporting is watching. *)

LEMMA WatchStep == [WatchNext]_reportingVars => [Next]_vars
<1> SUFFICES ASSUME [WatchNext]_reportingVars PROVE [Next]_vars
  OBVIOUS
<1>1. CASE UNCHANGED reportingVars
  BY <1>1 DEF reportingVars
<1>2. CASE Next
  BY <1>2
<1>3. CASE ReportsPoll
  <2>1. PICK n \in {0, Full} : Poll(FALSE, "none", n, n = Full, FALSE, TRUE)
    BY <1>3 DEF ReportsPoll
  <2>2. CASE n = 0
    <3>1. (n = Full) = FALSE
      BY <2>2, StreakNumbers
    <3>2. Poll(FALSE, "none", 0, FALSE, FALSE, TRUE)
      BY <2>1, <2>2, <3>1
    <3>3. QED
      BY <3>2 DEF Next
  <2>3. CASE n = Full
    <3>1. Poll(FALSE, "none", Full, TRUE, FALSE, TRUE)
      <4>1. (n = Full) = TRUE
        BY <2>3
      <4>2. QED
        BY <2>1, <2>3, <4>1
    <3>2. /\ FALSE \in BOOLEAN /\ "none" \in Events /\ Full \in 0 .. Full
          /\ TRUE \in {TRUE} \cup {failures = MaxFailures}
      BY Numbers DEF Events
    <3>3. QED
      BY <3>1, <3>2 DEF Next
  <2>4. QED
    BY <2>1, <2>2, <2>3
<1>4. CASE ReportsPollBlind \/ ReportsCrash \/ ReportsStart
  BY <1>4 DEF ReportsPollBlind, ReportsCrash, ReportsStart, Next
<1>5. CASE Archive \/ Elapse \/ UNCHANGED vars
  BY <1>5 DEF Archive, Elapse
<1>6. QED
  BY <1>1, <1>2, <1>3, <1>4, <1>5 DEF WatchNext, ReportsNext

\* Whatever is reported, the monitor is the monitor: all that is proved of it holds of
\* the behaviours that the reports are part of.
THEOREM ReportingIsWatching == WatchSpec => Spec
<1>1. WatchInit => Init
  BY DEF WatchInit
<1>2. QED
  BY <1>1, WatchStep, PTL DEF WatchSpec, Spec, reportingVars

\* A block that is clear is not low.
LEMMA BatteryKnown ==
  ASSUME NEW times
  PROVE  LET b == BatterySummary(times)
         IN  /\ b.seen \in BOOLEAN /\ b.low \in BOOLEAN /\ b.clear \in BOOLEAN
             /\ b.clear => ~b.low
<1> DEFINE known == {t \in times : archive[t].flag # "null"}
           flagged == {t \in known : archive[t].flag = "set" /\ archive[t].rx = "good"}
           b == BatterySummary(times)
<1>1. /\ b.seen = (known # {})
      /\ b.low = (Cardinality(flagged) >= BATTERY_LOW_MIN_MINUTES)
      /\ b.clear = (flagged = {})
  BY DEF BatterySummary
<1> HIDE DEF known, flagged, b
<1>2. Cardinality({}) = 0 /\ ~(0 >= BATTERY_LOW_MIN_MINUTES)
  BY ReportNumbers, FS_EmptySet
<1>3. flagged = {} => (Cardinality(flagged) >= BATTERY_LOW_MIN_MINUTES) = FALSE
  BY <1>2
<1>4. b.seen \in BOOLEAN /\ b.low \in BOOLEAN /\ b.clear \in BOOLEAN
  <2>1. /\ (known # {}) \in BOOLEAN /\ (flagged = {}) \in BOOLEAN
        /\ (Cardinality(flagged) >= BATTERY_LOW_MIN_MINUTES) \in BOOLEAN
    OBVIOUS
  <2>2. QED
    BY <1>1, <2>1
<1>5. b.clear => ~b.low
  BY <1>1, <1>3
<1>6. QED
  BY <1>4, <1>5 DEF b

\* A report tells of the battery what the block says, and remembers what it told.
LEMMA BatteryReported ==
  ASSUME BatteryInv, up, up' = up,
         NEW times,
         battery_alerted' = AlertedAfter(BatterySummary(times)),
         battery' =
           [low |-> ~(BatterySummary(times).seen /\ BatterySummary(times).clear) /\
                      (battery.low \/ (BatterySummary(times).seen /\ BatterySummary(times).low)),
            mails |-> IF BatterySummary(times).seen /\ BatterySummary(times).clear THEN 0
                      ELSE UpTo(2, battery.mails +
                                     (IF SendsBattery(BatterySummary(times)) THEN 1 ELSE 0))]
  PROVE  BatteryInv'
<1> DEFINE b == BatterySummary(times)
           starts == b.seen /\ b.clear
           sends == b.seen /\ b.low /\ ~battery_alerted
           low == ~starts /\ (battery.low \/ (b.seen /\ b.low))
           mails == IF starts THEN 0 ELSE UpTo(2, battery.mails + (IF sends THEN 1 ELSE 0))
<1>1. b.seen \in BOOLEAN /\ b.low \in BOOLEAN /\ b.clear \in BOOLEAN /\ (b.clear => ~b.low)
  BY BatteryKnown
<1>2. battery' = [low |-> low, mails |-> mails]
  BY DEF SendsBattery
<1>3. battery_alerted' = IF ~b.seen THEN battery_alerted
                         ELSE b.low \/ (battery_alerted /\ ~b.clear)
  BY DEF AlertedAfter
<1> HIDE DEF b
<1>4. /\ battery.low \in BOOLEAN /\ battery.mails \in Nat /\ battery_alerted \in BOOLEAN
      /\ battery.low <=> battery_alerted
      /\ battery.mails = IF battery.low THEN 1 ELSE 0
  BY DEF BatteryInv, LowToldOnce
<1>5. low \in BOOLEAN /\ battery_alerted' \in BOOLEAN
  BY <1>1, <1>3, <1>4
<1>6. low <=> battery_alerted'
  BY <1>1, <1>3, <1>4
<1>7. mails = IF low THEN 1 ELSE 0
  <2>1. CASE starts
    BY <2>1
  <2>2. CASE ~starts /\ sends
    <3>1. ~battery.low /\ low
      BY <1>4, <2>2
    <3>2. mails = UpTo(2, 0 + 1)
      BY <1>4, <2>2, <3>1
    <3>3. UpTo(2, 0 + 1) = 1
      BY DEF UpTo
    <3>4. QED
      BY <3>1, <3>2, <3>3
  <2>3. CASE ~starts /\ ~sends
    <3>1. low <=> battery.low
      BY <1>1, <1>4, <2>3
    <3>2. mails = UpTo(2, battery.mails + 0)
      BY <2>3
    <3>3. UpTo(2, battery.mails + 0) = battery.mails
      BY <1>4 DEF UpTo
    <3>4. QED
      BY <1>4, <3>1, <3>2, <3>3
  <2>4. QED
    BY <2>1, <2>2, <2>3
<1> HIDE DEF low, mails
<1>8. battery'.low = low /\ battery'.mails = mails
  BY <1>2
<1>9. battery' \in [low : BOOLEAN, mails : Nat]
  <2>1. mails \in Nat
    BY <1>7
  <2>2. QED
    BY <1>2, <1>5, <2>1
<1>10. LowToldOnce'
  BY <1>7, <1>8 DEF LowToldOnce
<1>11. QED
  BY <1>5, <1>6, <1>8, <1>9, <1>10 DEF BatteryInv

\* A report counts the rows of its blocks, and passes none over that it could read.
LEMMA RowsReported ==
  ASSUME RowsInv, BlockInv, NEW block \in Nat, block > wu_report_start,
         NEW canRead \in BOOLEAN, archive' = archive, wu_report_start' = block,
         reported' = [t \in DOMAIN archive |->
                        IF t \in WindowRows(wu_report_start, block, canRead)
                        THEN UpTo(2, reported[t] + 1) ELSE reported[t]],
         passedOver' = IF canRead THEN passedOver
                       ELSE passedOver \cup WindowRows(wu_report_start, block, TRUE)
  PROVE  RowsInv'
<1>1. DOMAIN archive' \subseteq Nat /\ DOMAIN reported' = DOMAIN archive'
  BY DEF RowsInv
<1>2. ASSUME NEW t \in DOMAIN archive, t \notin passedOver'
      PROVE  reported'[t] = IF t < block THEN 1 ELSE 0
  <2>1. t \in Nat /\ wu_report_start \in Nat
    BY DEF RowsInv, BlockInv
  <2>2. t \notin passedOver
    BY <1>2
  <2>3. reported[t] = IF t < wu_report_start THEN 1 ELSE 0
    BY <2>2 DEF RowsInv, RowsReportedOnce
  <2>4. reported'[t] = IF t \in WindowRows(wu_report_start, block, canRead)
                       THEN UpTo(2, reported[t] + 1) ELSE reported[t]
    OBVIOUS
  <2>5. CASE wu_report_start <= t /\ t < block
    <3>1. t \in WindowRows(wu_report_start, block, TRUE)
      BY <2>5 DEF WindowRows
    <3>2. canRead = TRUE
      BY <1>2, <3>1
    <3>3. reported'[t] = UpTo(2, 0 + 1)
      BY <2>1, <2>3, <2>4, <2>5, <3>1, <3>2
    <3>4. UpTo(2, 0 + 1) = 1
      BY DEF UpTo
    <3>5. QED
      BY <2>5, <3>3, <3>4
  <2>6. CASE ~(wu_report_start <= t /\ t < block)
    <3>1. t \notin WindowRows(wu_report_start, block, canRead)
      BY <2>6 DEF WindowRows
    <3>2. reported'[t] = reported[t]
      BY <2>4, <3>1
    <3>3. t < wu_report_start <=> t < block
      BY <2>1, <2>6
    <3>4. QED
      BY <2>3, <3>2, <3>3
  <2>7. QED
    BY <2>5, <2>6
<1>3. QED
  BY <1>1, <1>2 DEF RowsInv, RowsReportedOnce

\* Reception seen for a window closes one.
LEMMA SightClosesAWindow ==
  ASSUME SightInv, AirTypes, sight > Window
  PROVE  wu_hourly_buckets
<1>1. /\ sight \in Nat /\ wu_hourly_buckets \in BOOLEAN
      /\ sight > 0 /\ ~wu_hourly_buckets => sight <= acc.lag + 1 /\ acc.lag < Window
  BY DEF SightInv
<1>2. acc.lag \in Nat /\ sight > 0
  BY <1>1, Numbers DEF AirTypes, AccType
<1>3. ~(sight <= acc.lag + 1 /\ acc.lag < Window)
  BY <1>1, <1>2, Numbers
<1>4. QED
  BY <1>1, <1>2, <1>3

LEMMA PollReports ==
  ASSUME ReportsInv, AirTypes, watched' = watched, watched # "alerts", ReportsPoll
  PROVE  ReportsInv'
<1>1. PICK n \in {0, Full} : /\ ReportStep(n)
                             /\ Poll(FALSE, "none", n, n = Full, FALSE, TRUE)
  BY DEF ReportsPoll
<1>2. clock' = clock + 1 /\ archive' = archive
  BY DEF ReportsPoll
<1>3. BlockInv /\ RowsInv /\ BatteryInv /\ SightInv
  BY DEF ReportsInv
<1>4. AlertsOnly'
  BY DEF AlertsOnly
<1>5. /\ clock \in Nat /\ clock' \in Nat /\ clock <= clock'
      /\ PeriodFloor(clock') \in Nat /\ PeriodFloor(clock) \in Nat
      /\ PeriodFloor(clock) <= PeriodFloor(clock')
  <2>1. clock \in Nat /\ clock' \in Nat /\ clock <= clock'
    BY <1>2, <1>3 DEF BlockInv
  <2>2. QED
    BY <2>1, FloorBelow, FloorGrows
<1> DEFINE a == AccJudged(FALSE, n)
           windowClosed == wu_hourly_buckets \/ Closes(a)
           block == PeriodFloor(clock')
<1>6. up = TRUE /\ up' = up /\ blind' = FALSE /\ acc' = After(a)
  <2>1. up /\ up' = up /\ blind' = FALSE /\ acc' = After(a)
    BY <1>1 DEF Poll, Judge
  <2>2. QED
    BY <2>1
<1>7. CASE block > wu_report_start
  <2>1. PICK canRead \in BOOLEAN, canReadFlags \in BOOLEAN :
          Report(block, windowClosed, canRead, canReadFlags)
    BY <1>1, <1>7 DEF ReportStep
  <2> HIDE DEF a
  <2>2. BlockInv'
    <3>1. wu_report_start' = block
      BY <2>1 DEF Report
    <3>2. QED
      BY <1>5, <3>1 DEF BlockInv
  <2>3. RowsInv'
    <3>1. /\ wu_report_start' = block
          /\ reported' = [t \in DOMAIN archive |->
                            IF t \in WindowRows(wu_report_start, block, canRead)
                            THEN UpTo(2, reported[t] + 1) ELSE reported[t]]
          /\ passedOver' = IF canRead THEN passedOver
                           ELSE passedOver \cup WindowRows(wu_report_start, block, TRUE)
      BY <2>1 DEF Report
    <3> HIDE DEF block
    <3>2. QED
      BY <1>2, <1>3, <1>5, <1>7, <3>1, RowsReported DEF block
  <2>4. BatteryInv'
    <3> DEFINE times == WindowRows(wu_report_start, block, canReadFlags)
    <3>1. /\ battery_alerted' = AlertedAfter(BatterySummary(times))
          /\ battery' =
               [low |-> ~(BatterySummary(times).seen /\ BatterySummary(times).clear) /\
                          (battery.low \/ (BatterySummary(times).seen /\ BatterySummary(times).low)),
                mails |-> IF BatterySummary(times).seen /\ BatterySummary(times).clear THEN 0
                          ELSE UpTo(2, battery.mails +
                                         (IF SendsBattery(BatterySummary(times)) THEN 1 ELSE 0))]
      BY <2>1 DEF Report
    <3> HIDE DEF times
    <3>2. QED
      BY <1>3, <1>6, <3>1, BatteryReported
  <2>5. SightInv'
    <3>1. /\ sight' = 0 /\ wu_hourly_buckets' = FALSE
          /\ unsent' = (unsent \/ (~(Tells(ReceptionSummary(WindowRows(wu_report_start, block, canRead)))
                                       \/ windowClosed) /\ sight > Window))
      BY <2>1 DEF Report
    <3>2. sight > Window => windowClosed
      BY <1>3, SightClosesAWindow
    <3>3. ~unsent
      BY <1>3 DEF SightInv
    <3>4. ~unsent'
      BY <3>1, <3>2, <3>3
    <3>5. sight' \in Nat /\ ~(sight' > 0)
      BY <3>1
    <3>6. wu_hourly_buckets' \in BOOLEAN
      BY <3>1
    <3>7. QED
      BY <3>1, <3>4, <3>5, <3>6 DEF SightInv
  <2>6. QED
    BY <1>4, <2>2, <2>3, <2>4, <2>5 DEF ReportsInv
<1>8. CASE ~(block > wu_report_start)
  <2>1. /\ wu_hourly_buckets' = windowClosed
        /\ sight' = IF sight > Window THEN sight ELSE IF n = 0 THEN 0 ELSE sight + 1
        /\ UNCHANGED <<wu_report_start, battery_alerted, reported, passedOver, battery,
                       unsent>>
    BY <1>1, <1>8 DEF ReportStep
  <2>2. BlockInv'
    BY <1>3, <1>5, <2>1 DEF BlockInv
  <2>3. RowsInv'
    BY <1>2, <1>3, <2>1 DEF RowsInv, RowsReportedOnce
  <2>4. BatteryInv'
    BY <1>3, <1>6, <2>1 DEF BatteryInv, LowToldOnce
  <2>5. SightInv'
    <3>1. n \in Nat /\ n \in 0 .. Full /\ (n # 0 => n > 0)
      BY Numbers
    <3>2. /\ a \in AccType
          /\ blind => a = Fresh
          /\ ~blind => /\ a.first = ((~FALSE /\ acc.first) \/ n > 0)
                       /\ a.lag = UpTo(MaxLag, acc.lag + 1)
      BY <3>1, WindowRead
    <3>3. ~Closes(a) => acc' = a
      BY <1>6, <3>2, WindowAfter
    <3> HIDE DEF a
    <3>4. /\ sight \in Nat /\ wu_hourly_buckets \in BOOLEAN /\ ~unsent
          /\ blind => sight = 0 \/ sight > Window
          /\ sight > 0 /\ ~wu_hourly_buckets => sight <= acc.lag + 1 /\ acc.lag < Window
      BY <1>3 DEF SightInv
    <3>5. sight' \in Nat
      BY <2>1, <3>4
    <3>6. wu_hourly_buckets' \in BOOLEAN
      <4>1. (wu_hourly_buckets \/ Closes(a)) \in BOOLEAN
        BY DEF Closes
      <4>2. QED
        BY <2>1, <4>1
    <3>7. ASSUME sight' > 0, ~wu_hourly_buckets'
          PROVE  sight' <= acc'.lag + 1 /\ acc'.lag < Window
      <4>1. ~wu_hourly_buckets /\ ~Closes(a)
        BY <2>1, <3>7
      <4>2. ~(sight > Window)
        BY <1>3, <4>1, SightClosesAWindow
      <4>3. n # 0 /\ sight' = sight + 1
        BY <2>1, <3>7, <4>2
      <4>4. acc' = a /\ acc.lag \in Nat /\ a.lag \in Nat
        BY <3>2, <3>3, <4>1 DEF AirTypes, AccType
      <4>5. CASE blind
        <5>1. sight = 0 /\ a.lag = 0
          BY <3>2, <3>4, <4>2, <4>5 DEF Fresh
        <5>2. QED
          BY <4>3, <4>4, <5>1, Numbers
      <4>6. CASE ~blind
        <5>1. a.first
          BY <3>1, <3>2, <4>3, <4>6
        <5>2. a.lag < Window
          BY <4>1, <4>4, <5>1, Numbers DEF Closes
        <5>3. a.lag = acc.lag + 1
          BY <3>2, <4>4, <4>6, <5>2, Numbers DEF UpTo
        <5>4. sight <= acc.lag + 1
          BY <3>4, <4>1, <4>4
        <5>5. QED
          BY <3>4, <4>3, <4>4, <5>2, <5>3, <5>4
      <4>7. QED
        BY <4>5, <4>6
    <3>8. ~unsent'
      BY <2>1, <3>4
    <3>9. QED
      BY <1>6, <3>5, <3>6, <3>7, <3>8 DEF SightInv
  <2>6. QED
    BY <1>4, <2>2, <2>3, <2>4, <2>5 DEF ReportsInv
<1>9. QED
  BY <1>7, <1>8

LEMMA PollBlindReports ==
  ASSUME ReportsInv, AirTypes, watched' = watched, ReportsPollBlind
  PROVE  ReportsInv'
<1>1. /\ clock' = clock + 1 /\ PollBlind
      /\ sight' = IF sight > Window THEN sight ELSE 0
      /\ UNCHANGED <<archive, wu_report_start, wu_hourly_buckets, battery_alerted,
                     reported, passedOver, battery, unsent>>
  BY DEF ReportsPollBlind
<1>2. up /\ up' = up /\ blind' = TRUE
  BY <1>1 DEF PollBlind
<1>3. BlockInv'
  <2>1. clock \in Nat /\ clock' \in Nat /\ clock <= clock'
    BY <1>1 DEF ReportsInv, BlockInv
  <2>2. /\ PeriodFloor(clock') \in Nat /\ PeriodFloor(clock) \in Nat
        /\ PeriodFloor(clock) <= PeriodFloor(clock')
    BY <2>1, FloorBelow, FloorGrows
  <2>3. QED
    BY <1>1, <2>1, <2>2 DEF ReportsInv, BlockInv
<1>4. RowsInv'
  BY <1>1 DEF ReportsInv, RowsInv, RowsReportedOnce
<1>5. BatteryInv'
  BY <1>1, <1>2 DEF ReportsInv, BatteryInv, LowToldOnce
<1>6. SightInv'
  <2>1. SightInv
    BY DEF ReportsInv
  <2>2. sight' \in Nat /\ (sight' > 0 => sight > Window)
    BY <1>1, <2>1 DEF SightInv
  <2>3. sight > Window => wu_hourly_buckets
    BY <2>1, SightClosesAWindow
  <2>4. wu_hourly_buckets' = wu_hourly_buckets /\ unsent' = unsent
    BY <1>1
  <2>5. sight' = 0 \/ sight' > Window
    BY <1>1
  <2>6. QED
    BY <1>2, <2>1, <2>2, <2>3, <2>4, <2>5 DEF SightInv
<1>7. AlertsOnly'
  BY <1>1, Numbers DEF ReportsInv, AlertsOnly
<1>8. QED
  BY <1>3, <1>4, <1>5, <1>6, <1>7 DEF ReportsInv

\* A row that comes in its time is one of the block under way.
LEMMA ArchiveReports ==
  ASSUME ReportsInv, watched' = watched, Archive
  PROVE  ReportsInv'
<1>1. PICK t \in {clock, PeriodFloor(clock) - Window}, row \in RowKinds :
        /\ t \in Nat \ DOMAIN archive
        /\ archive' = With(archive, t, row) /\ reported' = With(reported, t, 0)
        /\ passedOver' = IF t = clock THEN passedOver ELSE passedOver \cup {t}
  BY DEF Archive
<1>2. UNCHANGED <<vars, clock, wu_report_start, wu_hourly_buckets, battery_alerted,
                  battery, sight, unsent>>
  BY DEF Archive
<1>3. BlockInv /\ RowsInv /\ BatteryInv /\ SightInv /\ AlertsOnly
  BY DEF ReportsInv
<1>4. BlockInv' /\ BatteryInv' /\ SightInv' /\ AlertsOnly'
  BY <1>2, <1>3 DEF BlockInv, BatteryInv, LowToldOnce, SightInv, AlertsOnly, vars, judging
<1>5. DOMAIN archive' = DOMAIN archive \cup {t} /\ DOMAIN reported' = DOMAIN archive \cup {t}
  BY <1>1, <1>3 DEF With, RowsInv
<1>6. DOMAIN archive' \subseteq Nat /\ DOMAIN reported' = DOMAIN archive'
  BY <1>1, <1>3, <1>5 DEF RowsInv
<1>7. ASSUME NEW u \in DOMAIN archive', u \notin passedOver'
      PROVE  reported'[u] = IF u < wu_report_start THEN 1 ELSE 0
  <2>1. u \notin passedOver
    BY <1>1, <1>7
  <2>2. CASE u = t
    <3>1. u = clock
      BY <1>1, <1>7, <2>2
    <3>2. reported'[u] = 0
      BY <1>1, <2>2 DEF With
    <3>3. ~(clock < wu_report_start)
      <4>1. PeriodFloor(clock) \in Nat /\ PeriodFloor(clock) <= clock
        BY <1>3, FloorBelow DEF BlockInv
      <4>2. QED
        BY <1>3, <4>1 DEF BlockInv
    <3>4. QED
      BY <3>1, <3>2, <3>3
  <2>3. CASE u # t
    <3>1. u \in DOMAIN archive /\ u \in DOMAIN reported
      BY <1>3, <1>5, <2>3 DEF RowsInv
    <3>2. reported'[u] = reported[u]
      BY <1>1, <2>3, <3>1 DEF With
    <3>3. QED
      BY <1>3, <2>1, <3>1, <3>2 DEF RowsInv, RowsReportedOnce
  <2>4. QED
    BY <2>2, <2>3
<1>8. RowsInv'
  <2>1. wu_report_start' = wu_report_start
    BY <1>2
  <2>2. QED
    BY <1>6, <1>7, <2>1 DEF RowsInv, RowsReportedOnce
<1>9. QED
  BY <1>4, <1>8 DEF ReportsInv

LEMMA CrashReports ==
  ASSUME ReportsInv, watched' = watched, ReportsCrash
  PROVE  ReportsInv'
<1>1. /\ up' = FALSE /\ blind' = FALSE
      /\ battery' = [low |-> FALSE, mails |-> 0] /\ sight' = 0
      /\ UNCHANGED <<clock, archive, wu_report_start, wu_hourly_buckets, battery_alerted,
                     reported, passedOver, unsent>>
  BY DEF ReportsCrash, Crash, Dies
<1>2. BlockInv' /\ RowsInv'
  BY <1>1 DEF ReportsInv, BlockInv, RowsInv, RowsReportedOnce
<1>3. BatteryInv'
  <2>1. battery'.low = FALSE /\ battery'.mails = 0
    BY <1>1
  <2>2. battery' \in [low : BOOLEAN, mails : Nat]
    BY <1>1
  <2>3. QED
    BY <1>1, <2>1, <2>2 DEF ReportsInv, BatteryInv, LowToldOnce
<1>4. SightInv'
  <2>1. sight' \in Nat /\ ~(sight' > 0)
    BY <1>1
  <2>2. QED
    BY <1>1, <2>1 DEF ReportsInv, SightInv
<1>5. AlertsOnly'
  BY <1>1 DEF ReportsInv, AlertsOnly
<1>6. QED
  BY <1>2, <1>3, <1>4, <1>5 DEF ReportsInv

LEMMA ElapseReports ==
  ASSUME ReportsInv, watched' = watched, Elapse
  PROVE  ReportsInv'
<1>1. /\ clock' = clock + 1
      /\ UNCHANGED <<vars, archive, wu_report_start, wu_hourly_buckets, battery_alerted,
                     reported, passedOver, battery, sight, unsent>>
  BY DEF Elapse
<1>2. BlockInv'
  <2>1. clock \in Nat /\ clock' \in Nat /\ clock <= clock'
    BY <1>1 DEF ReportsInv, BlockInv
  <2>2. /\ PeriodFloor(clock') \in Nat /\ PeriodFloor(clock) \in Nat
        /\ PeriodFloor(clock) <= PeriodFloor(clock')
    BY <2>1, FloorBelow, FloorGrows
  <2>3. QED
    BY <1>1, <2>1, <2>2 DEF ReportsInv, BlockInv
<1>3. RowsInv' /\ BatteryInv' /\ SightInv' /\ AlertsOnly'
  BY <1>1 DEF ReportsInv, RowsInv, RowsReportedOnce, BatteryInv, LowToldOnce, SightInv,
              AlertsOnly, vars, judging
<1>4. QED
  BY <1>2, <1>3 DEF ReportsInv

\* The first report begins with the block the monitor starts in, whose rows are in no
\* report yet.
LEMMA StartReports ==
  ASSUME ReportsInv, watched' = watched, ReportsStart
  PROVE  ReportsInv'
<1>1. /\ ~up /\ up' = TRUE /\ blind' = blind /\ acc' = acc
      /\ wu_report_start' = PeriodFloor(clock)
      /\ wu_hourly_buckets' = FALSE /\ battery_alerted' = FALSE
      /\ passedOver' = passedOver \cup
                         {t \in DOMAIN archive : t < PeriodFloor(clock) /\ reported[t] = 0}
      /\ UNCHANGED <<clock, archive, reported, battery, sight, unsent>>
  BY DEF ReportsStart, Start, FirstReportStart
<1>2. BlockInv /\ RowsInv /\ BatteryInv /\ SightInv /\ AlertsOnly
  BY DEF ReportsInv
<1>3. PeriodFloor(clock) \in Nat
  BY <1>2, FloorBelow DEF BlockInv
<1>4. BlockInv'
  BY <1>1, <1>2, <1>3 DEF BlockInv
<1>5. ASSUME NEW t \in DOMAIN archive, t \notin passedOver'
      PROVE  reported[t] = IF t < PeriodFloor(clock) THEN 1 ELSE 0
  <2>1. reported[t] = IF t < wu_report_start THEN 1 ELSE 0
    BY <1>1, <1>2, <1>5 DEF RowsInv, RowsReportedOnce
  <2>2. t \in Nat /\ wu_report_start \in Nat /\ wu_report_start <= PeriodFloor(clock)
    BY <1>2 DEF RowsInv, BlockInv
  <2>3. t < PeriodFloor(clock) => reported[t] # 0
    BY <1>1, <1>5
  <2>4. ~(t < PeriodFloor(clock)) => ~(t < wu_report_start)
    BY <1>3, <2>2
  <2>5. QED
    BY <2>1, <2>3, <2>4
<1>6. RowsInv'
  BY <1>1, <1>2, <1>5 DEF RowsInv, RowsReportedOnce
<1>7. BatteryInv'
  <2>1. battery'.low = FALSE
    BY <1>1, <1>2 DEF BatteryInv
  <2>2. battery_alerted' \in BOOLEAN
    BY <1>1
  <2>3. QED
    BY <1>1, <1>2, <2>1, <2>2 DEF BatteryInv, LowToldOnce
<1>8. SightInv'
  <2>1. sight' = 0
    BY <1>1, <1>2 DEF SightInv
  <2>2. sight' \in Nat /\ ~(sight' > 0)
    BY <2>1
  <2>3. wu_hourly_buckets' \in BOOLEAN
    BY <1>1
  <2>4. QED
    BY <1>1, <1>2, <2>1, <2>2, <2>3 DEF SightInv
<1>9. AlertsOnly'
  BY <1>1, <1>2 DEF AlertsOnly
<1>10. QED
  BY <1>4, <1>6, <1>7, <1>8, <1>9 DEF ReportsInv

\* A step of a behaviour that follows the alerts.
LEMMA AlertsReport ==
  ASSUME ReportsInv, watched' = watched, watched = "alerts", UNCHANGED reportVars
  PROVE  ReportsInv'
<1>1. /\ BlockInv /\ RowsInv /\ BatteryInv /\ SightInv /\ AlertsOnly
      /\ sight = 0 /\ ~battery_alerted /\ ~battery.low
  BY DEF ReportsInv, AlertsOnly
<1>2. /\ UNCHANGED <<clock, archive, wu_report_start, wu_hourly_buckets, battery_alerted>>
      /\ UNCHANGED <<reported, passedOver, battery, sight, unsent>>
  BY DEF reportVars
<1>3. BlockInv' /\ RowsInv' /\ AlertsOnly'
  BY <1>1, <1>2 DEF BlockInv, RowsInv, RowsReportedOnce, AlertsOnly
<1>4. BatteryInv'
  BY <1>1, <1>2 DEF BatteryInv, LowToldOnce
<1>5. SightInv'
  <2>1. ~(sight' > 0)
    BY <1>1, <1>2
  <2>2. QED
    BY <1>1, <1>2, <2>1 DEF SightInv
<1>6. QED
  BY <1>3, <1>4, <1>5 DEF ReportsInv

LEMMA ReportsKept ==
  ASSUME ReportsInv, UNCHANGED reportingVars
  PROVE  ReportsInv'
BY DEF ReportsInv, BlockInv, RowsInv, RowsReportedOnce, BatteryInv, LowToldOnce, SightInv,
       AlertsOnly, reportingVars, reportVars, vars, judging

LEMMA ReportsStep == AirInv /\ ReportsInv /\ [WatchNext]_reportingVars => ReportsInv'
<1> SUFFICES ASSUME AirInv, ReportsInv, [WatchNext]_reportingVars PROVE ReportsInv'
  OBVIOUS
<1>1. AirTypes
  BY DEF AirInv
<1>2. CASE UNCHANGED reportingVars
  BY <1>2, ReportsKept
<1>3. CASE WatchNext
  <2>1. watched' = watched
    BY <1>3 DEF WatchNext
  <2>2. CASE watched = "alerts" /\ UNCHANGED reportVars
    BY <2>1, <2>2, AlertsReport
  <2>3. CASE watched = "reports" /\ ReportsNext
    <3>1. watched # "alerts"
      BY <2>3
    <3>2. UNCHANGED <<vars, reportVars>> => UNCHANGED reportingVars
      BY <2>1 DEF reportingVars
    <3>3. QED
      BY <1>1, <2>1, <2>3, <3>1, <3>2, PollReports, PollBlindReports, ArchiveReports,
         CrashReports, ElapseReports, StartReports, ReportsKept DEF ReportsNext
  <2>4. QED
    BY <1>3, <2>2, <2>3 DEF WatchNext
<1>4. QED
  BY <1>2, <1>3

LEMMA ReportsInit == WatchInit => ReportsInv
<1> SUFFICES ASSUME WatchInit PROVE ReportsInv
  OBVIOUS
<1>1. /\ clock = 0 /\ archive = << >> /\ wu_report_start = PeriodFloor(0)
      /\ wu_hourly_buckets = FALSE /\ battery_alerted = FALSE
      /\ reported = << >> /\ passedOver = {}
      /\ battery = [low |-> FALSE, mails |-> 0] /\ sight = 0 /\ unsent = FALSE
  BY DEF WatchInit
<1>2. BlockInv
  <2>1. PeriodFloor(0) \in Nat
    BY FloorBelow
  <2>2. QED
    BY <1>1, <2>1 DEF BlockInv
<1>3. RowsInv
  <2>1. DOMAIN archive = {}
    BY <1>1
  <2>2. QED
    BY <1>1, <2>1 DEF RowsInv, RowsReportedOnce
<1>4. battery.low = FALSE /\ battery.mails = 0
  BY <1>1
<1>5. BatteryInv
  <2>1. battery \in [low : BOOLEAN, mails : Nat]
    BY <1>1
  <2>2. battery_alerted \in BOOLEAN
    BY <1>1
  <2>3. QED
    BY <1>1, <1>4, <2>1, <2>2 DEF BatteryInv, LowToldOnce
<1>6. SightInv
  <2>1. sight \in Nat /\ ~(sight > 0)
    BY <1>1
  <2>2. wu_hourly_buckets \in BOOLEAN
    BY <1>1
  <2>3. QED
    BY <1>1, <2>1, <2>2 DEF SightInv
<1>7. AlertsOnly
  BY <1>1, <1>4 DEF AlertsOnly
<1>8. QED
  BY <1>2, <1>3, <1>5, <1>6, <1>7 DEF ReportsInv

LEMMA ReportsInvariant == WatchSpec => []ReportsInv
<1>1. WatchSpec => []AirInv
  BY ReportingIsWatching, AirInvariant, PTL
<1>2. QED
  BY <1>1, ReportsInit, ReportsStep, PTL DEF WatchSpec, reportingVars

\* For every length of the day, of a block and of a window, and whatever crashes, late
\* rows, unreadable databases and gaps in the log lie between: a row that the archive
\* held in its time is in one report, a low battery is told once until it is clear, and
\* no report is lost once reception was seen for a window.
THEOREM ReportsAreTrue == WatchSpec => []ReportsTrue
<1>1. ReportsInv => ReportsTrue
  BY DEF ReportsInv, RowsInv, BatteryInv, SightInv, ReportsTrue
<1>2. QED
  BY <1>1, ReportsInvariant, PTL

================================================================================
