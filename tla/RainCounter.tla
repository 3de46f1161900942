----------------------------- MODULE RainCounter -----------------------------
(***************************************************************************)
(* The driver's rain path (rtldavis.py): the transmitter's 7-bit bucket    *)
(* counter, the frames that carry it, and the two baselines                *)
(* `last_rain_count` and `last_accepted_rain_count` against which          *)
(* _data_to_packet turns a counter reading into tips.                      *)
(*                                                                         *)
(* The environment is the radio: a frame may be clean, carry a wrong count *)
(* that nothing else gives away, or be proven corrupt by one of its other  *)
(* fields.  A lost frame is rain falling between two frames.               *)
(***************************************************************************)
EXTENDS Integers

CONSTANTS
  CounterSize,     \* the counter wraps here (128)
  MaxTips,         \* MAX_PLAUSIBLE_TIPS (16)
  WrapDrop,        \* -RAIN_WRAPAROUND_THRESHOLD (100)
  NoCount,         \* Python's None for a baseline
  MaxFallen,       \* bound: tips that fall in one behaviour
  MaxDisturbances  \* bound: glitched frames and power cycles in one behaviour

ASSUME RainAssumption ==
  /\ CounterSize \in Nat \ {0}
  /\ MaxTips \in Nat \ {0}
  /\ WrapDrop \in Nat
  /\ MaxTips < CounterSize - WrapDrop
  /\ MaxTips <= WrapDrop
  /\ NoCount \notin Int
  /\ MaxFallen \in Nat
  /\ MaxDisturbances \in Nat

Counts == 0 .. CounterSize - 1

\* The counter after k tips, for k below one full turn.
RoseBy(count, k) ==
  IF count + k < CounterSize THEN count + k ELSE count + k - CounterSize

VARIABLES
  bucket,        \* the transmitter's counter
  fallen,        \* history: tips that really fell
  last,          \* self.last_rain_count
  anchor,        \* self.last_accepted_rain_count
  booked,        \* history: tips the driver put into packets
  lastAt,        \* history: `fallen` when `last` was read off a clean frame
  anchorAt,      \* history: `fallen` when `anchor` was read off a clean frame
  disturbances   \* history: glitched frames processed, and power cycles

vars == <<bucket, fallen, last, anchor, booked, lastAt, anchorAt, disturbances>>

TypeOK ==
  /\ bucket \in Counts
  /\ fallen \in Nat
  /\ last \in Counts \cup {NoCount}
  /\ anchor \in Counts \cup {NoCount}
  /\ booked \in Nat
  /\ lastAt \in Nat \cup {NoCount}
  /\ anchorAt \in Nat \cup {NoCount}
  /\ disturbances \in Nat

------------------------------------------------------------------------------
(* The pure helpers. *)

Plausible(delta) == delta \in 0 .. MaxTips

Unwrapped(delta) == IF delta < -WrapDrop THEN delta + CounterSize ELSE delta

\* rain_delta_tips: NoCount stands for the rejection (None).
RainDeltaTips(from, new) ==
  IF from = NoCount THEN 0
  ELSE IF Plausible(Unwrapped(new - from)) THEN Unwrapped(new - from)
  ELSE NoCount

\* Mutant: the previous reading alone, as before the anchor was added.
RainTipsWithoutAnchor(anc, lst, new) == RainDeltaTips(lst, new)

\* rain_tips_with_anchor: the last accepted count first, then the last reading.
RainTipsWithAnchor(anc, lst, new) ==
  IF /\ anc # NoCount
     /\ anc # lst
     /\ RainDeltaTips(anc, new) # NoCount
  THEN RainDeltaTips(anc, new)
  ELSE RainDeltaTips(lst, new)

------------------------------------------------------------------------------
(* Actions. *)

Init ==
  /\ bucket \in Counts
  /\ fallen = 0
  /\ last = NoCount
  /\ anchor = NoCount
  /\ booked = 0
  /\ lastAt = NoCount
  /\ anchorAt = NoCount
  /\ disturbances = 0

\* One tip of the bucket.
Tip ==
  /\ fallen < MaxFallen
  /\ fallen' = fallen + 1
  /\ bucket' = RoseBy(bucket, 1)
  /\ UNCHANGED <<last, anchor, booked, lastAt, anchorAt, disturbances>>

\* The transmitter loses power: its counter restarts.
PowerCycle ==
  /\ disturbances < MaxDisturbances
  /\ disturbances' = disturbances + 1
  /\ bucket' = 0
  /\ lastAt' = NoCount
  /\ anchorAt' = NoCount
  /\ UNCHANGED <<fallen, last, anchor, booked>>

\* Mutant: the baseline follows accepted readings only.
ResyncOnAccept(lst, new, tips) == IF tips = NoCount THEN lst ELSE new

\* "always resync, even on reject"
Resync(lst, new, tips) == new

\* The rain part of _data_to_packet for a frame that passed the sensor filter.
\* `at` is `fallen` for a clean frame and NoCount for a glitched one.
BookReading(count, at) ==
  LET tips == RainTipsWithAnchor(anchor, last, count)
  IN  /\ last' = Resync(last, count, tips)
      /\ lastAt' = at
      /\ IF tips = NoCount
         THEN UNCHANGED <<anchor, anchorAt, booked>>
         ELSE /\ anchor' = count
              /\ anchorAt' = at
              /\ booked' = booked + tips

CleanFrame ==
  /\ BookReading(bucket, fallen)
  /\ UNCHANGED <<bucket, fallen, disturbances>>

\* A frame whose count is wrong and whose other fields are all plausible.
GlitchedFrame ==
  /\ disturbances < MaxDisturbances
  /\ disturbances' = disturbances + 1
  /\ \E count \in Counts \ {bucket} : BookReading(count, NoCount)
  /\ UNCHANGED <<bucket, fallen>>

\* Mutant: a co-rejected frame's count still becomes the baseline.
ResyncOnCoReject(count) ==
  /\ last' = count
  /\ UNCHANGED lastAt

\* The co-rejected frame's count moves neither baseline.
SkipCounter(count) == UNCHANGED <<last, lastAt>>

\* A frame proven corrupt by another field: its count is not looked at.
CoRejectedFrame ==
  /\ \E count \in Counts : SkipCounter(count)
  /\ UNCHANGED <<bucket, fallen, anchor, anchorAt, booked, disturbances>>

\* A stall or a dead child: the engine builds a new driver object.
Restart ==
  /\ last' = NoCount
  /\ anchor' = NoCount
  /\ lastAt' = NoCount
  /\ anchorAt' = NoCount
  /\ UNCHANGED <<bucket, fallen, booked, disturbances>>

Next ==
  \/ Tip
  \/ PowerCycle
  \/ CleanFrame
  \/ GlitchedFrame
  \/ CoRejectedFrame
  \/ Restart

Spec == Init /\ [][Next]_vars

------------------------------------------------------------------------------
(* Properties. *)

\* A baseline read off a clean frame is what the transmitter's counter was then:
\* the counter is now that much further on, on whichever side of the wrap.
TracksBucket(count, at) ==
  at # NoCount =>
    /\ count \in Counts
    /\ at <= fallen
    /\ fallen - at < CounterSize => bucket = RoseBy(count, fallen - at)

\* Neither baseline is ever moved by a reading the driver knew to be corrupt
\* (DEC-0054), so both keep their relation to the transmitter's counter.
BaselineInv ==
  /\ TracksBucket(last, lastAt)
  /\ TracksBucket(anchor, anchorAt)
  /\ last = NoCount => anchor = NoCount

\* A clean frame that arrives while the last accepted count is a true one books
\* exactly the rain since then, whatever rejected readings came in between
\* (DEC-0218: a rejected glitch costs nothing once the counter recovers).
ExactBooking ==
  [][CleanFrame /\ anchorAt # NoCount /\ fallen - anchorAt \in 0 .. MaxTips
       => /\ booked' = booked + (fallen - anchorAt)
          /\ anchorAt' = fallen]_vars

\* The filter never freezes on a stale baseline (DEC-0029, DEC-0103): after one
\* clean reading the next clean one within the cap is accepted, even when the
\* first was rejected and even if proven-corrupt frames arrived in between.
NeverStalls ==
  [][CleanFrame /\ lastAt # NoCount /\ fallen - lastAt \in 0 .. MaxTips
       => anchorAt' = fallen /\ booked' >= booked]_vars

\* So many capped steps fall short of a whole turn of the counter, one more does not.
StepsInTurn == (CounterSize - 1) \div MaxTips

\* Rain the driver invents is bounded by what was wrong on the air: every glitched
\* frame and every power cycle is worth at most one capped step -- and as many of
\* them as carry the counter round, so that the step from the last of them back to
\* the true count passes for rain as well, are worth one more.
PhantomBound ==
  booked <= fallen + MaxTips * (disturbances + disturbances \div StepsInTurn)

==============================================================================
