------------------------------- MODULE CrcStats -------------------------------
(***************************************************************************)
(* The frames the receiver drops for their CRC: the tracker that the       *)
(* project's patches put into the packet loop (rtldavis-crcstats.patch,    *)
(* rtldavis-timegate.patch), the summary line it prints once an interval,  *)
(* and the driver's tallies of these lines (rtldavis.py), which LinkStats  *)
(* publishes at each archive record.                                       *)
(*                                                                         *)
(* One instant is one block of samples.  The slots of the failures, which  *)
(* are booked with them, are left out.                                     *)
(***************************************************************************)
EXTENDS Integers, SequencesExt

CONSTANTS
  Window,      \* a failure less than this from an accepted frame is near it
  Every,       \* instants between two summary lines
  MaxPending,  \* failures that may still turn out near
  MaxInBlock, MaxFailures, MaxDropped  \* bounds: failures in one block, in one
                                       \* behaviour, frames the time gate drops

ASSUME CrcStatsAssumption ==
  /\ {Window, Every, MaxPending} \subseteq Nat \ {0}
  /\ {MaxInBlock, MaxFailures, MaxDropped} \subseteq Nat

VARIABLES
  now,
  tracker,   \* crcstat.Tracker; an instant of 0 is none yet
  lines,     \* summary lines the driver has not read
  tally,     \* crc_fail, crc_near and offsched of this archive period
  booked,    \* history: the same, of all periods so far
  gone,      \* history: the same, of trackers that ended and lines refused
  failed,    \* history: instant -> CRC failures in its block, of this tracker
  accepted,  \* history: instants of the accepted frames
  dropped,   \* history: frames the time gate dropped
  earlier,   \* history: [fails, near] of earlier trackers
  capped     \* history: more failures were pending than the tracker keeps

crcVars == <<tracker, lines, tally, booked, gone, failed, accepted, dropped, earlier, capped>>

Counts == [fails |-> 0, near |-> 0, offsched |-> 0]
Plus(a, b) == [k \in DOMAIN Counts |-> a[k] + b[k]]

New == [fails |-> 0, near |-> 0, offsched |-> 0,
        pending |-> <<>>, lastAccept |-> 0, lastReport |-> 0]

(***************************************************************************)
(* The tracker.                                                            *)
(***************************************************************************)
\* Failures that the next accepted frame could still be near to, this block's
\* n included.
Open(tr, t, n) ==
  SelectSeq(tr.pending, LAMBDA at : t - at < Window) \o [i \in 1 .. n |-> t]

Capped(seq) == SubSeq(seq, Len(seq) - (IF Len(seq) < MaxPending THEN Len(seq) ELSE MaxPending) + 1, Len(seq))

\* n failures in the block of instant t.
CrcFail(tr, t, n) ==
  IF n = 0 THEN tr
  ELSE IF tr.lastAccept # 0 /\ t - tr.lastAccept < Window
  THEN [tr EXCEPT !.fails = @ + n, !.near = @ + n]
  ELSE [tr EXCEPT !.fails = @ + n, !.pending = Capped(Open(tr, t, n))]

Accept(tr, t) ==
  [tr EXCEPT !.near = @ + Len(SelectSeq(tr.pending, LAMBDA at : t - at < Window)),
             !.pending = <<>>, !.lastAccept = t]

Reports(tr, t) == tr.lastReport # 0 /\ t - tr.lastReport >= Every

\* Mutant: what is pending starts over too.
MutReport(tr, t) ==
  IF Reports(tr, t) THEN [New EXCEPT !.lastAccept = tr.lastAccept, !.lastReport = t]
  ELSE IF tr.lastReport = 0 THEN [tr EXCEPT !.lastReport = t] ELSE tr

\* Report: the first call only starts the clock, a summary starts the counts over.
\* What is pending stays.
Report(tr, t) ==
  IF Reports(tr, t) THEN [Counts @@ tr EXCEPT !.lastReport = t]
  ELSE IF tr.lastReport = 0 THEN [tr EXCEPT !.lastReport = t] ELSE tr

\* What is near by definition: less than Window before or after an accepted frame.
NearAt(t) == \E a \in accepted : -Window < a - t /\ a - t < Window
SumOf(f, times) == FoldFunctionOnSet(+, 0, f, times)
NearNow == SumOf(failed, {t \in DOMAIN failed : NearAt(t)})

\* One turn of main.go's loop: the failures, the summary, then the frames.
Block(n, off, accept) ==
  LET t == now + 1
      counted == CrcFail(tracker, t, n)
      reported == Report(counted, t)
      judged == [reported EXCEPT !.offsched = @ + off]
  IN /\ SumOf(failed, DOMAIN failed) + earlier.fails + n <= MaxFailures
     /\ dropped + off <= MaxDropped
     /\ now' = t
     /\ tracker' = IF accept THEN Accept(judged, t) ELSE judged
     /\ lines' = IF Reports(counted, t)
                 THEN Append(lines, [k \in DOMAIN Counts |-> counted[k]]) ELSE lines
     /\ failed' = Append(failed, n)
     /\ accepted' = IF accept THEN accepted \cup {t} ELSE accepted
     /\ dropped' = dropped + off
     /\ capped' = (capped \/ Len(Open(tracker, t, n)) > MaxPending)
     /\ UNCHANGED <<tally, booked, gone, earlier>>

(***************************************************************************)
(* The driver.                                                             *)
(***************************************************************************)
\* parse_crc_stats refuses a line that no correct receiver prints.
Refused(line) == line.near > line.fails

TallyLine ==
  /\ lines # <<>> /\ lines' = Tail(lines)
  /\ LET line == Head(lines)
     IN IF Refused(line)
        THEN gone' = Plus(gone, line) /\ UNCHANGED tally
        ELSE tally' = Plus(tally, line) /\ UNCHANGED gone
  /\ UNCHANGED <<now, tracker, booked, failed, accepted, dropped, earlier, capped>>

\* _reset_stats, after the period was summarized.
BookPeriod ==
  /\ booked' = Plus(booked, tally) /\ tally' = Counts
  /\ UNCHANGED <<tracker, lines, gone, failed, accepted, dropped, earlier, capped>>

\* The receiver is replaced: its counts are lost, the lines in the queue are not.
ReplaceTracker ==
  /\ tracker' = New
  /\ gone' = Plus(gone, [k \in DOMAIN Counts |-> tracker[k]])
  /\ earlier' = [fails |-> earlier.fails + SumOf(failed, DOMAIN failed),
                 near |-> earlier.near + NearNow]
  /\ failed' = [t \in DOMAIN failed |-> 0] /\ accepted' = {}
  /\ UNCHANGED <<lines, tally, booked, dropped, capped>>

CrcInit ==
  /\ now = 0
  /\ tracker = New /\ lines = <<>>
  /\ tally = Counts /\ booked = Counts /\ gone = Counts
  /\ failed = <<>> /\ accepted = {} /\ dropped = 0
  /\ earlier = [fails |-> 0, near |-> 0] /\ capped = FALSE

(***************************************************************************)
(* Properties                                                              *)
(***************************************************************************)
Everywhere ==
  FoldSeq(Plus, Plus(Plus(booked, tally), Plus(gone, [k \in DOMAIN Counts |-> tracker[k]])), lines)

\* Every CRC failure, and every frame the time gate drops, is in one archive
\* period, or on its way there, or was lost with its tracker or a refused line;
\* and a failure is called near an accepted frame just when it was, once, no
\* matter which of the two came first and what was reported in between.  Only
\* when more failures are pending than the tracker keeps may one be missed.
FailuresBooked ==
  LET near == earlier.near + NearNow
  IN /\ Everywhere.fails = earlier.fails + SumOf(failed, DOMAIN failed)
     /\ Everywhere.offsched = dropped
     /\ IF capped THEN Everywhere.near <= near ELSE Everywhere.near = near
==============================================================================
