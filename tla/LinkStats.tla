------------------------------- MODULE LinkStats -------------------------------
(***************************************************************************)
(* The reception percentage (rtldavis.py): the cumulative counters the Go  *)
(* receiver puts on every data line, and how _update_stats and             *)
(* _update_summaries turn them into packets received over slots elapsed.   *)
(*                                                                         *)
(* Transmitters have one slot every Period instants, each at its own       *)
(* phase.  A line carries the counters of all of them, so that a packet of *)
(* one can be the first the driver hears of another.  The receiver counts  *)
(* without logging until every transmitter was heard once, and a hot swap  *)
(* replaces it by one that counts from zero.                               *)
(*                                                                         *)
(* The archive record also closes the period of the CRC tallies.  The two  *)
(* statistics share nothing but archive records and hot swaps: a behaviour *)
(* follows one of them.                                                    *)
(***************************************************************************)
EXTENDS CrcStats, FiniteSets

CONSTANTS
  Tx,            \* indices of the active transmitters
  Period,        \* instants between two slots of a transmitter
  MaxNow,        \* bound: instants in one behaviour, for each of Observed
  MaxBoundaries, \* bound: archive records
  MaxRespawns    \* bound: hot swaps

Observed == {"packets", "failures"}

ASSUME LinkStatsAssumption ==
  /\ Period \in Nat \ {0}
  /\ Tx \subseteq 1 .. Period
  /\ MaxNow \in [Observed -> Nat]
  /\ {MaxBoundaries, MaxRespawns} \subseteq Nat

None == [i \in {} |-> 0]   \* pct_good is None

VARIABLES
  observed,    \* the statistic this behaviour is about
  go,          \* the receiver's counters
  ready,       \* the receiver's init is over
  curr_cnt, last_cnt,
  prev_pkt_ts, last_pkt_ts,  \* 0: no packet yet
  started,     \* stats['last_ts'] > 0
  boundaries, respawns,
  respawned,   \* history: when the receiver was replaced
  rx,          \* history: when the driver read a packet of each transmitter
  published    \* history: what the last archive record was computed from

stats == <<curr_cnt, last_cnt, prev_pkt_ts, last_pkt_ts>>
linkVars == <<go, ready, stats, started, boundaries, respawns, respawned, rx, published>>
linkStatsVars == <<observed, now, crcVars, linkVars>>

LinkInit ==
  /\ CrcInit /\ observed \in Observed
  /\ go = [i \in Tx |-> 0]
  /\ ready = FALSE
  /\ curr_cnt = [i \in Tx |-> 0] /\ last_cnt = [i \in Tx |-> 0]
  /\ prev_pkt_ts = [i \in Tx |-> 0] /\ last_pkt_ts = [i \in Tx |-> 0]
  /\ started = FALSE
  /\ boundaries = 0 /\ respawns = 0 /\ respawned = {}
  /\ rx = [i \in Tx |-> {}]
  /\ published = [i \in Tx |-> None]

------------------------------------------------------------------------------

\* Transmitter i has a slot at instant t.
Due(i, t) == t % Period = i % Period

\* Mutant: the seed leaves the count baseline where it was (before #402).
CountFromZero(i, new) == last_cnt[i]

\* The first packet of a transmitter is the baseline of its count.
CountSeed(i, new) == new[i]

\* _update_stats: whose counter changed was heard now, and the first time it is,
\* its baselines start there.
UpdateStats(new, t) ==
  LET heard(i) == new[i] # curr_cnt[i]
      first(i) == heard(i) /\ prev_pkt_ts[i] = 0
  IN  /\ prev_pkt_ts' = [i \in Tx |-> IF first(i) THEN t ELSE prev_pkt_ts[i]]
      /\ last_cnt' = [i \in Tx |-> IF first(i) THEN CountSeed(i, new) ELSE last_cnt[i]]
      /\ last_pkt_ts' = [i \in Tx |-> IF heard(i) THEN t ELSE last_pkt_ts[i]]
      /\ curr_cnt' = new

\* A packet of transmitter i: the receiver counts it, and after its init logs it.
Receive(i) ==
  /\ observed = "packets" /\ now < MaxNow[observed] /\ Due(i, now + 1)
  /\ now' = now + 1
  /\ go' = [go EXCEPT ![i] = go[i] + 1]
  /\ IF ready
     THEN /\ UpdateStats(go', now')
          /\ rx' = [rx EXCEPT ![i] = rx[i] \cup {now'}]
          /\ UNCHANGED ready
     ELSE /\ ready' = (\A j \in Tx : go'[j] > 0)
          /\ UNCHANGED <<stats, rx>>
  /\ UNCHANGED <<observed, crcVars, started, boundaries, respawns, respawned, published>>

\* An instant with no packet: a slot is missed, or no transmitter has one.
Miss ==
  /\ observed = "packets" /\ now < MaxNow[observed]
  /\ now' = now + 1
  /\ UNCHANGED <<observed, crcVars, linkVars>>

Respawn ==
  /\ respawns < MaxRespawns
  /\ respawns' = respawns + 1
  /\ respawned' = respawned \cup {now}
  /\ go' = [i \in Tx |-> 0]
  /\ ready' = FALSE
  /\ ReplaceTracker
  /\ UNCHANGED <<observed, now, stats, started, boundaries, rx, published>>

\* round(): to the nearest, and a half to the even neighbour.
Rounded(delta) ==
  LET q == delta \div Period
      r == 2 * (delta % Period)
  IN  IF r > Period \/ (r = Period /\ q % 2 = 1) THEN q + 1 ELSE q

Count(i) == curr_cnt[i] - last_cnt[i]
Slots(i) == Rounded(last_pkt_ts[i] - prev_pkt_ts[i])

\* The transmitter was active, and its counter went up.
Advanced(i) == curr_cnt[i] > 0 /\ Count(i) > 0

\* The counter moved backward: the receiver was replaced.
WentBack(i) == curr_cnt[i] > 0 /\ Count(i) < 0

\* Mutant: the first boundary leaves the slot baseline behind (before #402).
KeepBaseline(i) == prev_pkt_ts[i]

\* The slot baseline after the first boundary, which computes nothing.
FirstBaseline(i) == last_pkt_ts[i]

\* new_archive_record: _update_summaries, then _reset_stats.
Boundary ==
  /\ boundaries < MaxBoundaries
  /\ boundaries' = boundaries + 1
  /\ started' = TRUE
  /\ IF started
     THEN /\ prev_pkt_ts' = [i \in Tx |-> IF Advanced(i) THEN last_pkt_ts[i]
                                          ELSE IF WentBack(i) THEN 0
                                          ELSE prev_pkt_ts[i]]
          /\ last_pkt_ts' = [i \in Tx |-> IF WentBack(i) THEN 0 ELSE last_pkt_ts[i]]
          /\ published' = [i \in Tx |->
               IF Advanced(i) /\ Slots(i) > 0
               THEN [count |-> Count(i), slots |-> Slots(i),
                     from |-> prev_pkt_ts[i], to |-> last_pkt_ts[i]]
               ELSE None]
     ELSE /\ prev_pkt_ts' = [i \in Tx |-> FirstBaseline(i)]
          /\ UNCHANGED last_pkt_ts
          /\ published' = [i \in Tx |-> None]
  /\ last_cnt' = curr_cnt
  /\ BookPeriod
  /\ UNCHANGED <<observed, now, go, ready, curr_cnt, respawns, respawned, rx>>

LinkNext ==
  \/ \E i \in Tx : Receive(i)
  \/ Miss
  \/ /\ observed = "failures" /\ UNCHANGED <<observed, linkVars>>
     /\ \/ /\ now < MaxNow[observed]
           /\ \E n \in 0 .. MaxInBlock, off \in {0, 1}, accept \in BOOLEAN :
                Block(n, off, accept)
        \/ TallyLine
  \/ Respawn
  \/ Boundary

LinkSpec == LinkInit /\ [][LinkNext]_linkStatsVars

------------------------------------------------------------------------------
(* Properties. *)

\* A published period spans a replacement of the receiver: the new counter had
\* caught up with the old baseline, and went unnoticed as a reset.
SpansRespawn(p) == \E at \in respawned : p.from <= at /\ at < p.to

\* Every packet read is in exactly the period whose slots it is divided by
\* (#317, #402): none is counted that lies outside, and none inside is lost, over
\* the silent init, the first boundary, empty periods and detected resets.
CountsWhatWasRead ==
  \A i \in Tx : published[i] # None /\ ~SpansRespawn(published[i]) =>
    published[i].count =
      Cardinality({t \in rx[i] : published[i].from < t /\ t <= published[i].to})

\* "count[i] <= max_count[i] holds by construction" -- by one slot less when the
\* baseline is the packet of another transmitter, heard between two slots.
CountWithinSlots ==
  \A i \in Tx : published[i] # None /\ ~SpansRespawn(published[i]) =>
    published[i].count <= published[i].slots + (IF Due(i, published[i].from) THEN 0 ELSE 1)

==============================================================================
