# Formal models of weewx-rtldavis

TLA+ models of the Davis weather-station driver for WeeWX in this repository, the
TLC configurations that check them, and TLAPS proofs. `PROJECT.json` lists, for
machines, the components, runs, mutants, findings, hazards and theorems, and the
source lines each definition stands for.

## 1. The system

A Davis ISS transmits one burst every ~2.8 s, hopping over 51 channels. A patched Go
program (`rtldavis`, patches under `patch/`) follows the hops with an RTL-SDR dongle
and logs what it decodes to stderr. The WeeWX driver `rtldavis.py` runs that program
as a child, parses its lines, filters the readings and yields loop packets. WeeWX
services add to the packets, uploaders publish them, and WeeWX logs each
publication. A separate process, `weewx_monitor.py`, reads that log, judges reception
by the publications in it, raises alerts and fires a remedy when the driver stalls.
`ops/` holds the tools with which receiver settings are tried out (hot swap, campaign).

```
 transmitter ~~radio~~> rtldavis (Go) --stderr--> AsyncReader --queue--> genLoopPackets
                           ^   ^                                             |  yields
        gates of patch/ ---+   +-- ProcManager <-- hot swap <-- control file  v
                                       |               |                  WeeWX engine
                                       +---- kills     +--> ack file      services, uploaders
                                                                             | log
                        remedy (USB reset, unit restart) <-- weewx_monitor <-+
```

| component | state it keeps | operations | how it interacts | what makes it correct | module |
|---|---|---|---|---|---|
| Rain accounting (`rtldavis.py`) | last count, last accepted count | rain frame: accept, reject, skip | called by `_data_to_packet`; new object on a restart | every tip booked once; no phantom rain beyond what glitches justify; never freezes | `RainCounter` |
| Supervision (`rtldavis.py`) | queue, deadlines, counters since data | read a line, time out, stall, exit, swap | reader thread -> queue -> loop -> engine | healthy receiver left alone; silent or dead one noticed | `Supervisor` |
| Hot swap, `ProcManager` | cmd, seen mtime, child handle, control and ack files | boot, poll, read, kill, start, roll back, acknowledge | operator's files; OS processes | one receiver; the ack tells the truth; the file is honoured | `HotSwap` |
| Link statistics | counters, baselines, timestamps of each transmitter; tallies of CRC failures | data line, summary line, archive boundary | counters and tracker of the Go child, which a respawn zeroes | count and slots speak of the same interval; each failure booked once | `LinkStats`, `CrcStats` |
| Receiver gates (patches) | last message, last accept, schedule, init | one decoded frame | hop clock of the (external) main.go | one accept per burst, real ones kept, bad schedules left | `RxGates` |
| Frame decoding, sensor QC | baseline per sensor, last packet, pending frequency errors | data line, hop line | lines from the child; packets to the engine | no freeze, no glitch let out, no field lost | `Sensors` |
| Loop services (`pressure_service.py`, `dewpoint_service.py`, `loop_json_writer.py`) | two caches, wind baseline, fetched pressure | loop packet, fetch, write | engine thread against fetch threads; two files read by a web page | ages bounded and told; wind filter does not freeze | `LoopServices` |
| Outage monitor | window, bad count, WD, EP, BLIND, report start, battery latch, two files | poll, restart | weewx log, archive; remedy thread; campaign inhibit file | remedies bounded; verdicts from evidence; no episode lost; no alert out of a gap; each minute in one report | `Monitor`, `Reports`, `Uploads` |
| Campaign (`ops/rx_experiment.sh`) | lock directory, state, conf, STOP and PAUSE files | tick, guard, abort, install | scheduled passes racing, container restart | baseline restored, one swap at a time, samples tagged with their arm | `Campaign` |
| Lease (`ops/nas_build.py`) | lease file, flock | acquire, break, release | other tenants of the host; the uploader that yields | one job at a time | `Lease` |
| Uploaders (`influx.py`, `rest_site.py` and its sites) | queue, last post | take, skip, post, retry, wait | WeeWX's threads; the lease; their lines are the monitor's input | bounded deferral; mails that are true | `Uploads` |
| Container start (`entrypoint.sh`, `seed_config.py`) | data directory | seed | operator's files and environment | no half-seeded configuration; own files kept | `Start` |
| Host tools, analyses, backfills, secret checks | none of their own, or one-shot | | | | not modelled: section 6 |

The behaviours that are hard here: a child process, a reader thread and a
generator that its consumer can stop for seconds at every yield; counters that wrap,
reset or restart on the other side; baselines that are moved by some readings and
not by others; files that are stat'ed, read, removed and rewritten by different programs;
caches in a row, each of which takes the other's value for a fresh one; a monitor whose
only input can rotate, freeze or simply contain nothing.

## 2. The plan

1. `RainCounter` with its proofs, `Supervisor`, `HotSwap`, `LinkStats`, `RxGates`,
   `Monitor`, `Campaign`: **done**.
2. `Sensors`, `LoopServices`, `Lease`, `Uploads`, `Start`, `CrcStats`, `Reports`: **done**.
3. Proofs of the safety properties of every module: **done** but for `FailuresBooked`
   (section 5).
4. Refinements: `OneChild` by `HotSwap`, `Monitor` by its composition with `Reports`: **done**.
5. What is left: a receiver that is up, suspected or down as an abstraction of `Supervisor`;
   the configuration of the recorded arm, or the baseline once stopped, of `Campaign`, for
   which `CampaignInv` already is the invariant; `CrcStats` with its sums kept as counters beside
   the sets they are taken of, so that `FailuresBooked` can be proved.

The modules compose where components share state: `LinkStats` extends `CrcStats` (the archive
record closes the period of both, a swap replaces the child under both), `Uploads` extends
`Lease` (the uploader reads the file that the jobs compete for) and carries the monitor
that reads its lines, `Reports` extends `Monitor` (one poll, one restart). `HotSwap` is the
detailed specification of which `OneChild` is the abstract one: its WITH clause is the
refinement mapping.

All modules are written to be proved about: parameters are CONSTANTS with a named
assumption, there is no RECURSIVE operator, and each operation is one action.

## 3. The models

**RainCounter.** One action is a rain frame through `_data_to_packet`. `last` and
`anchor` are `last_rain_count` and `last_accepted_rain_count`; rain is counted in tips,
so the bucket size and the unit drop out. Outside the driver there are the bucket
(`Tip`), the transmitter's power (`PowerCycle`) and the radio (`GlitchedFrame`: a wrong
count nothing else gives away; `CoRejectedFrame`: a frame that another field proves
corrupt). `Restart` is the engine building a new driver. History variables: the tips
that fell, and the tips that had fallen when each baseline was read off a clean frame.

**Supervisor.** `pc` is where `genLoopPackets` is; time is a set of ages advanced by one
`Tick`, which is possible only while the loop blocks in `queue.get` or the engine
holds a packet. A line is a data packet, a hop of the tracked transmitter, or
anything else: that is all the watchdog and its diagnosis tell apart. The queue is the
one the code has: it belongs to the `ProcManager` and outlives a child, so lines of a
swapped-out child stay in it, marked `old`, and one more may arrive from its reader
thread, which looks at its flag only after a put.

**HotSwap.** A command is the value of each flag a control file may set. The steps of
`_maybe_hotswap` are separate actions, so a rewrite of the file, the end of a child
or a container restart falls between any two: stat, read and parse, shutdown, start,
rollback, acknowledgement. The sweep by name may fail, as `pidof` may, a kill through
the handle may not: the code waits for it. A failed ack write is only logged.
`OneChild` is what all of that amounts to seen from the dongle and the ack file: receivers
there are (at most one), the command the driver keeps, what it told; six actions and none of
the file's, the kill's or the rollback's steps. The receivers are mapped to the children that
were not reaped, so a corpse left beside a receiver would not be a behaviour of it either.

**LinkStats.** Instants are numbered, and each transmitter has a slot every `Period` of
them at its own phase. `Receive` is a packet that the receiver counts and, after its
init, logs; `Boundary` is `new_archive_record` with both `_update_summaries` and
`_reset_stats`. `round` is Python's, to even.

**CrcStats.** One instant is one block of samples: the tracker that the patches put into
main.go's loop, the summary line it prints, the queue of these lines, and the tallies the
driver keeps of them for each archive period. A line resets `fails` and `near` but keeps
what is pending, so that the next one may say near > crc_fail; `parse_crc_stats` takes that for
a corrupt line ("impossible from a correct Go", rtldavis.py:407-408) and refuses it whole,
and the frames of the time gate and the slots it carried are gone. The model counts
them under `gone`. The failures per slot are left out.
A behaviour of the `linkstats` run follows the packets or the failures (`observed`): the two
share nothing but the archive records and the swaps.

**Sensors.** A frame is a record of its bit fields; `DataLine` is parse_raw, the range test with
its co-rejection, the step test, the repeat test and the packet, in the code's order, and
`HopLine` the line whose frequency error waits for the next packet. Readings are integers in
the sensor's resolution. The tables of the wind correction and of the leaf and soil
station are constants. `NewDriver`, which an absurd error causes: no baselines, nothing pending.

**LoopServices.** `packet` is the packet between two services, so that the ends of fetch
threads and restarts fall between any two: the wind filter and the cacher, the
injection of the pressure, the writer's cache and its two files. A slow reading, and a
pressure, is the time it was taken.

**Lease**, **Uploads.** `acquire` is modelled call by call: create exclusively, read, probe the
lock and judge, remove by name, lock and write; a job may be killed in between. The
uploader is InfluxDB's, which yields to another tenant's lease, or a site's, whose lines
the monitor watches while the log rotates, freezes, is touched or vanishes. What
WeeWX's RESTThread does with a record is external. A record is the time of its interval.

**Start.** `seed` file by file: a file may be part of one when the start is killed or the
disk is full; the environment and the directory are edited between starts.

**RxGates.** The gates in the order the patched main.go asks them. A burst is decoded in
up to two blocks, each giving the real frame, a corrupt one with a valid CRC, both or
none. The hop clock of the base main.go is not in the repository; it is modelled from
how the patches use it, and marked external.

**Monitor.** One action is one poll, from reading the log to the end of the loop's body;
`a` and `w` carry the window accounting and `WD` through it in the code's order:
rotation, lines, freshness, window, verdict. `PollBlind` is the poll that stops at the
freshness check. Crashes fall between polls or, in `CrashInClose`, between the
ledger row and the removal of the mirror. A remedy's thread is not modelled beyond its
start: the code never looks at its outcome, and counts a failed remedy as a tried one.
A poll lasts one unit: that a mail or a docker call may block the loop's body for longer, so that
windows close late, is modelled only as far as the overdue window clock (`MaxLag`) goes.

**Reports.** The end of the same poll: the blocks of the day, the two reads of the archive,
either of which may fail, the fallback to the monitor's own windows, and the latch of the
battery mail. The archive is a function from times to rows; WeeWX may commit one late.
A behaviour follows the alerts or the reports (`watched`): in the second the log holds
full reception or nothing, so that the state of the alerts stays put.

**Campaign.** `todo` is what each of `tick`, `guard` and `abort` has still to do, one entry for
each command that changes a file, the container or the lock, so that `trip_abort` is one
list used by all three. Taking the lock is the code's: `mkdir`, the pid written after it,
a stale directory removed and made again. A second tick under a running one is not a
process of its own: it is skipped at the lock, as a guard is. A restart may end with no
container, or be refused with the old one running. The mean of reception is known by
whether each reading is below the floor, which decides it only when all agree.

A reading, the monitor's RECEPTION line, is a mean of the windows closed since the last
one (weewx_monitor.py:1560-1568), and a window counts the records read since the last was
closed. So the model keeps what they are made of: `window` and `period` say whether the open
window, and the closed ones, tell of nothing but what the station receives on now (`same`) or
also of something before that (`mixed`). A swap, the start after it up to the health check, and
the loss of the container make them mixed (`Heard`); only closing a window, or a reading,
takes what is mixed away, and a rotation, a blind gap or a new monitor all of it (`Recount`).
Windows and readings come at any time, in the order the poll makes of them: no reading
without a closed window. `lines` counts the readings since an arm was recorded up to
`SettleSamples`, the two that docs/CAMPAIGN-B-RUNBOOK.md:114 tells the reader of the data to
drop. A RECOVERY line comes with a closed window. The start after a reboot is not told from
reception on the arm it comes up on, and the second in which both a reading and the state are
written, in which the harvest takes the reading too, is not modelled.

Left out: a live holder older than `LOCK_STALE_SECS` (the health check is bounded by 500 s)
and a pid reused after a reboot (the lock is then broken 30 minutes later).

## 4. The runs

| run | states | bounds and why they are enough |
|---|---|---|
| `rain` | 886,164 | counter of 10 instead of 128 values, cap 2 (16), wrap threshold 7 (100): the same three regions of a difference exist (a plausible step, an implausible one, a wrap), and the assumption the code's numbers satisfy is the one assumed; 12 tips go round the counter; 4 disturbances are a full turn of capped steps (`StepsInTurn`), so that the step back to the true count is one of them |
| `supervisor` | 111,095 | deadlines 4 and 7 with a budget of 1: ordered like 150, 240 and 10 s; ages saturate past every comparison; a queue of 2 holds an old and a new line |
| `hotswap` | 702,089 | two keys of two values: a file can set either, both, or change nothing; 3 writes so that one can fall into a swap and one after it; two child handles: a second receiver can exist |
| `linkstats` | 1,283,557 | two transmitters at different phases; 6 slots of each and 3 boundaries: the skipped first one, and two that compute; 6 blocks with a window of 2, a summary every 3 and room for 2 pending failures: one falls before, on and after a line |
| `gates` | 17,959 | a period of 8 instants around a tolerance of 1 and a duplicate window of 3; 3 noise frames |
| `monitor` | 649,435 | a window of 2 polls, as 60 s over 30 s, alert after 2 windows (5), cooldown longer than verification, as in the code; a window clock overdue by one poll (`MaxLag`), so that two windows close in a row; one restart, one refused write, two episodes. `Stale` is shorter than the streak that raises an alert, where the code's 300 s equal it: a shorter gap is the harder case for `AlertMeansLoss`; reports over 10 polls of a day of 6 in blocks of 4: three block ends, one of a short block; a row every other poll, low at 2, so that watch, low and clear blocks follow each other; one late row, failed read or gap |
| `campaign` | 412,481 | two arms and the self-terminator: a swap from production, between arms, and back; the guard averages 1 reading (6), which it waits for, and pauses or not; one mishap of any kind at any step (`MaxMishaps`). With 2 readings, a mean of which can lie on either side of the floor, there are 959,764 states, in which the safety properties hold too; the theorems hold for any number. With `SettleSamples` 1 instead of 2 `HarvestTrue` is violated |
| `sensors` | 226,137 | an ISS and a leaf and soil station; 4 frames: a baseline, a glitch or a squall, the reading after it, and a repeat; baselines live for 1 of 3 instants; glitches of a speed, a temperature that is not there, humidity out of range and a type nobody sends |
| `loop` | 2,851,677 | 4 packets over 3 seconds with both time-outs 1: a value can be bridged, taken for new, and expire; two fetch threads whose answers take up to 1; the wind, the slow sensors and the fetches each with the others at rest (`Stations`) |
| `uploads` | 4,553,090 | one job of ours and one of another tenant, two leases, one kill; a lease of 2 under a yield interval of 3; a threshold of 2 over a stale input of 1, the order of the code's numbers; one rotation, one freeze, one restart, one failure |
| `start` | 213,564 | two files at the top and one in a folder, two keys, of which the image may lack either; 3 starts, 2 edits |

`CHECK_DEADLOCK FALSE` is set where only the bounds on one behaviour stop the model
(`rain`, `linkstats`, `sensors`, `loop`, `uploads`, `start`).

What the properties say:

- `rain`: `BaselineInv` (each baseline is what the bucket showed when it was taken),
  `ExactBooking` (a clean frame over a clean anchor books exactly the tips since, also
  across rejected readings), `NeverStalls` (after one clean reading the next is
  accepted), `PhantomBound` (every disturbance is worth at most one capped step, and as many
  of them as go once round the counter are worth one more: the step that closes the turn
  looks like rain too).
- `supervisor`: `HealthyNeverTornDown`, `SilenceBounded`, `MuteMeansMute` (a child
  diagnosed as mute wrote nothing for the whole of the deadline), `DeadChildNoticed` (liveness).
- `hotswap`: `OneReceiver`, `FileHonoured` (with the driver idle, it runs what the last
  file it has recorded asked for), `ImplementsOneChild` (one receiver at a time, gone
  before the next is started; a command is kept only by the step that starts a receiver
  with it; an ack is true when it is written, which is `AckTellsTheTruth`).
- `linkstats`: `CountsWhatWasRead` (the published count is that of the packets read in
  the interval its slots are taken from), `CountWithinSlots`, `FailuresBooked` (every CRC
  failure is in one archive period or accounted for, and called near when it was).
- `gates`: `OneAcceptPerBurst`, `RealNeverDropped`, `AstrayEnds` (liveness).
- `monitor`: `RemediesBounded`, `EffectiveMeansHeard`, `EpisodesKept`, `AlertMeansLoss`, and
  `ReportsTrue` (each row of the archive in one report, a low battery told once until it
  is clear, no report lost to the database).
- `campaign`: `OneAtATime` (mutual exclusion by the lock directory), `RecordIsTrue` and
  `StopMeansBaseline` (with no program at work: the recorded arm is configured and
  running, or a stop has put production back), `HarvestTrue` (all readings harvested under an
  arm's name but the first two average only what was received on it), `SelfTerminates` (liveness, under every
  mishap). The code has four gaps that two history variables except: `raced` (two passes
  that break the same stale lock, or an abort without the lock), and `disturbed` (a reboot
  into a swap or a stop, a copy or restart that fails and whose status nobody reads, a
  cleared STOP), until the next swap begins alone under its lock.

- `sensors`: `NullsPaidFor` (a glitch costs at most itself and the next reading, a change
  of the weather one), `GlitchHeldBack`, `FreqNotLost`.
- `loop`: `ServedAge` (how old a published value can be, through both caches),
  `EpochReveals` (the fetch epoch does not make an old barometer look new),
  `WindNeverFrozen`.
- `uploads`: `Announced` (a job runs under the lease in place, so one at a time),
  `YieldsToTheLiving`, `GapBounded`, `TidingsTrue`, `NoBlindVerdict`.
- `start`: `RunsAsAsked`, `OwnFilesKept`.

Every property of a passing run has a mutant of the code (`mutants` in `PROJECT.json`)
that breaks it; several mutants are this repository's own former bugs (#180, #233,
#402, #459, DEC-0054, DEC-0135, DEC-0218).

### A finding, and observations

`uploads_nothing_lost` is expected to be violated. The comment on
`LEASE_YIELD_POST_INTERVAL_S` (influx.py:270-272) says that a deferral queues the records,
"posting late and losing none". The code raises the thread's `post_interval`, and a record
that falls into the interval is taken from the queue and dropped.

What the models show besides, where a sentence of the repository and the code differ or
a property needs an exception:

- Supervision: after a hot swap a line of the old child in the shared queue ends the new
  child's init grace at once (rtldavis.py:2191, against the comment at 968-971); with a slow
  init the healthy child is then torn down (`staleHeard`).
- Hot swap: a first control file sets the gain, a second only the window; after a container
  restart only the second is applied, and the ack still advertises both (1619, 1613-1618).
- Link statistics: a transmitter's time baseline can be seeded by another one's line, and
  its first interval then reads more than 100 % (1834). A respawned receiver whose new count
  has passed the old baseline by the next boundary is not noticed. With two replacements
  in one period both count: the property first remembered the last one only, and the proof
  of `CountsWhatWasRead` showed it false of a period that spans the first.
- Sensors: a repeat that follows a stored hop joins the frequency error to its packet and
  is no repeat any more, against "Suppressing is deliberate". An analog thermistor that
  fails yields `DEFAULT_SOIL_TEMP`, 24 C, as a reading. The comment "effectively
  unreachable" does not hold for the empty packet of a hop. On an angle of the wind table
  the correction is that of the lower speed, not between the two, against "Simple
  bilinear interpolation" (858).
- Loop services: a slow value may be as old as the two time-outs together (600 s) where
  both files speak of 300 s. The barometer never expires: each packet stamps it anew, so
  twice the fetch interval bounds nothing. A fetch that ends between the injection and
  the stamp puts a new epoch over an old pressure for one packet (`raced`). The third
  warm-up packet passes without the step test.
- Lease: two jobs that judge the same stale lease both remove "it", the second the fresh
  one of the first (`misremoved`). A job killed between create and write leaves an empty
  lease to which everyone defers for ever. A file gone by the time it is removed makes
  `acquire` raise.
- Monitor: with no record since the last rotation, start or blind gap, no window closes
  and no remedy is judged, so `RESET_MAX_TRIES` bounds nothing (1545, 755). A window clock
  overdue when the first record comes closes a "60 s" window at each 30 s poll, with half
  the records: an alert at full reception (`AlertMeansLoss` excepts such a streak).
  A rotation forgets which uploaders are down, so no recovery mail is sent, and a log that
  was gone and is back is read from its start (472). After a thaw the first poll may mail
  DOWN of an uploader it merely could not see.
- Reports: `battery_alert_decision` says it "re-arms only after a fully clear block" (1253);
  a block whose flagged minutes all have collapsed reception re-arms it too. A block that
  ends while no monitor runs, and a row committed after its report, are in no report. A
  failed read loses the battery's verdict on that block for good.
- Campaign: `harvest` takes every reading since the state was written, also of an undisturbed
  swap: the first averages windows of the restart or the arm before it, and the second does
  if a window was open across the health check and not yet closed at the first. "Tag the
  just-finished block's samples" (616) is thus not true of these two, and `HarvestTrue` is
  stated from the third on; that they be dropped is left to the reader of the data (the
  runbook's settle rule). A stop by the guard restores the baseline but leaves the arm in the state
  file; with STOP cleared within the same block, tick finds the due arm recorded and does
  nothing, and the samples are harvested under the arm's name (765, 418).
  `restart_container`'s status is never read: a refused restart leaves the old arm running,
  and the swap is logged as live and healthy. A failed restore at the end is recorded as a
  complete campaign.
- Start: an error while copying is caught by nobody, and weewx.conf of the image's top is
  among the first files: what a full disk leaves is a default configuration that the next
  start accepts, against "a half-configured station is worse than a stopped one"
  (seed_config.py:12-14).

### Fairness

`Supervisor`: the loop's own steps, the engine's return from a yield and the clock are
weakly fair: the loop has no lock to wait for, `get` has a timeout, and WeeWX always
asks for the next packet. The child, its reader thread and the operator are not fair.
`RxGates`: weak fairness of the clock and of decoding, and strong fairness of hearing a
burst and of decoding it cleanly: the receiver parks on one channel during its init, and
the transmitter comes back to it every 51 hops. Nothing forces any gate to accept.
`Campaign`: the steps of a program and the schedule's clock are weakly fair (each command
ends), and a tick gets the lock if it is free again and again: it is tried every five
minutes, and the others hold the lock for seconds, or minutes in a swap. Recovery of
reception and an ageing pause are not fair: the end must not wait for them.
All other properties are safety and need no fairness.

### Assumptions about the surroundings

`MaxHold`: the engine returns from a yield well within the stall deadline. If it does
not, the deadline passes while the child's lines wait unread, and the next pass
raises a false stall. `MaxInit` and `HopGap`: a healthy receiver's init ends before
`INIT_GRACE_S`, and after it something parses within the stall deadline.

## 5. The proofs

Each safety property below is proved for every value of the constants that its module's
named assumption allows; the runs' values satisfy it, which TLC evaluates. The pattern is the same
throughout: an inductive invariant, a lemma that the initial states satisfy it, one per
part or per action that a step keeps it, and the theorem. TLC finds each of these invariants
to hold on the instance of its run too (quantifiers over `Nat` bounded).

**`Readings_proofs`, rain** (`MaxTips < CounterSize - WrapDrop`, `MaxTips <= WrapDrop`: 128, 16, 100
satisfy both): `TypeCorrect`, `BaselinesTrack` (`Spec => []BaselineInv`), `BooksExactly`
(`Spec => ExactBooking`), `NeverFreezes` (`Spec => NeverStalls`), `PhantomBounded`
(`Spec => []PhantomBound`). `BaselineInv` is what the two action properties need: the code sees
only the difference of two counts, and the invariant says that as long as less than
one turn fell, the count is that baseline risen by just so many tips. The arithmetic
sits in lemmas (`DeltaExact`, `DeltaRange`, `RiseReadBack`, `TracksFresh`). `PhantomInv` adds
what is owed to each baseline: over one read off a clean frame no more was booked than had
fallen then and the disturbances allow; over any other there is room for one more step
(`Spare`), or its count is a true one and the steps that wrong readings booked on top of it,
less than a turn of them (`Chain`). The attempt showed that the bound first stated, one step
for each disturbance, is false: with the code's numbers seven glitches of +16 each put the
count 112 above the true one, and the next true frame is read as +16 more. That takes more
disturbances than the run then had. The bound now says so and the run goes that far.

**`Readings_proofs`, the other sensors** (any frames, limits, weather and correction tables that
are tables): `FrequenciesReachPackets` (`SensorsSpec => []FreqNotLost`), `NullsArePaidFor`
(`[]NullsPaidFor`), `GlitchesAreHeldBack` (`[]GlitchHeldBack`). `FreqInv` adds that the errors in
the last packet were yielded: a repeat is compared with a packet that has them, so dropping
it loses none. For the step test one fact is needed of the decoding: whatever frame comes, what
it decodes to are numbers (`ReadingsAreNumbers`), for which the wind correction must find its
places in the grids and divide by something (`BracketPlaces`, `SpeedNumber`). `SensorsInv` then
speaks of one baseline at a time: one that is off the truth is a null still to come, and only
a glitch or a change of the weather puts it there, which is the `2 * glitched + stepped` of the
bound with the second half not yet spent.

**`Receiver_proofs`, supervision** (the times in the order of `SupervisorAssumption`): `HealthyIsLeftAlone`,
`MuteIsMute`, `SilenceIsBounded`. The hard part is the queue between the child and the watchdog:
what the child said is heard later, by as long as the engine keeps the packets before
it. `HeardInv` bounds the watchdog's clock by the child's silence, unless a line that will
reset it is in the queue, and then by the time of one hold, since `sinceReceived` starts
anew at each; `QuietInv` is the other direction: each line that parses hides the silence
behind it for as long as the lines before it may be held (`Behind`); `MuteInv` ties
`rawSeen`, which is cleared with each packet, to the deadline, which is not.
`SequenceTheorems` gives the steps of the queue (`EnqueuedLine`, `AfterHead`). In the proof
`MuteMeansMute` grew from "silent for some time" to the whole of the deadline in force.

**`Receiver_proofs`, link statistics** (any transmitters and period, any number of records and
replacements): `PacketsAreCounted` (`LinkSpec => []CountsWhatWasRead`), `CountsFitTheSlots`
(`[]CountWithinSlots`). `CountIsRead` says of the baseline under way what the property says of a
published one: as long as no replacement came in between, the counter has risen by the
cardinality of the packets read since (`FiniteSetTheorems` gives the step). `Ordered` and
`UpToDate` place the baseline before the last packet and the counter at it; `PublishedInv` that
packets read later fall outside a period already published. The slots are the harder half: packets lie in slots, at
most one in each, and the number of instants between two of them divided by the period and
rounded to even is never less than the number of slots between them, less one when the first is no
slot of that transmitter.

**`HotSwap_proofs`** (any keys, values, handles): `OneReceiverAlways`, `NoWriteLost`,
`AcksTellTheTruth`. `ChildInv`: no process but the driver's own child is alive, none at all from
the kill to the spawn, and the child runs `cmd` wherever the driver believes so. `FileInv`:
while the file is the one recorded as seen, the settings of the swap under way are its
own, and the command honours them from the start on unless rolled back. Both are needed
for each theorem: an ack is true because the child is `cmd`, and `cmd` the file.
`HotSwapImplementsOneChild` (`Spec => ImplementsOneChild`) is the refinement, step by step: under
the invariant each of the fifteen actions is one of `OneChild`'s, or changes nothing it sees
(`StepImplements`). `NoOther` makes the mapped set of receivers a singleton or empty
(`ReceiversAreTheChild`), without which neither `Spawn` nor `End` would be what the step is.

**`RxGates_proofs`** (any period, tolerance and duplicate window shorter than the period):
`OneAcceptAlways`, `RealAlwaysPasses`. `GateInv`: a burst that still comes in and was
accepted is within the airtime of that frame, and the reference of the duplicate gate is
as old as the slot it was accepted in, or older than the window.

**`Monitor_proofs`** (`Window < Verify`, `Verify + Window <= Cooldown`): `RemediesAreBounded`,
`EffectiveRemediesWereHeard`, `NoEpisodeIsLost`. Two invariants, since the remedies and the
ledger share only the alert. `AirInv`: a verdict that is due is given when the window under way
closes, which is within one window, and therefore before the cooldown lets the next remedy
pass (`VerdictInTime`); the records the window has counted were heard after the remedy, or the
window began before it and closes before the verdict is due (`CountHeard`). Neither theorem
is inductive without them: the count and the verdict belong to clocks that rotations,
blind gaps and restarts reset at different times. `LedgerInv`: the episode in memory and the
mirror on the disk are the same one, or each is recorded without the other; rows are
counted against restarts, one less for an episode that is still open.

`AlertsRestOnLoss` (`Spec => AlertMeansLoss`) needs the way from a poll to an alert. `StreakInv`
says that polls of full reception fill a window (`FilledInv`), that a window which is closed
in its time and is bad was therefore not all full (`BadInv`), and that each bad window of the
streak so far accounts for one `Window` of low reception, each empty one for one `Window` of silence
(`EmptyInv`): the clock of a monitor that sees is never overdue (`LagInv`), but for the streak that
the property excepts, which began with one.

`ReportingIsWatching` (`WatchSpec => Spec`): the composition with the reports, which is what the run
checks, implements the monitor, so that every theorem above is one about it. `ReportsAreTrue`
(`WatchSpec => []ReportsTrue`): the report under way began with a block of its day (`BlockInv`, over
lemmas on division: `WholeAndLeft`, `WholeGrows`, `FloorBelow`, `FloorGrows`); the rows it will hold
are those since then, each told nowhere else (`RowsInv`); the latch is the mail that was sent
(`BatteryInv`); and reception seen for a window has closed one (`SightInv`), so that the
monitor's own windows are there when the database is not.

**`LoopServices_proofs`** (any time-outs, sensors, threads, wind): `NothingServedStale`,
`EpochTellsTheAge`, `WindThaws`. `LoopInv` follows a value through the chain: the cacher's value is
the time it was taken, the packet's is older by at most the first time-out, the writer's by
at most that when it was stored; each fetch thread's answer is not older than its
request, so the epoch of the last success is ahead of the pressure by at most one answer;
and once a possible wind was heard over a baseline, the baseline is that wind
(`CloseWindPasses`). The proof found `FilterWind` stated with cases that overlap, of which TLC
takes the first and TLA+ any; those and three more in `Uploads`, `Monitor` and `Sensors` are now
IF, in the code's order.

**`Lease_proofs`** (any jobs, tenants and intervals) extends `Uploads`:

- `RunsUnderALease` (`Spec => []Announced`). `LeaseInv` adds to the types: no job has seen a
  lease of a higher number than were created (`Counted`); each job that created one and has
  not removed it has its own, and unless a lease was removed by mistake it is the one
  that is there (`OwnersOwn`); a lease never filled in was judged by nobody
  (`UnfilledUnread`); who is about to break a lease judged one that no running job holds,
  or a removal went wrong before (`BreaksTheDead`).
- `GapIsBounded`, `YieldsOnlyToTheLiving`. `UploadInv`: a lease that is full was filled by the job it
  names, at most `TTL_S` before it expires (`FilledIn`); the queue is in the order of time and
  behind the last post (`QueueInv`); and with no failure or restart the last post is a record that was
  really taken to be posted (`PostedInv`), which is what the interval is counted from.
- `TidingsAreTrue`, `NoVerdictIsBlind`. `MonitorInv`: how the monitor's memory is related to the log, to
  what it has still to read, and to the last mail (`Memory`, `Seen`, `Belief`), and that nothing is
  written to a file that is cut off (`CutOff`).

**`Scripts_proofs`, container start** (any image, keys and values): `RunsOnWhatWasAsked` (`Spec => []RunsAsAsked`) and
`StartKeepsOwnFiles` (`Spec => OwnFilesKept`). `StartInv` says what is on the disk at
each step: a start that seeds finds no weewx.conf of the user's, has the image's defaults in it
from the copy to the write and every file in place before it applies the values
(`SeedingInv`); as long as no start was cut, a file is in part only while it is written and a
weewx.conf that a start left is complete and as asked (`UncutInv`); and weewxd never runs
without one (`UpInv`).

**`Scripts_proofs`, campaign** (any schedule that ends on the baseline, any number of mishaps):
`LockSerialises` (`CampaignSpec => []OneAtATime`), `RecordAgrees` (`[]RecordIsTrue`), `StopEndsOnBaseline`
(`[]StopMeansBaseline`), `HarvestIsTrue` (`CampaignSpec => HarvestTrue`). What a program has still to do is
always the rest of one of a few lists (`PlansInv`), so that a step is a case for each head of
them. `LockInv`: unless it was raced, the lock names the one program that holds it; and for
that one `AtWorkInv` says what the files must be, given what it has still to do: between a swap's
copy and its record the configuration is the arm to be recorded, and with a restore under way
the copy and the restart that will make it true are in the list. `Settling`, of the arm that is
recorded, is why two readings are enough and one is not: a reading needs a window closed since the
one before, so after the first either the open window is of the arm alone or no closed one waits
for the next reading, and after the second all of them are. `UninstalledInv` is the time
before the first swap, when nothing leads away from production.

**Only model-checked.** Liveness (`DeadChildNoticed`, `AstrayEnds`, `SelfTerminates`) is out of the
prover's reach. `FailuresBooked` sums over sets and sequences with folds; what a fold gives for every input
is induction over data, which the prover cannot do either. `NothingLost`, of the run that is to
be violated, is false. Every other property of a run is stated by a theorem.

## 6. What is not modelled

Inside modelled components: the drought log line (`Supervisor`); a spawn that fails between
`Popen` and the start of its readers' threads, which leaves a child that only a sweep by name
ends (`HotSwap`, rtldavis.py:1083-1094); how long a stale acknowledgement stays true after a restart:
it is judged when it is written (`HotSwap`); the maximum over
transmitters, the failures per slot, the duplicate, repeat and burst tallies and the
record's fields (`LinkStats`, `CrcStats`); several transmitters at once and the debug output
(`RxGates`); the parsing of hop lines beyond the stored errors, quality counters, debug
fields, and the rounding of floats at a limit (`Sensors`); units, extras, deltas, the median
of the loop interval, expiry log lines and the guard of `new_archive_record`
(`LoopServices`); how a record is formatted for a site, the repeats of STILL DOWN
(`Uploads`); repeats of an alert, mails about rain glitches, the text of the reports and
what a remedy's script does (`Monitor`, `Reports`); a live lock holder older than
`LOCK_STALE_SECS`, preflight, mail and dry run (`Campaign`); the log of events and the command
line (`Lease`); directory checks that stop before anything is written (`Start`).

Whole components: `doctor.py`, `ops/proc_probe.py` and the shell probes read state and print.
`ops/campaign_analyze.py` and the baselines of freezes and stalls are statistics over
finished logs. The backfills are run once, by hand. None of these keeps a state that
another part reads.
