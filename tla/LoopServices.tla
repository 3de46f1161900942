---------------------------- MODULE LoopServices ----------------------------
(***************************************************************************)
(* What WeeWX's process services make of a loop packet, in the order they  *)
(* are listed: DewpointCacher (dewpoint_service.py) filters the wind and   *)
(* bridges the rotation of the sensors, DavisPressureFetcher               *)
(* (pressure_service.py) injects a pressure its threads fetch from a web   *)
(* service, and LoopJsonWriter (loop_json_writer.py) keeps a second cache  *)
(* and writes loop-data.txt and current.json.                              *)
(*                                                                         *)
(* A reading of a slow sensor, and a pressure, IS the time it was taken:   *)
(* what the properties tell apart is how old a published value is.  Wind   *)
(* speeds are numbers, for the filter compares them.                       *)
(***************************************************************************)
EXTENDS Integers, Sequences, FiniteSets, FiniteSetsExt

CONSTANTS
  CACHE_TIMEOUT_SECONDS, WIND_BASELINE_TTL_SECONDS,   \* DewpointCacher
  MAX_WIND_DELTA, MAX_PLAUSIBLE_WIND_SPEED, WIND_WARMUP_PACKETS,
  FetchInterval,          \* seconds between two fetches
  TtlDefault, CurrentInterval,                        \* LoopJsonWriter
  Slow,                   \* the fields of CACHED_FIELDS that are followed
  Stations,               \* [bound, winds, sensors]: are there credentials for
                          \* the fetches, which wind readings [speed, gust] and
                          \* which slow fields do the packets bring
  AnswerMax,              \* how long an answer of the web service may take
  Threads,                \* fetches in flight at once: a bound
  MaxNow, MaxPackets, MaxWriteFailures, MaxRestarts   \* bounds

None == -1
NoEntry == [val |-> None, seen |-> None]
NoBaseline == [sum |-> 0, n |-> 0, at |-> None]
NoWind == [speed |-> None, gust |-> None]
BarometerTtl == 2 * FetchInterval     \* _BAROMETER_TTL_FACTOR

ASSUME LoopServicesAssumption ==
  /\ {CACHE_TIMEOUT_SECONDS, WIND_BASELINE_TTL_SECONDS, MAX_WIND_DELTA,
      MAX_PLAUSIBLE_WIND_SPEED, FetchInterval, TtlDefault, CurrentInterval,
      AnswerMax, MaxNow, MaxPackets, MaxWriteFailures, MaxRestarts} \subseteq Nat
  /\ WIND_WARMUP_PACKETS \in Nat \ {0}
  /\ {"outTemp", "outHumidity"} \subseteq Slow
  /\ Slow \cap {"dewpoint", "windSpeed", "barometer", "pressure"} = {}
  /\ \A st \in Stations : st.bound \in BOOLEAN /\ st.sensors \subseteq Slow

VARIABLES
  station,     \* one of Stations, for the whole run
  now,
  packet,      \* the packet between two services, or NoPacket
  cache,       \* DewpointCacher: slow field -> [val, seen]
  baseline,    \* its wind baseline: [sum, n, at] for the mean sum / n
  warmup,      \* wind_warmup
  fetch,       \* the fetch threads
  lastFetch, lastPressure, lastStation, lastSuccess,   \* DavisPressureFetcher
  written,     \* LoopJsonWriter: key -> [val, seen]
  currentLast, \* its time of the last current.json, or None
  loopData,    \* loop-data.txt: the packet's time, the keys, the epoch; and
               \* raced, of its packet (history)
  current,     \* current.json: the time of the packet it shows, or None
  packets, writeFailures, restarts,
  heard,       \* history: the last wind that was possible, and whether it was nulled
  raced        \* history: a fetch ended between the injection and the stamp

cacher == <<cache, baseline, warmup, heard>>
fetcher == <<fetch, lastPressure, lastStation, lastSuccess>>
writer == <<written, currentLast, loopData, current, writeFailures>>
vars == <<station, now, packet, cacher, fetcher, lastFetch, writer, packets, restarts, raced>>

Keys == Slow \cup {"dewpoint", "windSpeed", "barometer"}
NoPacket == [at |-> None]
NothingHeard == [speed |-> None, warm |-> FALSE, nulled |-> FALSE, near |-> FALSE]
Present(f, k) == f[k] # None

(***************************************************************************)
(* DewpointCacher._filter_wind.  A verdict: is the wind nulled, and what   *)
(* become of the baseline and of the warm-up buffer.                       *)
(***************************************************************************)
Possible(w) ==
  /\ w.speed # None => w.speed \in 0 .. MAX_PLAUSIBLE_WIND_SPEED
  /\ w.gust # None => w.gust \in 0 .. MAX_PLAUSIBLE_WIND_SPEED
  /\ (w.speed # None /\ w.gust # None) => w.gust >= w.speed

Distance(b, speed) == LET d == speed * b.n - b.sum IN IF d < 0 THEN -d ELSE d

Verdict(nulled, b, buffer) == [nulled |-> nulled, baseline |-> b, warmup |-> buffer]
SeedFrom(speed) == [sum |-> speed, n |-> 1, at |-> now]

SumOf(s) == LET f[i \in 0 .. Len(s)] == IF i = 0 THEN 0 ELSE f[i - 1] + s[i]
            IN f[Len(s)]

ColdStart(speed) ==
  LET buffer == Append(warmup, speed)
  IN IF Len(buffer) >= WIND_WARMUP_PACKETS
     THEN Verdict(FALSE, [sum |-> SumOf(buffer), n |-> Len(buffer), at |-> now], <<>>)
     ELSE Verdict(TRUE, NoBaseline, buffer)

\* For the mutants: a rejected step leaves the baseline where it was.
MutDeltaTest(speed) ==
  LET tooFar == /\ now - baseline.at <= WIND_BASELINE_TTL_SECONDS
                /\ Distance(baseline, speed) > MAX_WIND_DELTA * baseline.n
  IN Verdict(tooFar, IF tooFar THEN baseline ELSE SeedFrom(speed), warmup)

\* A step rejected by its size becomes the baseline all the same.
DeltaTest(speed) ==
  Verdict(/\ now - baseline.at <= WIND_BASELINE_TTL_SECONDS
          /\ Distance(baseline, speed) > MAX_WIND_DELTA * baseline.n,
          SeedFrom(speed), warmup)

FilterWind(w) ==
  IF ~Possible(w) THEN Verdict(TRUE, baseline, warmup)
  ELSE IF w.speed = None THEN Verdict(FALSE, baseline, warmup)
  ELSE IF baseline.n > 0 THEN DeltaTest(w.speed)
  ELSE ColdStart(w.speed)

(***************************************************************************)
(* DewpointCacher.new_loop_packet: the readings a packet brought go to the *)
(* cache, then the cache fills the gaps, then dewpoint follows from both.  *)
(***************************************************************************)
CacheGet(c, f) ==
  IF now - c[f].seen > CACHE_TIMEOUT_SECONDS THEN None ELSE c[f].val

\* For the mutants: the gaps are filled first, and what fills them is seen anew.
MutRemembered(brought) ==
  [f \in Slow |-> IF f \in brought THEN [val |-> now, seen |-> now]
                  ELSE IF CacheGet(cache, f) = None THEN cache[f]
                  ELSE [val |-> CacheGet(cache, f), seen |-> now]]

Remembered(brought) ==
  [f \in Slow |-> IF f \in brought THEN [val |-> now, seen |-> now] ELSE cache[f]]

\* As old as the older of the two readings it is computed from.
Dewpoint(c) ==
  IF None \in {CacheGet(c, "outTemp"), CacheGet(c, "outHumidity")} THEN None
  ELSE Min({CacheGet(c, "outTemp"), CacheGet(c, "outHumidity")})

(***************************************************************************)
(* DavisPressureFetcher.new_loop_packet: start a fetch when it is time,    *)
(* inject what is known; the stamp of the epoch is a step of its own       *)
(* (StampEpoch), for a thread may end a fetch in between.                  *)
(***************************************************************************)
Idle == [pc |-> "idle"]

StartFetch ==
  IF station.bound /\ now - lastFetch > FetchInterval
  THEN /\ lastFetch' = now
       /\ \E t \in Threads : /\ fetch[t] = Idle
                             /\ fetch' = [fetch EXCEPT ![t] = [pc |-> "asked", since |-> now]]
  ELSE UNCHANGED <<lastFetch, fetch>>

\* The station measures neither: a pressure is whatever was fetched last.
Injected(k) == IF k = "barometer" THEN lastPressure ELSE lastStation

\* What the packet says, with the cache c and the wind that passed the filter.
Filled(c, wind) ==
  [k \in Keys \cup {"pressure"} |->
     CASE k \in Slow                       -> CacheGet(c, k)
       [] k = "dewpoint"                   -> Dewpoint(c)
       [] k = "windSpeed"                  -> wind
       [] k \in {"barometer", "pressure"} -> Injected(k)]

NewLoopPacket(w, brought) ==
  /\ packet = NoPacket /\ packets < MaxPackets
  /\ packets' = packets + 1
  /\ LET v == FilterWind(w)
         c == Remembered(brought)
     IN /\ baseline' = v.baseline /\ warmup' = v.warmup /\ cache' = c
        /\ heard' = IF w.speed = None \/ ~Possible(w) THEN heard
                    ELSE [speed |-> w.speed, warm |-> baseline.n > 0,
                          nulled |-> v.nulled, near |-> heard.warm
                            /\ w.speed - heard.speed \in -MAX_WIND_DELTA .. MAX_WIND_DELTA]
        /\ packet' = [at |-> now,
                      val |-> Filled(c, IF v.nulled \/ w.speed = None THEN None ELSE now)]
  /\ StartFetch
  /\ raced' = FALSE
  /\ UNCHANGED <<station, now, lastPressure, lastStation, lastSuccess, writer, restarts>>

(***************************************************************************)
(* fetch_pressure, in its own thread: the answer, then three assignments.  *)
(***************************************************************************)
Goes(t, s) == fetch' = [fetch EXCEPT ![t] = s]

Answer(t) ==
  /\ fetch[t].pc = "asked"
  /\ \E absolute \in BOOLEAN : Goes(t, [pc |-> "answered", since |-> fetch[t].since,
                                        val |-> now, absolute |-> absolute])
  /\ UNCHANGED <<station, now, packet, cacher, lastFetch, lastPressure, lastStation,
                 lastSuccess, writer, packets, restarts, raced>>

\* An exception, a time-out, or an answer with no pressure in it.
FetchFails(t) ==
  /\ fetch[t].pc = "asked" /\ Goes(t, Idle)
  /\ UNCHANGED <<station, now, packet, cacher, lastFetch, lastPressure, lastStation,
                 lastSuccess, writer, packets, restarts, raced>>

SetPressure(t) ==
  /\ fetch[t].pc = "answered"
  /\ Goes(t, [fetch[t] EXCEPT !.pc = "pressure"]) /\ lastPressure' = fetch[t].val
  /\ UNCHANGED <<lastStation, lastSuccess, raced>>

SetSuccess(t) ==
  /\ fetch[t].pc = "pressure"
  /\ Goes(t, [fetch[t] EXCEPT !.pc = "success"]) /\ lastSuccess' = now
  /\ raced' = (raced \/ packet # NoPacket)
  /\ UNCHANGED <<lastPressure, lastStation>>

SetStation(t) ==
  /\ fetch[t].pc = "success" /\ Goes(t, Idle)
  /\ lastStation' = IF fetch[t].absolute THEN fetch[t].val ELSE lastStation
  /\ UNCHANGED <<lastPressure, lastSuccess, raced>>

\* For the mutants: the time of the success is taken before the value is.
MutPublish(t) ==
  /\ \/ /\ fetch[t].pc = "answered"
        /\ Goes(t, [fetch[t] EXCEPT !.pc = "pressure"]) /\ lastSuccess' = now
        /\ raced' = (raced \/ packet # NoPacket)
        /\ UNCHANGED <<lastStation, lastPressure>>
     \/ /\ fetch[t].pc = "pressure"
        /\ Goes(t, [fetch[t] EXCEPT !.pc = "success"]) /\ lastPressure' = fetch[t].val
        /\ UNCHANGED <<lastStation, lastSuccess, raced>>
     \/ SetStation(t)
  /\ UNCHANGED <<station, now, packet, cacher, lastFetch, writer, packets, restarts>>

Publish(t) ==
  /\ SetPressure(t) \/ SetSuccess(t) \/ SetStation(t)
  /\ UNCHANGED <<station, now, packet, cacher, lastFetch, writer, packets, restarts>>

(***************************************************************************)
(* LoopJsonWriter.new_loop: the cache, the payload, the two files.  Each   *)
(* file is replaced as a whole, or not at all.                             *)
(***************************************************************************)
Ttl(k) == IF k = "barometer" THEN BarometerTtl ELSE TtlDefault

Kept ==
  [k \in Keys |-> IF packet.val[k] # None THEN [val |-> packet.val[k], seen |-> packet.at]
                  ELSE written[k]]

Payload(kept) ==
  [at |-> packet.at, epoch |-> lastSuccess, raced |-> raced,
   val |-> [k \in Keys |-> IF packet.at - kept[k].seen <= Ttl(k)
                           THEN kept[k].val ELSE None]]

CurrentDue ==
  \/ CurrentInterval <= 0 \/ currentLast = None
  \/ ~ (packet.at - currentLast >= 0 /\ packet.at - currentLast < CurrentInterval)

\* Only a write that succeeded moves the time of the last one.
StampCurrent(due, ok) == IF due /\ ok THEN packet.at ELSE currentLast

FinishPacket ==
  /\ packet # NoPacket /\ packet' = NoPacket
  /\ written' = Kept
  /\ \E loopOk \in BOOLEAN, currentOk \in BOOLEAN :
       /\ ~CurrentDue => currentOk
       /\ writeFailures' = writeFailures + (IF loopOk THEN 0 ELSE 1)
                                         + (IF currentOk THEN 0 ELSE 1)
       /\ writeFailures' <= MaxWriteFailures
       /\ loopData' = IF loopOk THEN Payload(Kept) ELSE loopData
       /\ current' = IF CurrentDue /\ currentOk THEN packet.at ELSE current
       /\ currentLast' = StampCurrent(CurrentDue, currentOk)
  /\ UNCHANGED <<station, now, cacher, fetcher, lastFetch, packets, restarts, raced>>

(***************************************************************************)
(* Time, and a restart of WeeWX, which leaves nothing but the two files.   *)
(* No time passes within a handler or between a thread's assignments.      *)
(***************************************************************************)
Tick ==
  /\ now < MaxNow /\ packet = NoPacket
  /\ \A t \in Threads : /\ fetch[t].pc \in {"idle", "asked", "answered"}
                        /\ fetch[t] # Idle => now - fetch[t].since < AnswerMax
  /\ now' = now + 1
  /\ UNCHANGED <<station, packet, cacher, fetcher, lastFetch, writer, packets, restarts, raced>>

NoCache == [f \in Slow |-> NoEntry]
NoneWritten == [k \in Keys |-> NoEntry]
NoFetch == [t \in Threads |-> Idle]
LongAgo == -1 - FetchInterval

Init ==
  /\ station \in Stations
  /\ now = 0 /\ packets = 0 /\ writeFailures = 0 /\ restarts = 0
  /\ packet = NoPacket
  /\ cache = NoCache /\ baseline = NoBaseline /\ warmup = <<>> /\ heard = NothingHeard
  /\ fetch = NoFetch /\ lastFetch = LongAgo
  /\ lastPressure = None /\ lastStation = None /\ lastSuccess = None
  /\ written = NoneWritten /\ currentLast = None
  /\ raced = FALSE
  /\ loopData = [at |-> None, epoch |-> None, raced |-> FALSE, val |-> [k \in Keys |-> None]]
  /\ current = None

Restart ==
  /\ restarts < MaxRestarts /\ restarts' = restarts + 1
  /\ packet' = NoPacket
  /\ cache' = NoCache /\ baseline' = NoBaseline /\ warmup' = <<>> /\ heard' = NothingHeard
  /\ fetch' = NoFetch /\ lastFetch' = LongAgo
  /\ lastPressure' = None /\ lastStation' = None /\ lastSuccess' = None
  /\ written' = NoneWritten /\ currentLast' = None
  /\ raced' = FALSE
  /\ UNCHANGED <<station, now, packets, loopData, current, writeFailures>>

\* The rotation: a packet brings the wind and at most one slow reading.
Rotation == {{}} \cup {{f} : f \in station.sensors}

Next ==
  \/ \E w \in station.winds, brought \in Rotation : NewLoopPacket(w, brought)
  \/ FinishPacket
  \/ \E t \in Threads : Answer(t) \/ FetchFails(t) \/ Publish(t)
  \/ Tick
  \/ Restart

Spec == Init /\ [][Next]_vars

(***************************************************************************)
(* Properties                                                              *)
(***************************************************************************)
\* What loop-data.txt says of a slow sensor was measured at most two time-outs
\* ago, the cacher's and the writer's, for the writer takes a bridged reading
\* for a new one; the wind, which is not bridged, at most one.  No chain of
\* packets keeps a dead sensor alive for longer.
ServedAge ==
  \A k \in Keys \ {"barometer"} :
    Present(loopData.val, k) =>
      loopData.at - loopData.val[k]
        <= TtlDefault + (IF k = "windSpeed" THEN 0 ELSE CACHE_TIMEOUT_SECONDS)

\* The fetch epoch in the file reveals how old the barometer is, in spite of
\* the writer's cache, of overlapping threads and of answers out of order: it
\* is ahead of the pressure by no more than the time an answer takes, except
\* in the one packet during whose handling a fetch ended.
EpochReveals ==
  (Present(loopData.val, "barometer") /\ loopData.epoch # None /\ ~loopData.raced)
    => loopData.epoch - loopData.val["barometer"] <= AnswerMax

\* The delta filter does not freeze: of two possible readings in a row that
\* are close to each other the second is not rejected, whatever was before.
WindNeverFrozen == ~(heard.near /\ heard.nulled)

=============================================================================
