------------------------------- MODULE Sensors -------------------------------
(***************************************************************************)
(* From a data line of the receiver to a loop packet (rtldavis.py): the    *)
(* frame decoder parse_raw, the plausibility filter SensorQC with the      *)
(* co-rejection of a proven corrupt frame, the repeat test on dedup_key,   *)
(* and the frequency errors of channel hops that ride the next packet.     *)
(*                                                                         *)
(* A frame is a record of its bit fields: `mph` and `dir` are the bytes of *)
(* the anemometer, `raw` the number the bits of the message type stand for.*)
(* Readings are integers in the sensor's own resolution: tenths of a       *)
(* degree F, tenths of a percent, mph, fiftieths of a UV index, tenths of  *)
(* mm/h.  The radio may deliver the weather as it is, or any frame of      *)
(* Glitched: several wrong bits that the CRC did not catch.                *)
(***************************************************************************)
EXTENDS Integers, Sequences, FiniteSets, Functions

CONSTANTS
  Iss, Anemometer, TempHum1, TempHum2, LeafSoil,  \* configured channels, 0: not fitted
  EcSpeeds, EcAngles, EcTable,  \* windtab: grid, and corrections [speed][angle]
  MoistureMap, WetnessMap,  \* SM_MAP, LW_MAP: sequences of <<10 * raw, potential>>
  ThermistorCurve,  \* raw -> tenths of F, where the logarithm is defined
  RainPerTip,       \* hundredths of a mm
  ReseedSeconds,    \* QC_RESEED_SECONDS
  Weather,          \* the states of the sky: [speed, dir, temp]
  Ordinary,         \* message type -> raw of the types the sky does not vary
  Glitched,         \* frames with undetected bit errors
  Watched,          \* the keys the history counts for
  HopChannels, HopErrors,  \* channels and frequency errors of hop lines
  ShowPeriod,       \* how long the errors of one transmitter are stored
  MaxNow, MaxFrames, MaxHops, MaxStarts, MaxChanges   \* bounds

\* A dict of one item, and dict.update: the items of f over those of g.  (These are
\* the operators of the module TLC, which the provers do not look into.)
k :> v == [x \in {k} |-> v]
f @@ g == [x \in DOMAIN f \cup DOMAIN g |-> IF x \in DOMAIN f THEN f[x] ELSE g[x]]

Null == -9999        \* Python's None, outside every decoded range
NoKeys == [k \in {} |-> 0]

\* data key -> lowest, highest, largest step of a reading; Null: no step test.
Limits ==
  [k \in {"temperature", "temp_1", "temp_2", "humidity", "humid_1", "humid_2", "wind_speed",
          "wind_gust_10", "uv", "rain_rate", "solar_radiation"} |->
     CASE k \in {"temperature", "temp_1", "temp_2"} -> <<-400, 1490, 72>>
       [] k \in {"humidity", "humid_1", "humid_2"} -> <<0, 1000, 100>>
       [] k = "wind_speed" -> <<0, 199, 44>>
       [] k = "wind_gust_10" -> <<0, 199, Null>>
       [] k = "uv" -> <<0, 800, 400>>
       [] k = "rain_rate" -> <<0, 4064, Null>>
       [] k = "solar_radiation" -> <<0, 1800, Null>>]

DeltaKeys == {k \in DOMAIN Limits : Limits[k][3] # Null}

WeatherKeys == DOMAIN Limits \cup {"wind_dir"}
BatteryKeys ==
  {"bat_iss", "bat_anemometer", "bat_th_1", "bat_th_2", "bat_leaf_soil"}
Impossible == "msg_type_impossible"

Configured == <<Iss, Anemometer, TempHum1, TempHum2, LeafSoil>>
Channels == Range(Configured) \ {0}

\* The receiver's index of a transmitter is its rank among the configured ones.
ActiveTrIds ==
  [i \in 1 .. Cardinality(Channels) |->
     (CHOOSE c \in Channels : Cardinality({d \in Channels : d <= c}) = i) - 1]

\* The bits of a frame.
Frames ==
  [ch : 0 .. 8, low : BOOLEAN, type : 0 .. 15, mph : 0 .. 255, dir : 0 .. 255,
   raw : 0 .. 4095, flag : BOOLEAN]

\* A grid that rises, and that ends beyond everything looked up in it.
Grid(grid, xs) ==
  /\ grid \in Seq(Int) /\ Len(grid) >= 2
  /\ \A i, j \in DOMAIN grid : i < j => grid[i] < grid[j]
  /\ \A x \in xs : \E i \in DOMAIN grid :
       grid[i] >= x /\ \A j \in 1 .. i - 1 : grid[j] < x

ASSUME SensorsAssumption ==
  /\ Channels # {} /\ Channels \subseteq 1 .. 8
  /\ Cardinality(Channels) = Len(SelectSeq(Configured, LAMBDA c : c # 0))
  /\ Watched \subseteq DeltaKeys
  /\ \A r \in DOMAIN ThermistorCurve : ThermistorCurve[r] \in Int \ {Null}
  /\ {RainPerTip, ReseedSeconds, MaxNow, MaxFrames, MaxHops, MaxStarts, MaxChanges}
       \subseteq Nat
  /\ ShowPeriod \in Nat \ {0}

ASSUME FramesAssumption ==
  /\ Grid(EcSpeeds, 3 .. 150) /\ Grid(EcAngles, 0 .. 128)
  /\ EcTable \in [DOMAIN EcSpeeds -> [DOMAIN EcAngles -> Int]]
  /\ Weather \subseteq [speed : 0 .. 255, dir : 0 .. 255, temp : 0 .. 4095]
  /\ DOMAIN Ordinary \subseteq 0 .. 15 /\ \A t \in DOMAIN Ordinary : Ordinary[t] \in 0 .. 4095
  /\ Glitched \subseteq Frames

VARIABLES
  now,
  sky,            \* the weather
  baseline,       \* SensorQC._baseline: key -> <<value, time>>
  lastPkt,        \* _last_pkt: the dedup key of the last packet
  pending,        \* _pending_freq_fields
  published,      \* the last packet yielded to the engine
  frames, hops, starts, changes,    \* history: for the bounds
  nulled, glitched, stepped,        \* history, per key with a step test
  wrong, wrongSeed,                 \* history, per key with a step test
  shown, latest   \* history, per hop channel: last error yielded, last one stored

readings == <<baseline, lastPkt, pending, published>>
history == <<frames, hops, starts, changes, nulled, glitched, stepped, wrong, wrongSeed,
             shown, latest>>
sensorsVars == <<now, sky, readings, history>>

------------------------------------------------------------------------------
(* parse_raw: each message type's own fields.                              *)

Bit(b) == IF b THEN 1 ELSE 0
Weatherly(f) == f.ch # 0 /\ f.ch \in {Iss, Anemometer, TempHum1, TempHum2}
WindChannel == IF Anemometer = 0 THEN Iss ELSE Anemometer

BatteryKey(ch) ==
  IF ch = Iss THEN "bat_iss" ELSE IF ch = Anemometer THEN "bat_anemometer"
  ELSE IF ch = TempHum1 THEN "bat_th_1" ELSE "bat_th_2"

\* The places of the grid that x lies between; both the same when it lies on one.
Bracket(grid, x) ==
  LET above == CHOOSE i \in DOMAIN grid :
                 grid[i] >= x /\ \A j \in 1 .. i - 1 : grid[j] < x
  IN  IF grid[above] = x THEN <<above, above>>
      ELSE IF above > 1 THEN <<above - 1, above>> ELSE <<1, 2>>

\* round(): a half goes to the even neighbour.
Rounded(num, den) ==
  LET q == num \div den
      r == 2 * (num % den)
  IN  IF r > den \/ (r = den /\ q % 2 = 1) THEN q + 1 ELSE q

\* The correction is bilinear, but on an angle of the table it is the one of the
\* lower speed; west is taken for the mirror image of east.
calc_wind_speed_ec(mph, angle) ==
  LET x == IF angle > 128 THEN 256 - angle ELSE angle
      s == Bracket(EcSpeeds, mph)
      a == Bracket(EcAngles, x)
      dy == IF s[1] = s[2] THEN 1 ELSE EcSpeeds[s[2]] - EcSpeeds[s[1]]
      dx == EcAngles[a[2]] - EcAngles[a[1]]
      at(j) == dy * EcTable[s[1]][j]   \* dy times the correction at an angle
               + (mph - EcSpeeds[s[1]]) * (EcTable[s[2]][j] - EcTable[s[1]][j])
  IN  IF mph \notin 3 .. 150 THEN mph
      ELSE IF dx = 0 THEN mph + EcTable[s[1]][a[1]]
      ELSE mph + Rounded(dx * at(a[1]) + (x - EcAngles[a[1]]) * (at(a[2]) - at(a[1])),
                         dx * dy)

\* The potentiometer of the Vantage Pro, in tenths of a degree.
WindDirection(raw) ==
  CASE raw = 0 -> 50 [] raw = 255 -> 3550 [] OTHER -> 90 + (3420 * (raw - 1)) \div 253

\* Raw speed up to 2 with direction 0 is the sensor's floor: calm, no direction.
WindFields(f) ==
  IF f.ch # WindChannel THEN NoKeys
  ELSE IF f.mph <= 2 /\ f.dir = 0
  THEN "wind_speed" :> 0 @@ "wind_dir" :> Null
  ELSE "wind_speed" :> calc_wind_speed_ec(f.mph, f.dir) @@ "wind_dir" :> WindDirection(f.dir)

\* A reading of the channel's own temperature or humidity sensor.
AtChannel(ch, first, second, own) ==
  IF ch = TempHum1 THEN first ELSE IF ch = TempHum2 THEN second ELSE own

\* Where the logarithm fails the decoder answers DEFAULT_SOIL_TEMP, 24 C.
ThermistorTemp(raw) ==
  IF raw \in DOMAIN ThermistorCurve THEN ThermistorCurve[raw] ELSE 752

\* The digital field is a 12-bit two's complement number of tenths of a degree F.
TemperatureFields(f) ==
  IF f.raw \in {4092, 4088} THEN NoKeys
  ELSE AtChannel(f.ch, "temp_1", "temp_2", "temperature") :>
         (IF ~f.flag THEN ThermistorTemp(f.raw \div 4)
          ELSE IF f.raw >= 2048 THEN f.raw - 4096 ELSE f.raw)

\* Tenths of a percent; the analog sensor's line is -0.301 raw + 710.23.
HumidityFields(f) ==
  IF f.raw = 0 \/ f.ch = Anemometer THEN NoKeys
  ELSE AtChannel(f.ch, "humid_1", "humid_2", "humidity") :>
         (IF f.flag THEN f.raw ELSE (710230 - 301 * f.raw) \div 100)

\* From the time between tips (flag: light rain), in tenths of mm/h.
RainRateFields(f) ==
  IF f.ch # Iss THEN NoKeys
  ELSE "rain_rate" :>
    (CASE f.raw = 1023 -> 0
       [] f.raw = 0 -> Null
       [] OTHER -> ((IF f.flag THEN 360 ELSE 5760) * RainPerTip) \div f.raw)

RainCountFields(f) ==
  IF f.ch # Iss \/ f.raw = 128 THEN NoKeys ELSE "rain_count" :> f.raw % 128

MessageFields(f) ==
  CASE f.type = 2 -> IF f.raw = 1023 THEN NoKeys ELSE "supercap_volt" :> f.raw
    [] f.type = 4 -> IF f.raw = 1023 THEN NoKeys ELSE "uv" :> f.raw
    [] f.type = 5 -> RainRateFields(f)
    [] f.type = 6 -> IF f.raw >= 1022 THEN NoKeys
                     ELSE "solar_radiation" :> (1757936 * f.raw) \div 1000000
    [] f.type = 7 -> IF f.raw = 1023 THEN NoKeys ELSE "solar_power" :> f.raw
    [] f.type = 8 -> TemperatureFields(f)
    [] f.type = 9 -> IF f.raw = 0 /\ ~f.flag THEN NoKeys ELSE "wind_gust_10" :> f.raw
    [] f.type = 10 -> HumidityFields(f)
    [] f.type = 14 -> RainCountFields(f)
    [] f.type \in {3, 12} -> NoKeys
    [] OTHER -> Impossible :> f.type

\* Between two points of the table a straight line, beyond its ends the end.
lookup_potential(map, norm) ==
  LET last == map[Len(map)]
      x == CHOOSE i \in DOMAIN map :
             norm < map[i][1] /\ \A j \in 1 .. i - 1 : norm >= map[j][1]
  IN  IF norm >= last[1] THEN last[2]
      ELSE IF x = 1 THEN map[1][2]
      ELSE map[x - 1][2] + ((norm - map[x - 1][1]) * (map[x][2] - map[x - 1][2]))
                             \div (map[x][1] - map[x - 1][1])

\* The leaf and soil station (flag: soil): a temperature, unless its byte says
\* that none is fitted, and a potential from the byte `dir`, in soil corrected by
\* 0.9 % for each degree from 24 C.
LeafSoilFields(f) ==
  LET fitted == f.raw \div 4 # 255
      temp == ThermistorTemp(IF fitted THEN f.raw ELSE Null)
  IN  "bat_leaf_soil" :> Bit(f.low) @@
      (IF f.type # 15 \/ ~fitted THEN NoKeys
       ELSE (IF f.flag THEN "soil_temp" ELSE "leaf_temp") :> temp) @@
      (CASE f.type = 15 /\ f.flag /\ f.dir # 255 ->
              "soil_moisture" :>
                lookup_potential(MoistureMap, (40 * f.dir * (1248 + temp)) \div 2000)
         [] f.type = 15 /\ ~f.flag /\ f.dir # 0 ->
              "leaf_wetness" :> lookup_potential(WetnessMap, 40 * f.dir)
         [] OTHER -> NoKeys)

parse_raw(f) ==
  "channel" :> f.ch @@
  (IF Weatherly(f)
   THEN BatteryKey(f.ch) :> Bit(f.low) @@ WindFields(f) @@ MessageFields(f)
   ELSE IF f.ch = LeafSoil THEN LeafSoilFields(f) ELSE NoKeys)

------------------------------------------------------------------------------
(* The plausibility filter.                                                *)

Distance(a, b) == IF a < b THEN b - a ELSE a - b
Reads(data, k) == k \in DOMAIN data /\ data[k] # Null

\* check_bounds: the sensor cannot report this value.
OutOfBounds(data, k) ==
  Reads(data, k) /\ (data[k] < Limits[k][1] \/ data[k] > Limits[k][2])

\* One impossible value, or a message type no transmitter sends, and every
\* field of the frame is suspect.
Proven(data) ==
  (\E k \in DOMAIN Limits : OutOfBounds(data, k)) \/ Impossible \in DOMAIN data

CoRejected(data) ==
  [k \in DOMAIN data |-> IF k \in WeatherKeys \cup BatteryKeys THEN Null ELSE data[k]]

\* check_delta against a baseline no older than ReseedSeconds.
Fresh(k) == k \in DOMAIN baseline /\ now - baseline[k][2] <= ReseedSeconds
\* Mutant: a rise only.
MutJumps(data, k) ==
  Reads(data, k) /\ Fresh(k) /\ data[k] - baseline[k][1] > Limits[k][3]
Jumps(data, k) ==
  Reads(data, k) /\ Fresh(k) /\ Distance(data[k], baseline[k][1]) > Limits[k][3]

Vetted(data) ==
  [k \in DOMAIN data |->
     IF \/ k \in DeltaKeys /\ Jumps(data, k)
        \/ k = "wind_dir" /\ Jumps(data, "wind_speed")
     THEN Null ELSE data[k]]

\* Mutant: a rejected reading leaves the baseline where it was.
MutResynced(data) ==
  [k \in {k \in DeltaKeys : Reads(data, k) /\ ~Jumps(data, k)} |-> <<data[k], now>>]
  @@ baseline
\* The baseline moves to a rejected reading too, never to a proven corrupt one.
Resynced(data) ==
  [k \in {k \in DeltaKeys : Reads(data, k)} |-> <<data[k], now>>] @@ baseline

\* _data_to_packet: the mapped keys; the counter of a corrupt frame books nothing.
ToPacket(data, freq, corrupt) ==
  [data |-> [k \in DOMAIN data \ {"channel", "temp_1", "temp_2", Impossible} |->
               IF k = "rain_count" /\ corrupt THEN Null ELSE data[k]],
   freq |-> freq, corrupt |-> corrupt]

NoPacket == ToPacket(NoKeys, NoKeys, FALSE)

------------------------------------------------------------------------------
(* The radio.                                                              *)

Genuine(s) ==
  {[ch |-> IF t = 15 THEN LeafSoil ELSE Iss, low |-> FALSE, type |-> t,
    mph |-> s.speed, dir |-> s.dir,
    raw |-> IF t = 8 THEN s.temp ELSE Ordinary[t], flag |-> TRUE]
   : t \in {8} \cup DOMAIN Ordinary}

Delivered == Glitched \cup UNION {Genuine(s) : s \in Weather}

\* What each frame decodes to.
Decoded == [f \in Delivered |-> parse_raw(f)]

\* The reading each sky calls for; Null where no sensor is fitted.
TrueReadings ==
  [s \in Weather |-> [k \in Watched |->
    IF \E f \in Genuine(s) : k \in DOMAIN Decoded[f]
    THEN Decoded[CHOOSE f \in Genuine(s) : k \in DOMAIN Decoded[f]][k]
    ELSE Null]]
Truth(k) == TrueReadings[sky][k]

\* The transmitter whose errors are stored: each in turn, for ShowPeriod.
TransmToStore ==
  ActiveTrIds[((now % (ShowPeriod * Len(ActiveTrIds))) \div ShowPeriod) + 1]

Count(counter, keys) ==
  [k \in Watched |-> IF k \in keys THEN counter[k] + 1 ELSE counter[k]]

Zero == [k \in Watched |-> 0]

NewDriver ==
  /\ baseline' = NoKeys /\ lastPkt' = <<NoKeys, NoKeys>> /\ pending' = NoKeys
  /\ shown' = NoKeys /\ latest' = NoKeys
  /\ starts' = starts + 1

SensorsInit ==
  /\ now = 0 /\ sky \in Weather
  /\ baseline = NoKeys /\ lastPkt = <<NoKeys, NoKeys>> /\ pending = NoKeys
  /\ published = NoPacket
  /\ frames = 0 /\ hops = 0 /\ starts = 0 /\ changes = 0
  /\ nulled = Zero /\ glitched = Zero /\ stepped = Zero
  /\ wrong = Zero /\ wrongSeed = Zero
  /\ shown = NoKeys /\ latest = NoKeys

\* A hop's error waits for the next data line, and joins it exactly once.
CachePendingFreqFields(fields) == fields @@ pending
MergePendingFreqFields(data) == <<data, pending>>

\* dedup_key: the reading and the errors that joined it, without the counters.
\* Mutant: the test misses the errors.
MutIsRepeat(data) == lastPkt[1] = data
IsRepeat(data) == lastPkt = MergePendingFreqFields(data)

\* genLoopPackets on a data line: the pending errors join the reading, a repeat
\* of the last packet is dropped, anything else is vetted and yielded.
DataLine(f) ==
  LET data == Decoded[f]
      corrupt == Proven(data)
      vetted == IF corrupt THEN CoRejected(data) ELSE Vetted(data)
      isWrong(k) == Reads(data, k) /\ data[k] # Truth(k)
  IN /\ frames < MaxFrames /\ frames' = frames + 1
     /\ pending' = NoKeys
     /\ IF IsRepeat(data)
        THEN UNCHANGED <<baseline, lastPkt, published, nulled, glitched, wrong,
                         wrongSeed, shown>>
        ELSE /\ lastPkt' = MergePendingFreqFields(data)
             /\ baseline' = IF corrupt THEN baseline ELSE Resynced(data)
             /\ published' = ToPacket(vetted, pending, corrupt)
             /\ shown' = pending @@ shown
             /\ nulled' = Count(nulled, {k \in Watched : ~corrupt /\ Jumps(data, k)})
             /\ glitched' = Count(glitched, {k \in Watched : ~corrupt /\ isWrong(k)})
             /\ wrong' = Count(wrong, {k \in Watched :
                  /\ Reads(published'.data, k) /\ isWrong(k)
                  /\ Truth(k) # Null => Distance(data[k], Truth(k)) > Limits[k][3]})
             /\ wrongSeed' = Count(wrongSeed, {k \in Watched :
                  ~corrupt /\ isWrong(k) /\ ~Fresh(k)})
     /\ UNCHANGED <<now, sky, hops, starts, changes, stepped, latest>>

StoredError(c, e, tx) ==
  IF tx = TransmToStore /\ c \in 0 .. 4 THEN c :> e ELSE NoKeys

\* A hop line: its error is kept when it is the stored transmitter's and of one
\* of the five kept channels; an absurd one makes WeeWX start the driver anew.
HopLine(c, e, tx) ==
  /\ hops < MaxHops /\ hops' = hops + 1
  /\ IF Distance(e, 0) > 20000
     THEN starts < MaxStarts /\ NewDriver
     ELSE LET stored == StoredError(c, e, tx)
          IN /\ pending' = CachePendingFreqFields(stored)
             /\ latest' = stored @@ latest
             /\ UNCHANGED <<baseline, lastPkt, shown, starts>>
  /\ UNCHANGED <<now, sky, published, frames, changes, nulled, glitched, stepped,
                 wrong, wrongSeed>>

WeatherChanges ==
  /\ changes < MaxChanges /\ changes' = changes + 1
  /\ sky' \in Weather \ {sky}
  /\ stepped' = Count(stepped, {k \in Watched : Truth(k) # TrueReadings[sky'][k]})
  /\ UNCHANGED <<now, readings, frames, hops, starts, nulled, glitched,
                 wrong, wrongSeed, shown, latest>>

Tick ==
  /\ now < MaxNow /\ now' = now + 1
  /\ UNCHANGED <<sky, readings, history>>

SensorsNext ==
  \/ \E f \in Genuine(sky) \cup Glitched : DataLine(f)
  \/ \E c \in HopChannels, e \in HopErrors, i \in DOMAIN ActiveTrIds :
       HopLine(c, e, ActiveTrIds[i])
  \/ WeatherChanges \/ Tick

SensorsSpec == SensorsInit /\ [][SensorsNext]_sensorsVars

------------------------------------------------------------------------------
(* Properties.                                                             *)

\* Every reading the step test nulls is paid for: by a glitched reading, which
\* may cost itself and the true one after it, or by a change of the weather,
\* which costs one.  In particular the filter never freezes on an old baseline,
\* and a proven corrupt frame, which moves no baseline, costs nobody's reading.
NullsPaidFor ==
  \A k \in Watched : nulled[k] <= 2 * glitched[k] + stepped[k]

\* A lone glitch is not published: a value further from the truth than the step
\* limit needs a second glitched reading of the same sensor, a change of the
\* weather, or a glitch that was met without a fresh baseline.
GlitchHeldBack ==
  \A k \in Watched :
    wrong[k] > 0 => glitched[k] >= 2 \/ stepped[k] > 0 \/ wrongSeed[k] > 0

\* No frequency error is lost between the hop and the packet, not when it joins
\* a packet that is then dropped as a repeat: the last one stored on a channel
\* still waits, or is the last one yielded.
FreqNotLost ==
  \A c \in DOMAIN latest :
    c \in DOMAIN pending \/ (c \in DOMAIN shown /\ shown[c] = latest[c])
==============================================================================
