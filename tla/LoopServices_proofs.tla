------------------------- MODULE LoopServices_proofs -------------------------
(***************************************************************************)
(* Proofs about the loop services, for every time-out, interval and limit, *)
(* any set of slow sensors, any number of fetch threads and any wind.      *)
(***************************************************************************)
EXTENDS LoopServices, TLAPS

Asked(n) == [pc : {"asked"}, since : 0 .. n]
Answered(n) ==
  [pc : {"answered", "pressure", "success"}, since : 0 .. n, val : 0 .. n, absolute : BOOLEAN]

\* What an answer can do to the pressure p at the time n, before the clock moves.
InTime(s, n, p) ==
  \/ s = Idle
  \/ s \in Asked(n) /\ n - s.since <= AnswerMax
  \/ /\ s \in Answered(n) /\ n - s.since <= AnswerMax
     /\ s.since <= s.val
     /\ s.pc = "pressure" => p # None /\ n - p <= AnswerMax

ThreadInv ==
  DOMAIN fetch = Threads /\ \A t \in Threads : InTime(fetch[t], now, lastPressure)

\* The epoch of the last success is hardly ahead of the pressure it is about.
EpochInv ==
  /\ lastPressure \in Nat \cup {None}
  /\ lastSuccess \in (0 .. now) \cup {None}
  /\ lastSuccess # None => lastPressure # None /\ lastSuccess - lastPressure <= AnswerMax

\* What the cacher keeps of a reading is the time it was taken.
TrueCache(c) ==
  \A f \in Slow : c[f] = NoEntry \/ \E t \in 0 .. now : c[f] = [val |-> t, seen |-> t]

CacheInv == TrueCache(cache)

\* How old a reading may be when a packet brings it.
Slack(k) == IF k = "windSpeed" THEN 0 ELSE CACHE_TIMEOUT_SECONDS

Measured == Keys \ {"barometer"}

PacketInv ==
  packet # NoPacket =>
    /\ packet.at = now
    /\ \A k \in Measured : packet.val[k] # None =>
         packet.val[k] \in Int /\ now - packet.val[k] <= Slack(k)
    /\ ~raced /\ lastSuccess # None =>
         /\ packet.val["barometer"] # None /\ packet.val["barometer"] \in Int
         /\ lastSuccess - packet.val["barometer"] <= AnswerMax

WrittenInv ==
  \A k \in Measured : written[k].val # None =>
    /\ written[k].val \in Int /\ written[k].seen \in Int
    /\ written[k].seen - written[k].val <= Slack(k)

\* Once a possible wind has been heard with a baseline in place, the baseline is
\* that wind, accepted or not.
WindInv ==
  /\ heard.warm \in BOOLEAN
  /\ heard.warm => heard.speed \in Nat /\ baseline.n = 1 /\ baseline.sum = heard.speed

LoopInv ==
  /\ now \in Nat /\ raced \in BOOLEAN
  /\ ThreadInv /\ EpochInv
  /\ CacheInv /\ PacketInv /\ WrittenInv
  /\ WindInv
  /\ ServedAge /\ EpochReveals /\ WindNeverFrozen

------------------------------------------------------------------------------
(* The operators. *)

LEMMA Limits ==
  /\ CACHE_TIMEOUT_SECONDS \in Nat /\ TtlDefault \in Nat /\ AnswerMax \in Nat
  /\ MAX_WIND_DELTA \in Nat /\ MAX_PLAUSIBLE_WIND_SPEED \in Nat
  /\ Slow \cap {"dewpoint", "windSpeed", "barometer", "pressure"} = {}
  /\ {"outTemp", "outHumidity"} \subseteq Slow
BY LoopServicesAssumption

LEMMA MinOfTwo ==
  ASSUME NEW a \in Int, NEW b \in Int
  PROVE  Min({a, b}) \in {a, b}
<1>1. CASE a <= b
  <2>1. \A y \in {a, b} : a <= y
    BY <1>1
  <2>2. QED
    BY <2>1 DEF Min
<1>2. CASE b <= a
  <2>1. \A y \in {a, b} : b <= y
    BY <1>2
  <2>2. QED
    BY <2>1 DEF Min
<1>3. QED
  BY <1>1, <1>2

\* A cached reading that is served is no older than the time-out.
LEMMA Cached ==
  ASSUME now \in Nat, NEW c, TrueCache(c), NEW f \in Slow, CacheGet(c, f) # None
  PROVE  CacheGet(c, f) \in Nat /\ now - CacheGet(c, f) <= CACHE_TIMEOUT_SECONDS
<1>1. PICK t \in 0 .. now : c[f] = [val |-> t, seen |-> t]
  BY DEF TrueCache, CacheGet, NoEntry
<1>2. CacheGet(c, f) = t /\ ~(now - t > CACHE_TIMEOUT_SECONDS)
  BY <1>1 DEF CacheGet
<1>3. QED
  BY <1>2, Limits

\* What a packet brings, bridged or new.
LEMMA FillsFresh ==
  ASSUME now \in Nat, NEW c, TrueCache(c), NEW wind \in {None, now}
  PROVE  /\ Filled(c, wind)["barometer"] = lastPressure
         /\ \A k \in Measured : Filled(c, wind)[k] # None =>
              Filled(c, wind)[k] \in Int /\ now - Filled(c, wind)[k] <= Slack(k)
<1>1. Filled(c, wind)["barometer"] = lastPressure
  BY Limits DEF Filled, Keys, Injected
<1>2. \A k \in Slow : k \in Measured /\ Filled(c, wind)[k] = CacheGet(c, k)
                      /\ Slack(k) = CACHE_TIMEOUT_SECONDS
  BY Limits DEF Filled, Keys, Measured, Slack
<1>3. Filled(c, wind)["dewpoint"] = Dewpoint(c) /\ Slack("dewpoint") = CACHE_TIMEOUT_SECONDS
  BY Limits DEF Filled, Keys, Slack
<1>4. Filled(c, wind)["windSpeed"] = wind /\ Slack("windSpeed") = 0
  BY Limits DEF Filled, Keys, Slack
<1>5. \A k \in Measured : k \in Slow \/ k = "dewpoint" \/ k = "windSpeed"
  BY DEF Measured, Keys
<1>6. Dewpoint(c) # None =>
        Dewpoint(c) \in Int /\ now - Dewpoint(c) <= CACHE_TIMEOUT_SECONDS
  <2> SUFFICES ASSUME Dewpoint(c) # None
               PROVE  Dewpoint(c) \in Int /\ now - Dewpoint(c) <= CACHE_TIMEOUT_SECONDS
    OBVIOUS
  <2> DEFINE a == CacheGet(c, "outTemp")
             b == CacheGet(c, "outHumidity")
  <2>1. a # None /\ b # None /\ Dewpoint(c) = Min({a, b})
    BY DEF Dewpoint
  <2>2. /\ a \in Nat /\ now - a <= CACHE_TIMEOUT_SECONDS
        /\ b \in Nat /\ now - b <= CACHE_TIMEOUT_SECONDS
    BY <2>1, Limits, Cached
  <2> HIDE DEF a, b
  <2>3. Min({a, b}) \in {a, b}
    BY <2>2, MinOfTwo
  <2>4. QED
    BY <2>1, <2>2, <2>3
<1>7. wind # None => wind \in Int /\ now - wind <= 0
  OBVIOUS
<1>8. \A k \in Slow : Filled(c, wind)[k] # None =>
        Filled(c, wind)[k] \in Int /\ now - Filled(c, wind)[k] <= Slack(k)
  BY <1>2, Cached
<1>9. QED
  BY <1>1, <1>3, <1>4, <1>5, <1>6, <1>7, <1>8

\* A step of the wind is measured against the wind heard last: the second of two
\* that are close to each other passes.
LEMMA CloseWindPasses ==
  ASSUME WindInv, NEW w, Possible(w), w.speed # None, heard.warm,
         w.speed - heard.speed \in -MAX_WIND_DELTA .. MAX_WIND_DELTA
  PROVE  ~FilterWind(w).nulled
<1>1. w.speed \in Nat /\ heard.speed \in Nat /\ baseline.n = 1 /\ baseline.sum = heard.speed
  BY Limits DEF Possible, WindInv
<1>2. FilterWind(w) = DeltaTest(w.speed)
  BY <1>1 DEF FilterWind
<1>3. Distance(baseline, w.speed) <= MAX_WIND_DELTA * baseline.n
  BY <1>1, Limits DEF Distance
<1>4. FilterWind(w).nulled = /\ now - baseline.at <= WIND_BASELINE_TTL_SECONDS
                             /\ Distance(baseline, w.speed) > MAX_WIND_DELTA * baseline.n
  BY <1>2 DEF DeltaTest, Verdict
<1>5. Distance(baseline, w.speed) \in Int /\ MAX_WIND_DELTA * baseline.n \in Int
  BY <1>1, Limits DEF Distance
<1>6. QED
  BY <1>3, <1>4, <1>5

------------------------------------------------------------------------------
(* The steps. *)

\* One thread moves on.
LEMMA ThreadMoves ==
  ASSUME ThreadInv, NEW t \in Threads, NEW s, Goes(t, s), InTime(s, now', lastPressure'),
         \A u \in Threads : InTime(fetch[u], now, lastPressure)
                              => InTime(fetch[u], now', lastPressure')
  PROVE  ThreadInv'
<1>1. DOMAIN fetch' = Threads
  BY DEF ThreadInv, Goes
<1>2. \A u \in Threads : fetch'[u] = IF u = t THEN s ELSE fetch[u]
  BY DEF ThreadInv, Goes
<1>3. \A u \in Threads : u # t => InTime(fetch'[u], now', lastPressure')
  BY <1>2 DEF ThreadInv
<1>4. QED
  BY <1>1, <1>2, <1>3 DEF ThreadInv

\* A new answer to the same question: the pressure is that of another thread.
LEMMA AnotherPressure ==
  ASSUME NEW s, NEW n, NEW p, NEW q, InTime(s, n, p), q # None, n - q <= AnswerMax
  PROVE  InTime(s, n, q)
BY DEF InTime

LEMMA ThreadStep ==
  ASSUME now \in Nat, ThreadInv, EpochInv, [Next]_vars
  PROVE  ThreadInv' /\ EpochInv'
<1> USE DEF cacher, fetcher, writer
<1>1. CASE UNCHANGED <<now, fetch, lastPressure, lastSuccess>>
  BY <1>1 DEF ThreadInv, EpochInv
<1>2. ASSUME NEW w, NEW brought, NewLoopPacket(w, brought) PROVE ThreadInv' /\ EpochInv'
  <2>1. UNCHANGED <<now, lastPressure, lastSuccess>> /\ StartFetch
    BY <1>2 DEF NewLoopPacket
  <2>2. CASE UNCHANGED fetch
    BY <1>1, <2>1, <2>2
  <2>3. CASE ~UNCHANGED fetch
    <3>1. PICK t \in Threads : Goes(t, [pc |-> "asked", since |-> now])
      BY <2>1, <2>3 DEF StartFetch, Goes
    <3>2. InTime([pc |-> "asked", since |-> now], now', lastPressure')
      BY <2>1, Limits DEF InTime, Asked
    <3>3. ThreadInv'
      BY <2>1, <3>1, <3>2, ThreadMoves
    <3>4. QED
      BY <2>1, <3>3 DEF EpochInv
  <2>4. QED
    BY <2>2, <2>3
<1>3. ASSUME NEW t \in Threads, Answer(t) PROVE ThreadInv' /\ EpochInv'
  <2>1. UNCHANGED <<now, lastPressure, lastSuccess>>
    BY <1>3 DEF Answer
  <2>2. PICK absolute \in BOOLEAN :
          Goes(t, [pc |-> "answered", since |-> fetch[t].since, val |-> now,
                   absolute |-> absolute])
    BY <1>3 DEF Answer
  <2>3. fetch[t] \in Asked(now) /\ now - fetch[t].since <= AnswerMax
    BY <1>3 DEF Answer, ThreadInv, InTime, Idle, Answered
  <2>4. InTime([pc |-> "answered", since |-> fetch[t].since, val |-> now,
                absolute |-> absolute], now', lastPressure')
    BY <2>1, <2>3 DEF InTime, Asked, Answered
  <2>5. ThreadInv'
    BY <2>1, <2>2, <2>4, ThreadMoves
  <2>6. QED
    BY <2>1, <2>5 DEF EpochInv
<1>4. ASSUME NEW t \in Threads, FetchFails(t) PROVE ThreadInv' /\ EpochInv'
  <2>1. UNCHANGED <<now, lastPressure, lastSuccess>> /\ Goes(t, Idle)
    BY <1>4 DEF FetchFails
  <2>2. InTime(Idle, now', lastPressure')
    BY DEF InTime
  <2>3. ThreadInv'
    BY <2>1, <2>2, ThreadMoves
  <2>4. QED
    BY <2>1, <2>3 DEF EpochInv
<1>5. ASSUME NEW t \in Threads, Publish(t) PROVE ThreadInv' /\ EpochInv'
  <2>1. now' = now
    BY <1>5 DEF Publish
  <2>2. CASE SetPressure(t)
    <3>1. /\ fetch[t].pc = "answered" /\ Goes(t, [fetch[t] EXCEPT !.pc = "pressure"])
          /\ lastPressure' = fetch[t].val /\ lastSuccess' = lastSuccess
      BY <2>2 DEF SetPressure
    <3>2. /\ fetch[t] \in Answered(now) /\ now - fetch[t].since <= AnswerMax
          /\ fetch[t].since <= fetch[t].val
      BY <3>1 DEF ThreadInv, InTime, Idle, Asked
    <3>3. fetch[t].val \in 0 .. now /\ fetch[t].since \in 0 .. now
      BY <3>2 DEF Answered
    <3>4. lastPressure' \in Nat /\ lastPressure' # None /\ now - lastPressure' <= AnswerMax
      BY <3>1, <3>2, <3>3, Limits DEF None
    <3>5. [fetch[t] EXCEPT !.pc = "pressure"] \in Answered(now)
          /\ [fetch[t] EXCEPT !.pc = "pressure"].since = fetch[t].since
          /\ [fetch[t] EXCEPT !.pc = "pressure"].val = fetch[t].val
      BY <3>2 DEF Answered
    <3>6. InTime([fetch[t] EXCEPT !.pc = "pressure"], now', lastPressure')
      BY <2>1, <3>2, <3>4, <3>5 DEF InTime
    <3>7. ThreadInv'
      BY <2>1, <3>1, <3>4, <3>6, ThreadMoves, AnotherPressure
    <3>8. lastSuccess # None => lastSuccess <= now
      BY DEF EpochInv
    <3>9. EpochInv'
      BY <2>1, <3>1, <3>4, <3>8, Limits DEF EpochInv
    <3>10. QED
      BY <3>7, <3>9
  <2>3. CASE SetSuccess(t)
    <3>1. /\ fetch[t].pc = "pressure" /\ Goes(t, [fetch[t] EXCEPT !.pc = "success"])
          /\ lastPressure' = lastPressure /\ lastSuccess' = now
      BY <2>3 DEF SetSuccess
    <3>2. /\ fetch[t] \in Answered(now) /\ now - fetch[t].since <= AnswerMax
          /\ fetch[t].since <= fetch[t].val
          /\ lastPressure # None /\ now - lastPressure <= AnswerMax
      BY <3>1 DEF ThreadInv, InTime, Idle, Asked
    <3>3. [fetch[t] EXCEPT !.pc = "success"] \in Answered(now)
          /\ [fetch[t] EXCEPT !.pc = "success"].since = fetch[t].since
          /\ [fetch[t] EXCEPT !.pc = "success"].val = fetch[t].val
          /\ [fetch[t] EXCEPT !.pc = "success"].pc = "success"
      BY <3>2 DEF Answered
    <3>4. InTime([fetch[t] EXCEPT !.pc = "success"], now', lastPressure')
      BY <2>1, <3>2, <3>3 DEF InTime
    <3>5. ThreadInv'
      BY <2>1, <3>1, <3>4, ThreadMoves
    <3>6. EpochInv'
      BY <2>1, <3>1, <3>2 DEF EpochInv
    <3>7. QED
      BY <3>5, <3>6
  <2>4. CASE SetStation(t)
    <3>1. UNCHANGED <<lastPressure, lastSuccess>> /\ Goes(t, Idle)
      BY <2>4 DEF SetStation
    <3>2. InTime(Idle, now', lastPressure')
      BY DEF InTime
    <3>3. ThreadInv'
      BY <2>1, <3>1, <3>2, ThreadMoves
    <3>4. QED
      BY <2>1, <3>1, <3>3 DEF EpochInv
  <2>5. QED
    BY <1>5, <2>2, <2>3, <2>4 DEF Publish
<1>6. CASE FinishPacket
  BY <1>1, <1>6 DEF FinishPacket
<1>7. CASE Tick
  <2>1. /\ now' = now + 1 /\ UNCHANGED <<fetch, lastPressure, lastSuccess>>
        /\ \A t \in Threads : /\ fetch[t].pc \in {"idle", "asked", "answered"}
                              /\ fetch[t] # Idle => now - fetch[t].since < AnswerMax
    BY <1>7 DEF Tick
  <2>2. ASSUME NEW t \in Threads PROVE InTime(fetch[t], now', lastPressure')
    <3>1. CASE fetch[t] = Idle
      BY <3>1 DEF InTime
    <3>2. CASE fetch[t] \in Asked(now)
      <4>1. fetch[t] # Idle /\ fetch[t] \in Asked(now') /\ fetch[t].since \in 0 .. now
        BY <2>1, <3>2 DEF Asked, Idle
      <4>2. now' - fetch[t].since <= AnswerMax
        BY <2>1, <4>1, Limits
      <4>3. QED
        BY <4>1, <4>2 DEF InTime
    <3>3. CASE fetch[t] \in Answered(now) /\ fetch[t].since <= fetch[t].val
      <4>1. fetch[t] # Idle /\ fetch[t] \in Answered(now') /\ fetch[t].since \in 0 .. now
        BY <2>1, <3>3 DEF Answered, Idle
      <4>2. now' - fetch[t].since <= AnswerMax
        BY <2>1, <4>1, Limits
      <4>3. QED
        BY <2>1, <3>3, <4>1, <4>2 DEF InTime
    <3>4. QED
      BY <3>1, <3>2, <3>3 DEF ThreadInv, InTime
  <2>3. ThreadInv' /\ EpochInv'
    BY <2>1, <2>2 DEF ThreadInv, EpochInv
  <2>4. QED
    BY <2>3
<1>8. CASE Restart
  BY <1>8 DEF Restart, NoFetch, ThreadInv, InTime, EpochInv
<1>9. CASE UNCHANGED vars
  BY <1>1, <1>9 DEF vars
<1>10. QED
  BY <1>2, <1>3, <1>4, <1>5, <1>6, <1>7, <1>8, <1>9 DEF Next

LEMMA CacheStep ==
  ASSUME now \in Nat, CacheInv, [Next]_vars
  PROVE  CacheInv'
<1> USE DEF cacher
<1>1. CASE UNCHANGED <<now, cache>>
  BY <1>1 DEF CacheInv, TrueCache
<1>2. ASSUME NEW w, NEW brought, NewLoopPacket(w, brought) PROVE CacheInv'
  <2>1. now' = now /\ cache' = Remembered(brought)
    BY <1>2 DEF NewLoopPacket
  <2>2. QED
    BY <2>1 DEF CacheInv, TrueCache, Remembered
<1>3. CASE Tick
  BY <1>3 DEF Tick, CacheInv, TrueCache
<1>4. CASE Restart
  BY <1>4 DEF Restart, NoCache, CacheInv, TrueCache
<1>5. CASE FinishPacket \/ \E t \in Threads : Answer(t) \/ FetchFails(t) \/ Publish(t)
  BY <1>1, <1>5 DEF FinishPacket, Answer, FetchFails, Publish
<1>6. CASE UNCHANGED vars
  BY <1>1, <1>6 DEF vars
<1>7. QED
  BY <1>2, <1>3, <1>4, <1>5, <1>6 DEF Next

\* A packet brings what is fresh, and the last pressure there was when it came.
LEMMA PacketStep ==
  ASSUME now \in Nat, raced \in BOOLEAN, EpochInv, CacheInv, PacketInv, [Next]_vars
  PROVE  PacketInv' /\ raced' \in BOOLEAN
<1> USE DEF cacher, fetcher, writer
<1>1. CASE UNCHANGED <<now, packet, lastSuccess, raced>>
  BY <1>1 DEF PacketInv
<1>2. ASSUME NEW w, NEW brought, NewLoopPacket(w, brought) PROVE PacketInv' /\ raced' \in BOOLEAN
  <2> DEFINE wind == IF FilterWind(w).nulled \/ w.speed = None THEN None ELSE now
             c == Remembered(brought)
  <2>1. /\ UNCHANGED <<now, lastPressure, lastSuccess>> /\ raced' = FALSE
        /\ packet' = [at |-> now, val |-> Filled(c, wind)] /\ cache' = c
    BY <1>2 DEF NewLoopPacket
  <2>2. wind \in {None, now}
    OBVIOUS
  <2>3. TrueCache(c)
    <3>1. \A f \in Slow : c[f] = IF f \in brought THEN [val |-> now, seen |-> now] ELSE cache[f]
      BY DEF Remembered
    <3>2. now \in 0 .. now
      OBVIOUS
    <3>3. QED
      BY <3>1, <3>2 DEF CacheInv, TrueCache
  <2> HIDE DEF wind, c
  <2>4. /\ packet'.val["barometer"] = lastPressure
        /\ \A k \in Measured : packet'.val[k] # None =>
             packet'.val[k] \in Int /\ now - packet'.val[k] <= Slack(k)
    BY <2>1, <2>2, <2>3, FillsFresh
  <2>5. raced' \in BOOLEAN
    BY <2>1
  <2>6. lastSuccess # None => lastPressure # None /\ lastPressure \in Int
                              /\ lastSuccess - lastPressure <= AnswerMax
    BY DEF EpochInv
  <2>7. packet'.at = now /\ now' = now /\ lastSuccess' = lastSuccess
    BY <2>1
  <2>8. PacketInv'
    BY <2>4, <2>6, <2>7 DEF PacketInv
  <2>9. QED
    BY <2>5, <2>8
<1>3. ASSUME NEW t \in Threads, Publish(t) PROVE PacketInv' /\ raced' \in BOOLEAN
  <2>1. UNCHANGED <<now, packet>>
    BY <1>3 DEF Publish
  <2>2. CASE SetSuccess(t)
    <3>1. raced' = (raced \/ packet # NoPacket)
      BY <2>2 DEF SetSuccess
    <3>2. raced' \in BOOLEAN
      BY <3>1
    <3>3. QED
      BY <2>1, <3>1, <3>2 DEF PacketInv
  <2>3. CASE SetPressure(t) \/ SetStation(t)
    BY <1>1, <2>1, <2>3 DEF SetPressure, SetStation
  <2>4. QED
    BY <1>3, <2>2, <2>3 DEF Publish
<1>4. CASE FinishPacket
  BY <1>4 DEF FinishPacket, PacketInv
<1>5. CASE Tick
  BY <1>5 DEF Tick, PacketInv
<1>6. CASE Restart
  <2>1. packet' = NoPacket /\ raced' = FALSE
    BY <1>6 DEF Restart
  <2>2. QED
    BY <2>1 DEF PacketInv
<1>7. CASE \E t \in Threads : Answer(t) \/ FetchFails(t)
  BY <1>1, <1>7 DEF Answer, FetchFails
<1>8. CASE UNCHANGED vars
  BY <1>1, <1>8 DEF vars
<1>9. QED
  BY <1>2, <1>3, <1>4, <1>5, <1>6, <1>7, <1>8 DEF Next

\* The writer's cache adds its own time-out to the age of what a packet brought.
LEMMA WriterStep ==
  ASSUME now \in Nat, PacketInv, WrittenInv, ServedAge, EpochReveals, [Next]_vars
  PROVE  WrittenInv' /\ ServedAge' /\ EpochReveals'
<1> USE DEF cacher, fetcher, writer
<1>1. CASE UNCHANGED writer
  BY <1>1 DEF WrittenInv, ServedAge, EpochReveals, Present
<1>2. CASE FinishPacket
  <2>1. packet # NoPacket /\ written' = Kept /\ (loopData' = Payload(Kept) \/ loopData' = loopData)
    BY <1>2 DEF FinishPacket
  <2>2. packet.at = now
    BY <2>1 DEF PacketInv
  <2>3. \A k \in Measured : Kept[k].val # None =>
          /\ Kept[k].val \in Int /\ Kept[k].seen \in Int
          /\ Kept[k].seen - Kept[k].val <= Slack(k)
    <3> SUFFICES ASSUME NEW k \in Measured, Kept[k].val # None
                 PROVE  /\ Kept[k].val \in Int /\ Kept[k].seen \in Int
                        /\ Kept[k].seen - Kept[k].val <= Slack(k)
      OBVIOUS
    <3>1. CASE packet.val[k] # None
      <4>1. Kept[k].val = packet.val[k] /\ Kept[k].seen = now
        BY <2>2, <3>1 DEF Kept, Measured
      <4>2. packet.val[k] \in Int /\ now - packet.val[k] <= Slack(k)
        BY <2>1, <3>1 DEF PacketInv
      <4>3. QED
        BY <4>1, <4>2
    <3>2. CASE packet.val[k] = None
      <4>1. Kept[k] = written[k]
        BY <3>2 DEF Kept, Measured
      <4>2. QED
        BY <4>1 DEF WrittenInv
    <3>3. QED
      BY <3>1, <3>2
  <2>4. WrittenInv'
    BY <2>1, <2>3 DEF WrittenInv
  <2>5. CASE loopData' = loopData
    BY <2>4, <2>5 DEF ServedAge, EpochReveals, Present
  <2>6. CASE loopData' = Payload(Kept)
    <3>1. /\ loopData'.at = now /\ loopData'.epoch = lastSuccess /\ loopData'.raced = raced
          /\ \A k \in Keys : loopData'.val[k] =
               IF now - Kept[k].seen <= Ttl(k) THEN Kept[k].val ELSE None
      BY <2>2, <2>6 DEF Payload
    <3>2. ServedAge'
      <4> SUFFICES ASSUME NEW k \in Measured, loopData'.val[k] # None
                   PROVE  now - loopData'.val[k] <= TtlDefault + Slack(k)
        BY <3>1 DEF ServedAge, Present, Measured, Slack
      <4>1. /\ loopData'.val[k] = Kept[k].val /\ Kept[k].val # None
            /\ now - Kept[k].seen <= TtlDefault
        BY <3>1 DEF Measured, Ttl
      <4>2. Slack(k) \in Nat
        BY Limits DEF Slack
      <4>3. Kept[k].val \in Int /\ Kept[k].seen \in Int /\ Kept[k].seen - Kept[k].val <= Slack(k)
        BY <2>3, <4>1
      <4>4. now - Kept[k].val <= TtlDefault + Slack(k)
        BY <4>1, <4>2, <4>3, Limits
      <4>5. QED
        BY <4>1, <4>4
    <3>3. EpochReveals'
      <4> SUFFICES ASSUME loopData'.val["barometer"] # None, lastSuccess # None, ~raced
                   PROVE  lastSuccess - loopData'.val["barometer"] <= AnswerMax
        BY <3>1 DEF EpochReveals, Present
      <4>1. /\ packet.val["barometer"] # None
            /\ lastSuccess - packet.val["barometer"] <= AnswerMax
        BY <2>1 DEF PacketInv
      <4>2. Kept["barometer"].val = packet.val["barometer"] /\ "barometer" \in Keys
        BY <4>1 DEF Kept, Keys
      <4>3. loopData'.val["barometer"] = packet.val["barometer"]
        BY <3>1, <4>2
      <4>4. QED
        BY <4>1, <4>3
    <3>4. QED
      BY <2>4, <3>2, <3>3
  <2>7. QED
    BY <2>1, <2>5, <2>6
<1>3. CASE Restart
  <2>1. written' = NoneWritten /\ loopData' = loopData
    BY <1>3 DEF Restart
  <2>2. WrittenInv'
    BY <2>1 DEF WrittenInv, NoneWritten, NoEntry, Measured
  <2>3. QED
    BY <2>1, <2>2 DEF ServedAge, EpochReveals, Present
<1>4. CASE (\E w \in station.winds, brought \in Rotation : NewLoopPacket(w, brought)) \/ Tick
           \/ \E t \in Threads : Answer(t) \/ FetchFails(t) \/ Publish(t)
  BY <1>1, <1>4 DEF NewLoopPacket, Tick, Answer, FetchFails, Publish
<1>5. CASE UNCHANGED vars
  BY <1>1, <1>5 DEF vars
<1>6. QED
  BY <1>2, <1>3, <1>4, <1>5 DEF Next

LEMMA WindStep ==
  ASSUME WindInv, WindNeverFrozen, [Next]_vars
  PROVE  WindInv' /\ WindNeverFrozen'
<1> USE DEF cacher
<1>1. CASE UNCHANGED <<heard, baseline>>
  BY <1>1 DEF WindInv, WindNeverFrozen
<1>2. ASSUME NEW w, NEW brought, NewLoopPacket(w, brought) PROVE WindInv' /\ WindNeverFrozen'
  <2>1. CASE w.speed = None \/ ~Possible(w)
    <3>1. heard' = heard /\ baseline' = FilterWind(w).baseline
      BY <1>2, <2>1 DEF NewLoopPacket
    <3>2. FilterWind(w).baseline = baseline
      BY <2>1 DEF FilterWind, Verdict
    <3>3. QED
      BY <1>1, <3>1, <3>2
  <2>2. CASE w.speed # None /\ Possible(w)
    <3>1. /\ baseline' = FilterWind(w).baseline
          /\ heard' = [speed |-> w.speed, warm |-> baseline.n > 0, nulled |-> FilterWind(w).nulled,
                       near |-> heard.warm
                         /\ w.speed - heard.speed \in -MAX_WIND_DELTA .. MAX_WIND_DELTA]
      BY <1>2, <2>2 DEF NewLoopPacket
    <3>2. heard'.warm \in BOOLEAN
      BY <3>1
    <3>3. heard'.warm => /\ heard'.speed \in Nat
                         /\ baseline'.n = 1 /\ baseline'.sum = heard'.speed
      <4> SUFFICES ASSUME baseline.n > 0
                   PROVE  w.speed \in Nat /\ baseline'.n = 1 /\ baseline'.sum = w.speed
        BY <3>1
      <4>1. FilterWind(w) = DeltaTest(w.speed)
        BY <2>2 DEF FilterWind
      <4>2. QED
        BY <2>2, <3>1, <4>1, Limits DEF Possible, DeltaTest, Verdict, SeedFrom
    <3>4. WindNeverFrozen'
      BY <2>2, <3>1, CloseWindPasses DEF WindNeverFrozen
    <3>5. QED
      BY <3>2, <3>3, <3>4 DEF WindInv
  <2>3. QED
    BY <2>1, <2>2
<1>3. CASE Restart
  BY <1>3 DEF Restart, NothingHeard, WindInv, WindNeverFrozen
<1>4. CASE FinishPacket \/ Tick \/ \E t \in Threads : Answer(t) \/ FetchFails(t) \/ Publish(t)
  BY <1>1, <1>4 DEF FinishPacket, Tick, Answer, FetchFails, Publish
<1>5. CASE UNCHANGED vars
  BY <1>1, <1>5 DEF vars
<1>6. QED
  BY <1>2, <1>3, <1>4, <1>5 DEF Next

------------------------------------------------------------------------------
(* The theorems. *)

THEOREM LoopInvariant == Spec => []LoopInv
<1>1. Init => LoopInv
  <2> SUFFICES ASSUME Init PROVE LoopInv
    OBVIOUS
  <2> USE DEF Init
  <2>1. ThreadInv /\ EpochInv
    BY DEF ThreadInv, EpochInv, InTime, NoFetch
  <2>2. CacheInv /\ PacketInv /\ WrittenInv /\ WindInv
    BY DEF CacheInv, TrueCache, NoCache, PacketInv, WrittenInv, NoneWritten, NoEntry, Measured,
           WindInv, NothingHeard
  <2>3. ServedAge /\ EpochReveals /\ WindNeverFrozen
    BY DEF ServedAge, EpochReveals, Present, WindNeverFrozen, NothingHeard
  <2>4. now \in Nat /\ raced \in BOOLEAN
    OBVIOUS
  <2>5. QED
    BY <2>1, <2>2, <2>3, <2>4 DEF LoopInv
<1>2. LoopInv /\ [Next]_vars => LoopInv'
  <2> SUFFICES ASSUME LoopInv, [Next]_vars PROVE LoopInv'
    OBVIOUS
  <2>1. now' \in Nat
    <3>1. now' = now \/ now' = now + 1
      BY DEF Next, NewLoopPacket, FinishPacket, Answer, FetchFails, Publish, Tick, Restart, vars
    <3>2. QED
      BY <3>1 DEF LoopInv
  <2>2. QED
    BY <2>1, ThreadStep, CacheStep, PacketStep, WriterStep, WindStep DEF LoopInv
<1>3. QED
  BY <1>1, <1>2, PTL DEF Spec

\* No chain of caches keeps a dead sensor alive for longer than their time-outs.
THEOREM NothingServedStale == Spec => []ServedAge
<1>1. LoopInv => ServedAge
  BY DEF LoopInv
<1>2. QED
  BY <1>1, LoopInvariant, PTL

\* The epoch next to the barometer tells its age, however many fetches overlap
\* and in whatever order their answers come.
THEOREM EpochTellsTheAge == Spec => []EpochReveals
<1>1. LoopInv => EpochReveals
  BY DEF LoopInv
<1>2. QED
  BY <1>1, LoopInvariant, PTL

\* The second of two winds close to each other passes the delta filter.
THEOREM WindThaws == Spec => []WindNeverFrozen
<1>1. LoopInv => WindNeverFrozen
  BY DEF LoopInv
<1>2. QED
  BY <1>1, LoopInvariant, PTL

==============================================================================
