--------------------------- MODULE Receiver_proofs ---------------------------
(***************************************************************************)
(* Proofs about the driver and its receiver: the supervision, for every    *)
(* set of times in the order of SupervisorAssumption, any length of the    *)
(* queue and any number of swaps; and the reception statistics, for every  *)
(* set of transmitters, period, and any number of archive records and      *)
(* replacements of the receiver.                                           *)
(***************************************************************************)
EXTENDS Supervisor, LinkStats, SequenceTheorems, FiniteSetTheorems, TLAPS

(***************************************************************************)
(* Supervision: a receiver that still receives is left alone, one that has *)
(* gone quiet is noticed in time, and the diagnosis is true of its child.  *)
(***************************************************************************)


SupervisorTypes ==
  /\ pc \in {"loop", "read", "wait", "held", "stalled", "exited"}
  /\ queue \in Seq(Lines)
  /\ Len(queue) <= MaxQueue
  /\ sinceReceived \in 0 .. MaxAge
  /\ passAge \in 0 .. MaxAge
  /\ holdAge \in 0 .. MaxAge
  /\ goodSilence \in 0 .. MaxAge
  /\ silence \in 0 .. MaxAge
  /\ stall_timeout \in {StallTimeout, InitGrace}
  /\ rawSeen \in BOOLEAN
  /\ alive \in BOOLEAN
  /\ healthy \in BOOLEAN
  /\ spoke \in BOOLEAN
  /\ staleHeard \in BOOLEAN

Trusted == pc \in {"loop", "read", "wait", "held"}

\* A line of the present child that will feed the watchdog.
Unread == \E i \in DOMAIN queue : queue[i].kind \in Parsed /\ ~queue[i].old

\* A held packet has just fed the watchdog.
HoldInv ==
  pc = "held" =>
    stall_timeout = StallTimeout /\ sinceReceived <= holdAge /\ holdAge <= MaxHold

\* What a healthy child owes the driver, and who told the driver what.
SpokenInv ==
  /\ alive /\ healthy => goodSilence <= IF spoke THEN HopGap ELSE MaxInit
  /\ Unread => spoke
  /\ ~staleHeard /\ stall_timeout = StallTimeout => spoke

\* The watchdog's clock runs no faster than the child's silence, except while a
\* line that will reset it is in the queue -- and then only while the engine has
\* the packet before it.
HeardInv ==
  Trusted /\ ~staleHeard =>
    /\ ~spoke \/ ~Unread => sinceReceived <= goodSilence
    /\ alive /\ healthy =>
         \/ sinceReceived <= HopGap
         \/ sinceReceived <= MaxHold
         \/ stall_timeout = InitGrace /\ sinceReceived <= MaxInit

\* The diagnosis: a deadline passed, and without a raw line neither clock was
\* ahead of the other.
MuteInv ==
  /\ pc = "stalled" => sinceReceived > stall_timeout
  /\ ~rawSeen /\ queue = <<>> => sinceReceived <= silence

\* How long the engine may hold the packets before the one at place i.
Behind(i) == MaxHold * (MaxQueue - i)

\* Every queued line that parses hides the silence behind it for as long as the
\* engine may hold the packets in front of it.
QuietInv ==
  /\ \A i \in DOMAIN queue : queue[i].kind \in Parsed =>
       goodSilence <= Behind(i) + (IF pc = "held" THEN holdAge ELSE MaxHold)
  /\ goodSilence <= sinceReceived + Behind(0)
  /\ pc \in {"read", "wait", "held"} => sinceReceived <= InitGrace + passAge
  /\ Trusted => sinceReceived <= InitGrace + Budget

SupervisorInv ==
  /\ SupervisorTypes
  /\ HoldInv
  /\ SpokenInv
  /\ HeardInv
  /\ HealthyNeverTornDown
  /\ MuteInv
  /\ QuietInv

------------------------------------------------------------------------------
(* The queue. *)

LEMMA Times ==
  /\ StallTimeout \in Nat /\ InitGrace \in Nat /\ Budget \in Nat /\ MaxInit \in Nat
  /\ HopGap \in Nat /\ MaxHold \in Nat /\ MaxQueue \in Nat /\ MaxAge \in Nat
  /\ 0 < Budget /\ 0 < MaxQueue /\ 0 < MaxHold
  /\ StallTimeout < InitGrace
  /\ MaxInit + Budget <= InitGrace
  /\ HopGap + MaxHold + Budget <= StallTimeout
  /\ InitGrace + Budget < MaxAge
BY SupervisorAssumption

LEMMA Within ==
  ASSUME NEW x \in Nat, NEW a \in Nat, NEW b \in Nat, x <= a
  PROVE  x <= a + b
OBVIOUS

LEMMA HoldTimes ==
  ASSUME NEW i \in 1 .. MaxQueue
  PROVE  /\ Behind(i) \in Nat /\ Behind(i - 1) \in Nat /\ Behind(0) \in Nat
         /\ Behind(i - 1) = Behind(i) + MaxHold
         /\ Behind(i - 1) <= Behind(0)
<1>1. \A n \in Nat : MaxHold * n \in Nat /\ MaxHold * (n + 1) = MaxHold * n + MaxHold
  BY Times
<1>2. \A n \in Nat, m \in Nat : n <= m => MaxHold * n <= MaxHold * m
  BY Times
<1> DEFINE n == MaxQueue - i
           m == MaxQueue - 0
<1>3. n \in Nat /\ m \in Nat /\ MaxQueue - (i - 1) = n + 1 /\ n + 1 <= m /\ n + 1 \in Nat
  BY Times
<1>4. Behind(i) = MaxHold * n /\ Behind(i - 1) = MaxHold * (n + 1) /\ Behind(0) = MaxHold * m
  BY <1>3 DEF Behind
<1> HIDE DEF n, m
<1>5. QED
  BY <1>1, <1>2, <1>3, <1>4

\* The reader thread's put: nothing that parses is lost, and nothing is reordered.
LEMMA EnqueuedLine ==
  ASSUME NEW q \in Seq(Lines), Len(q) <= MaxQueue, NEW line \in Lines
  PROVE  LET r == Enqueued(q, line)
         IN  /\ r \in Seq(Lines) /\ Len(r) <= MaxQueue /\ r # <<>>
             /\ line.kind \in Parsed => \E i \in DOMAIN r : r[i] = line
             /\ \A i \in DOMAIN r : r[i] = line \/ (i \in DOMAIN q /\ r[i] = q[i])
             /\ line.kind \notin Parsed => \A i \in DOMAIN q : i \in DOMAIN r /\ r[i] = q[i]
<1> DEFINE r == Enqueued(q, line)
<1>1. Len(q) \in Nat /\ DOMAIN q = 1 .. Len(q) /\ \A i \in DOMAIN q : q[i] \in Lines
  OBVIOUS
<1>2. CASE Len(q) < MaxQueue
  <2>1. r = Append(q, line)
    BY <1>2 DEF Enqueued
  <2>2. /\ r \in Seq(Lines) /\ Len(r) = Len(q) + 1 /\ DOMAIN r = 1 .. Len(q) + 1
        /\ r[Len(q) + 1] = line /\ \A i \in 1 .. Len(q) : r[i] = q[i]
    BY <2>1
  <2> HIDE DEF r
  <2>3. Len(q) + 1 \in DOMAIN r
    BY <1>1, <2>2
  <2>4. \A i \in DOMAIN r : i = Len(q) + 1 \/ i \in 1 .. Len(q)
    BY <1>1, <2>2
  <2>5. \A i \in DOMAIN q : i \in DOMAIN r
    BY <1>1, <2>2
  <2>6. Len(r) <= MaxQueue /\ r # <<>>
    BY <1>1, <1>2, <2>2, Times
  <2>7. QED
    BY <1>1, <2>2, <2>3, <2>4, <2>5, <2>6 DEF r
<1>3. CASE ~(Len(q) < MaxQueue) /\ line.kind \in Parsed
  <2>1. Len(q) = MaxQueue
    <3>1. Len(q) \in Nat /\ MaxQueue \in Nat
      BY <1>1, Times
    <3>2. ~(Len(q) < MaxQueue)
      BY <1>3
    <3>3. QED
      BY <3>1, <3>2
  <2>6. r = [q EXCEPT ![MaxQueue] = line]
    BY <1>3 DEF Enqueued
  <2>2. MaxQueue \in DOMAIN q
    BY <1>1, <2>1, Times
  <2>3. /\ r \in Seq(Lines) /\ Len(r) = Len(q) /\ DOMAIN r = DOMAIN q
        /\ r[MaxQueue] = line /\ \A i \in DOMAIN q : i # MaxQueue => r[i] = q[i]
    BY <1>1, <2>6, <2>2, ExceptSeq
  <2> HIDE DEF r
  <2>4. Len(r) <= MaxQueue /\ r # <<>>
    BY <1>1, <2>1, <2>2, <2>3
  <2>5. QED
    BY <1>3, <2>2, <2>3, <2>4 DEF r
<1>4. CASE ~(Len(q) < MaxQueue) /\ line.kind \notin Parsed
  <2>1. r = q
    BY <1>4 DEF Enqueued
  <2>2. q # <<>>
    BY <1>1, <1>4, Times
  <2>3. QED
    BY <1>4, <2>1, <2>2
<1>5. QED
  BY <1>2, <1>3, <1>4

\* What a swap leaves is all of the child it replaced.
LEMMA LeftOverIsOld ==
  ASSUME SupervisorTypes, NEW q \in LeftOver
  PROVE  /\ q \in Seq(Lines) /\ Len(q) <= MaxQueue
         /\ \A i \in DOMAIN q : q[i].old
<1> DEFINE aged == [i \in DOMAIN queue |-> [queue[i] EXCEPT !.old = TRUE]]
<1>1. DOMAIN queue = 1 .. Len(queue) /\ Len(queue) \in Nat
      /\ \A i \in DOMAIN queue : queue[i] \in Lines
  BY DEF SupervisorTypes
<1>2. \A i \in DOMAIN queue : [queue[i] EXCEPT !.old = TRUE] \in Lines
  BY <1>1 DEF Lines
<1>3. aged \in Seq(Lines) /\ Len(aged) = Len(queue)
  BY <1>1, <1>2
<1>4. \A i \in DOMAIN aged : aged[i].old
  BY <1>1 DEF Lines
<1>5. CASE q = aged
  BY <1>3, <1>4, <1>5 DEF SupervisorTypes
<1>6. ASSUME NEW k \in Kinds, q = Enqueued(aged, [kind |-> k, old |-> TRUE])
      PROVE  q \in Seq(Lines) /\ Len(q) <= MaxQueue /\ \A i \in DOMAIN q : q[i].old
  <2> DEFINE line == [kind |-> k, old |-> TRUE]
  <2>1. line \in Lines /\ line.old
    BY DEF Lines
  <2> HIDE DEF aged, line
  <2>2. QED
    BY <1>3, <1>4, <1>6, <2>1, EnqueuedLine DEF SupervisorTypes, line
<1>7. QED
  BY <1>5, <1>6 DEF LeftOver

\* Taking the first line moves the others up.
LEMMA AfterHead ==
  ASSUME SupervisorTypes, queue # <<>>
  PROVE  /\ Head(queue) \in Lines /\ Head(queue) = queue[1] /\ 1 \in DOMAIN queue
         /\ Tail(queue) \in Seq(Lines) /\ Len(Tail(queue)) <= MaxQueue
         /\ \A i \in DOMAIN Tail(queue) :
              /\ i \in 1 .. MaxQueue /\ i + 1 \in 1 .. MaxQueue
              /\ i + 1 \in DOMAIN queue /\ Tail(queue)[i] = queue[i + 1]
         /\ \A i \in DOMAIN queue : i # 1 => i - 1 \in DOMAIN Tail(queue)
                                             /\ Tail(queue)[i - 1] = queue[i]
<1>1. queue \in Seq(Lines) /\ Len(queue) \in Nat /\ Len(queue) <= MaxQueue
      /\ DOMAIN queue = 1 .. Len(queue)
  BY DEF SupervisorTypes
<1>2. 1 <= Len(queue) /\ Head(queue) = queue[1]
  BY <1>1
<1>3. /\ Tail(queue) \in Seq(Lines) /\ Len(Tail(queue)) = Len(queue) - 1
      /\ DOMAIN Tail(queue) = 1 .. Len(queue) - 1
      /\ \A i \in 1 .. Len(queue) - 1 : Tail(queue)[i] = queue[i + 1]
  BY <1>1, <1>2
<1>4. QED
  BY <1>1, <1>2, <1>3, Times

------------------------------------------------------------------------------
(* Types. *)

LEMMA Ageing ==
  ASSUME NEW x \in 0 .. MaxAge
  PROVE  /\ Aged(x) \in 0 .. MaxAge /\ Aged(x) <= x + 1
         /\ x < MaxAge => Aged(x) = x + 1
         /\ \A y \in 0 .. MaxAge : x <= y => Aged(x) <= Aged(y)
BY Times DEF Aged

LEMMA TypesKept ==
  ASSUME SupervisorTypes, [Next]_vars
  PROVE  SupervisorTypes'
<1> USE DEF SupervisorTypes, driverVars, childVars
<1>1. 0 \in 0 .. MaxAge
  BY Times
<1>2. ASSUME NEW kind \in Kinds, Emit(kind) PROVE SupervisorTypes'
  <2>1. [kind |-> kind, old |-> FALSE] \in Lines
    BY DEF Lines
  <2>2. queue' \in Seq(Lines) /\ Len(queue') <= MaxQueue
    BY <1>2, <2>1, EnqueuedLine DEF Emit
  <2>3. spoke' \in BOOLEAN /\ goodSilence' \in 0 .. MaxAge /\ silence' \in 0 .. MaxAge
    BY <1>1, <1>2 DEF Emit
  <2>4. QED
    BY <1>2, <2>2, <2>3 DEF Emit
<1>3. CASE Fail
  BY <1>3 DEF Fail
<1>4. CASE Exit
  BY <1>4 DEF Exit
<1>5. CASE Swap
  <2>1. queue' \in Seq(Lines) /\ Len(queue') <= MaxQueue
    BY <1>5, LeftOverIsOld DEF Swap
  <2>2. alive' \in BOOLEAN /\ healthy' \in BOOLEAN /\ spoke' \in BOOLEAN
        /\ rawSeen' \in BOOLEAN /\ staleHeard' \in BOOLEAN
    BY <1>5 DEF Swap, FreshChild, SwapResets, ResetWatchdog
  <2>3. goodSilence' = 0 /\ silence' = 0 /\ sinceReceived' = 0 /\ stall_timeout' = InitGrace
        /\ pc' = pc /\ passAge' = passAge /\ holdAge' = holdAge
    BY <1>5 DEF Swap, FreshChild, SwapResets, ResetWatchdog
  <2>4. QED
    BY <1>1, <2>1, <2>2, <2>3
<1>6. CASE SwapFails
  BY <1>6 DEF SwapFails
<1>7. CASE Stall \/ BeginPass \/ ChildGone
  BY <1>1, <1>7 DEF Stall, BeginPass, ChildGone
<1>8. CASE Await \/ TimeOut
  BY <1>8 DEF Await, TimeOut
<1>9. CASE ReadLine
  <2>1. Tail(queue) \in Seq(Lines) /\ Len(Tail(queue)) <= MaxQueue /\ Head(queue) \in Lines
    BY <1>9, AfterHead DEF ReadLine
  <2>2. rawSeen' \in BOOLEAN
    BY <1>9 DEF ReadLine, RawAfter
  <2>3. staleHeard' \in BOOLEAN /\ sinceReceived' \in 0 .. MaxAge
        /\ stall_timeout' \in {StallTimeout, InitGrace}
    BY <1>1, <1>9, <2>1 DEF ReadLine, Lines
  <2>4. queue' = Tail(queue) /\ pc' \in {"read", "held"} /\ holdAge' = 0 /\ passAge' = passAge
        /\ goodSilence' = goodSilence /\ silence' = silence /\ spoke' = spoke
        /\ alive' = alive /\ healthy' = healthy
    BY <1>9 DEF ReadLine
  <2>5. QED
    BY <1>1, <2>1, <2>2, <2>3, <2>4
<1>10. CASE HopRaises
  <2>1. Tail(queue) \in Seq(Lines) /\ Len(Tail(queue)) <= MaxQueue
    BY <1>10, AfterHead DEF HopRaises
  <2>2. QED
    BY <1>10, <2>1 DEF HopRaises
<1>11. CASE EndPass \/ Resume
  BY <1>11 DEF EndPass, Resume
<1>12. CASE Restart
  <2>1. alive' \in BOOLEAN /\ healthy' \in BOOLEAN /\ spoke' \in BOOLEAN
        /\ rawSeen' \in BOOLEAN /\ staleHeard' \in BOOLEAN
    BY <1>12 DEF Restart, FreshChild, ResetWatchdog
  <2>2. goodSilence' = 0 /\ silence' = 0 /\ sinceReceived' = 0 /\ stall_timeout' = InitGrace
        /\ pc' = "loop" /\ passAge' = 0 /\ holdAge' = 0 /\ queue' = <<>>
    BY <1>12 DEF Restart, FreshChild, ResetWatchdog
  <2>3. queue' \in Seq(Lines) /\ Len(queue') = 0
    BY <2>2
  <2>4. QED
    BY <1>1, <2>1, <2>2, <2>3, Times
<1>13. CASE Tick
  BY <1>13, Ageing DEF Tick, PassAged
<1>14. CASE UNCHANGED vars
  BY <1>14 DEF vars
<1>15. QED
  BY <1>2, <1>3, <1>4, <1>5, <1>6, <1>7, <1>8, <1>9, <1>10, <1>11, <1>12, <1>13, <1>14
  DEF Next, Driver

------------------------------------------------------------------------------
(* The queue and the watchdog. *)

LEMMA EmitQueue ==
  ASSUME SupervisorTypes, NEW kind \in Kinds, Emit(kind)
  PROVE  /\ queue' # <<>>
         /\ kind \in Parsed => Unread'
         /\ kind \notin Parsed => (Unread' <=> Unread)
         /\ \A i \in DOMAIN queue' :
              /\ i \in 1 .. MaxQueue
              /\ queue'[i].kind \in Parsed =>
                   kind \in Parsed \/ (i \in DOMAIN queue /\ queue[i].kind \in Parsed)
<1> DEFINE line == [kind |-> kind, old |-> FALSE]
           r == Enqueued(queue, line)
<1>1. line \in Lines /\ line.kind = kind /\ ~line.old
  BY DEF Lines
<1>2. queue' = r
  BY DEF Emit
<1> HIDE DEF line
<1>3. /\ r \in Seq(Lines) /\ Len(r) <= MaxQueue /\ r # <<>>
      /\ line.kind \in Parsed => \E i \in DOMAIN r : r[i] = line
      /\ \A i \in DOMAIN r : r[i] = line \/ (i \in DOMAIN queue /\ r[i] = queue[i])
      /\ line.kind \notin Parsed => \A i \in DOMAIN queue : i \in DOMAIN r /\ r[i] = queue[i]
  BY <1>1, EnqueuedLine DEF SupervisorTypes
<1> HIDE DEF r
<1>4. \A i \in DOMAIN r : i \in 1 .. MaxQueue
  <2>1. DOMAIN r = 1 .. Len(r) /\ Len(r) \in Nat
    BY <1>3
  <2>2. QED
    BY <1>3, <2>1, Times
<1>5. kind \in Parsed => Unread'
  BY <1>1, <1>2, <1>3 DEF Unread
<1>6. kind \notin Parsed => (Unread' <=> Unread)
  <2>1. kind \notin Parsed /\ Unread' => Unread
    BY <1>1, <1>2, <1>3 DEF Unread
  <2>2. kind \notin Parsed /\ Unread => Unread'
    BY <1>1, <1>2, <1>3 DEF Unread
  <2>3. QED
    BY <2>1, <2>2
<1>7. QED
  BY <1>1, <1>2, <1>3, <1>4, <1>5, <1>6

LEMMA ReadQueue ==
  ASSUME SupervisorTypes, queue # <<>>, queue' = Tail(queue)
  PROVE  /\ Unread' => Unread
         /\ Unread => Unread' \/ (Head(queue).kind \in Parsed /\ ~Head(queue).old)
         /\ Head(queue).kind \in Parsed /\ ~Head(queue).old => Unread
<1>1. Unread' => Unread
  BY AfterHead DEF Unread
<1>2. Unread => Unread' \/ (Head(queue).kind \in Parsed /\ ~Head(queue).old)
  <2> SUFFICES ASSUME NEW i \in DOMAIN queue, queue[i].kind \in Parsed, ~queue[i].old, i # 1
               PROVE  Unread'
    BY AfterHead DEF Unread
  <2>1. i - 1 \in DOMAIN queue' /\ queue'[i - 1] = queue[i]
    BY AfterHead
  <2>2. QED
    BY <2>1 DEF Unread
<1>3. Head(queue).kind \in Parsed /\ ~Head(queue).old => Unread
  BY AfterHead DEF Unread
<1>4. QED
  BY <1>1, <1>2, <1>3

LEMMA NothingUnread ==
  ASSUME queue = <<>>
  PROVE  ~Unread
BY DEF Unread

\* A packet in the engine's hands is the last thing the watchdog heard.
LEMMA HoldKept ==
  ASSUME SupervisorTypes, HoldInv, [Next]_vars
  PROVE  HoldInv'
<1> USE DEF HoldInv, driverVars, childVars
<1>1. ASSUME NEW kind \in Kinds, Emit(kind) PROVE HoldInv'
  BY <1>1 DEF Emit
<1>2. CASE Fail \/ Exit
  BY <1>2 DEF Fail, Exit
<1>3. CASE Swap \/ SwapFails \/ Restart
  BY <1>3 DEF Swap, SwapFails, Restart
<1>4. CASE Stall \/ BeginPass \/ ChildGone \/ Await \/ TimeOut \/ HopRaises \/ EndPass \/ Resume
  BY <1>4 DEF Stall, BeginPass, ChildGone, Await, TimeOut, HopRaises, EndPass, Resume
<1>5. CASE ReadLine
  BY <1>5, Times DEF ReadLine, FeedsWatchdog, Parsed
<1>6. CASE Tick
  <2>1. CASE pc = "held"
    <3>1. holdAge < MaxHold /\ holdAge' = Aged(holdAge) /\ sinceReceived' = Aged(sinceReceived)
          /\ stall_timeout' = stall_timeout
      BY <1>6, <2>1 DEF Tick
    <3>2. QED
      BY <2>1, <3>1, Ageing, Times DEF SupervisorTypes
  <2>2. CASE pc # "held"
    BY <1>6, <2>2 DEF Tick
  <2>3. QED
    BY <2>1, <2>2
<1>7. CASE UNCHANGED vars
  BY <1>7 DEF vars
<1>8. QED
  BY <1>1, <1>2, <1>3, <1>4, <1>5, <1>6, <1>7 DEF Next, Driver

LEMMA SpokenKept ==
  ASSUME SupervisorTypes, SpokenInv, [Next]_vars
  PROVE  SpokenInv'
<1> USE DEF SpokenInv, driverVars, childVars
<1>1. ASSUME NEW kind \in Kinds, Emit(kind) PROVE SpokenInv'
  <2>1. CASE kind \in Parsed
    BY <1>1, <2>1, Times DEF Emit
  <2>2. CASE kind \notin Parsed
    BY <1>1, <2>2, EmitQueue DEF Emit
  <2>3. QED
    BY <2>1, <2>2
<1>2. CASE Fail \/ Exit
  BY <1>2 DEF Fail, Exit, Unread
<1>3. CASE Swap
  <2>1. ~Unread'
    BY <1>3, LeftOverIsOld DEF Swap, Unread
  <2>2. goodSilence' = 0 /\ ~spoke' /\ stall_timeout' = InitGrace
    BY <1>3 DEF Swap, FreshChild, SwapResets, ResetWatchdog
  <2>3. QED
    BY <2>1, <2>2, Times
<1>4. CASE Restart
  <2>1. ~Unread'
    BY <1>4 DEF Restart, Unread
  <2>2. goodSilence' = 0 /\ ~spoke' /\ stall_timeout' = InitGrace
    BY <1>4 DEF Restart, FreshChild, ResetWatchdog
  <2>3. QED
    BY <2>1, <2>2, Times
<1>5. CASE SwapFails \/ Stall \/ BeginPass \/ ChildGone \/ Await \/ TimeOut \/ EndPass \/ Resume
  BY <1>5 DEF SwapFails, Stall, BeginPass, ChildGone, Await, TimeOut, EndPass, Resume, Unread
<1>6. CASE ReadLine
  <2>1. (Unread' => Unread) /\ (Head(queue).kind \in Parsed /\ ~Head(queue).old => Unread)
    BY <1>6, ReadQueue DEF ReadLine
  <2>2. QED
    BY <1>6, <2>1 DEF ReadLine, FeedsWatchdog
<1>7. CASE HopRaises
  <2>1. Unread' => Unread
    BY <1>7, ReadQueue DEF HopRaises
  <2>2. QED
    BY <1>7, <2>1 DEF HopRaises
<1>8. CASE Tick
  <2>1. Unread' <=> Unread
    BY <1>8 DEF Tick, Unread
  <2>2. alive /\ healthy => goodSilence' <= IF spoke THEN HopGap ELSE MaxInit
    <3>1. goodSilence \in 0 .. MaxAge /\ goodSilence \in Nat /\ goodSilence' = Aged(goodSilence)
      BY <1>8, Times DEF Tick, SupervisorTypes
    <3>2. goodSilence' \in Nat /\ goodSilence' <= goodSilence + 1
      BY <3>1, Ageing, Times
    <3>3. alive /\ healthy => goodSilence < IF spoke THEN HopGap ELSE MaxInit
      BY <1>8 DEF Tick
    <3>4. CASE spoke
      BY <3>1, <3>2, <3>3, <3>4, Times
    <3>5. CASE ~spoke
      BY <3>1, <3>2, <3>3, <3>5, Times
    <3>6. QED
      BY <3>4, <3>5
  <2>3. QED
    BY <1>8, <2>1, <2>2 DEF Tick
<1>9. CASE UNCHANGED vars
  BY <1>9 DEF vars, Unread
<1>10. QED
  BY <1>1, <1>2, <1>3, <1>4, <1>5, <1>6, <1>7, <1>8, <1>9 DEF Next, Driver

LEMMA HeardKept ==
  ASSUME SupervisorTypes, HoldInv, SpokenInv, HeardInv, [Next]_vars
  PROVE  HeardInv'
<1> USE DEF HeardInv, driverVars, childVars, Trusted
<1>1. ASSUME NEW kind \in Kinds, Emit(kind) PROVE HeardInv'
  <2>1. CASE kind \in Parsed
    BY <1>1, <2>1, EmitQueue DEF Emit
  <2>2. CASE kind \notin Parsed
    BY <1>1, <2>2, EmitQueue DEF Emit
  <2>3. QED
    BY <2>1, <2>2
<1>2. CASE Fail \/ Exit
  BY <1>2 DEF Fail, Exit, Unread
<1>3. CASE Swap \/ Restart
  <2>1. goodSilence' = 0 /\ sinceReceived' = 0 /\ stall_timeout' = InitGrace
    BY <1>3 DEF Swap, Restart, FreshChild, SwapResets, ResetWatchdog
  <2>2. QED
    BY <2>1, Times
<1>4. CASE SwapFails \/ Stall \/ ChildGone \/ HopRaises
  BY <1>4 DEF SwapFails, Stall, ChildGone, HopRaises
<1>5. CASE BeginPass \/ Await \/ TimeOut \/ EndPass \/ Resume
  BY <1>5 DEF BeginPass, Await, TimeOut, EndPass, Resume, Unread
<1>6. CASE ReadLine
  <2>1. CASE Head(queue).kind \in Parsed
    <3>1. sinceReceived' = 0 /\ goodSilence' = goodSilence
      BY <1>6, <2>1 DEF ReadLine, FeedsWatchdog
    <3>2. QED
      BY <3>1, Times DEF SupervisorTypes
  <2>2. CASE Head(queue).kind \notin Parsed
    <3>1. Unread => Unread'
      BY <1>6, <2>2, ReadQueue DEF ReadLine
    <3>2. QED
      BY <1>6, <2>2, <3>1 DEF ReadLine, FeedsWatchdog
  <2>3. QED
    BY <2>1, <2>2
<1>7. CASE Tick
  <2>1. SpokenInv'
    BY <1>7, SpokenKept DEF Next
  <2>2. /\ pc' = pc /\ staleHeard' = staleHeard /\ spoke' = spoke /\ (Unread' <=> Unread)
        /\ alive' = alive /\ healthy' = healthy /\ stall_timeout' = stall_timeout
        /\ sinceReceived' = Aged(sinceReceived) /\ goodSilence' = Aged(goodSilence)
    BY <1>7 DEF Tick, Unread
  <2>3. sinceReceived <= goodSilence => sinceReceived' <= goodSilence'
    BY <2>2, Ageing DEF SupervisorTypes
  <2>4. CASE pc = "held"
    <3>1. HoldInv'
      BY <1>7, HoldKept DEF Next
    <3>2. sinceReceived' <= MaxHold
      <4>1. sinceReceived' <= holdAge' /\ holdAge' <= MaxHold
        BY <2>2, <2>4, <3>1 DEF HoldInv
      <4>2. sinceReceived' \in Nat /\ holdAge' \in Nat
        BY <1>7, TypesKept, Times DEF Next, SupervisorTypes
      <4>3. QED
        BY <4>1, <4>2, Times
    <3>3. QED
      BY <2>2, <2>3, <3>2
  <2>5. CASE pc = "wait" /\ queue = <<>>
    <3>1. ~Unread
      BY <2>5, NothingUnread
    <3>2. ~staleHeard => sinceReceived' <= goodSilence'
      BY <2>3, <2>5, <3>1
    <3>3. /\ alive /\ healthy => goodSilence' <= IF spoke THEN HopGap ELSE MaxInit
          /\ ~staleHeard /\ stall_timeout = StallTimeout => spoke
      BY <2>1, <2>2 DEF SpokenInv
    <3>4. sinceReceived' \in Nat /\ goodSilence' \in Nat
      BY <1>7, TypesKept, Times DEF Next, SupervisorTypes
    <3>5. stall_timeout \in {StallTimeout, InitGrace}
      BY DEF SupervisorTypes
    <3>6. QED
      BY <2>2, <3>2, <3>3, <3>4, <3>5, Times
  <2>6. QED
    BY <1>7, <2>4, <2>5 DEF Tick
<1>8. CASE UNCHANGED vars
  BY <1>8 DEF vars, Unread
<1>9. QED
  BY <1>1, <1>2, <1>3, <1>4, <1>5, <1>6, <1>7, <1>8 DEF Next, Driver

LEMMA TornKept ==
  ASSUME SupervisorTypes, HeardInv, HealthyNeverTornDown, [Next]_vars
  PROVE  HealthyNeverTornDown'
<1> USE DEF HealthyNeverTornDown, driverVars, childVars
<1>1. CASE Stall
  <2>1. Overdue /\ alive /\ Trusted /\ healthy' = healthy /\ staleHeard' = staleHeard
    BY <1>1 DEF Stall, Trusted
  <2>2. healthy /\ ~staleHeard => ~Overdue
    BY <2>1, Times DEF HeardInv, Overdue, SupervisorTypes
  <2>3. QED
    BY <2>1, <2>2
<1>2. ASSUME NEW kind \in Kinds, Emit(kind) PROVE HealthyNeverTornDown'
  BY <1>2 DEF Emit
<1>3. CASE Fail \/ Exit \/ Tick
  BY <1>3 DEF Fail, Exit, Tick
<1>4. CASE Swap \/ SwapFails \/ Restart
  BY <1>4 DEF Swap, SwapFails, Restart
<1>5. CASE BeginPass \/ ChildGone \/ Await \/ TimeOut \/ ReadLine \/ HopRaises \/ EndPass \/ Resume
  BY <1>5 DEF BeginPass, ChildGone, Await, TimeOut, ReadLine, HopRaises, EndPass, Resume
<1>6. CASE UNCHANGED vars
  BY <1>6 DEF vars
<1>7. QED
  BY <1>1, <1>2, <1>3, <1>4, <1>5, <1>6 DEF Next, Driver

LEMMA MuteKept ==
  ASSUME SupervisorTypes, MuteInv, [Next]_vars
  PROVE  MuteInv'
<1> USE DEF MuteInv, driverVars, childVars
<1>1. ASSUME NEW kind \in Kinds, Emit(kind) PROVE MuteInv'
  BY <1>1, EmitQueue DEF Emit
<1>2. CASE Fail \/ Exit
  BY <1>2 DEF Fail, Exit
<1>3. CASE Swap \/ Restart
  <2>1. silence' = 0 /\ sinceReceived' = 0 /\ pc' = "loop"
    BY <1>3 DEF Swap, Restart, FreshChild, SwapResets, ResetWatchdog
  <2>2. QED
    BY <2>1
<1>4. CASE Stall
  BY <1>4 DEF Stall, Overdue
<1>5. CASE SwapFails \/ BeginPass \/ ChildGone \/ Await \/ TimeOut \/ EndPass \/ Resume
  BY <1>5 DEF SwapFails, BeginPass, ChildGone, Await, TimeOut, EndPass, Resume
<1>6. CASE HopRaises
  BY <1>6 DEF HopRaises
<1>7. CASE ReadLine
  <2>1. pc' # "stalled" /\ silence' = silence
    BY <1>7 DEF ReadLine
  <2>2. ~rawSeen' => sinceReceived' = 0
    BY <1>7 DEF ReadLine, RawAfter, FeedsWatchdog, Parsed
  <2>3. QED
    BY <2>1, <2>2, Times DEF SupervisorTypes
<1>8. CASE Tick
  <2>1. /\ pc' # "stalled" /\ rawSeen' = rawSeen /\ queue' = queue
        /\ sinceReceived' = Aged(sinceReceived) /\ silence' = Aged(silence)
    BY <1>8 DEF Tick
  <2>2. QED
    BY <2>1, Ageing DEF SupervisorTypes
<1>9. CASE UNCHANGED vars
  BY <1>9 DEF vars
<1>10. QED
  BY <1>1, <1>2, <1>3, <1>4, <1>5, <1>6, <1>7, <1>8, <1>9 DEF Next, Driver

LEMMA QuietKept ==
  ASSUME SupervisorTypes, HoldInv, QuietInv, [Next]_vars
  PROVE  QuietInv'
<1> USE DEF driverVars, childVars, Trusted
<1> DEFINE Extra == IF pc = "held" THEN holdAge ELSE MaxHold
<1>1. /\ sinceReceived \in Nat /\ passAge \in Nat /\ holdAge \in Nat /\ goodSilence \in Nat
      /\ stall_timeout \in Nat /\ stall_timeout <= InitGrace /\ Behind(0) \in Nat
      /\ \A i \in 1 .. MaxQueue : Behind(i) \in Nat
  BY Times, HoldTimes DEF SupervisorTypes
<1>2. DOMAIN queue \subseteq 1 .. MaxQueue
  BY Times DEF SupervisorTypes
<1>3. Extra \in Nat /\ Extra <= MaxHold
  BY <1>1, Times DEF HoldInv
<1>4. /\ \A i \in DOMAIN queue : queue[i].kind \in Parsed => goodSilence <= Behind(i) + Extra
      /\ goodSilence <= sinceReceived + Behind(0)
      /\ pc \in {"read", "wait", "held"} => sinceReceived <= InitGrace + passAge
      /\ Trusted => sinceReceived <= InitGrace + Budget
  BY DEF QuietInv
<1>5. ASSUME NEW kind \in Kinds, Emit(kind) PROVE QuietInv'
  <2>1. pc' = pc /\ holdAge' = holdAge /\ sinceReceived' = sinceReceived /\ passAge' = passAge
    BY <1>5 DEF Emit
  <2>2. Extra' = Extra
    BY <2>1
  <2>3. CASE kind \in Parsed
    <3>1. goodSilence' = 0
      BY <1>5, <2>3 DEF Emit
    <3>2. \A i \in DOMAIN queue' : Behind(i) \in Nat
      BY <1>1, <1>5, EmitQueue
    <3>3. \A i \in DOMAIN queue' : goodSilence' <= Behind(i) + Extra'
      BY <1>3, <2>2, <3>1, <3>2
    <3>4. QED
      BY <1>1, <1>4, <2>1, <3>1, <3>3 DEF QuietInv
  <2>4. CASE kind \notin Parsed
    <3>1. goodSilence' = goodSilence
      BY <1>5, <2>4 DEF Emit
    <3>2. \A i \in DOMAIN queue' : queue'[i].kind \in Parsed => goodSilence' <= Behind(i) + Extra'
      BY <1>4, <1>5, <2>2, <2>4, <3>1, EmitQueue
    <3>3. QED
      BY <1>4, <2>1, <3>1, <3>2 DEF QuietInv
  <2>5. QED
    BY <2>3, <2>4
<1>6. CASE Fail \/ Exit \/ SwapFails \/ Stall \/ ChildGone \/ Await \/ TimeOut
  <2>1. /\ queue' = queue /\ goodSilence' = goodSilence /\ sinceReceived' = sinceReceived
        /\ passAge' = passAge /\ holdAge' = holdAge
        /\ pc' \in {"read", "wait", "held"} => pc \in {"read", "wait", "held"}
        /\ Trusted' => Trusted
    BY <1>6 DEF Fail, Exit, SwapFails, Stall, ChildGone, Await, TimeOut
  <2>2. Extra <= Extra' /\ Extra' \in Nat
    <3>1. pc' = "held" => pc = "held"
      BY <1>6 DEF Fail, Exit, SwapFails, Stall, ChildGone, Await, TimeOut
    <3>2. Extra' = Extra \/ Extra' = MaxHold
      BY <2>1, <3>1
    <3>3. QED
      BY <1>3, <3>2, Times
  <2>3. \A i \in DOMAIN queue' : queue'[i].kind \in Parsed => goodSilence' <= Behind(i) + Extra'
    <3> SUFFICES ASSUME NEW i \in DOMAIN queue, queue[i].kind \in Parsed
                 PROVE  goodSilence <= Behind(i) + Extra'
      BY <2>1
    <3>1. goodSilence <= Behind(i) + Extra /\ Behind(i) \in Nat
      BY <1>1, <1>2, <1>4
    <3> HIDE DEF Extra
    <3>2. QED
      BY <1>1, <1>3, <2>2, <3>1
  <2>4. QED
    BY <1>4, <2>1, <2>3 DEF QuietInv
<1>7. CASE BeginPass \/ EndPass \/ Resume
  <2>1. /\ queue' = queue /\ goodSilence' = goodSilence /\ sinceReceived' = sinceReceived
        /\ holdAge' = holdAge /\ Trusted /\ Trusted' /\ pc' # "held"
    BY <1>7 DEF BeginPass, EndPass, Resume
  <2>2. Extra' = MaxHold
    BY <2>1
  <2>3. \A i \in DOMAIN queue' : queue'[i].kind \in Parsed => goodSilence' <= Behind(i) + Extra'
    BY <1>1, <1>2, <1>3, <1>4, <2>1, <2>2, Times
  <2>4. pc' \in {"read", "wait", "held"} => sinceReceived' <= InitGrace + passAge'
    <3>1. CASE BeginPass
      BY <1>1, <2>1, <3>1, Times DEF BeginPass, Overdue
    <3>2. CASE EndPass
      BY <3>2 DEF EndPass
    <3>3. CASE Resume
      BY <1>4, <3>3 DEF Resume
    <3>4. QED
      BY <1>7, <3>1, <3>2, <3>3
  <2>5. QED
    BY <1>4, <2>1, <2>3, <2>4 DEF QuietInv
<1>8. CASE Swap \/ Restart
  <2>1. goodSilence' = 0 /\ sinceReceived' = 0 /\ pc' = "loop"
    BY <1>8 DEF Swap, Restart, FreshChild, SwapResets, ResetWatchdog
  <2>2. DOMAIN queue' \subseteq 1 .. MaxQueue
    BY <1>8, TypesKept, Times DEF Next, Driver, SupervisorTypes
  <2>3. \A i \in DOMAIN queue' : goodSilence' <= Behind(i) + Extra'
    BY <1>1, <2>1, <2>2, Times
  <2>4. QED
    BY <1>1, <2>1, <2>3, Times DEF QuietInv
<1>9. CASE ReadLine \/ HopRaises
  <2>1. /\ queue # <<>> /\ queue' = Tail(queue) /\ pc = "wait" /\ Extra = MaxHold
        /\ goodSilence' = goodSilence /\ passAge' = passAge
        /\ pc' = "held" => holdAge' = 0
    BY <1>9 DEF ReadLine, HopRaises
  <2>2. Extra' \in Nat
    BY <2>1, Times
  <2>3. \A i \in DOMAIN queue' : queue'[i].kind \in Parsed => goodSilence' <= Behind(i) + Extra'
    <3> SUFFICES ASSUME NEW i \in DOMAIN queue', queue'[i].kind \in Parsed
                 PROVE  goodSilence' <= Behind(i) + Extra'
      OBVIOUS
    <3>1. /\ i \in 1 .. MaxQueue /\ i + 1 \in 1 .. MaxQueue
          /\ i + 1 \in DOMAIN queue /\ queue'[i] = queue[i + 1]
      BY <2>1, AfterHead
    <3>2. goodSilence <= Behind(i + 1) + MaxHold
      BY <1>4, <2>1, <3>1
    <3>3. Behind(i) = Behind(i + 1) + MaxHold
      <4> DEFINE n == i + 1
      <4>1. n \in 1 .. MaxQueue /\ n - 1 = i
        BY <3>1
      <4> HIDE DEF n
      <4>2. Behind(n - 1) = Behind(n) + MaxHold
        BY <4>1, HoldTimes
      <4>3. QED
        BY <4>1, <4>2 DEF n
    <3>4. Behind(i) \in Nat
      BY <1>1, <3>1
    <3>5. QED
      BY <1>1, <2>1, <2>2, <3>2, <3>3, <3>4
  <2>4. /\ goodSilence' <= sinceReceived' + Behind(0)
        /\ sinceReceived' = 0 \/ sinceReceived' = sinceReceived
    <3>1. CASE ReadLine /\ Head(queue).kind \in Parsed
      <4>1. sinceReceived' = 0
        BY <3>1 DEF ReadLine, FeedsWatchdog
      <4>2. goodSilence <= Behind(1) + MaxHold /\ 1 \in 1 .. MaxQueue
        BY <1>2, <1>4, <2>1, <3>1, AfterHead
      <4>3. Behind(1 - 1) = Behind(1) + MaxHold
        BY <4>2, HoldTimes
      <4>4. QED
        BY <1>1, <2>1, <4>1, <4>2, <4>3
    <3>2. CASE HopRaises \/ Head(queue).kind \notin Parsed
      <4>1. sinceReceived' = sinceReceived
        BY <1>9, <3>2 DEF ReadLine, HopRaises, FeedsWatchdog
      <4>2. QED
        BY <1>4, <2>1, <4>1
    <3>3. QED
      BY <1>9, <3>1, <3>2
  <2>5. /\ sinceReceived' <= InitGrace + passAge'
        /\ sinceReceived' <= InitGrace + Budget
    BY <1>1, <1>4, <2>1, <2>4, Times
  <2>6. QED
    BY <2>3, <2>4, <2>5 DEF QuietInv
<1>10. CASE Tick
  <2>1. /\ queue' = queue /\ pc' = pc
        /\ goodSilence' = Aged(goodSilence) /\ sinceReceived' = Aged(sinceReceived)
        /\ passAge' = Aged(passAge)
        /\ holdAge' = IF pc = "held" THEN Aged(holdAge) ELSE holdAge
    BY <1>10 DEF Tick, PassAged
  <2>2. /\ goodSilence' \in Nat /\ sinceReceived' \in Nat /\ passAge' \in Nat
        /\ goodSilence' <= goodSilence + 1 /\ goodSilence' <= MaxAge
        /\ sinceReceived' <= sinceReceived + 1
        /\ sinceReceived < MaxAge => sinceReceived' = sinceReceived + 1
        /\ sinceReceived = MaxAge => sinceReceived' = MaxAge
    BY <2>1, Ageing, Times DEF SupervisorTypes, Aged
  <2>3. goodSilence' <= sinceReceived' + Behind(0)
    <3>1. sinceReceived <= MaxAge
      BY DEF SupervisorTypes
    <3>2. QED
      BY <1>1, <1>4, <2>2, <3>1, Times
  <2>4. CASE pc = "held"
    <3>1. HoldInv'
      BY <1>10, HoldKept DEF Next
    <3>2. holdAge' = holdAge + 1 /\ sinceReceived' <= holdAge' /\ holdAge' <= MaxHold
      <4>1. holdAge < MaxHold /\ holdAge \in 0 .. MaxAge
        BY <1>10, <2>4 DEF Tick, SupervisorTypes
      <4>2. holdAge < MaxAge
        BY <4>1, Times
      <4>3. QED
        BY <2>1, <2>4, <3>1, <4>1, <4>2, Ageing DEF HoldInv
    <3>3. Extra' = Extra + 1
      BY <2>1, <2>4, <3>2
    <3>4. \A i \in DOMAIN queue' : queue'[i].kind \in Parsed => goodSilence' <= Behind(i) + Extra'
      BY <1>1, <1>2, <1>3, <1>4, <2>1, <2>2, <3>3
    <3>5. sinceReceived' <= InitGrace + passAge' /\ sinceReceived' <= InitGrace + Budget
      <4>1. MaxHold <= InitGrace /\ holdAge' \in Nat
        BY <1>1, <3>2, Times
      <4>2. sinceReceived' <= InitGrace
        BY <2>2, <3>2, <4>1, Times
      <4>3. sinceReceived' \in Nat /\ passAge' \in Nat /\ InitGrace \in Nat /\ Budget \in Nat
        BY <2>2, Times
      <4>4. sinceReceived' <= InitGrace + passAge'
        BY <4>2, <4>3, Within
      <4>5. sinceReceived' <= InitGrace + Budget
        BY <4>2, <4>3, Within
      <4>6. QED
        BY <4>4, <4>5
    <3>6. QED
      BY <2>3, <3>4, <3>5 DEF QuietInv
  <2>5. CASE pc = "wait" /\ queue = <<>> /\ passAge < Budget
    <3>1. passAge < MaxAge /\ passAge \in 0 .. MaxAge
      BY <1>1, <2>5, Times DEF SupervisorTypes
    <3>2. passAge' = passAge + 1
      BY <2>1, <3>1, Ageing
    <3>3. sinceReceived' <= InitGrace + passAge' /\ sinceReceived' <= InitGrace + Budget
      BY <1>1, <1>4, <2>2, <2>5, <3>2, Times
    <3>4. QED
      BY <2>1, <2>3, <2>5, <3>3 DEF QuietInv
  <2>6. QED
    BY <1>10, <2>4, <2>5 DEF Tick
<1>11. CASE UNCHANGED vars
  BY <1>11 DEF vars, QuietInv
<1>12. QED
  BY <1>5, <1>6, <1>7, <1>8, <1>9, <1>10, <1>11 DEF Next, Driver

------------------------------------------------------------------------------
(* The theorems. *)

THEOREM SupervisorInvariant == Spec => []SupervisorInv
<1>1. Init => SupervisorInv
  <2> SUFFICES ASSUME Init PROVE SupervisorInv
    OBVIOUS
  <2> USE DEF Init
  <2>1. SupervisorTypes
    <3>1. queue \in Seq(Lines) /\ Len(queue) = 0
      OBVIOUS
    <3>2. rawSeen \in BOOLEAN /\ alive \in BOOLEAN /\ healthy \in BOOLEAN
          /\ spoke \in BOOLEAN /\ staleHeard \in BOOLEAN
      OBVIOUS
    <3>3. QED
      BY <3>1, <3>2, Times DEF SupervisorTypes
  <2>2. ~Unread
    BY DEF Unread
  <2>3. HoldInv /\ SpokenInv /\ HeardInv /\ HealthyNeverTornDown /\ MuteInv
    BY <2>2, Times DEF HoldInv, SpokenInv, HeardInv, HealthyNeverTornDown, MuteInv
  <2>4. Behind(0) \in Nat
    BY Times, HoldTimes
  <2>5. QuietInv
    BY <2>4, Times DEF QuietInv, Trusted
  <2>6. QED
    BY <2>1, <2>3, <2>5 DEF SupervisorInv
<1>2. SupervisorInv /\ [Next]_vars => SupervisorInv'
  BY TypesKept, HoldKept, SpokenKept, HeardKept, TornKept, MuteKept, QuietKept
  DEF SupervisorInv
<1>3. QED
  BY <1>1, <1>2, PTL DEF Spec

\* A receiver that still receives is never torn down by the watchdog, whatever
\* the engine holds up and whatever a swap leaves in the queue, unless a line of
\* the child that was swapped out re-armed it.
THEOREM HealthyIsLeftAlone == Spec => []HealthyNeverTornDown
<1>1. SupervisorInv => HealthyNeverTornDown
  BY DEF SupervisorInv
<1>2. QED
  BY <1>1, SupervisorInvariant, PTL

\* The diagnosis "mute" is true of the child it is written about.
THEOREM MuteIsMute == Spec => []MuteMeansMute
<1>1. SupervisorInv => MuteMeansMute
  <2> SUFFICES ASSUME SupervisorInv, pc = "stalled", ~rawSeen, queue = <<>>
               PROVE  silence > stall_timeout
    BY DEF MuteMeansMute
  <2>1. sinceReceived > stall_timeout /\ sinceReceived <= silence
    BY DEF SupervisorInv, MuteInv
  <2>2. QED
    BY <2>1, Times DEF SupervisorInv, SupervisorTypes
<1>2. QED
  BY <1>1, SupervisorInvariant, PTL

\* A receiver that has gone quiet is noticed within one deadline, one pass and
\* the time the engine may hold a queue of packets.
THEOREM SilenceIsBounded == Spec => []SilenceBounded
<1>1. SupervisorInv => SilenceBounded
  <2> SUFFICES ASSUME SupervisorInv, Trusted
               PROVE  goodSilence <= InitGrace + Budget + MaxQueue * MaxHold
    BY DEF SilenceBounded, Trusted
  <2>1. goodSilence <= sinceReceived + Behind(0) /\ sinceReceived <= InitGrace + Budget
    BY DEF SupervisorInv, QuietInv
  <2>2. Behind(0) = MaxQueue * MaxHold /\ Behind(0) \in Nat
    BY Times, HoldTimes DEF Behind
  <2>3. goodSilence \in Nat /\ sinceReceived \in Nat
    BY DEF SupervisorInv, SupervisorTypes
  <2>4. QED
    BY <2>1, <2>2, <2>3, Times
<1>2. QED
  BY <1>1, SupervisorInvariant, PTL

------------------------------------------------------------------------------
(***************************************************************************)
(* Reception: a count and the slots it is divided by are of the same       *)
(* stretch of time, unless the receiver was replaced within it unnoticed.  *)
(***************************************************************************)

\* The packets of transmitter i that the driver read after a, up to b.
Read(i, a, b) == {t \in rx[i] : a < t /\ t <= b}

Summaries == [from : Nat, to : Nat, count : Nat, slots : Int]

LinkTypes ==
  /\ now \in Nat
  /\ go \in [Tx -> Nat] /\ curr_cnt \in [Tx -> Nat] /\ last_cnt \in [Tx -> Nat]
  /\ prev_pkt_ts \in [Tx -> Nat] /\ last_pkt_ts \in [Tx -> Nat]
  /\ ready \in BOOLEAN
  /\ respawned \subseteq 0 .. now
  /\ rx \in [Tx -> SUBSET (1 .. now)]
  /\ published \in [Tx -> Summaries \cup {None}]

\* A baseline is an instant before the last packet, or there is neither.
Ordered(i) ==
  /\ prev_pkt_ts[i] <= last_pkt_ts[i] /\ last_pkt_ts[i] <= now
  /\ prev_pkt_ts[i] = 0 => last_pkt_ts[i] = 0

\* A transmitter heard of the present receiver: its counter is read to the last.
UpToDate(i) ==
  (\A at \in respawned : at < last_pkt_ts[i]) /\ last_pkt_ts[i] # 0 =>
    ready /\ curr_cnt[i] = go[i] /\ \A t \in rx[i] : t <= last_pkt_ts[i]

\* The receiver was replaced in between.
Spans(from, to) == \E at \in respawned : from <= at /\ at < to

\* What one receiver counted from the baseline on is what was read since.
CountIsRead(i) ==
  prev_pkt_ts[i] # 0 /\ ~Spans(prev_pkt_ts[i], last_pkt_ts[i]) =>
    Count(i) = Cardinality(Read(i, prev_pkt_ts[i], last_pkt_ts[i]))

\* The driver reads packets in their slots.
OnSlots == \A i \in Tx : \A t \in rx[i] : Due(i, t)

\* What an archive record was given was that, then, and packets read later do not change it.
PublishedInv(i) ==
  published[i] # None =>
    /\ published[i].from <= published[i].to /\ published[i].to <= now
    /\ published[i].slots = Rounded(published[i].to - published[i].from)
    /\ ~Spans(published[i].from, published[i].to) =>
         published[i].count = Cardinality(Read(i, published[i].from, published[i].to))

LinkInv ==
  /\ LinkTypes /\ OnSlots
  /\ \A i \in Tx : Ordered(i) /\ UpToDate(i) /\ CountIsRead(i) /\ PublishedInv(i)

LEMMA Constants ==
  Period \in Nat /\ 0 < Period /\ Tx \subseteq 1 .. Period
BY LinkStatsAssumption

LEMMA ReadFinite ==
  ASSUME LinkTypes, NEW i \in Tx, NEW a \in Nat, NEW b \in Nat
  PROVE  /\ IsFiniteSet(Read(i, a, b)) /\ Cardinality(Read(i, a, b)) \in Nat
         /\ Read(i, a, b) = {} <=> Cardinality(Read(i, a, b)) = 0
<1>1. Read(i, a, b) \subseteq 1 .. now /\ now \in Int
  BY DEF Read, LinkTypes
<1>2. IsFiniteSet(1 .. now)
  BY <1>1, FS_Interval
<1>3. IsFiniteSet(Read(i, a, b))
  BY <1>1, <1>2, FS_Subset
<1> QED
  BY <1>3, FS_CardinalityType, FS_EmptySet

LEMMA RoundedZero == Rounded(0) = 0
BY Constants DEF Rounded

\* A step that leaves the receiver and the driver alone.
LEMMA ClockStep ==
  ASSUME LinkInv, UNCHANGED linkVars, now' \in {now, now + 1}
  PROVE  LinkInv'
<1>1. LinkTypes
  BY DEF LinkInv
<1>2. UNCHANGED <<go, ready, curr_cnt, last_cnt, prev_pkt_ts, last_pkt_ts, respawned, rx, published>>
  BY DEF linkVars, stats
<1>3. now \in Nat /\ now' \in Nat /\ now <= now'
  BY <1>1 DEF LinkTypes
<1>4. LinkTypes'
  BY <1>1, <1>2, <1>3 DEF LinkTypes, Summaries
<1>5. OnSlots'
  BY <1>2 DEF LinkInv, OnSlots
<1>6. ASSUME NEW i \in Tx
      PROVE  Ordered(i)' /\ UpToDate(i)' /\ CountIsRead(i)' /\ PublishedInv(i)'
  <2>1. Ordered(i) /\ UpToDate(i) /\ CountIsRead(i) /\ PublishedInv(i)
    BY DEF LinkInv
  <2>2. Ordered(i)'
    BY <1>1, <1>2, <1>3, <2>1 DEF Ordered, LinkTypes
  <2>3. UpToDate(i)'
    BY <1>2, <2>1 DEF UpToDate
  <2>4. CountIsRead(i)'
    BY <1>2, <2>1 DEF CountIsRead, Spans, Count, Read
  <2>5. PublishedInv(i)'
    <3>1. published[i] # None => published[i].to \in Nat
      BY <1>1 DEF LinkTypes, Summaries
    <3> QED
      BY <1>2, <1>3, <2>1, <3>1 DEF PublishedInv, Spans, Read
  <2> QED
    BY <2>2, <2>3, <2>4, <2>5
<1> QED
  BY <1>4, <1>5, <1>6 DEF LinkInv

LEMMA RespawnStep ==
  ASSUME LinkInv, Respawn
  PROVE  LinkInv'
<1>1. LinkTypes
  BY DEF LinkInv
<1>2. /\ go' = [i \in Tx |-> 0] /\ ready' = FALSE /\ respawned' = respawned \cup {now}
      /\ UNCHANGED <<now, curr_cnt, last_cnt, prev_pkt_ts, last_pkt_ts, rx, published>>
  BY DEF Respawn, stats
<1>3. LinkTypes'
  <2>1. go' \in [Tx -> Nat] /\ ready' \in BOOLEAN
    BY <1>1, <1>2
  <2>2. respawned \subseteq 0 .. now /\ now \in Nat
    BY <1>1 DEF LinkTypes
  <2>3. respawned' \subseteq 0 .. now'
    BY <1>2, <2>2
  <2> QED
    BY <1>1, <1>2, <2>1, <2>3 DEF LinkTypes, Summaries
<1>4. OnSlots'
  BY <1>2 DEF LinkInv, OnSlots
<1>5. ASSUME NEW i \in Tx
      PROVE  Ordered(i)' /\ UpToDate(i)' /\ CountIsRead(i)' /\ PublishedInv(i)'
  <2>1. Ordered(i) /\ UpToDate(i) /\ CountIsRead(i) /\ PublishedInv(i)
    BY DEF LinkInv
  <2>2. Ordered(i)'
    BY <1>2, <2>1 DEF Ordered
  <2>3. UpToDate(i)'
    BY <1>1, <1>2, <2>1 DEF UpToDate, Ordered, LinkTypes
  <2>4. CountIsRead(i)'
    BY <1>2, <2>1 DEF CountIsRead, Spans, Count, Read
  <2>5. PublishedInv(i)'
    BY <1>2, <2>1 DEF PublishedInv, Spans, Read
  <2> QED
    BY <2>2, <2>3, <2>4, <2>5
<1> QED
  BY <1>3, <1>4, <1>5 DEF LinkInv

\* A packet that the receiver counts in silence.
LEMMA SilentStep ==
  ASSUME LinkInv, NEW j \in Tx, Receive(j), ~ready
  PROVE  LinkInv'
<1>1. LinkTypes
  BY DEF LinkInv
<1>2. /\ now' = now + 1 /\ go' = [go EXCEPT ![j] = go[j] + 1] /\ ready' \in BOOLEAN
      /\ UNCHANGED <<curr_cnt, last_cnt, prev_pkt_ts, last_pkt_ts, respawned, rx, published>>
  BY DEF Receive, stats
<1>3. LinkTypes'
  BY <1>1, <1>2 DEF LinkTypes, Summaries
<1>4. OnSlots'
  BY <1>2 DEF LinkInv, OnSlots
<1>5. ASSUME NEW i \in Tx
      PROVE  Ordered(i)' /\ UpToDate(i)' /\ CountIsRead(i)' /\ PublishedInv(i)'
  <2>1. Ordered(i) /\ UpToDate(i) /\ CountIsRead(i) /\ PublishedInv(i)
    BY DEF LinkInv
  <2>2. Ordered(i)'
    BY <1>1, <1>2, <2>1 DEF Ordered, LinkTypes
  <2>3. UpToDate(i)'
    BY <1>2, <2>1 DEF UpToDate
  <2>4. CountIsRead(i)'
    BY <1>2, <2>1 DEF CountIsRead, Spans, Count, Read
  <2>5. PublishedInv(i)'
    <3>1. published[i] # None => published[i].to \in Nat
      BY <1>1 DEF LinkTypes, Summaries
    <3> QED
      BY <1>1, <1>2, <2>1, <3>1 DEF PublishedInv, Spans, Read, LinkTypes
  <2> QED
    BY <2>2, <2>3, <2>4, <2>5
<1> QED
  BY <1>3, <1>4, <1>5 DEF LinkInv

\* What a transmitter's counts become when a packet of j is logged.
LEMMA HeardStep ==
  ASSUME LinkInv, NEW j \in Tx, Receive(j), ready, NEW i \in Tx
  PROVE  /\ now' = now + 1 /\ go' = [go EXCEPT ![j] = go[j] + 1] /\ ready'
         /\ curr_cnt' = go' /\ UNCHANGED <<respawned, published>>
         /\ rx' = [rx EXCEPT ![j] = rx[j] \cup {now + 1}]
         /\ go'[i] = curr_cnt[i] =>
              prev_pkt_ts'[i] = prev_pkt_ts[i] /\ last_pkt_ts'[i] = last_pkt_ts[i]
              /\ last_cnt'[i] = last_cnt[i]
         /\ go'[i] # curr_cnt[i] =>
              /\ last_pkt_ts'[i] = now + 1
              /\ prev_pkt_ts[i] = 0 => prev_pkt_ts'[i] = now + 1 /\ last_cnt'[i] = go'[i]
              /\ prev_pkt_ts[i] # 0 => prev_pkt_ts'[i] = prev_pkt_ts[i]
                                       /\ last_cnt'[i] = last_cnt[i]
BY DEF Receive, UpdateStats, CountSeed

\* A packet that the receiver logs: one more is counted for the one it is of, and every
\* counter that moved in silence is a baseline now.
LEMMA LoggedStep ==
  ASSUME LinkInv, NEW j \in Tx, Receive(j), ready
  PROVE  LinkInv'
<1>1. LinkTypes
  BY DEF LinkInv
<1>2. /\ now' = now + 1 /\ go' = [go EXCEPT ![j] = go[j] + 1] /\ ready'
      /\ curr_cnt' = go' /\ UNCHANGED <<respawned, published>>
      /\ rx' = [rx EXCEPT ![j] = rx[j] \cup {now + 1}]
  BY HeardStep
<1>3. now \in Nat /\ now + 1 \in Nat
  BY <1>1 DEF LinkTypes
<1>4. LinkTypes'
  <2>1. go' \in [Tx -> Nat] /\ curr_cnt' \in [Tx -> Nat] /\ ready' \in BOOLEAN
    BY <1>1, <1>2 DEF LinkTypes, Receive
  <2>2. rx' \in [Tx -> SUBSET (1 .. now')] /\ respawned' \subseteq 0 .. now'
    BY <1>1, <1>2 DEF LinkTypes
  <2>3. /\ prev_pkt_ts' \in [Tx -> Nat] /\ last_pkt_ts' \in [Tx -> Nat]
        /\ last_cnt' \in [Tx -> Nat]
    BY <1>1, <1>2, <1>3, <2>1 DEF LinkTypes, Receive, UpdateStats, CountSeed
  <2> QED
    BY <1>1, <1>2, <1>3, <2>1, <2>2, <2>3 DEF LinkTypes, Summaries
<1>5. OnSlots'
  <2>1. Due(j, now + 1)
    BY DEF Receive
  <2>2. OnSlots
    BY DEF LinkInv
  <2> QED
    BY <1>1, <1>2, <2>1, <2>2 DEF OnSlots, LinkTypes, Due
<1>6. ASSUME NEW i \in Tx
      PROVE  Ordered(i)' /\ UpToDate(i)' /\ CountIsRead(i)' /\ PublishedInv(i)'
  <2>1. Ordered(i) /\ UpToDate(i) /\ CountIsRead(i) /\ PublishedInv(i)
    BY DEF LinkInv
  <2>2. /\ go[i] \in Nat /\ curr_cnt[i] \in Nat /\ last_cnt[i] \in Nat
        /\ prev_pkt_ts[i] \in Nat /\ last_pkt_ts[i] \in Nat
        /\ rx[i] \subseteq 1 .. now /\ respawned \subseteq 0 .. now
    BY <1>1 DEF LinkTypes
  <2>3. /\ go'[i] = IF i = j THEN go[i] + 1 ELSE go[i]
        /\ rx'[i] = IF i = j THEN rx[i] \cup {now + 1} ELSE rx[i]
    BY <1>1, <1>2 DEF LinkTypes
  <2>4. PublishedInv(i)'
    <3>1. published[i] # None => published[i].to \in Nat /\ published[i].from \in Nat
      BY <1>1 DEF LinkTypes, Summaries
    <3>2. ASSUME published[i] # None, published[i].to <= now
          PROVE  Read(i, published[i].from, published[i].to)'
                   = Read(i, published[i].from, published[i].to)
      BY <1>2, <1>3, <2>3, <3>1, <3>2 DEF Read
    <3> QED
      BY <1>2, <1>3, <2>1, <3>1, <3>2 DEF PublishedInv, Spans
  <2>5. CASE go'[i] = curr_cnt[i]
    <3>1. /\ prev_pkt_ts'[i] = prev_pkt_ts[i] /\ last_pkt_ts'[i] = last_pkt_ts[i]
          /\ last_cnt'[i] = last_cnt[i] /\ curr_cnt'[i] = curr_cnt[i]
      BY <1>2, <2>5, HeardStep
    <3>2. Ordered(i)'
      BY <1>2, <1>3, <2>1, <2>2, <3>1 DEF Ordered
    <3>3. UpToDate(i)'
      BY <1>2, <2>1, <2>2, <2>3, <2>5, <3>1 DEF UpToDate
    <3>4. CountIsRead(i)'
      <4>1. Read(i, prev_pkt_ts[i], last_pkt_ts[i])' = Read(i, prev_pkt_ts[i], last_pkt_ts[i])
        BY <1>3, <2>1, <2>2, <2>3, <3>1 DEF Read, Ordered
      <4> QED
        BY <1>2, <2>1, <3>1, <4>1 DEF CountIsRead, Spans, Count
    <3> QED
      BY <2>4, <3>2, <3>3, <3>4
  <2>6. CASE go'[i] # curr_cnt[i]
    <3>1. last_pkt_ts'[i] = now + 1 /\ curr_cnt'[i] = go'[i]
      BY <1>2, <2>6, HeardStep
    <3>2. UpToDate(i)'
      BY <1>2, <1>3, <2>2, <2>3, <3>1 DEF UpToDate
    <3>3. CASE prev_pkt_ts[i] = 0
      <4>1. prev_pkt_ts'[i] = now + 1 /\ last_cnt'[i] = go'[i]
        BY <2>6, <3>3, HeardStep
      <4>2. Ordered(i)'
        BY <1>2, <1>3, <3>1, <4>1 DEF Ordered
      <4>3. Read(i, prev_pkt_ts[i], last_pkt_ts[i])' = {}
        <5>1. \A t \in rx'[i] : ~(now + 1 < t /\ t <= now + 1)
          BY <1>3, <2>2, <2>3
        <5> QED
          BY <3>1, <4>1, <5>1 DEF Read
      <4>4. Count(i)' = 0
        BY <2>2, <2>3, <3>1, <4>1 DEF Count
      <4>5. CountIsRead(i)'
        <5>1. Cardinality(Read(i, prev_pkt_ts[i], last_pkt_ts[i]))' = 0
          BY <4>3, FS_EmptySet
        <5> QED
          BY <4>4, <5>1 DEF CountIsRead
      <4> QED
        BY <2>4, <3>2, <4>2, <4>5
    <3>4. CASE prev_pkt_ts[i] # 0
      <4>1. prev_pkt_ts'[i] = prev_pkt_ts[i] /\ last_cnt'[i] = last_cnt[i]
        BY <2>6, <3>4, HeardStep
      <4>2. Ordered(i)'
        BY <1>2, <1>3, <2>1, <2>2, <3>1, <3>4, <4>1 DEF Ordered
      <4>3. ASSUME ~Spans(prev_pkt_ts[i], last_pkt_ts[i])'
            PROVE  Count(i)' = Cardinality(Read(i, prev_pkt_ts[i], last_pkt_ts[i]))'
        <5>1. \A at \in respawned : at < prev_pkt_ts[i]
          <6>1. ASSUME NEW at \in respawned
                PROVE  at \in Nat /\ at < now + 1
            <7>1. at \in 0 .. now
              BY <2>2
            <7> QED
              BY <1>3, <7>1
          <6>2. \A at \in respawned : ~(prev_pkt_ts[i] <= at /\ at < now + 1)
            BY <1>2, <3>1, <4>1, <4>3 DEF Spans
          <6>3. ASSUME NEW at \in respawned
                PROVE  at < prev_pkt_ts[i]
            <7>1. prev_pkt_ts[i] \in Nat /\ at \in Nat
              BY <2>2, <6>1
            <7> QED
              BY <6>1, <6>2, <7>1
          <6> QED
            BY <6>3
        <5>2. /\ \A at \in respawned : at < last_pkt_ts[i]
              /\ ~Spans(prev_pkt_ts[i], last_pkt_ts[i]) /\ last_pkt_ts[i] # 0
          BY <2>1, <2>2, <3>4, <5>1 DEF Ordered, Spans
        <5>3. curr_cnt[i] = go[i] /\ \A t \in rx[i] : t <= last_pkt_ts[i]
          BY <2>1, <5>2 DEF UpToDate
        <5>4. Count(i) = Cardinality(Read(i, prev_pkt_ts[i], last_pkt_ts[i]))
          BY <2>1, <3>4, <5>2 DEF CountIsRead
        <5>5. i = j /\ Count(i)' = Count(i) + 1
          BY <2>2, <2>3, <2>6, <3>1, <4>1, <5>3 DEF Count
        <5>6. Read(i, prev_pkt_ts[i], last_pkt_ts[i])'
                = Read(i, prev_pkt_ts[i], last_pkt_ts[i]) \cup {now + 1}
          BY <1>3, <2>1, <2>2, <2>3, <3>1, <4>1, <5>3, <5>5 DEF Read, Ordered
        <5>7. now + 1 \notin Read(i, prev_pkt_ts[i], last_pkt_ts[i])
          BY <1>3, <2>2 DEF Read
        <5> QED
          <6>1. IsFiniteSet(Read(i, prev_pkt_ts[i], last_pkt_ts[i]))
            BY <1>1, <2>2, ReadFinite
          <6>2. Cardinality(Read(i, prev_pkt_ts[i], last_pkt_ts[i]) \cup {now + 1})
                  = Cardinality(Read(i, prev_pkt_ts[i], last_pkt_ts[i])) + 1
            BY <5>7, <6>1, FS_AddElement
          <6> QED
            BY <5>4, <5>5, <5>6, <6>2
      <4>4. CountIsRead(i)'
        BY <4>3 DEF CountIsRead
      <4> QED
        BY <2>4, <3>2, <4>2, <4>4
    <3> QED
      BY <3>3, <3>4
  <2> QED
    BY <2>5, <2>6
<1> QED
  BY <1>4, <1>5, <1>6 DEF LinkInv

\* What an archive record does to a transmitter.
LEMMA BoundaryOf ==
  ASSUME LinkInv, Boundary, NEW i \in Tx
  PROVE  /\ ~started \/ Advanced(i) =>
              last_pkt_ts'[i] = last_pkt_ts[i] /\ prev_pkt_ts'[i] = last_pkt_ts[i]
         /\ started /\ WentBack(i) /\ ~Advanced(i) =>
              last_pkt_ts'[i] = 0 /\ prev_pkt_ts'[i] = 0
         /\ started /\ ~WentBack(i) /\ ~Advanced(i) =>
              last_pkt_ts'[i] = last_pkt_ts[i] /\ prev_pkt_ts'[i] = prev_pkt_ts[i]
         /\ published'[i] = IF started /\ Advanced(i) /\ Slots(i) > 0
                            THEN [count |-> Count(i), slots |-> Slots(i),
                                  from |-> prev_pkt_ts[i], to |-> last_pkt_ts[i]]
                            ELSE None
<1>1. curr_cnt[i] \in Nat /\ last_cnt[i] \in Nat
  BY DEF LinkInv, LinkTypes
<1>2. ~(Advanced(i) /\ WentBack(i))
  BY <1>1 DEF Advanced, WentBack, Count
<1> QED
  BY <1>2 DEF Boundary, FirstBaseline

\* Baselines move to the last packet, stay, or are dropped with the count.
LEMMA BoundaryBaseline ==
  ASSUME LinkInv, Boundary, NEW i \in Tx
  PROVE  /\ last_pkt_ts'[i] \in Nat /\ prev_pkt_ts'[i] \in Nat
         /\ Ordered(i)' /\ UpToDate(i)' /\ CountIsRead(i)'
<1>1. LinkTypes /\ Ordered(i) /\ UpToDate(i) /\ CountIsRead(i)
  BY DEF LinkInv
<1>2. /\ UNCHANGED <<now, go, ready, curr_cnt, respawned, rx>>
      /\ last_cnt' = curr_cnt
  BY DEF Boundary
<1>3. /\ curr_cnt[i] \in Nat /\ last_cnt[i] \in Nat
      /\ prev_pkt_ts[i] \in Nat /\ last_pkt_ts[i] \in Nat /\ now \in Nat
      /\ rx[i] \subseteq 1 .. now
  BY <1>1 DEF LinkTypes
<1>4. Count(i) = curr_cnt[i] - last_cnt[i] /\ Count(i)' = 0
  BY <1>2, <1>3 DEF Count
<1>5. CASE last_pkt_ts'[i] = last_pkt_ts[i] /\ prev_pkt_ts'[i] = last_pkt_ts[i]
  <2>1. Ordered(i)' /\ UpToDate(i)'
    BY <1>1, <1>2, <1>3, <1>5 DEF Ordered, UpToDate
  <2>2. Read(i, prev_pkt_ts[i], last_pkt_ts[i])' = {}
    <3>1. \A t \in rx[i] : ~(last_pkt_ts[i] < t /\ t <= last_pkt_ts[i])
      BY <1>3
    <3> QED
      BY <1>2, <1>5, <3>1 DEF Read
  <2>3. Cardinality(Read(i, prev_pkt_ts[i], last_pkt_ts[i]))' = 0
    BY <2>2, FS_EmptySet
  <2> QED
    BY <1>3, <1>4, <1>5, <2>1, <2>3 DEF CountIsRead
<1>6. CASE last_pkt_ts'[i] = 0 /\ prev_pkt_ts'[i] = 0
  BY <1>2, <1>3, <1>6 DEF Ordered, UpToDate, CountIsRead
<1>7. CASE /\ ~WentBack(i) /\ ~Advanced(i)
           /\ last_pkt_ts'[i] = last_pkt_ts[i] /\ prev_pkt_ts'[i] = prev_pkt_ts[i]
  <2>1. Ordered(i)' /\ UpToDate(i)'
    BY <1>1, <1>2, <1>7 DEF Ordered, UpToDate
  <2>2. ASSUME prev_pkt_ts[i] # 0, ~Spans(prev_pkt_ts[i], last_pkt_ts[i])
        PROVE  Cardinality(Read(i, prev_pkt_ts[i], last_pkt_ts[i])) = 0
    <3>1. Count(i) = Cardinality(Read(i, prev_pkt_ts[i], last_pkt_ts[i]))
      BY <1>1, <2>2 DEF CountIsRead
    <3>2. Cardinality(Read(i, prev_pkt_ts[i], last_pkt_ts[i])) \in Nat
      BY <1>1, <1>3, ReadFinite
    <3> QED
      BY <1>3, <1>4, <1>7, <3>1, <3>2 DEF Advanced, WentBack
  <2>3. CountIsRead(i)'
    BY <1>2, <1>4, <1>7, <2>2 DEF CountIsRead, Spans, Read
  <2> QED
    BY <1>3, <1>7, <2>1, <2>3
<1> QED
  BY <1>5, <1>6, <1>7, BoundaryOf

LEMMA BoundaryPublishes ==
  ASSUME LinkInv, Boundary, NEW i \in Tx
  PROVE  published'[i] \in Summaries \cup {None} /\ PublishedInv(i)'
<1>1. CASE published'[i] = None
  BY <1>1 DEF PublishedInv
<1>2. CASE /\ started /\ Advanced(i) /\ Slots(i) > 0
           /\ published'[i] = [count |-> Count(i), slots |-> Slots(i),
                               from |-> prev_pkt_ts[i], to |-> last_pkt_ts[i]]
  <2>1. /\ curr_cnt[i] \in Nat /\ last_cnt[i] \in Nat
        /\ prev_pkt_ts[i] \in Nat /\ last_pkt_ts[i] \in Nat /\ now \in Nat
    BY DEF LinkInv, LinkTypes
  <2>2. Count(i) \in Nat
    BY <1>2, <2>1 DEF Advanced, Count
  <2>3. Slots(i) \in Int
    BY <2>1, Constants DEF Slots, Rounded
  <2>4. published'[i] \in Summaries
    BY <1>2, <2>1, <2>2, <2>3 DEF Summaries
  <2>5. Ordered(i) /\ CountIsRead(i)
    BY DEF LinkInv
  <2>6. prev_pkt_ts[i] # 0
    <3> SUFFICES ASSUME prev_pkt_ts[i] = 0
                 PROVE  FALSE
      OBVIOUS
    <3>1. last_pkt_ts[i] - prev_pkt_ts[i] = 0
      BY <2>5 DEF Ordered
    <3>2. Slots(i) = 0
      BY <3>1, RoundedZero DEF Slots
    <3> QED
      BY <1>2, <3>2
  <2>7. ~Spans(prev_pkt_ts[i], last_pkt_ts[i]) =>
          Count(i) = Cardinality(Read(i, prev_pkt_ts[i], last_pkt_ts[i]))
    BY <2>5, <2>6 DEF CountIsRead
  <2>8. UNCHANGED <<now, respawned, rx>>
    BY DEF Boundary
  <2>9. PublishedInv(i)'
    BY <1>2, <2>5, <2>7, <2>8 DEF PublishedInv, Ordered, Slots, Spans, Read
  <2> QED
    BY <2>4, <2>9
<1> QED
  BY <1>1, <1>2, BoundaryOf

LEMMA BoundaryStep ==
  ASSUME LinkInv, Boundary
  PROVE  LinkInv'
<1>1. LinkTypes /\ OnSlots
  BY DEF LinkInv
<1>2. /\ UNCHANGED <<now, go, ready, curr_cnt, respawned, rx>>
      /\ last_cnt' = curr_cnt
  BY DEF Boundary
<1>3. /\ last_pkt_ts' \in [Tx -> Nat] /\ prev_pkt_ts' \in [Tx -> Nat]
      /\ published' \in [Tx -> Summaries \cup {None}]
  <2>1. /\ last_pkt_ts' = [i \in Tx |-> last_pkt_ts'[i]]
        /\ prev_pkt_ts' = [i \in Tx |-> prev_pkt_ts'[i]]
        /\ published' = [i \in Tx |-> published'[i]]
    BY <1>1 DEF Boundary, LinkTypes
  <2>2. \A i \in Tx : /\ last_pkt_ts'[i] \in Nat /\ prev_pkt_ts'[i] \in Nat
                      /\ published'[i] \in Summaries \cup {None}
    BY BoundaryBaseline, BoundaryPublishes
  <2> QED
    BY <2>1, <2>2
<1>4. LinkTypes'
  BY <1>1, <1>2, <1>3 DEF LinkTypes
<1>5. OnSlots'
  BY <1>1, <1>2 DEF OnSlots
<1> QED
  BY <1>4, <1>5, BoundaryBaseline, BoundaryPublishes DEF LinkInv

LEMMA LinkInvInit ==
  ASSUME LinkInit
  PROVE  LinkInv
<1>1. /\ go = [i \in Tx |-> 0] /\ curr_cnt = [i \in Tx |-> 0] /\ last_cnt = [i \in Tx |-> 0]
      /\ prev_pkt_ts = [i \in Tx |-> 0] /\ last_pkt_ts = [i \in Tx |-> 0]
      /\ ready = FALSE /\ respawned = {} /\ now = 0
      /\ rx = [i \in Tx |-> {}] /\ published = [i \in Tx |-> None]
  BY DEF LinkInit, CrcInit
<1>2. LinkTypes
  BY <1>1 DEF LinkTypes
<1> QED
  BY <1>1, <1>2 DEF LinkInv, OnSlots, Ordered, UpToDate, CountIsRead, PublishedInv

LEMMA LinkInvNext ==
  ASSUME LinkInv, [LinkNext]_linkStatsVars
  PROVE  LinkInv'
<1>1. ASSUME NEW i \in Tx, Receive(i)
      PROVE  LinkInv'
  BY <1>1, SilentStep, LoggedStep
<1>2. CASE Miss
  BY <1>2, ClockStep DEF Miss
<1>3. CASE /\ observed = "failures" /\ UNCHANGED <<observed, linkVars>>
           /\ \/ /\ now < MaxNow[observed]
                 /\ \E n \in 0 .. MaxInBlock, off \in {0, 1}, accept \in BOOLEAN :
                      Block(n, off, accept)
              \/ TallyLine
  <2>1. now' \in {now, now + 1}
    BY <1>3 DEF Block, TallyLine
  <2> QED
    BY <1>3, <2>1, ClockStep
<1>4. CASE UNCHANGED linkStatsVars
  BY <1>4, ClockStep DEF linkStatsVars
<1> QED
  BY <1>1, <1>2, <1>3, <1>4, RespawnStep, BoundaryStep DEF LinkNext

LEMMA LinkInvAlways == LinkSpec => []LinkInv
BY LinkInvInit, LinkInvNext, PTL DEF LinkSpec

\* Every packet that was read is counted in the period that its slot is in.
THEOREM PacketsAreCounted == LinkSpec => []CountsWhatWasRead
<1>1. LinkInv => CountsWhatWasRead
  BY DEF LinkInv, PublishedInv, Spans, Read, CountsWhatWasRead, SpansRespawn
<1> QED
  BY <1>1, LinkInvAlways, PTL

\* A greater quotient is a whole period more.
LEMMA Product ==
  ASSUME NEW p \in Int, NEW q \in Int, p < q
  PROVE  Period * p + Period <= Period * q
<1>1. Period \in Nat
  BY Constants
<1>2. q - p - 1 \in Nat
  OBVIOUS
<1>3. Period * (q - p - 1) >= 0
  BY <1>1, <1>2
<1>4. Period * (q - p - 1) = Period * q - Period * p - Period
  BY <1>1
<1> QED
  BY <1>1, <1>3, <1>4

\* Division by the period, kept opaque.
Quotient(x) == x \div Period
Rest(x) == x % Period

LEMMA Divided ==
  ASSUME NEW x \in Nat
  PROVE  /\ Quotient(x) \in Nat /\ Rest(x) \in Nat /\ Rest(x) < Period
         /\ Period * Quotient(x) \in Nat
         /\ x = Period * Quotient(x) + Rest(x)
<1>1. Period \in Nat /\ 0 < Period
  BY Constants
<1>2. Quotient(x) \in Nat
  BY <1>1 DEF Quotient
<1>3. Rest(x) \in Nat /\ Rest(x) < Period
  BY <1>1 DEF Rest
<1>4. Rest(x) = x - Period * Quotient(x)
  BY <1>1 DEF Quotient, Rest
<1>5. Period * Quotient(x) \in Nat
  BY <1>1, <1>2
<1> QED
  BY <1>2, <1>3, <1>4, <1>5

\* Which of two instants is the later one, by quotient and rest.
LEMMA Later ==
  ASSUME NEW x \in Nat, NEW y \in Nat, x < y
  PROVE  /\ Quotient(x) <= Quotient(y)
         /\ Rest(y) <= Rest(x) => Quotient(x) < Quotient(y)
<1>1. Period \in Nat /\ 0 < Period
  BY Constants
<1>2. /\ Quotient(x) \in Nat /\ Rest(x) \in Nat /\ Rest(x) < Period
      /\ Period * Quotient(x) \in Nat /\ x = Period * Quotient(x) + Rest(x)
  BY Divided
<1>3. /\ Quotient(y) \in Nat /\ Rest(y) \in Nat /\ Rest(y) < Period
      /\ Period * Quotient(y) \in Nat /\ y = Period * Quotient(y) + Rest(y)
  BY Divided
<1>4. Quotient(y) < Quotient(x) =>
        Period * Quotient(y) + Period <= Period * Quotient(x)
  BY <1>2, <1>3, Product
<1>5. Quotient(x) <= Quotient(y)
  BY <1>1, <1>2, <1>3, <1>4
<1>6. Quotient(x) = Quotient(y) => Period * Quotient(x) = Period * Quotient(y)
  OBVIOUS
<1> QED
  BY <1>2, <1>3, <1>5, <1>6

\* The quotient of a difference.
LEMMA DividedBetween ==
  ASSUME NEW x \in Nat, NEW y \in Nat, x <= y
  PROVE  Quotient(y - x) = Quotient(y) - Quotient(x) - (IF Rest(y) < Rest(x) THEN 1 ELSE 0)
<1> DEFINE p == Quotient(x)
           q == Quotient(y)
           r == Rest(x)
           s == Rest(y)
           d == Quotient(y - x)
           e == Rest(y - x)
<1>1. Period \in Nat /\ 0 < Period /\ y - x \in Nat
  BY Constants
<1>2. p \in Nat /\ r \in Nat /\ r < Period /\ Period * p \in Nat /\ x = Period * p + r
  BY Divided
<1>3. q \in Nat /\ s \in Nat /\ s < Period /\ Period * q \in Nat /\ y = Period * q + s
  BY Divided
<1>4. d \in Nat /\ e \in Nat /\ e < Period /\ Period * d \in Nat /\ y - x = Period * d + e
  BY <1>1, Divided
<1> HIDE DEF p, q, r, s, d, e
<1>5. r <= s => d = q - p
  <2> SUFFICES ASSUME r <= s
               PROVE  d = q - p
    OBVIOUS
  <2>1. Period * (q - p) = Period * q - Period * p
    BY <1>1, <1>2, <1>3
  <2>2. ~(d < q - p)
    <3>1. d < q - p => Period * d + Period <= Period * (q - p)
      BY <1>2, <1>3, <1>4, Product
    <3> QED
      BY <1>1, <1>2, <1>3, <1>4, <2>1, <3>1
  <2>3. ~(q - p < d)
    <3>1. q - p < d => Period * (q - p) + Period <= Period * d
      BY <1>2, <1>3, <1>4, Product
    <3> QED
      BY <1>1, <1>2, <1>3, <1>4, <2>1, <3>1
  <2> QED
    BY <1>2, <1>3, <1>4, <2>2, <2>3
<1>6. s < r => d = q - p - 1
  <2> SUFFICES ASSUME s < r
               PROVE  d = q - p - 1
    OBVIOUS
  <2>1. Period * (q - 1 - p) = Period * q - Period - Period * p
    BY <1>1, <1>2, <1>3
  <2>2. ~(d < q - 1 - p)
    <3>1. d < q - 1 - p => Period * d + Period <= Period * (q - 1 - p)
      BY <1>2, <1>3, <1>4, Product
    <3> QED
      BY <1>1, <1>2, <1>3, <1>4, <2>1, <3>1
  <2>3. ~(q - 1 - p < d)
    <3>1. q - 1 - p < d => Period * (q - 1 - p) + Period <= Period * d
      BY <1>2, <1>3, <1>4, Product
    <3> QED
      BY <1>1, <1>2, <1>3, <1>4, <2>1, <3>1
  <2> QED
    BY <1>2, <1>3, <1>4, <2>2, <2>3
<1>7. CASE r <= s
  BY <1>2, <1>3, <1>4, <1>5, <1>7 DEF p, q, r, s, d
<1>8. CASE s < r
  BY <1>2, <1>3, <1>4, <1>6, <1>8 DEF p, q, r, s, d
<1> QED
  BY <1>2, <1>3, <1>7, <1>8

LEMMA RoundedAbove ==
  ASSUME NEW x \in Nat
  PROVE  Rounded(x) \in Nat /\ Quotient(x) <= Rounded(x)
<1>1. Quotient(x) \in Nat
  BY Divided
<1>2. Rounded(x) \in {Quotient(x), Quotient(x) + 1}
  BY DEF Rounded, Quotient
<1> QED
  BY <1>1, <1>2

\* The slots of a transmitter between two instants are no more than the rounded
\* number of periods, and one more when the first instant is not on a slot itself.
LEMMA SlotsBetween ==
  ASSUME NEW i \in Nat, NEW a \in Nat, NEW b \in Nat, a <= b,
         NEW S \in SUBSET Nat, \A t \in S : a < t /\ t <= b /\ Due(i, t)
  PROVE  Cardinality(S) <= Rounded(b - a) + (IF Due(i, a) THEN 0 ELSE 1)
<1> DEFINE first == IF Rest(i) <= Rest(a) THEN Quotient(a) + 1 ELSE Quotient(a)
           last == IF Rest(i) <= Rest(b) THEN Quotient(b) ELSE Quotient(b) - 1
           slot == [t \in S |-> Quotient(t)]
<1>1. \A t : Due(i, t) <=> Rest(t) = Rest(i)
  BY DEF Due, Rest
<1>2. /\ Quotient(a) \in Nat /\ Quotient(b) \in Nat
      /\ Rest(a) \in Nat /\ Rest(b) \in Nat /\ Rest(i) \in Nat
  BY Divided
<1>3. first \in Int /\ last \in Int
  BY <1>2
<1>4. ASSUME NEW t \in S
      PROVE  Quotient(t) \in first .. last
  <2>1. t \in Nat /\ a < t /\ t <= b /\ Rest(t) = Rest(i) /\ Quotient(t) \in Nat
    BY <1>1, Divided
  <2>2. first <= Quotient(t)
    <3>1. Quotient(a) <= Quotient(t) /\ (Rest(t) <= Rest(a) => Quotient(a) < Quotient(t))
      BY <2>1, Later
    <3> QED
      BY <1>2, <2>1, <3>1
  <2>3. Quotient(t) <= last
    <3>1. CASE t = b
      BY <1>2, <2>1, <3>1
    <3>2. CASE t < b
      <4>1. Quotient(t) <= Quotient(b) /\ (Rest(b) <= Rest(t) => Quotient(t) < Quotient(b))
        BY <2>1, <3>2, Later
      <4> QED
        BY <1>2, <2>1, <4>1
    <3> QED
      BY <2>1, <3>1, <3>2
  <2> QED
    BY <1>3, <2>1, <2>2, <2>3
<1>5. slot \in Injection(S, first .. last)
  <2>1. slot \in [S -> first .. last]
    BY <1>4
  <2>2. ASSUME NEW t \in S, NEW u \in S, Quotient(t) = Quotient(u)
        PROVE  t = u
    <3>1. t = Period * Quotient(t) + Rest(t) /\ u = Period * Quotient(u) + Rest(u)
      BY Divided
    <3>2. Rest(t) = Rest(u)
      BY <1>1
    <3> QED
      BY <2>2, <3>1, <3>2
  <2>3. \A t, u \in S : slot[t] = slot[u] => t = u
    BY <2>2
  <2>4. DOMAIN slot = S
    OBVIOUS
  <2> HIDE DEF slot, first, last
  <2> QED
    BY <2>1, <2>3, <2>4 DEF Injection, IsInjective
<1> HIDE DEF slot
<1>6. /\ IsFiniteSet(first .. last)
      /\ Cardinality(first .. last) = IF first > last THEN 0 ELSE last - first + 1
  BY <1>3, FS_Interval
<1>7. IsFiniteSet(S) /\ Cardinality(S) <= Cardinality(first .. last)
  BY <1>5, <1>6, FS_Injection
<1>8. Cardinality(S) \in Nat
  BY <1>7, FS_CardinalityType
<1> DEFINE bound == Rounded(b - a) + (IF Due(i, a) THEN 0 ELSE 1)
<1>9. Rounded(b - a) \in Nat /\ Quotient(b - a) <= Rounded(b - a) /\ Quotient(b - a) \in Nat
  BY RoundedAbove, Divided
<1>10. last - first + 1 <= bound /\ bound \in Nat
  <2>1. Quotient(b - a) = Quotient(b) - Quotient(a) - (IF Rest(b) < Rest(a) THEN 1 ELSE 0)
    BY DividedBetween
  <2>2. CASE Rest(b) < Rest(a)
    BY <1>1, <1>2, <1>9, <2>1, <2>2
  <2>3. CASE Rest(a) <= Rest(b)
    BY <1>1, <1>2, <1>9, <2>1, <2>3
  <2> QED
    BY <1>2, <2>2, <2>3
<1> HIDE DEF first, last, bound
<1>11. Cardinality(S) <= bound
  BY <1>3, <1>6, <1>7, <1>8, <1>10
<1> QED
  BY <1>11 DEF bound

\* A transmitter is not counted more often than it had slots.
THEOREM CountsFitTheSlots == LinkSpec => []CountWithinSlots
<1>1. ASSUME LinkInv, NEW i \in Tx, published[i] # None, ~SpansRespawn(published[i])
      PROVE  published[i].count
               <= published[i].slots + (IF Due(i, published[i].from) THEN 0 ELSE 1)
  <2> DEFINE a == published[i].from
             b == published[i].to
  <2>1. a \in Nat /\ b \in Nat /\ a <= b /\ i \in Nat
    BY <1>1, Constants DEF LinkInv, LinkTypes, Summaries, PublishedInv
  <2>2. published[i].count = Cardinality(Read(i, a, b)) /\ published[i].slots = Rounded(b - a)
    BY <1>1 DEF LinkInv, PublishedInv, Spans, SpansRespawn
  <2>3. Read(i, a, b) \in SUBSET Nat
    BY <1>1 DEF LinkInv, LinkTypes, Read
  <2>4. \A t \in Read(i, a, b) : a < t /\ t <= b /\ Due(i, t)
    BY <1>1 DEF LinkInv, OnSlots, Read
  <2> HIDE DEF a, b
  <2>5. Cardinality(Read(i, a, b)) <= Rounded(b - a) + (IF Due(i, a) THEN 0 ELSE 1)
    BY <2>1, <2>3, <2>4, SlotsBetween
  <2> QED
    BY <2>2, <2>5 DEF a
<1>2. LinkInv => CountWithinSlots
  BY <1>1 DEF CountWithinSlots
<1> QED
  BY <1>2, LinkInvAlways, PTL

================================================================================
