----------------------------- MODULE Lease_proofs -----------------------------
(***************************************************************************)
(* Proofs about the lease, the uploader that yields to it and the monitor  *)
(* that reads an uploader's lines, for every set of jobs, every TTL and    *)
(* interval and any number of leases, kills, failures and restarts: a job  *)
(* runs under the lease in place, a deferral is bounded and only a living  *)
(* lease's, the mails are true and none is sent blind.                     *)
(***************************************************************************)
EXTENDS Uploads, TLAPS

LeaseRecord == [id : Nat, by : Jobs \cup {None}, full : BOOLEAN, expires : Int]

JobState ==
  [pc : {"idle", "exists", "read", "breaking", "created", "holding", "done"},
   saw : LeaseRecord]

LeaseTypes ==
  /\ now \in Nat /\ lease \in LeaseRecord /\ leases \in Nat
  /\ job \in [Jobs -> JobState] /\ misremoved \in BOOLEAN

\* A job that created a lease and has not ended yet.
Owns(j) == job[j].pc \in {"created", "holding"}
Judges(j) == job[j].pc \in {"read", "breaking"}

\* No lease is newer than the counter.
Counted == lease.id <= leases /\ \A j \in Jobs : job[j].saw.id <= leases

\* Each owner has a lease of its own, and it is in place.
OwnersOwn ==
  /\ \A j \in Jobs : Owns(j) => job[j].saw.id # 0
  /\ \A j \in Jobs : Owns(j) => (misremoved \/ lease.id = job[j].saw.id)
  /\ \A i, j \in Jobs : (Owns(i) /\ Owns(j) /\ i # j) => job[i].saw.id # job[j].saw.id

\* A lease that was never filled in was read by nobody.
UnfilledUnread ==
  \A j \in Jobs : job[j].pc = "created" =>
    /\ lease.id = job[j].saw.id => ~lease.full
    /\ \A k \in Jobs : Judges(k) => job[k].saw.id # job[j].saw.id

\* Who is about to break a lease judged one that no running job holds.
BreaksTheDead ==
  \A j, k \in Jobs : (job[j].pc = "holding" /\ job[k].pc = "breaking") =>
    (misremoved \/ job[k].saw.id # job[j].saw.id)

LeaseInv == LeaseTypes /\ Counted /\ OwnersOwn /\ UnfilledUnread /\ BreaksTheDead

LEMMA LeaseInitInv == LeaseInit => LeaseInv
<1> SUFFICES ASSUME LeaseInit PROVE LeaseInv
  OBVIOUS
<1>1. NoLease \in LeaseRecord /\ NoLease.id = 0
  BY DEF NoLease, LeaseRecord, None
<1>2. Resting \in JobState /\ Resting.pc = "idle" /\ Resting.saw.id = 0
  BY <1>1 DEF Resting, JobState
<1>3. \A j \in Jobs : job[j] = Resting
  BY DEF LeaseInit
<1>4. LeaseTypes
  BY <1>1, <1>2 DEF LeaseInit, LeaseTypes
<1>5. Counted
  BY <1>1, <1>2, <1>3 DEF LeaseInit, Counted
<1>6. OwnersOwn /\ UnfilledUnread /\ BreaksTheDead
  BY <1>2, <1>3 DEF OwnersOwn, UnfilledUnread, BreaksTheDead, Owns
<1>7. QED
  BY <1>4, <1>5, <1>6 DEF LeaseInv

\* A job that only moves on, to a place where it neither owns nor judges.
LEMMA MovesAway ==
  ASSUME LeaseInv, NEW j \in Jobs, NEW pc \in {"idle", "exists", "done"},
         Moves(j, pc, NoLease), UNCHANGED <<now, lease, leases, misremoved>>
  PROVE LeaseInv'
BY DEF LeaseInv, LeaseTypes, Counted, OwnersOwn, UnfilledUnread, BreaksTheDead,
       Owns, Judges, LeaseRecord, JobState, NoLease, None, Moves

\* The file is removed by a job whose own lease, or the one it judged, is no
\* other owner's.
LEMMA RemoveKeeps ==
  ASSUME LeaseInv, NEW j \in Jobs, NEW pc \in {"idle", "done"},
         RemoveFile(j), Moves(j, pc, NoLease), UNCHANGED <<now, leases>>,
         job[j].pc \in {"breaking", "holding"}
  PROVE LeaseInv'
<1>1. \A i \in Jobs \ {j} : Owns(i) => (misremoved' \/ lease.id # job[i].saw.id)
  BY DEF LeaseInv, LeaseTypes, OwnersOwn, UnfilledUnread, BreaksTheDead, Owns, Judges,
         RemoveFile, Exists
<1>2. \A i \in Jobs : Owns(i)' => (i # j /\ Owns(i) /\ job'[i] = job[i] /\ misremoved')
  BY <1>1 DEF LeaseInv, LeaseTypes, OwnersOwn, Owns, Moves, RemoveFile, JobState
<1>3. LeaseTypes' /\ Counted'
  BY DEF LeaseInv, LeaseTypes, Counted, LeaseRecord, JobState, NoLease, None, Moves,
         RemoveFile, Exists
<1>4. OwnersOwn'
  BY <1>2 DEF LeaseInv, OwnersOwn
<1>5. \A k \in Jobs : Judges(k)' => (Judges(k) /\ job'[k] = job[k])
  BY DEF LeaseInv, LeaseTypes, JobState, Judges, Moves
<1>6. UnfilledUnread'
  BY <1>2, <1>5 DEF LeaseInv, UnfilledUnread, RemoveFile, NoLease, Owns
<1>7. BreaksTheDead'
  BY <1>2 DEF BreaksTheDead, Owns
<1>8. QED
  BY <1>3, <1>4, <1>6, <1>7 DEF LeaseInv

LEMMA LeaseStep == LeaseInv /\ LeaseNext => LeaseInv'
<1> SUFFICES ASSUME LeaseInv, NEW j \in Jobs,
                    \/ Create(j) \/ ReadLease(j) \/ Judge(j) \/ BreakLease(j)
                    \/ LockAndWrite(j) \/ AcquireRaises(j) \/ Release(j)
                    \/ Kill(j) \/ Again(j)
             PROVE LeaseInv'
  BY DEF LeaseNext
<1> USE LeaseAssumption
<1>1. CASE Create(j)
  <2>1. CASE Exists
    BY <1>1, <2>1, MovesAway DEF Create
  <2>2. CASE ~Exists
    <3> DEFINE new == [id |-> leases + 1, by |-> j, full |-> FALSE, expires |-> None]
    <3>1. leases' = leases + 1 /\ lease' = new /\ Moves(j, "created", new)
          /\ UNCHANGED <<now, misremoved>>
      BY <1>1, <2>2 DEF Create
    <3>2. lease.id = 0
      BY <2>2 DEF Exists
    <3>3. \A i \in Jobs : Owns(i) => misremoved
      BY <3>2 DEF LeaseInv, OwnersOwn
    <3>4. LeaseTypes' /\ Counted'
      BY <3>1 DEF LeaseInv, LeaseTypes, Counted, LeaseRecord, JobState, None, Moves
    <3>5. \A i \in Jobs \ {j} : job'[i] = job[i]
      BY <3>1 DEF LeaseInv, LeaseTypes, Moves
    <3>6. job'[j].pc = "created" /\ job'[j].saw = new
      BY <3>1 DEF LeaseInv, LeaseTypes, Moves
    <3>7. \A i \in Jobs : job[i].saw.id < leases + 1 /\ job[i].saw.id \in Nat
      BY DEF LeaseInv, LeaseTypes, Counted, JobState, LeaseRecord
    <3>8. OwnersOwn'
      BY <3>1, <3>3, <3>5, <3>6, <3>7 DEF LeaseInv, LeaseTypes, OwnersOwn, Owns
    <3>9. UnfilledUnread'
      BY <3>1, <3>5, <3>6, <3>7 DEF LeaseInv, LeaseTypes, UnfilledUnread, Judges
    <3>10. BreaksTheDead'
      BY <3>1, <3>5, <3>6 DEF LeaseInv, BreaksTheDead
    <3>11. QED
      BY <3>4, <3>8, <3>9, <3>10 DEF LeaseInv
  <2>3. QED
    BY <2>1, <2>2
<1>2. CASE ReadLease(j)
  <2>1. CASE Readable
    <3>1. Moves(j, "read", lease) /\ lease.full
          /\ UNCHANGED <<now, lease, leases, misremoved>>
      BY <1>2, <2>1 DEF ReadLease, Readable
    <3>2. LeaseTypes' /\ Counted'
      BY <3>1 DEF LeaseInv, LeaseTypes, Counted, JobState, Moves
    <3>3. \A i \in Jobs \ {j} : job'[i] = job[i]
      BY <3>1 DEF LeaseInv, LeaseTypes, Moves
    <3>4. job'[j].pc = "read" /\ job'[j].saw = lease
      BY <3>1 DEF LeaseInv, LeaseTypes, Moves
    <3>5. OwnersOwn'
      BY <3>1, <3>3, <3>4 DEF LeaseInv, OwnersOwn, Owns
    <3>6. UnfilledUnread'
      BY <3>1, <3>3, <3>4 DEF LeaseInv, UnfilledUnread, Judges
    <3>7. BreaksTheDead'
      BY <3>1, <3>3, <3>4 DEF LeaseInv, BreaksTheDead
    <3>8. QED
      BY <3>2, <3>5, <3>6, <3>7 DEF LeaseInv
  <2>2. CASE ~Readable
    BY <1>2, <2>2, MovesAway DEF ReadLease
  <2>3. QED
    BY <2>1, <2>2
<1>3. CASE Judge(j)
  <2>1. CASE Breakable(j)
    <3>1. job[j].pc = "read" /\ Moves(j, "breaking", job[j].saw)
          /\ UNCHANGED <<now, lease, leases, misremoved>>
      BY <1>3, <2>1 DEF Judge
    <3>2. \A i \in Jobs : job[i].pc = "holding" => misremoved
      BY <2>1 DEF LeaseInv, OwnersOwn, Owns, Breakable, ProbeFlockFree, Exists, Locked
    <3>3. LeaseTypes' /\ Counted'
      BY <3>1 DEF LeaseInv, LeaseTypes, Counted, JobState, Moves
    <3>4. \A i \in Jobs \ {j} : job'[i] = job[i]
      BY <3>1 DEF LeaseInv, LeaseTypes, Moves
    <3>5. job'[j].pc = "breaking" /\ job'[j].saw = job[j].saw
      BY <3>1 DEF LeaseInv, LeaseTypes, Moves
    <3>6. OwnersOwn'
      BY <3>1, <3>4, <3>5 DEF LeaseInv, OwnersOwn, Owns
    <3>7. UnfilledUnread'
      BY <3>1, <3>4, <3>5 DEF LeaseInv, UnfilledUnread, Judges
    <3>8. BreaksTheDead'
      BY <3>1, <3>2, <3>4, <3>5 DEF BreaksTheDead
    <3>9. QED
      BY <3>3, <3>6, <3>7, <3>8 DEF LeaseInv
  <2>2. CASE ~Breakable(j)
    BY <1>3, <2>2, MovesAway DEF Judge
  <2>3. QED
    BY <2>1, <2>2
<1>4. CASE BreakLease(j)
  BY <1>4, RemoveKeeps DEF BreakLease
<1>5. CASE LockAndWrite(j)
  <2> DEFINE mine == [job[j].saw EXCEPT !.full = TRUE, !.expires = now + TTL_S]
  <2>1. job[j].pc = "created" /\ Moves(j, "holding", mine)
        /\ lease' = (IF lease.id = mine.id THEN mine ELSE lease)
        /\ UNCHANGED <<now, leases, misremoved>>
    BY <1>5 DEF LockAndWrite
  <2>2. mine \in LeaseRecord /\ mine.id = job[j].saw.id
    <3>1. job[j].saw \in LeaseRecord /\ now + TTL_S \in Int
      BY DEF LeaseInv, LeaseTypes, JobState, LeaseAssumption
    <3>2. QED
      BY <3>1 DEF LeaseRecord
  <2>3. lease'.id = lease.id
    BY <2>1, <2>2
  <2>4. LeaseTypes' /\ Counted'
    BY <2>1, <2>2, <2>3 DEF LeaseInv, LeaseTypes, Counted, JobState, Moves
  <2>5. \A i \in Jobs \ {j} : job'[i] = job[i]
    BY <2>1 DEF LeaseInv, LeaseTypes, Moves
  <2>6. job'[j].pc = "holding" /\ job'[j].saw.id = job[j].saw.id
    BY <2>1, <2>2 DEF LeaseInv, LeaseTypes, Moves
  <2>7. OwnersOwn'
    BY <2>1, <2>3, <2>5, <2>6 DEF LeaseInv, OwnersOwn, Owns
  <2>8. UnfilledUnread'
    BY <2>1, <2>2, <2>3, <2>5, <2>6
       DEF LeaseInv, OwnersOwn, UnfilledUnread, Owns, Judges
  <2>9. BreaksTheDead'
    BY <2>1, <2>5, <2>6 DEF LeaseInv, UnfilledUnread, BreaksTheDead, Judges
  <2>10. QED
    BY <2>4, <2>7, <2>8, <2>9 DEF LeaseInv
<1>6. CASE AcquireRaises(j)
  BY <1>6, MovesAway DEF AcquireRaises
<1>7. CASE Release(j)
  BY <1>7, RemoveKeeps DEF Release
<1>8. CASE Kill(j)
  BY <1>8, MovesAway DEF Kill
<1>9. CASE Again(j)
  BY <1>9, MovesAway DEF Again, Resting, Moves
<1>10. QED
  BY <1>1, <1>2, <1>3, <1>4, <1>5, <1>6, <1>7, <1>8, <1>9

\* What the rest of the station does touches no lease.
LEMMA OthersKeep ==
  ASSUME LeaseInv, UNCHANGED leaseVars, now' \in Nat
  PROVE LeaseInv'
BY DEF LeaseInv, LeaseTypes, Counted, OwnersOwn, UnfilledUnread, BreaksTheDead,
       Owns, Judges, leaseVars

LEMMA UploadsStep == LeaseInv /\ [Next]_vars => LeaseInv'
<1> SUFFICES ASSUME LeaseInv, [Next]_vars PROVE LeaseInv'
  OBVIOUS
<1>1. CASE kind = "influx" /\ LeaseNext /\ UNCHANGED <<upVars, logVars, monVars>>
  BY <1>1, LeaseStep
<1>2. CASE Take \/ PostOk \/ PostFails \/ WaitOver \/ Restart
  BY <1>2, OthersKeep
     DEF Take, PostOk, PostFails, WaitOver, Restart, LeaseInv, LeaseTypes
<1>3. CASE Poll \/ MonitorRestart \/ Rotate \/ Freeze \/ Thaw
  BY <1>3, OthersKeep
     DEF Poll, MonitorRestart, Rotate, Freeze, Thaw, LeaseInv, LeaseTypes
<1>4. CASE Tick
  BY <1>4, OthersKeep DEF Tick, LeaseInv, LeaseTypes
<1>5. CASE UNCHANGED vars
  BY <1>5, OthersKeep DEF vars, LeaseInv, LeaseTypes
<1>6. QED
  BY <1>1, <1>2, <1>3, <1>4, <1>5 DEF Next

LEMMA InvAnnounced == LeaseInv => Announced
BY DEF LeaseInv, OwnersOwn, Announced, Holders, Owns

\* A job runs under the lease that is in place, and no two run at once, unless
\* a lease was removed by its name that its remover had not judged.
THEOREM RunsUnderALease == Spec => []Announced
<1>1. Init => LeaseInv
  BY LeaseInitInv DEF Init
<1>2. QED
  BY <1>1, UploadsStep, InvAnnounced, PTL DEF Spec

------------------------------------------------------------------------------
(* Whom the uploads yield to. *)

\* What the lease file says was said by the job that filled it in, which may have
\* filled in a later one since.
FilledIn ==
  /\ acquired \in [Jobs -> Nat \cup {None}]
  /\ \A j \in Jobs : acquired[j] <= now
  /\ \A j \in Jobs : job[j].pc = "created" => job[j].saw.by = j
  /\ lease.full => /\ lease.by \in Jobs /\ acquired[lease.by] # None
                   /\ lease.expires <= acquired[lease.by] + TTL_S

\* The records come in the order of their time, and none twice.
QueueInv ==
  /\ queue \in Seq(Nat)
  /\ lastpost \in Nat \cup {None}
  /\ \A i \in DOMAIN queue : queue[i] <= now /\ (lastpost # None => lastpost < queue[i])
  /\ \A i, j \in DOMAIN queue : i < j => queue[i] < queue[j]
  /\ lastpost # None => lastpost <= now

\* While nothing failed, what was not skipped is posted, or about to be.
PostedInv ==
  /\ failures \in Nat /\ restarts \in Nat
  /\ Undisturbed => GapBounded /\ (lastpost # None => lastpost \in Taken)

LEMMA Timeless ==
  ASSUME Next
  PROVE  now' = now \/ (Tick /\ now' = now + 1)
BY DEF Next, LeaseNext, Create, ReadLease, Judge, BreakLease, LockAndWrite, AcquireRaises, Release,
       Kill, Again, Take, PostOk, PostFails, WaitOver, Restart, Poll, MonitorRestart, Rotate,
       Freeze, Thaw, Tick

\* What a job does to the file, and to what is known of it.
LEMMA FilledByJobs ==
  ASSUME LeaseInv, FilledIn, NEW j \in Jobs,
         \/ Create(j) \/ ReadLease(j) \/ Judge(j) \/ BreakLease(j)
         \/ LockAndWrite(j) \/ AcquireRaises(j) \/ Release(j)
         \/ Kill(j) \/ Again(j)
  PROVE  FilledIn'
<1>1. now \in Nat /\ TTL_S \in Nat /\ job \in [Jobs -> JobState]
  BY LeaseAssumption DEF LeaseInv, LeaseTypes
<1>2. CASE Create(j)
  <2>1. now' = now /\ acquired' = acquired
    BY <1>2 DEF Create
  <2>2. CASE Exists
    BY <1>1, <1>2, <2>1, <2>2 DEF Create, FilledIn, Moves
  <2>3. CASE ~Exists
    <3> DEFINE new == [id |-> leases + 1, by |-> j, full |-> FALSE, expires |-> None]
    <3>1. lease' = new /\ job' = [job EXCEPT ![j] = [pc |-> "created", saw |-> new]]
      BY <1>2, <2>3 DEF Create, Moves
    <3>2. QED
      BY <1>1, <2>1, <3>1 DEF FilledIn
  <2>4. QED
    BY <2>2, <2>3
<1>3. CASE LockAndWrite(j)
  <2> DEFINE mine == [job[j].saw EXCEPT !.full = TRUE, !.expires = now + TTL_S]
  <2>1. /\ job[j].pc = "created" /\ now' = now
        /\ job' = [job EXCEPT ![j] = [pc |-> "holding", saw |-> mine]]
        /\ acquired' = [acquired EXCEPT ![j] = now]
        /\ lease' = mine \/ lease' = lease
    BY <1>3 DEF LockAndWrite, Moves
  <2>2. mine.by = j /\ mine.expires = now + TTL_S
    <3>1. job[j].saw \in LeaseRecord /\ job[j].saw.by = j
      BY <1>1, <2>1 DEF JobState, FilledIn
    <3>2. QED
      BY <3>1 DEF LeaseRecord
  <2> HIDE DEF mine
  <2>3. /\ acquired' \in [Jobs -> Nat \cup {None}] /\ acquired'[j] = now
        /\ \A i \in Jobs : i # j => acquired'[i] = acquired[i]
    BY <1>1, <2>1 DEF FilledIn
  <2>4. \A i \in Jobs : acquired'[i] <= now /\ acquired[i] <= acquired'[i]
    BY <1>1, <2>3 DEF FilledIn, None
  <2>5. \A i \in Jobs : job'[i].pc = "created" => job'[i].saw.by = i
    BY <1>1, <2>1 DEF FilledIn
  <2>6. lease'.full => /\ lease'.by \in Jobs /\ acquired'[lease'.by] # None
                       /\ lease'.expires <= acquired'[lease'.by] + TTL_S
    <3>1. now # None /\ now + TTL_S <= now + TTL_S
      BY <1>1 DEF None
    <3>2. CASE lease' = mine
      BY <2>2, <2>3, <3>1, <3>2
    <3>3. CASE lease' = lease /\ lease.full
      <4>1. /\ lease.by \in Jobs /\ acquired[lease.by] \in Nat
            /\ lease.expires <= acquired[lease.by] + TTL_S
        BY <3>3 DEF FilledIn
      <4>2. acquired[lease.by] <= acquired'[lease.by]
        BY <2>4, <4>1
      <4>3. acquired'[lease.by] \in Nat
        BY <1>1, <2>3, <4>1
      <4>4. lease.expires \in Int
        BY DEF LeaseInv, LeaseTypes, LeaseRecord
      <4>5. lease.expires <= acquired'[lease.by] + TTL_S
        BY <1>1, <4>1, <4>2, <4>3, <4>4
      <4>6. acquired'[lease.by] # None
        BY <4>3 DEF None
      <4>7. QED
        BY <3>3, <4>1, <4>5, <4>6
    <3>4. QED
      BY <2>1, <3>2, <3>3
  <2>7. QED
    BY <2>1, <2>3, <2>4, <2>5, <2>6 DEF FilledIn
<1>4. CASE BreakLease(j) \/ Release(j)
  BY <1>1, <1>4 DEF BreakLease, Release, RemoveFile, NoLease, Moves, FilledIn
<1>5. CASE ReadLease(j) \/ Judge(j) \/ AcquireRaises(j) \/ Kill(j) \/ Again(j)
  BY <1>1, <1>5 DEF ReadLease, Judge, AcquireRaises, Kill, Again, Resting, Moves, FilledIn
<1>6. QED
  BY <1>2, <1>3, <1>4, <1>5

LEMMA FilledStep ==
  ASSUME LeaseInv, FilledIn, [Next]_vars
  PROVE  FilledIn'
<1>1. now \in Nat
  BY DEF LeaseInv, LeaseTypes
<1>2. CASE LeaseNext
  BY <1>2, FilledByJobs DEF LeaseNext
<1>3. CASE UNCHANGED leaseVars /\ (now' = now \/ now' = now + 1)
  <2>1. \A j \in Jobs : acquired[j] \in Int /\ acquired[j] <= now'
    BY <1>1, <1>3 DEF FilledIn, None
  <2>2. QED
    BY <1>3, <2>1 DEF FilledIn, leaseVars
<1>4. CASE UNCHANGED vars
  BY <1>3, <1>4 DEF vars
<1>5. CASE Take \/ PostOk \/ PostFails \/ WaitOver \/ Restart \/ Tick
           \/ Poll \/ MonitorRestart \/ Rotate \/ Freeze \/ Thaw
  BY <1>3, <1>5 DEF Take, PostOk, PostFails, WaitOver, Restart, Tick, Poll, MonitorRestart,
                    Rotate, Freeze, Thaw
<1>6. QED
  BY <1>2, <1>4, <1>5 DEF Next

\* A record joins the queue at its end, later than all the others.
LEMMA QueueStep ==
  ASSUME now \in Nat, QueueInv, [Next]_vars
  PROVE  QueueInv'
<1> USE DEF upVars
<1>1. CASE UNCHANGED <<now, queue, lastpost>>
  BY <1>1 DEF QueueInv
<1>2. DOMAIN queue = 1 .. Len(queue) /\ Len(queue) \in Nat
  BY DEF QueueInv
<1>3. CASE Take
  <2>1. /\ queue # <<>> /\ queue' = Tail(queue) /\ now' = now
        /\ lastpost' = lastpost \/ lastpost' = Head(queue)
    BY <1>3 DEF Take, Skip
  <2>2. 1 <= Len(queue) /\ Head(queue) = queue[1] /\ 1 \in DOMAIN queue
    BY <1>2, <2>1 DEF QueueInv
  <2>3. queue' \in Seq(Nat) /\ DOMAIN queue' = 1 .. Len(queue) - 1
    BY <1>2, <2>1, <2>2 DEF QueueInv
  <2>4. \A i \in DOMAIN queue' : i + 1 \in DOMAIN queue /\ 1 < i + 1 /\ queue'[i] = queue[i + 1]
    BY <1>2, <2>1, <2>2, <2>3 DEF QueueInv
  <2>5. Head(queue) \in Nat /\ Head(queue) <= now
    BY <2>2 DEF QueueInv
  <2>6. \A i \in DOMAIN queue' : queue'[i] <= now /\ Head(queue) < queue'[i]
                                 /\ (lastpost # None => lastpost < queue'[i])
    BY <2>2, <2>4 DEF QueueInv
  <2>7. \A i, k \in DOMAIN queue' : i < k => queue'[i] < queue'[k]
    <3> SUFFICES ASSUME NEW i \in DOMAIN queue', NEW k \in DOMAIN queue', i < k
                 PROVE  queue'[i] < queue'[k]
      OBVIOUS
    <3>1. i + 1 < k + 1
      BY <2>3
    <3>2. QED
      BY <2>4, <3>1 DEF QueueInv
  <2>8. QED
    BY <2>1, <2>3, <2>5, <2>6, <2>7 DEF QueueInv
<1>4. CASE Tick
  <2>1. queue' = Append(queue, now + 1) /\ lastpost' = lastpost /\ now' = now + 1
    BY <1>4 DEF Tick
  <2>2. /\ queue' \in Seq(Nat) /\ DOMAIN queue' = 1 .. Len(queue) + 1
        /\ queue'[Len(queue) + 1] = now + 1
        /\ \A i \in DOMAIN queue : queue'[i] = queue[i] /\ queue[i] \in Nat
    BY <1>2, <2>1 DEF QueueInv
  <2>3. \A i \in DOMAIN queue' : i \in DOMAIN queue \/ i = Len(queue) + 1
    BY <1>2, <2>2
  <2>4. lastpost # None => lastpost \in Nat /\ lastpost <= now
    BY DEF QueueInv
  <2>5. \A i \in DOMAIN queue : queue'[i] < now + 1
    BY <2>2 DEF QueueInv
  <2>6. \A i \in DOMAIN queue' : queue'[i] <= now'
                                 /\ (lastpost' # None => lastpost' < queue'[i])
    BY <2>1, <2>2, <2>3, <2>4, <2>5 DEF QueueInv
  <2>7. \A i, k \in DOMAIN queue' : i < k => queue'[i] < queue'[k]
    BY <1>2, <2>2, <2>3, <2>5 DEF QueueInv
  <2>8. lastpost' # None => lastpost' <= now'
    BY <2>1, <2>4
  <2>9. QED
    BY <2>1, <2>2, <2>6, <2>7, <2>8 DEF QueueInv
<1>5. CASE Restart
  BY <1>5 DEF Restart, QueueInv
<1>6. CASE LeaseNext /\ UNCHANGED upVars
  <2>1. now' = now
    BY <1>6 DEF LeaseNext, Create, ReadLease, Judge, BreakLease, LockAndWrite, AcquireRaises,
                Release, Kill, Again
  <2>2. QED
    BY <1>1, <1>6, <2>1
<1>7. CASE PostOk \/ PostFails \/ WaitOver \/ Poll \/ MonitorRestart \/ Rotate \/ Freeze \/ Thaw
  BY <1>1, <1>7 DEF PostOk, PostFails, WaitOver, Poll, MonitorRestart, Rotate, Freeze, Thaw
<1>8. CASE UNCHANGED vars
  BY <1>1, <1>8 DEF vars
<1>9. QED
  BY <1>3, <1>4, <1>5, <1>6, <1>7, <1>8 DEF Next

\* A record that was skipped stays close to one that was not, as what was taken
\* stays taken.
LEMMA TakenKept ==
  ASSUME PostedInv, UNCHANGED <<kind, failures, restarts, lost, lastpost>>, Taken \subseteq Taken'
  PROVE  PostedInv'
BY DEF PostedInv, Undisturbed, GapBounded

\* What the lease makes the thread skip is within the interval of the last record
\* it did not skip.
LEMMA SkippedNear ==
  ASSUME NEW rec \in Nat, QueueInv, lastpost # None => lastpost < rec,
         kind = "influx", SkipThisPost(rec)
  PROVE  lastpost # None /\ lastpost < rec /\ rec - lastpost < LEASE_YIELD_POST_INTERVAL_S
<1>1. lastpost # None /\ rec - lastpost < Interval
  BY DEF SkipThisPost
<1>2. lastpost \in Nat /\ lastpost < rec
  BY <1>1 DEF QueueInv
<1>3. LEASE_YIELD_POST_INTERVAL_S \in Nat
  BY UploadsAssumption
<1>4. Interval = LEASE_YIELD_POST_INTERVAL_S \/ Interval = 0
  BY DEF Interval
<1>5. rec - lastpost < LEASE_YIELD_POST_INTERVAL_S
  BY <1>1, <1>2, <1>3, <1>4
<1>6. QED
  BY <1>1, <1>2, <1>5

LEMMA PostedStep ==
  ASSUME QueueInv, PostedInv, [Next]_vars
  PROVE  PostedInv'
<1> USE DEF upVars
<1>1. CASE UNCHANGED <<kind, failures, restarts, lost, lastpost, posted, thread>>
  BY <1>1, TakenKept DEF Taken
<1>2. CASE Take
  <2>1. /\ thread = Idle /\ queue # <<>>
        /\ UNCHANGED <<kind, failures, restarts, posted>>
    BY <1>2 DEF Take, Lose, Skip
  <2>2. Head(queue) = queue[1] /\ 1 \in DOMAIN queue
    BY <2>1 DEF QueueInv
  <2>3. Head(queue) \in Nat /\ (lastpost # None => lastpost < Head(queue))
    BY <2>2 DEF QueueInv
  <2>4. Taken \subseteq Taken'
    BY <2>1 DEF Taken, Idle
  <2>5. CASE ~Undisturbed
    BY <2>1, <2>5 DEF PostedInv, Undisturbed
  <2>6. CASE Undisturbed /\ SkipThisPost(Head(queue))
    <3>1. ~Backlogged
      BY <2>6 DEF Backlogged, Undisturbed
    <3>2. lost' = lost \cup {Head(queue)} /\ lastpost' = lastpost
      BY <1>2, <2>6, <3>1 DEF Take, Skip, Lose
    <3>3. /\ lastpost # None /\ lastpost < Head(queue)
          /\ Head(queue) - lastpost < LEASE_YIELD_POST_INTERVAL_S
      BY <2>3, <2>6, SkippedNear DEF Undisturbed
    <3>4. lastpost \in Taken
      BY <2>6, <3>3 DEF PostedInv
    <3>5. QED
      BY <2>1, <2>4, <2>6, <3>2, <3>3, <3>4 DEF PostedInv, Undisturbed, GapBounded
  <2>7. CASE Undisturbed /\ ~SkipThisPost(Head(queue))
    <3>1. ~Backlogged
      BY <2>7 DEF Backlogged, Undisturbed
    <3>2. /\ thread' = [pc |-> "posting", rec |-> Head(queue), tries |-> 0]
          /\ lastpost' = Head(queue) /\ lost' = lost
      BY <1>2, <2>7, <3>1 DEF Take
    <3>3. Head(queue) \in Taken'
      BY <3>2 DEF Taken
    <3>4. QED
      BY <2>1, <2>4, <2>7, <3>2, <3>3 DEF PostedInv, Undisturbed, GapBounded
  <2>8. QED
    BY <2>5, <2>6, <2>7
<1>3. CASE PostOk
  <2>1. Taken \subseteq Taken'
    BY <1>3 DEF PostOk, Taken
  <2>2. QED
    BY <1>3, <2>1, TakenKept DEF PostOk
<1>4. CASE PostFails \/ Restart
  <2>1. \/ failures' = failures + 1 /\ restarts' = restarts
        \/ restarts' = restarts + 1 /\ failures' = failures
    <3>1. PostFails => failures' = failures + 1 /\ restarts' = restarts
      BY DEF PostFails
    <3>2. Restart => restarts' = restarts + 1 /\ failures' = failures
      BY DEF Restart
    <3>3. QED
      BY <1>4, <3>1, <3>2
  <2>2. failures' \in Nat /\ restarts' \in Nat
    BY <2>1 DEF PostedInv
  <2>3. ~Undisturbed'
    BY <2>1 DEF PostedInv, Undisturbed
  <2>4. QED
    BY <2>2, <2>3 DEF PostedInv
<1>5. CASE WaitOver
  <2>1. Taken \subseteq Taken'
    BY <1>5 DEF WaitOver, Taken
  <2>2. QED
    BY <1>5, <2>1, TakenKept DEF WaitOver
<1>6. CASE MonitorRestart
  <2>1. kind' = kind /\ kind = "site" /\ failures' = failures /\ restarts' = restarts + 1
    BY <1>6 DEF MonitorRestart
  <2>2. QED
    BY <2>1 DEF PostedInv, Undisturbed
<1>7. CASE Poll \/ Rotate \/ Freeze \/ Thaw \/ Tick
  BY <1>1, <1>7 DEF Poll, Rotate, Freeze, Thaw, Tick
<1>8. CASE UNCHANGED upVars \/ UNCHANGED vars
  BY <1>1, <1>8 DEF vars
<1>9. QED
  BY <1>2, <1>3, <1>4, <1>5, <1>6, <1>7, <1>8 DEF Next

UploadInv == LeaseInv /\ FilledIn /\ QueueInv /\ PostedInv

LEMMA UploadInitInv == Init => UploadInv
<1> SUFFICES ASSUME Init PROVE UploadInv
  OBVIOUS
<1>1. LeaseInv
  BY LeaseInitInv DEF Init
<1>2. FilledIn
  BY DEF Init, LeaseInit, FilledIn, NoLease, Resting, None
<1>3. QueueInv
  BY DEF Init, QueueInv
<1>4. PostedInv
  BY DEF Init, PostedInv, GapBounded
<1>5. QED
  BY <1>1, <1>2, <1>3, <1>4 DEF UploadInv

LEMMA UploadStep == UploadInv /\ [Next]_vars => UploadInv'
<1> SUFFICES ASSUME UploadInv, [Next]_vars PROVE UploadInv'
  OBVIOUS
<1>1. LeaseInv'
  BY UploadsStep DEF UploadInv
<1>2. FilledIn'
  BY FilledStep DEF UploadInv
<1>3. QueueInv'
  BY QueueStep DEF UploadInv, LeaseInv, LeaseTypes
<1>4. PostedInv'
  BY PostedStep DEF UploadInv
<1>5. QED
  BY <1>1, <1>2, <1>3, <1>4 DEF UploadInv

THEOREM UploadInvariant == Spec => []UploadInv
BY UploadInitInv, UploadStep, PTL DEF Spec

\* InfluxDB gets a record at least every LEASE_YIELD_POST_INTERVAL_S, whoever
\* holds the lease and for however long: the thread's own last record is what
\* an interval is counted from, and no lease moves it.
THEOREM GapIsBounded == Spec => []GapBounded
<1>1. UploadInv => GapBounded
  BY DEF UploadInv, PostedInv, GapBounded
<1>2. QED
  BY <1>1, UploadInvariant, PTL

\* A record is skipped only while what the lease says, which is what the job that
\* filled it in said, has not expired: no lease that a dead job left behind holds
\* the uploads up for longer than TTL_S.
THEOREM YieldsOnlyToTheLiving == Spec => YieldsToTheLiving
<1> DEFINE Living == \E j \in Jobs \ Ours : acquired[j] # None /\ now < acquired[j] + TTL_S
<1>1. ASSUME UploadInv, [Next]_vars, lastSkip' # lastSkip, kind = "influx"
      PROVE  Living
  <2>1. Take
    BY <1>1 DEF Next, vars, upVars, Take, PostOk, PostFails, WaitOver, Restart, Poll,
                MonitorRestart, Rotate, Freeze, Thaw, Tick
  <2>2. queue # <<>> /\ SkipThisPost(Head(queue))
    BY <1>1, <2>1 DEF Take, Skip
  <2>3. Head(queue) \in Nat /\ (lastpost # None => lastpost < Head(queue))
    <3>1. Head(queue) = queue[1] /\ 1 \in DOMAIN queue
      BY <1>1, <2>2 DEF UploadInv, QueueInv
    <3>2. QED
      BY <1>1, <3>1 DEF UploadInv, QueueInv
  <2>4. ForeignLeaseActive
    <3>1. lastpost # None /\ Head(queue) - lastpost < Interval
      BY <1>1, <2>2 DEF SkipThisPost
    <3>2. lastpost \in Nat /\ lastpost < Head(queue)
      BY <1>1, <2>3, <3>1 DEF UploadInv, QueueInv
    <3>3. Interval # 0
      BY <2>3, <3>1, <3>2
    <3>4. QED
      BY <1>1, <3>3 DEF Interval
  <2>5. lease.full /\ lease.by \in Jobs \ Ours /\ acquired[lease.by] # None
    BY <1>1, <2>4 DEF ForeignLeaseActive, Readable, UploadInv, FilledIn
  <2>6. now < lease.expires /\ lease.expires <= acquired[lease.by] + TTL_S
    BY <1>1, <2>4, <2>5 DEF ForeignLeaseActive, UploadInv, FilledIn
  <2>7. now \in Nat /\ lease.expires \in Int /\ acquired[lease.by] \in Nat /\ TTL_S \in Nat
    BY <1>1, <2>5, LeaseAssumption DEF UploadInv, FilledIn, LeaseInv, LeaseTypes, LeaseRecord
  <2>8. now < acquired[lease.by] + TTL_S
    BY <2>6, <2>7
  <2>9. QED
    BY <2>5, <2>8
<1>2. UploadInv /\ [Next]_vars => [lastSkip' # lastSkip /\ kind = "influx" => Living]_vars
  BY <1>1
<1>3. QED
  BY <1>2, UploadInvariant, PTL DEF Spec, YieldsToTheLiving

------------------------------------------------------------------------------
(* The monitor of the uploads. *)

LogTypes ==
  /\ log \in [mtime : Nat, last : Nat, published : Nat \cup {None},
              inFile : BOOLEAN, hit : BOOLEAN]
  /\ monitor \in [lastSeen : Nat \cup {None}, inOutage : BOOLEAN,
                  lastLine : Nat \cup {None}, blind : BOOLEAN]
  /\ frozen \in {"no", "still", "touched", "gone", "missed"}
  /\ frozenAt \in Nat

\* Nothing is dated in the future, and there is a line to be read only where one
\* was written.
Dated ==
  /\ log.last <= now /\ log.published <= now /\ monitor.lastSeen <= now
  /\ log.inFile \/ log.hit => log.published # None

\* Nothing is written to a file that is cut off.
CutOff == frozen # "no" => log.last <= frozenAt

\* What the monitor remembers of the uploader: nothing it does not watch, nothing
\* after a poll that found the file gone, an outage only of an uploader it saw,
\* and, after a poll that could judge, an outage just then.
Memory ==
  /\ kind # "site" => monitor = NewMonitor /\ forgot
  /\ frozen = "missed" => monitor.lastSeen = None /\ ~monitor.inOutage /\ forgot
  /\ monitor.inOutage => monitor.lastSeen # None /\ now - monitor.lastSeen > Threshold
  /\ polled /\ ~monitor.blind /\ monitor.lastSeen # None =>
       (monitor.inOutage <=> now - monitor.lastSeen > Threshold)

\* What it remembers is no older than what it has read, and what it has still to
\* read is fresh.
Seen ==
  /\ monitor.lastSeen # None /\ ~log.hit /\ ~rotated => log.published <= monitor.lastSeen
  /\ log.hit /\ (monitor.inOutage \/ ~forgot) =>
       log.published >= now - (IF polled THEN 0 ELSE 1)

\* As long as it does not forget, the last mail is what it believes.
Belief ==
  ~forgot =>
    /\ told = "down" <=> monitor.inOutage
    /\ monitor.lastSeen # None
    /\ told # "down" => log.published # None /\ log.published >= monitor.lastSeen - 1

MonitorInv == LogTypes /\ Dated /\ CutOff /\ Memory /\ Seen /\ Belief /\ NoBlindVerdict

LEMMA MonitorKept ==
  ASSUME MonitorInv, UNCHANGED <<now, kind, logVars, monVars>>
  PROVE  MonitorInv'
BY DEF MonitorInv, LogTypes, Dated, CutOff, Memory, Seen, Belief, NoBlindVerdict, logVars, monVars

LEMMA MonitorPostOk ==
  ASSUME now \in Nat, MonitorInv, PostOk
  PROVE  MonitorInv'
<1>1. UNCHANGED <<now, kind, frozen, frozenAt, rotated, monitor, polled, told, forgot, toldBlind>>
  BY DEF PostOk, monVars
<1>2. CASE frozen = "no" /\ kind = "site"
  <2>1. log' = [log EXCEPT !.mtime = now, !.last = now, !.published = now,
                           !.inFile = TRUE, !.hit = TRUE]
    BY <1>2 DEF PostOk, LogPublished
  <2>2. LogTypes' /\ log'.last = now /\ log'.published = now /\ log'.hit
    BY <1>1, <2>1 DEF MonitorInv, LogTypes
  <2>3. now # None
    BY DEF None
  <2>4. Dated'
    BY <1>1, <2>2, <2>3 DEF MonitorInv, Dated
  <2>5. CutOff' /\ Memory' /\ NoBlindVerdict'
    BY <1>1, <1>2 DEF MonitorInv, CutOff, Memory, NoBlindVerdict
  <2>6. Seen'
    BY <1>1, <2>2 DEF MonitorInv, Seen
  <2>7. now >= monitor.lastSeen - 1
    BY DEF MonitorInv, LogTypes, Dated, None
  <2>8. Belief'
    BY <1>1, <2>2, <2>3, <2>7 DEF MonitorInv, Belief
  <2>9. QED
    BY <2>2, <2>4, <2>5, <2>6, <2>8 DEF MonitorInv
<1>3. CASE ~(frozen = "no" /\ kind = "site")
  <2>1. log' = log
    BY <1>3 DEF PostOk, LogPublished
  <2>2. QED
    BY <1>1, <2>1 DEF MonitorInv, LogTypes, Dated, CutOff, Memory, Seen, Belief, NoBlindVerdict
<1>4. QED
  BY <1>2, <1>3

LEMMA MonitorTick ==
  ASSUME now \in Nat, MonitorInv, Tick
  PROVE  MonitorInv'
<1>1. /\ now' = now + 1 /\ ~polled' /\ (kind = "site" => polled)
      /\ UNCHANGED <<kind, frozen, frozenAt, rotated, monitor, told, forgot, toldBlind>>
  BY DEF Tick
<1>2. \/ log' = [log EXCEPT !.mtime = now + 1, !.last = now + 1] /\ frozen = "no"
      \/ log' = [log EXCEPT !.mtime = now + 1]
      \/ log' = log
  BY <1>1 DEF Tick
<1>3. LogTypes'
  <2> DEFINE LogType == [mtime : Nat, last : Nat, published : Nat \cup {None},
                         inFile : BOOLEAN, hit : BOOLEAN]
  <2>1. log \in LogType /\ now + 1 \in Nat
    BY DEF MonitorInv, LogTypes
  <2>2. log' \in LogType
    <3>1. [log EXCEPT !.mtime = now + 1, !.last = now + 1] \in LogType
      BY <2>1
    <3>2. [log EXCEPT !.mtime = now + 1] \in LogType
      BY <2>1
    <3>3. QED
      BY <1>2, <2>1, <3>1, <3>2
  <2>3. QED
    BY <1>1, <2>2 DEF MonitorInv, LogTypes
<1>4. /\ log'.published = log.published /\ log'.inFile = log.inFile /\ log'.hit = log.hit
      /\ log'.last = now + 1 \/ log'.last = log.last
      /\ frozen # "no" => log'.last = log.last
  BY <1>2 DEF MonitorInv, LogTypes
<1>5. log.last \in Nat /\ log.published \in Int /\ monitor.lastSeen \in Int
  BY DEF MonitorInv, LogTypes, None
<1>6. Dated'
  BY <1>1, <1>4, <1>5 DEF MonitorInv, Dated
<1>7. CutOff' /\ NoBlindVerdict'
  BY <1>1, <1>4 DEF MonitorInv, CutOff, NoBlindVerdict
<1>8. now - monitor.lastSeen > Threshold => now + 1 - monitor.lastSeen > Threshold
  BY <1>5, UploadsAssumption
<1>9. Memory'
  <2>1. monitor.inOutage => monitor.lastSeen # None /\ now + 1 - monitor.lastSeen > Threshold
    BY <1>8 DEF MonitorInv, Memory
  <2>2. frozen = "missed" => monitor.lastSeen = None /\ ~monitor.inOutage /\ forgot
    BY DEF MonitorInv, Memory
  <2>3. kind # "site" => monitor = NewMonitor /\ forgot
    BY DEF MonitorInv, Memory
  <2>4. polled' = FALSE
    BY DEF Tick
  <2>5. kind' # "site" => monitor' = NewMonitor /\ forgot'
    BY <1>1, <2>3
  <2>6. frozen' = "missed" => monitor'.lastSeen = None /\ ~monitor'.inOutage /\ forgot'
    BY <1>1, <2>2
  <2>7. monitor'.inOutage => monitor'.lastSeen # None /\ now' - monitor'.lastSeen > Threshold
    BY <1>1, <1>5, <2>1, UploadsAssumption
  <2>8. QED
    BY <2>4, <2>5, <2>6, <2>7 DEF Memory, NewMonitor
<1>10. Seen'
  <2>1. kind # "site" => ~monitor.inOutage /\ forgot
    BY DEF MonitorInv, Memory, NewMonitor
  <2>2. log.hit /\ (monitor.inOutage \/ ~forgot) => log.published >= now
    BY <1>1, <2>1 DEF MonitorInv, Seen
  <2>3. QED
    BY <1>1, <1>4, <1>5, <2>2 DEF MonitorInv, Seen
<1>11. Belief'
  BY <1>1, <1>4 DEF MonitorInv, Belief
<1>12. QED
  BY <1>3, <1>6, <1>7, <1>9, <1>10, <1>11 DEF MonitorInv

LEMMA MonitorFile ==
  ASSUME now \in Nat, MonitorInv, MonitorRestart \/ Rotate \/ Freeze \/ Thaw
  PROVE  MonitorInv'
<1>1. CASE MonitorRestart
  <2>1. /\ kind = "site" /\ monitor' = NewMonitor /\ forgot' = TRUE /\ rotated' = FALSE
        /\ log' = [log EXCEPT !.hit = FALSE]
        /\ frozen' = IF Gone THEN "missed" ELSE frozen
        /\ UNCHANGED <<now, kind, frozenAt, toldBlind>>
    BY <1>1 DEF MonitorRestart
  <2>2. frozen' = frozen \/ (frozen # "no" /\ frozen' = "missed")
    BY <2>1 DEF Gone
  <2>3. /\ log'.last = log.last /\ log'.published = log.published
        /\ log'.inFile = log.inFile /\ ~log'.hit
    BY <2>1 DEF MonitorInv, LogTypes
  <2>4. monitor'.lastSeen = None /\ ~monitor'.inOutage /\ None <= now
    BY <2>1 DEF NewMonitor, None
  <2>5. LogTypes'
    BY <2>1, <2>2 DEF MonitorInv, LogTypes, NewMonitor
  <2>6. Dated'
    BY <2>1, <2>3, <2>4 DEF MonitorInv, Dated
  <2>7. CutOff' /\ NoBlindVerdict'
    BY <2>1, <2>3, <2>2 DEF MonitorInv, CutOff, NoBlindVerdict
  <2>8. Memory' /\ Seen' /\ Belief'
    BY <2>1, <2>3, <2>4 DEF Memory, Seen, Belief
  <2>9. QED
    BY <2>5, <2>6, <2>7, <2>8 DEF MonitorInv
<1>2. CASE Rotate
  <2>1. /\ kind = "site" /\ frozen = "no" /\ rotated'
        /\ log' = [log EXCEPT !.mtime = now, !.last = now, !.inFile = FALSE, !.hit = FALSE]
        /\ UNCHANGED <<now, kind, frozen, frozenAt, monitor, polled, told, forgot, toldBlind>>
    BY <1>2 DEF Rotate, upVars, monVars
  <2>2. /\ log'.last = now /\ log'.published = log.published /\ ~log'.inFile /\ ~log'.hit
    BY <2>1 DEF MonitorInv, LogTypes
  <2>3. LogTypes'
    BY <2>1 DEF MonitorInv, LogTypes
  <2>4. Dated' /\ CutOff'
    BY <2>1, <2>2 DEF MonitorInv, Dated, CutOff
  <2>5. Memory' /\ Seen' /\ Belief' /\ NoBlindVerdict'
    BY <2>1, <2>2 DEF MonitorInv, Memory, Seen, Belief, NoBlindVerdict
  <2>6. QED
    BY <2>3, <2>4, <2>5 DEF MonitorInv
<1>3. CASE Freeze
  <2>1. /\ frozen' \in {"still", "touched", "gone"} /\ frozenAt' = now
        /\ UNCHANGED <<now, kind, log, rotated, monitor, polled, told, forgot, toldBlind>>
    BY <1>3 DEF Freeze, upVars, monVars
  <2>2. LogTypes'
    BY <2>1 DEF MonitorInv, LogTypes
  <2>3. Dated' /\ CutOff' /\ Memory' /\ Seen' /\ Belief' /\ NoBlindVerdict'
    BY <2>1 DEF MonitorInv, Dated, CutOff, Memory, Seen, Belief, NoBlindVerdict
  <2>4. QED
    BY <2>2, <2>3 DEF MonitorInv
<1>4. CASE Thaw
  <2>1. /\ frozen' = "no"
        /\ log' = [log EXCEPT !.hit = log.hit \/ (frozen = "missed" /\ log.inFile)]
        /\ UNCHANGED <<now, kind, frozenAt, rotated, monitor, polled, told, forgot, toldBlind>>
    BY <1>4 DEF Thaw, upVars, monVars
  <2>2. /\ log'.last = log.last /\ log'.published = log.published /\ log'.inFile = log.inFile
        /\ log'.hit <=> log.hit \/ (frozen = "missed" /\ log.inFile)
    BY <2>1 DEF MonitorInv, LogTypes
  <2>3. LogTypes'
    BY <2>1 DEF MonitorInv, LogTypes
  <2>4. Dated' /\ CutOff' /\ Memory'
    BY <2>1, <2>2 DEF MonitorInv, Dated, CutOff, Memory
  <2>5. Seen'
    BY <2>1, <2>2 DEF MonitorInv, Memory, Seen
  <2>6. Belief' /\ NoBlindVerdict'
    BY <2>1, <2>2 DEF MonitorInv, Belief, NoBlindVerdict
  <2>7. QED
    BY <2>3, <2>4, <2>5, <2>6 DEF MonitorInv
<1>5. QED
  BY <1>1, <1>2, <1>3, <1>4

\* What a poll makes of what it remembers: of an outage, before it looks at the
\* time; and of its mails.
StillOut == monitor.inOutage /\ ~Shrunk /\ ~Unread
MailsDown == ~StillOut /\ monitor'.inOutage
MailsUp == ~monitor'.inOutage /\ monitor.inOutage /\ ~Shrunk

LEMMA PollResult ==
  ASSUME LogTypes, now \in Nat, Poll
  PROVE  /\ monitor' \in [lastSeen : Nat \cup {None}, inOutage : BOOLEAN,
                          lastLine : Nat \cup {None}, blind : BOOLEAN]
         /\ monitor'.lastSeen = IF Unread THEN now ELSE IF Shrunk THEN None ELSE monitor.lastSeen
         /\ monitor'.inOutage <=> IF monitor'.blind \/ monitor'.lastSeen = None THEN StillOut
                                  ELSE now - monitor'.lastSeen > Threshold
         /\ monitor'.lastLine = IF Gone THEN monitor.lastLine ELSE log.last
         /\ monitor'.blind <=> InputStaleness(monitor') > INPUT_STALE_S
         /\ told' = IF MailsDown THEN "down" ELSE IF MailsUp THEN "up" ELSE told
         /\ forgot' <=> /\ ~(MailsUp \/ MailsDown)
                        /\ forgot \/ Shrunk
                        /\ ~(told = "up" /\ Unread /\ log.published >= now - 1)
         /\ toldBlind' = IF MailsDown THEN frozen # "no" /\ now - frozenAt > INPUT_STALE_S
                         ELSE toldBlind
<1> DEFINE Watcher == [lastSeen : Nat \cup {None}, inOutage : BOOLEAN,
                       lastLine : Nat \cup {None}, blind : BOOLEAN]
           base == AfterRotation(monitor)
           read == ReadLines(base)
           m == Judged(read)
<1>1. /\ monitor' = m
      /\ told' = IF ~read.inOutage /\ m.inOutage THEN "down"
                 ELSE IF ~m.inOutage /\ base.inOutage THEN "up" ELSE told
      /\ forgot' = /\ ~((~m.inOutage /\ base.inOutage) \/ (~read.inOutage /\ m.inOutage))
                   /\ forgot \/ Shrunk
                   /\ ~(told = "up" /\ Unread /\ log.published >= now - 1)
      /\ toldBlind' = IF ~read.inOutage /\ m.inOutage
                      THEN frozen # "no" /\ now - frozenAt > INPUT_STALE_S
                      ELSE toldBlind
  BY DEF Poll
<1>2. /\ base \in Watcher
      /\ base.lastSeen = IF Shrunk THEN None ELSE monitor.lastSeen
      /\ base.inOutage <=> monitor.inOutage /\ ~Shrunk
      /\ base.lastLine = monitor.lastLine
  BY DEF AfterRotation, LogTypes
<1>3. log.last \in Nat /\ log.last # None
  BY DEF LogTypes, None
<1> HIDE DEF base
<1>4. read = [base EXCEPT !.lastLine = IF Gone THEN base.lastLine ELSE log.last,
                          !.lastSeen = IF Unread THEN now ELSE base.lastSeen,
                          !.inOutage = base.inOutage /\ ~Unread]
  BY <1>3 DEF ReadLines, LastLine
<1>5. /\ read \in Watcher
      /\ read.lastSeen = IF Unread THEN now ELSE base.lastSeen
      /\ read.inOutage <=> base.inOutage /\ ~Unread
      /\ read.lastLine = IF Gone THEN base.lastLine ELSE log.last
  BY <1>2, <1>3, <1>4
<1> HIDE DEF read
<1>6. /\ m \in Watcher /\ m.lastSeen = read.lastSeen /\ m.lastLine = read.lastLine
      /\ m.blind <=> InputStaleness(read) > INPUT_STALE_S
      /\ m.inOutage <=> IF m.blind \/ read.lastSeen = None THEN read.inOutage
                        ELSE now - read.lastSeen > Threshold
  <2> DEFINE blind == InputStaleness(read) > INPUT_STALE_S
             out == IF blind \/ read.lastSeen = None THEN read.inOutage
                    ELSE now - read.lastSeen > Threshold
  <2>1. m = [read EXCEPT !.blind = blind, !.inOutage = out]
    BY DEF Judged
  <2>2. blind \in BOOLEAN /\ out \in BOOLEAN
    <3>1. blind \in BOOLEAN
      OBVIOUS
    <3>2. out = read.inOutage \/ out = (now - read.lastSeen > Threshold)
      OBVIOUS
    <3>3. (now - read.lastSeen > Threshold) \in BOOLEAN /\ read.inOutage \in BOOLEAN
      BY <1>5
    <3> HIDE DEF blind, out
    <3>4. QED
      BY <3>1, <3>2, <3>3
  <2> HIDE DEF m, blind, out
  <2>3. m \in Watcher /\ m.lastSeen = read.lastSeen /\ m.lastLine = read.lastLine
    BY <1>5, <2>1, <2>2
  <2>4. m.blind = blind /\ m.inOutage = out
    BY <1>5, <2>1
  <2>5. QED
    BY <2>3, <2>4 DEF blind, out
<1>7. InputStaleness(m) = InputStaleness(read)
  BY <1>6 DEF InputStaleness
<1> HIDE DEF m
<1>8. read.inOutage <=> StillOut
  BY <1>2, <1>5 DEF StillOut
<1>9. (~read.inOutage /\ m.inOutage <=> MailsDown) /\ (~m.inOutage /\ base.inOutage <=> MailsUp)
  BY <1>1, <1>2, <1>8 DEF MailsDown, MailsUp
<1>10. QED
  BY <1>1, <1>2, <1>5, <1>6, <1>7, <1>8, <1>9

\* A poll that judges has read a file that is there, and so an uploader is never
\* declared dead over one that was cut off for long: the age of the input counts
\* from the last line that reached it, whatever touched the file since.
LEMMA PollJudges ==
  ASSUME MonitorInv, now \in Nat, Poll
  PROVE  /\ Gone => monitor'.blind
         /\ monitor'.blind => (monitor'.inOutage <=> StillOut)
         /\ ~monitor'.blind /\ frozen # "no" => now - frozenAt <= INPUT_STALE_S
<1>0. LogTypes
  BY DEF MonitorInv
<1>1. INPUT_STALE_S \in Nat /\ log.last \in Nat /\ log.mtime \in Nat /\ frozenAt \in Nat
      /\ monitor.lastLine \in Nat \cup {None}
  BY <1>0, UploadsAssumption DEF LogTypes
<1>2. monitor'.lastLine = IF Gone THEN monitor.lastLine ELSE log.last
  BY <1>0, PollResult
<1>3. monitor'.blind <=> InputStaleness(monitor') > INPUT_STALE_S
  BY <1>0, PollResult
<1>4. Gone => monitor'.blind
  <2> SUFFICES ASSUME Gone PROVE monitor'.blind
    OBVIOUS
  <2>1. LogMtime = -1 - INPUT_STALE_S
    BY DEF LogMtime
  <2>2. ~(monitor'.lastLine # None /\ monitor'.lastLine < LogMtime)
    BY <1>1, <1>2, <2>1
  <2>3. InputStaleness(monitor') = now - LogMtime
    BY <2>2 DEF InputStaleness
  <2>4. now - LogMtime > INPUT_STALE_S
    BY <1>1, <2>1
  <2>5. QED
    BY <1>3, <2>3, <2>4
<1>5. monitor'.blind => (monitor'.inOutage <=> StillOut)
  BY <1>0, PollResult
<1>6. ~monitor'.blind /\ frozen # "no" => now - frozenAt <= INPUT_STALE_S
  <2> SUFFICES ASSUME ~monitor'.blind, frozen # "no" PROVE now - frozenAt <= INPUT_STALE_S
    OBVIOUS
  <2>1. LogMtime = log.mtime /\ monitor'.lastLine = log.last
    BY <1>2, <1>4 DEF LogMtime
  <2>2. log.last <= frozenAt
    BY DEF MonitorInv, CutOff
  <2>3. InputStaleness(monitor') = IF log.last < log.mtime THEN now - log.last ELSE now - log.mtime
    BY <1>1, <2>1 DEF InputStaleness, None
  <2>4. ~(InputStaleness(monitor') > INPUT_STALE_S)
    BY <1>3
  <2>5. CASE log.last < log.mtime
    BY <1>1, <2>2, <2>3, <2>4, <2>5
  <2>6. CASE ~(log.last < log.mtime)
    BY <1>1, <2>2, <2>3, <2>4, <2>6
  <2>7. QED
    BY <2>5, <2>6
<1>7. QED
  BY <1>4, <1>5, <1>6

LEMMA PollMemory ==
  ASSUME MonitorInv, now \in Nat, Poll
  PROVE  Memory' /\ Seen'
<1> USE DEF MonitorInv
<1>1. /\ kind = "site" /\ kind' = kind /\ now' = now /\ polled' = TRUE /\ rotated' = FALSE
      /\ log' = [log EXCEPT !.hit = log.hit /\ Gone]
      /\ frozen' = IF Gone THEN "missed" ELSE frozen
  BY DEF Poll, upVars
<1>2. log'.published = log.published /\ (log'.hit <=> log.hit /\ Gone)
  BY <1>1 DEF LogTypes
<1>3. /\ monitor'.lastSeen = IF Unread THEN now ELSE IF Shrunk THEN None ELSE monitor.lastSeen
      /\ monitor'.inOutage <=> IF monitor'.blind \/ monitor'.lastSeen = None THEN StillOut
                               ELSE now - monitor'.lastSeen > Threshold
      /\ forgot' <=> /\ ~(MailsUp \/ MailsDown)
                     /\ forgot \/ Shrunk
                     /\ ~(told = "up" /\ Unread /\ log.published >= now - 1)
  BY PollResult
<1>4. StillOut => /\ monitor'.lastSeen = monitor.lastSeen
                  /\ monitor.lastSeen # None /\ now - monitor.lastSeen > Threshold
  BY <1>3 DEF StillOut, Memory
<1>5. Gone => ~Unread /\ ~StillOut
  <2>1. frozen = "gone" => Shrunk
    BY DEF Shrunk
  <2>2. frozen = "missed" => ~monitor.inOutage
    BY DEF Memory
  <2>3. QED
    BY <2>1, <2>2 DEF Gone, Unread, StillOut
<1>6. Gone => monitor'.lastSeen = None /\ ~monitor'.inOutage
  <2>1. Gone => ~monitor'.inOutage
    BY <1>5, PollJudges
  <2>2. frozen = "missed" => monitor.lastSeen = None
    BY DEF Memory
  <2>3. Gone => Shrunk \/ monitor.lastSeen = None
    BY <2>2 DEF Shrunk, Gone
  <2>4. QED
    BY <1>3, <1>5, <2>1, <2>3
<1>7. Gone => forgot'
  <2>1. frozen = "missed" => ~monitor.inOutage /\ forgot
    BY DEF Memory
  <2>2. frozen = "gone" => Shrunk
    BY DEF Shrunk
  <2>3. Gone => ~MailsUp /\ ~MailsDown /\ (forgot \/ Shrunk) /\ ~Unread
    BY <1>5, <1>6, <2>1, <2>2 DEF Gone, MailsUp, MailsDown
  <2>4. QED
    BY <1>3, <2>3
<1>8. monitor'.inOutage => monitor'.lastSeen # None /\ now - monitor'.lastSeen > Threshold
  BY <1>3, <1>4
<1>9. ~monitor'.blind /\ monitor'.lastSeen # None =>
        (monitor'.inOutage <=> now - monitor'.lastSeen > Threshold)
  BY <1>3
<1>10. frozen' = "missed" => Gone
  BY <1>1 DEF Gone
<1>11. Memory'
  BY <1>1, <1>6, <1>7, <1>8, <1>9, <1>10 DEF Memory
<1>12. monitor'.lastSeen # None /\ ~log'.hit => log.published <= monitor'.lastSeen
  <2>1. CASE Unread
    BY <1>3, <2>1 DEF Dated
  <2>2. CASE ~Unread /\ monitor'.lastSeen # None /\ ~log'.hit
    <3>1. ~log.hit
      BY <1>2, <2>2 DEF Unread
    <3>2. ~rotated /\ monitor'.lastSeen = monitor.lastSeen
      BY <1>3, <2>2 DEF Shrunk
    <3>3. QED
      BY <2>2, <3>1, <3>2 DEF Seen
  <2>3. QED
    BY <2>1, <2>2
<1>13. Seen'
  BY <1>1, <1>2, <1>6, <1>7, <1>12 DEF Seen
<1>14. QED
  BY <1>11, <1>13

LEMMA PollBelief ==
  ASSUME MonitorInv, now \in Nat, Poll
  PROVE  Belief'
<1> USE DEF MonitorInv
<1>1. log'.published = log.published
  <2>1. log' = [log EXCEPT !.hit = log.hit /\ Gone]
    BY DEF Poll
  <2>2. QED
    BY <2>1 DEF LogTypes
<1>2. /\ monitor'.lastSeen = IF Unread THEN now ELSE IF Shrunk THEN None ELSE monitor.lastSeen
      /\ monitor'.inOutage <=> IF monitor'.blind \/ monitor'.lastSeen = None THEN StillOut
                               ELSE now - monitor'.lastSeen > Threshold
      /\ told' = IF MailsDown THEN "down" ELSE IF MailsUp THEN "up" ELSE told
      /\ forgot' <=> /\ ~(MailsUp \/ MailsDown)
                     /\ forgot \/ Shrunk
                     /\ ~(told = "up" /\ Unread /\ log.published >= now - 1)
  BY PollResult
<1>3. now # None /\ now - now = 0 /\ Threshold \in Nat
  BY UploadsAssumption DEF None
<1>4. Unread => log.published # None /\ log.published \in Nat
  BY DEF Unread, Dated, LogTypes
<1>5. Unread => ~monitor'.inOutage
  BY <1>2, <1>3 DEF StillOut
<1>6. Unread /\ (monitor.inOutage \/ ~forgot) => log.published >= now - 1
  BY DEF Unread, Seen, Poll
<1>7. CASE MailsDown
  <2>1. monitor'.inOutage /\ monitor'.lastSeen # None /\ told' = "down"
    BY <1>2, <1>7 DEF MailsDown
  <2>2. QED
    BY <2>1 DEF Belief
<1>8. CASE MailsUp
  <2>1. ~monitor'.inOutage /\ monitor.inOutage /\ ~Shrunk /\ told' = "up"
    BY <1>2, <1>8 DEF MailsUp, MailsDown
  <2>2. Unread
    <3> SUFFICES ASSUME ~Unread PROVE FALSE
      OBVIOUS
    <3>1. StillOut /\ monitor'.lastSeen = monitor.lastSeen
      BY <1>2, <2>1 DEF StillOut
    <3>2. monitor.lastSeen # None /\ now - monitor.lastSeen > Threshold
      BY <2>1 DEF Memory
    <3>3. QED
      BY <1>2, <2>1, <3>1, <3>2
  <2>3. monitor'.lastSeen = now /\ log.published >= now - 1
    BY <1>2, <1>6, <2>1, <2>2
  <2>4. QED
    BY <1>1, <1>3, <1>4, <2>1, <2>2, <2>3 DEF Belief
<1>9. CASE ~MailsDown /\ ~MailsUp /\ ~forgot /\ ~Shrunk
  <2>1. told' = told /\ monitor.lastSeen # None /\ (told = "down" <=> monitor.inOutage)
    BY <1>2, <1>9 DEF Belief
  <2>2. monitor'.inOutage <=> monitor.inOutage
    BY <1>2, <1>9 DEF MailsDown, MailsUp, StillOut
  <2>3. told # "down" => log.published # None /\ log.published >= monitor.lastSeen - 1
    BY <1>9 DEF Belief
  <2>4. CASE Unread
    <3>1. monitor'.lastSeen = now /\ log.published >= now - 1
      BY <1>2, <1>6, <1>9, <2>4
    <3>2. QED
      BY <1>1, <1>3, <1>4, <2>1, <2>2, <2>4, <3>1 DEF Belief
  <2>5. CASE ~Unread
    <3>1. monitor'.lastSeen = monitor.lastSeen
      BY <1>2, <1>9, <2>5
    <3>2. QED
      BY <1>1, <2>1, <2>2, <2>3, <3>1 DEF Belief
  <2>6. QED
    BY <2>4, <2>5
<1>10. CASE ~MailsDown /\ ~MailsUp /\ told = "up" /\ Unread /\ log.published >= now - 1
  <2>1. told' = "up" /\ monitor'.lastSeen = now /\ ~monitor'.inOutage
    BY <1>2, <1>5, <1>10
  <2>2. QED
    BY <1>1, <1>3, <1>4, <1>10, <2>1 DEF Belief
<1>11. CASE forgot'
  BY <1>11 DEF Belief
<1>12. QED
  BY <1>2, <1>7, <1>8, <1>9, <1>10, <1>11

LEMMA MonitorPoll ==
  ASSUME MonitorInv, now \in Nat, Poll
  PROVE  MonitorInv'
<1>1. /\ now' = now /\ frozenAt' = frozenAt
      /\ log' = [log EXCEPT !.hit = log.hit /\ Gone]
      /\ frozen' = IF Gone THEN "missed" ELSE frozen
  BY DEF Poll
<1>2. LogTypes
  BY DEF MonitorInv
<1>3. /\ monitor' \in [lastSeen : Nat \cup {None}, inOutage : BOOLEAN,
                       lastLine : Nat \cup {None}, blind : BOOLEAN]
      /\ monitor'.lastSeen = IF Unread THEN now ELSE IF Shrunk THEN None ELSE monitor.lastSeen
      /\ toldBlind' = IF MailsDown THEN frozen # "no" /\ now - frozenAt > INPUT_STALE_S
                      ELSE toldBlind
  BY <1>2, PollResult
<1>4. /\ log'.last = log.last /\ log'.published = log.published /\ log'.inFile = log.inFile
      /\ log'.hit => log.hit
  BY <1>1, <1>2 DEF LogTypes
<1>5. LogTypes'
  <2>1. (log.hit /\ Gone) \in BOOLEAN
    OBVIOUS
  <2>2. log' \in [mtime : Nat, last : Nat, published : Nat \cup {None},
                  inFile : BOOLEAN, hit : BOOLEAN]
    BY <1>1, <1>2, <2>1 DEF LogTypes
  <2>3. QED
    BY <1>1, <1>2, <1>3, <2>2 DEF LogTypes
<1>6. Dated'
  <2>1. monitor'.lastSeen <= now
    BY <1>3 DEF MonitorInv, Dated, None
  <2>2. QED
    BY <1>1, <1>4, <2>1 DEF MonitorInv, Dated
<1>7. CutOff'
  BY <1>1, <1>4 DEF MonitorInv, CutOff, Gone
<1>8. Memory' /\ Seen' /\ Belief'
  BY PollMemory, PollBelief
<1>9. NoBlindVerdict'
  <2>1. MailsDown => ~monitor'.blind
    BY PollJudges DEF MailsDown
  <2>2. MailsDown => ~(frozen # "no" /\ now - frozenAt > INPUT_STALE_S)
    <3>1. now - frozenAt <= INPUT_STALE_S => ~(now - frozenAt > INPUT_STALE_S)
      BY <1>2, UploadsAssumption DEF LogTypes
    <3>2. QED
      BY <2>1, <3>1, PollJudges
  <2>3. QED
    BY <1>3, <2>2 DEF MonitorInv, NoBlindVerdict
<1>10. QED
  BY <1>5, <1>6, <1>7, <1>8, <1>9 DEF MonitorInv

LEMMA MonitorStep ==
  ASSUME MonitorInv, now \in Nat, [Next]_vars
  PROVE  MonitorInv'
<1> USE DEF upVars
<1>1. CASE LeaseNext /\ UNCHANGED <<upVars, logVars, monVars>>
  <2>1. now' = now
    BY <1>1 DEF LeaseNext, Create, ReadLease, Judge, BreakLease, LockAndWrite, AcquireRaises,
                Release, Kill, Again
  <2>2. QED
    BY <1>1, <2>1, MonitorKept
<1>2. CASE Take \/ PostFails \/ WaitOver \/ Restart
  BY <1>2, MonitorKept DEF Take, PostFails, WaitOver, Restart
<1>3. CASE UNCHANGED vars
  BY <1>3, MonitorKept DEF vars
<1>4. QED
  BY <1>1, <1>2, <1>3, MonitorPostOk, MonitorTick, MonitorFile, MonitorPoll DEF Next

LEMMA MonitorInitInv == Init => MonitorInv
<1> SUFFICES ASSUME Init PROVE MonitorInv
  OBVIOUS
<1>1. LogTypes
  BY DEF Init, LogTypes, NewMonitor
<1>2. Dated /\ CutOff
  BY DEF Init, LeaseInit, Dated, CutOff, NewMonitor, None
<1>3. Memory /\ Seen /\ Belief /\ NoBlindVerdict
  BY DEF Init, Memory, Seen, Belief, NoBlindVerdict, NewMonitor
<1>4. QED
  BY <1>1, <1>2, <1>3 DEF MonitorInv

THEOREM MonitorInvariant == Spec => []MonitorInv
<1>1. UploadInv => now \in Nat
  BY DEF UploadInv, LeaseInv, LeaseTypes
<1>2. MonitorInv /\ now \in Nat /\ [Next]_vars => MonitorInv'
  BY MonitorStep
<1>3. QED
  BY <1>1, <1>2, MonitorInitInv, UploadInvariant, PTL DEF Spec

\* The last mail about a site agrees with what its log says, however many posts
\* failed, files were rotated or vanished, and restarts there were, as long as
\* the monitor did not forget the site since.
THEOREM TidingsAreTrue == Spec => []TidingsTrue
<1>1. MonitorInv /\ now \in Nat => TidingsTrue
  <2> SUFFICES ASSUME MonitorInv, now \in Nat, polled, ~log.hit, ~monitor.blind, ~forgot, ~rotated
               PROVE  IF told = "down" THEN now - log.published > Threshold
                      ELSE now - log.published <= Threshold + 1
    BY DEF TidingsTrue
  <2>1. /\ log.published \in Int /\ monitor.lastSeen \in Int /\ Threshold \in Nat
        /\ monitor.lastSeen # None
    BY UploadsAssumption DEF MonitorInv, LogTypes, Belief, None
  <2>2. monitor.inOutage <=> now - monitor.lastSeen > Threshold
    BY <2>1 DEF MonitorInv, Memory
  <2>3. CASE told = "down"
    <3>1. now - monitor.lastSeen > Threshold
      BY <2>2, <2>3 DEF MonitorInv, Belief
    <3>2. log.published <= monitor.lastSeen
      BY <2>1 DEF MonitorInv, Seen
    <3>3. QED
      BY <2>1, <2>3, <3>1, <3>2
  <2>4. CASE told # "down"
    <3>1. ~(now - monitor.lastSeen > Threshold) /\ log.published >= monitor.lastSeen - 1
      BY <2>2, <2>4 DEF MonitorInv, Belief
    <3>2. QED
      BY <2>1, <2>4, <3>1
  <2>5. QED
    BY <2>3, <2>4
<1>2. UploadInv => now \in Nat
  BY DEF UploadInv, LeaseInv, LeaseTypes
<1>3. QED
  BY <1>1, <1>2, MonitorInvariant, UploadInvariant, PTL

\* No mail says DOWN over a file that has been cut off from WeeWX for longer than
\* INPUT_STALE_S, whether it is still, gone, or touched all the time.
THEOREM NoVerdictIsBlind == Spec => []NoBlindVerdict
<1>1. MonitorInv => NoBlindVerdict
  BY DEF MonitorInv
<1>2. QED
  BY <1>1, MonitorInvariant, PTL

==============================================================================
