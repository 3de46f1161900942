-------------------------------- MODULE Lease --------------------------------
(***************************************************************************)
(* The lease on heavy disk work (ops/nas_build.py): one file that a job    *)
(* creates exclusively, locks and fills in, and removes when it is done.   *)
(* A lease that is expired and that nobody holds a lock on is broken, that *)
(* is removed by its name, by the next job that wants one.  Jobs of other  *)
(* tenants of the machine follow the same protocol.                        *)
(***************************************************************************)
EXTENDS Integers, FiniteSets

CONSTANTS
  Jobs,        \* runs of run_under_lease
  Ours,        \* those of them that are this station's own (TENANT)
  TTL_S,       \* how long a lease is valid
  MaxLeases, MaxKills   \* bounds: leases ever created, jobs killed

ASSUME LeaseAssumption ==
  /\ Ours \subseteq Jobs
  /\ {TTL_S, MaxLeases, MaxKills} \subseteq Nat

VARIABLES
  now,
  lease,       \* the file: [id, by, full, expires]; id 0: there is none
  leases,      \* how many were ever created: the id of the last one
  job,         \* what each job is doing, and the lease it read or created
  kills,
  acquired,    \* history: job -> when it last filled in a lease, or None
  misremoved   \* history: a lease was removed by who had judged another one

leaseVars == <<lease, leases, job, kills, acquired, misremoved>>

None == -1
NoLease == [id |-> 0, by |-> None, full |-> FALSE, expires |-> None]
Resting == [pc |-> "idle", saw |-> NoLease]
Done == [pc |-> "done", saw |-> NoLease]       \* returned, raised, or killed

Exists == lease.id # 0
Readable == lease.full       \* a file that is not there, or is empty, is not
Moves(j, pc, saw) == job' = [job EXCEPT ![j] = [pc |-> pc, saw |-> saw]]

\* The lock belongs to the open file, and goes with the process.
Locked == \E j \in Jobs : job[j].pc = "holding" /\ job[j].saw.id = lease.id

\* os.remove(path): whatever lease is there now.
RemoveFile(j) ==
  /\ lease' = NoLease
  /\ misremoved' = (misremoved \/ (Exists /\ lease.id # job[j].saw.id))

(***************************************************************************)
(* acquire, step by step: other processes act between the system calls.    *)
(***************************************************************************)
Create(j) ==
  /\ job[j].pc = "idle"
  /\ IF Exists
     THEN Moves(j, "exists", NoLease) /\ UNCHANGED <<lease, leases>>
     ELSE LET new == [id |-> leases + 1, by |-> j, full |-> FALSE, expires |-> None]
          IN /\ leases < MaxLeases /\ leases' = leases + 1
             /\ lease' = new /\ Moves(j, "created", new)
  /\ UNCHANGED <<now, kills, acquired, misremoved>>

\* A lease that cannot be read is never taken for a free one.
ReadLease(j) ==
  /\ job[j].pc = "exists"
  /\ IF Readable THEN Moves(j, "read", lease) ELSE Moves(j, "done", NoLease)
  /\ UNCHANGED <<now, lease, leases, kills, acquired, misremoved>>

ProbeFlockFree == ~ (Exists /\ Locked)
Expired(l) == l.expires < now

\* The lock is probed on the file that is there now, the expiry is that of the
\* lease that was read.
Breakable(j) == ProbeFlockFree /\ Expired(job[j].saw)

\* For the mutants: an expired lease is broken while its job still runs.
MutJudge(j) ==
  /\ job[j].pc = "read"
  /\ IF Expired(job[j].saw) THEN Moves(j, "breaking", job[j].saw) ELSE Moves(j, "done", NoLease)
  /\ UNCHANGED <<now, lease, leases, kills, acquired, misremoved>>

Judge(j) ==
  /\ job[j].pc = "read"
  /\ IF Breakable(j) THEN Moves(j, "breaking", job[j].saw) ELSE Moves(j, "done", NoLease)
  /\ UNCHANGED <<now, lease, leases, kills, acquired, misremoved>>

\* A file that is gone by now makes acquire raise.
BreakLease(j) ==
  /\ job[j].pc = "breaking"
  /\ RemoveFile(j)
  /\ Moves(j, IF Exists THEN "idle" ELSE "done", NoLease)
  /\ UNCHANGED <<now, leases, kills, acquired>>

\* Written through the descriptor: no matter if the name is still there.
LockAndWrite(j) ==
  LET mine == [job[j].saw EXCEPT !.full = TRUE, !.expires = now + TTL_S]
  IN /\ job[j].pc = "created"
     /\ lease' = IF lease.id = mine.id THEN mine ELSE lease
     /\ Moves(j, "holding", mine)
     /\ acquired' = [acquired EXCEPT ![j] = now]
     /\ UNCHANGED <<now, leases, kills, misremoved>>

\* The lock is refused to a job while another one probes, the disk is full:
\* the descriptor is closed, and the empty file stays.
AcquireRaises(j) ==
  /\ job[j].pc = "created"
  /\ Moves(j, "done", NoLease)
  /\ UNCHANGED <<now, lease, leases, kills, acquired, misremoved>>

\* release: the command has ended, however it went.
Release(j) ==
  /\ job[j].pc = "holding"
  /\ RemoveFile(j)
  /\ Moves(j, "done", NoLease)
  /\ UNCHANGED <<now, leases, kills, acquired>>

\* A job is killed between two of its steps, or the machine goes down.
Kill(j) ==
  /\ job[j].pc \in {"created", "breaking", "holding"}
  /\ kills < MaxKills /\ kills' = kills + 1
  /\ Moves(j, "done", NoLease)
  /\ UNCHANGED <<now, lease, leases, acquired, misremoved>>

\* The job is run another time.
Again(j) ==
  /\ job[j] = Done
  /\ job' = [job EXCEPT ![j] = Resting]
  /\ UNCHANGED <<now, lease, leases, kills, acquired, misremoved>>

LeaseInit ==
  /\ now = 0 /\ lease = NoLease /\ leases = 0 /\ kills = 0
  /\ job = [j \in Jobs |-> Resting]
  /\ acquired = [j \in Jobs |-> None]
  /\ misremoved = FALSE

LeaseNext ==
  \E j \in Jobs :
    \/ Create(j) \/ ReadLease(j) \/ Judge(j) \/ BreakLease(j)
    \/ LockAndWrite(j) \/ AcquireRaises(j) \/ Release(j) \/ Kill(j) \/ Again(j)

(***************************************************************************)
(* Properties                                                              *)
(***************************************************************************)
Holders == {j \in Jobs : job[j].pc = "holding"}

\* A job runs under the lease that is in place, whatever its duration, and so
\* two never run at once, unless a lease was removed by its name that was not
\* the one its remover had judged: BreakLease and Release do not look again.
Announced ==
  misremoved \/ \A i, j \in Holders : i = j /\ lease.id = job[j].saw.id
==============================================================================
