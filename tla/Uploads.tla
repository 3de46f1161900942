------------------------------- MODULE Uploads -------------------------------
(***************************************************************************)
(* An uploader, the lease it may yield to and the monitor that may watch   *)
(* it.  The uploader is one of two kinds:                                  *)
(*   "influx"  influx.py, which posts every record, and slows down while   *)
(*             another tenant holds the lease; the monitor does not watch  *)
(*             it;                                                         *)
(*   "site"    a site of rest_site.py, owm.py, windy.py, wcloud.py or      *)
(*             ogoxeUploader.py; weewx_monitor.py watches its lines in     *)
(*             weewx.log.                                                  *)
(* The thread itself (RESTThread) is WeeWX's.  A record is the time of its *)
(* archive interval; one interval is one tick.                             *)
(***************************************************************************)
EXTENDS Lease, Sequences

CONSTANTS
  LEASE_YIELD_POST_INTERVAL_S,
  PostInterval, Stale, MaxBacklog,    \* of the site
  MaxTries, LoginWait,
  Threshold, INPUT_STALE_S,           \* of the monitor
  Kinds,
  MaxNow,                             \* bounds: of time, for each kind; of faults
  MaxFailures, MaxRestarts, MaxRotations, MaxFreezes

ASSUME UploadsAssumption ==
  /\ {LEASE_YIELD_POST_INTERVAL_S, PostInterval, Stale, MaxBacklog, LoginWait,
      Threshold, INPUT_STALE_S, MaxFailures, MaxRestarts, MaxRotations,
      MaxFreezes} \subseteq Nat
  /\ MaxTries \in Nat \ {0} /\ Kinds \subseteq {"influx", "site"}
  /\ MaxNow \in [Kinds -> Nat]
  /\ INPUT_STALE_S < Threshold

VARIABLES
  kind,
  queue,       \* the records WeeWX put there
  thread,      \* what the upload thread does
  lastpost,    \* the last record it did not skip, or None
  posted,      \* records the server has
  lost,        \* records it never will
  failures, restarts,
  log,         \* weewx.log: [mtime, last, published, inFile, hit]: its age, the
               \* time of its last line, of the last that says Published, whether
               \* this file has such a line, and whether one is unread
  frozen,      \* is the file cut off from WeeWX: "no", "still", "touched", or
               \* "gone"; "missed" when a poll found it gone
  frozenAt, freezes, rotations,
  rotated,     \* the file is shorter than what was read of it
  monitor,     \* [lastSeen, inOutage] of the uploader, [lastLine, blind] of the
               \* monitor's own input
  polled,      \* a poll ran since the last tick
  told,        \* history: what the last mail said, "up" or "down"
  forgot,      \* history: the monitor lost its memory since that mail
  toldBlind,   \* history: that mail was sent over a file frozen for long
  lastSkip     \* history: the record the thread last skipped

upVars == <<kind, queue, thread, lastpost, posted, lost, failures, restarts, lastSkip>>
logVars == <<log, frozen, frozenAt, freezes, rotations, rotated>>
monVars == <<monitor, polled, told, forgot, toldBlind>>
vars == <<now, leaseVars, upVars, logVars, monVars>>

(***************************************************************************)
(* The upload thread                                                       *)
(***************************************************************************)
Idle == [pc |-> "idle"]

\* For the mutants: a lease is a lease, however old.
MutForeignLeaseActive == Readable /\ lease.by \notin Ours

\* influx.py _foreign_lease_active: a lease that cannot be read, or one of
\* this station's own, is none.
ForeignLeaseActive == Readable /\ lease.by \notin Ours /\ lease.expires > now

\* Nothing is configured for InfluxDB: without a foreign lease it posts all.
Interval ==
  IF kind = "site" THEN PostInterval
  ELSE IF ForeignLeaseActive THEN LEASE_YIELD_POST_INTERVAL_S ELSE 0

SkipThisPost(rec) ==
  \/ kind = "site" /\ now - rec > Stale
  \/ lastpost # None /\ rec - lastpost < Interval

Backlogged == kind = "site" /\ Len(queue) - 1 > MaxBacklog

Lose(recs) == lost' = lost \cup recs /\ UNCHANGED posted

\* For the mutants: the interval starts anew with every record.
MutSkip(rec) == Lose({rec}) /\ lastSkip' = rec /\ lastpost' = rec

\* RESTThread goes on to the next record: this one is not kept for later.
Skip(rec) == Lose({rec}) /\ lastSkip' = rec /\ UNCHANGED lastpost

Take ==
  /\ thread = Idle /\ queue # <<>>
  /\ queue' = Tail(queue)
  /\ \/ /\ Backlogged
        /\ Lose({Head(queue)}) /\ UNCHANGED <<thread, lastpost, lastSkip>>
     \/ /\ ~Backlogged /\ SkipThisPost(Head(queue))
        /\ Skip(Head(queue)) /\ UNCHANGED thread
     \/ /\ ~Backlogged /\ ~SkipThisPost(Head(queue))
        /\ thread' = [pc |-> "posting", rec |-> Head(queue), tries |-> 0]
        /\ lastpost' = Head(queue)
        /\ UNCHANGED <<posted, lost, lastSkip>>
  /\ UNCHANGED <<now, leaseVars, kind, failures, restarts, logVars, monVars>>

\* log_success: the line the monitor looks for, unless the file is cut off.
LogPublished ==
  log' = IF frozen = "no" /\ kind = "site"
         THEN [log EXCEPT !.mtime = now, !.last = now, !.published = now, !.inFile = TRUE, !.hit = TRUE]
         ELSE log

PostOk ==
  /\ thread.pc = "posting"
  /\ posted' = posted \cup {thread.rec} /\ thread' = Idle
  /\ LogPublished
  /\ UNCHANGED <<now, leaseVars, kind, queue, lastpost, lost, failures, restarts,
                 lastSkip, frozen, frozenAt, freezes, rotations, rotated, monVars>>

\* Some failures are worth another try; InfluxDB's 404 is not, and its 401 and
\* 403 make the thread wait as well (handle_exception).
PostFails ==
  /\ thread.pc = "posting"
  /\ failures < MaxFailures /\ failures' = failures + 1
  /\ \/ /\ thread.tries + 1 < MaxTries
        /\ thread' = [thread EXCEPT !.tries = @ + 1] /\ UNCHANGED <<posted, lost>>
     \/ /\ thread.tries + 1 >= MaxTries \/ kind = "influx"
        /\ thread' = Idle /\ Lose({thread.rec})
     \/ /\ kind = "influx"
        /\ thread' = [pc |-> "waiting", until |-> now + LoginWait] /\ Lose({thread.rec})
  /\ UNCHANGED <<now, leaseVars, kind, queue, lastpost, restarts, lastSkip, logVars, monVars>>

WaitOver ==
  /\ thread.pc = "waiting" /\ now >= thread.until /\ thread' = Idle
  /\ UNCHANGED <<now, leaseVars, kind, queue, lastpost, posted, lost, failures,
                 restarts, lastSkip, logVars, monVars>>

\* A restart of WeeWX: the queue is not on disk.
Restart ==
  /\ restarts < MaxRestarts /\ restarts' = restarts + 1
  /\ Lose({queue[i] : i \in DOMAIN queue}
          \cup (IF thread.pc = "posting" THEN {thread.rec} ELSE {}))
  /\ queue' = <<>> /\ thread' = Idle /\ lastpost' = None
  /\ UNCHANGED <<now, leaseVars, kind, failures, lastSkip, logVars, monVars>>

(***************************************************************************)
(* weewx_monitor.py: one poll of main, of one uploader of THRESHOLDS.      *)
(***************************************************************************)
Gone == frozen \in {"gone", "missed"}

\* get_log_size: a file that cannot be stat'ed has size 0, and so has shrunk.
Shrunk == rotated \/ frozen = "gone"

\* log_mtime: and is as old as can be.
LogMtime == IF Gone THEN -1 - INPUT_STALE_S ELSE log.mtime

\* get_new_lines: nothing of a file that is not there.
Unread == log.hit /\ ~Gone

\* parse_log_ts of the last line read.
LastLine(m) == IF log.last # None /\ ~Gone THEN log.last ELSE m.lastLine

NewMonitor == [lastSeen |-> None, inOutage |-> FALSE, lastLine |-> None, blind |-> FALSE]

\* A log that shrank makes it forget the uploader.
AfterRotation(m) ==
  IF Shrunk THEN [m EXCEPT !.lastSeen = None, !.inOutage = FALSE] ELSE m

\* For the mutants: a recovery leaves the time the uploader was last seen.
MutReadLines(m) ==
  [m EXCEPT !.lastLine = LastLine(m),
            !.lastSeen = IF Unread /\ ~m.inOutage THEN now ELSE @,
            !.inOutage = @ /\ ~Unread]

ReadLines(m) ==
  [m EXCEPT !.lastLine = LastLine(m),
            !.lastSeen = IF Unread THEN now ELSE @,
            !.inOutage = @ /\ ~Unread]

\* For the mutants: the age of the file, without that of its last line.
MutInputStaleness(m) == now - LogMtime

InputStaleness(m) ==
  IF m.lastLine # None /\ m.lastLine < LogMtime THEN now - m.lastLine ELSE now - LogMtime

\* check_input_freshness, then the service downtime checks.
Judged(m) ==
  LET blind == InputStaleness(m) > INPUT_STALE_S
  IN [m EXCEPT !.blind = blind,
               !.inOutage = IF blind \/ m.lastSeen = None THEN @
                            ELSE now - m.lastSeen > Threshold]

Poll ==
  /\ kind = "site" /\ ~polled
  /\ LET read == ReadLines(AfterRotation(monitor))
         m == Judged(read)
         down == ~read.inOutage /\ m.inOutage
         up == ~m.inOutage /\ AfterRotation(monitor).inOutage
     IN /\ monitor' = m
        /\ told' = IF down THEN "down" ELSE IF up THEN "up" ELSE told
        /\ forgot' = /\ ~(up \/ down)
                     /\ forgot \/ Shrunk
                     /\ ~(told = "up" /\ Unread /\ log.published >= now - 1)
        /\ toldBlind' = IF down THEN frozen # "no" /\ now - frozenAt > INPUT_STALE_S
                        ELSE toldBlind
  /\ log' = [log EXCEPT !.hit = @ /\ Gone] /\ rotated' = FALSE /\ polled' = TRUE
  /\ frozen' = IF Gone THEN "missed" ELSE frozen
  /\ UNCHANGED <<now, leaseVars, upVars, frozenAt, freezes, rotations>>

MonitorRestart ==
  /\ kind = "site" /\ restarts < MaxRestarts /\ restarts' = restarts + 1
  /\ monitor' = NewMonitor /\ forgot' = TRUE
  /\ log' = [log EXCEPT !.hit = FALSE] /\ rotated' = FALSE   \* it starts at the end
  /\ frozen' = IF Gone THEN "missed" ELSE frozen
  /\ UNCHANGED <<now, leaseVars, kind, queue, thread, lastpost, posted, lost, failures,
                 lastSkip, frozenAt, freezes, rotations, polled, told, toldBlind>>

(***************************************************************************)
(* The environment: the log file, and time.  The monitor polls every 30 s, *)
(* at least once in each archive interval, and WeeWX logs all the time.    *)
(***************************************************************************)
Rotate ==
  /\ kind = "site" /\ frozen = "no"
  /\ rotations < MaxRotations /\ rotations' = rotations + 1
  /\ rotated' = TRUE
  /\ log' = [log EXCEPT !.mtime = now, !.last = now, !.inFile = FALSE, !.hit = FALSE]
  /\ UNCHANGED <<now, leaseVars, upVars, frozen, frozenAt, freezes, monVars>>

\* What is written now does not reach the file the monitor reads; something
\* may still touch it.
Freeze ==
  /\ kind = "site" /\ frozen = "no"
  /\ freezes < MaxFreezes /\ freezes' = freezes + 1
  /\ frozen' \in {"still", "touched", "gone"} /\ frozenAt' = now
  /\ UNCHANGED <<now, leaseVars, upVars, log, rotations, rotated, monVars>>

\* A file that a poll missed is read from its start when it is back.
Thaw ==
  /\ frozen # "no" /\ frozen' = "no"
  /\ log' = [log EXCEPT !.hit = @ \/ (frozen = "missed" /\ log.inFile)]
  /\ UNCHANGED <<now, leaseVars, upVars, frozenAt, freezes, rotations, rotated, monVars>>

Tick ==
  /\ now < MaxNow[kind] /\ now' = now + 1
  /\ kind = "site" => polled
  /\ polled' = FALSE
  /\ queue' = Append(queue, now')
  /\ log' = IF kind = "site" /\ frozen = "no" THEN [log EXCEPT !.mtime = now', !.last = now']
            ELSE IF kind = "site" /\ frozen = "touched" THEN [log EXCEPT !.mtime = now']
            ELSE log
  /\ UNCHANGED <<leaseVars, kind, thread, lastpost, posted, lost, failures, restarts,
                 lastSkip, frozen, frozenAt, freezes, rotations, rotated,
                 monitor, told, forgot, toldBlind>>

Init ==
  /\ LeaseInit /\ kind \in Kinds
  /\ queue = <<>> /\ thread = Idle /\ lastpost = None /\ posted = {} /\ lost = {}
  /\ failures = 0 /\ restarts = 0 /\ lastSkip = None
  /\ log = [mtime |-> 0, last |-> 0, published |-> None, inFile |-> FALSE, hit |-> FALSE]
  /\ frozen = "no" /\ frozenAt = 0 /\ freezes = 0 /\ rotations = 0 /\ rotated = FALSE
  /\ monitor = NewMonitor /\ polled = FALSE
  /\ told = "up" /\ forgot = TRUE /\ toldBlind = FALSE

Next ==
  \/ kind = "influx" /\ LeaseNext /\ UNCHANGED <<upVars, logVars, monVars>>
  \/ Take \/ PostOk \/ PostFails \/ WaitOver \/ Restart
  \/ Poll \/ MonitorRestart \/ Rotate \/ Freeze \/ Thaw
  \/ Tick

Spec == Init /\ [][Next]_vars

(***************************************************************************)
(* Properties                                                              *)
(***************************************************************************)
Undisturbed == kind = "influx" /\ failures = 0 /\ restarts = 0
Taken == posted \cup (IF thread.pc = "posting" THEN {thread.rec} ELSE {})

\* Only a living lease slows the uploads down: a record is skipped within
\* TTL_S of the moment some other tenant's job filled a lease in.  A lease its
\* job left behind, an empty one, or our own, costs nothing.
YieldsToTheLiving ==
  [][(lastSkip' # lastSkip /\ kind = "influx") =>
       \E j \in Jobs \ Ours : acquired[j] # None /\ now < acquired[j] + TTL_S]_vars

\* However long the lease is held and by however many jobs in turn, InfluxDB
\* gets a record at least every LEASE_YIELD_POST_INTERVAL_S.
GapBounded ==
  Undisturbed =>
    \A r \in lost : \E p \in Taken : p < r /\ r - p < LEASE_YIELD_POST_INTERVAL_S

\* What the comment on LEASE_YIELD_POST_INTERVAL_S says (influx.py:270): the
\* records of the deferral are posted late, and none is lost.
NothingLost == Undisturbed => lost = {}

\* The mails tell the truth about what the log says: after a poll that saw,
\* the last of them was DOWN just when no line said Published for longer than
\* the threshold, give or take one poll, unless the monitor forgot the
\* uploader in between, by a restart of its own or a rotation of the log.
TidingsTrue ==
  (polled /\ ~log.hit /\ ~monitor.blind /\ ~forgot /\ ~rotated) =>
    IF told = "down" THEN now - log.published > Threshold
    ELSE now - log.published <= Threshold + 1

\* No mail says DOWN on the evidence of a file that has been cut off from WeeWX
\* for longer than INPUT_STALE_S, not even if something keeps touching it.
NoBlindVerdict == ~toldBlind
=============================================================================
