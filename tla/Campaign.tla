------------------------------- MODULE Campaign -------------------------------
(***************************************************************************)
(* A receiver campaign (ops/rx_experiment.sh): the scheduled passes `tick' *)
(* and `guard' and the manual `abort', three programs that share a lock    *)
(* directory, weewx.conf, a state file and the sentinels STOP and PAUSE.   *)
(*                                                                         *)
(* A program is the list of the steps it has still to take, so that the    *)
(* steps of the others, a reboot or the passing of time fall between any   *)
(* two.  A command line is named by its arm.  Times enter as what the code *)
(* asks of them: the lock's holder has died, the restart has settled, the  *)
(* pause has lasted too long.                                              *)
(***************************************************************************)
EXTENDS Integers, Sequences

CONSTANTS
  Schedule,       \* the arms of the rows, the last of them the self-terminator
  BASELINE,       \* the production configuration
  NONE,           \* no arm, no container
  ABORT_SAMPLES,  \* reception samples the guard averages
  Mishaps,        \* what may happen: faults, reboots, manual aborts, STOP cleared by hand
  MaxMishaps      \* bound: how often, together

ASSUME CampaignAssumption ==
  /\ Schedule \in Seq(STRING) /\ Schedule # <<>>
  /\ Schedule[Len(Schedule)] = BASELINE
  /\ \A row \in 1 .. Len(Schedule) - 1 : Schedule[row] \notin {BASELINE, NONE}
  /\ BASELINE # NONE
  /\ ABORT_SAMPLES \in Nat \ {0}
  /\ Mishaps \subseteq {"fault", "reboot", "abort", "clear"}
  /\ MaxMishaps \in Nat

Rows == {Schedule[row] : row \in 1 .. Len(Schedule)}
Arms == Rows \ {BASELINE}
Programs == {"tick", "guard", "abort"}
Steps == {"break", "retake", "pid", "check", "write", "copy", "restart",
          "health", "record", "stop", "release"}

SettleSamples == 2   \* the first readings of a block, which its reader drops

VARIABLES
  todo,       \* the steps each program has still to take
  target,     \* the arm the tick at work swaps to
  lock,       \* the lock directory: free, without a pid, of a program, or of a dead one
  due,        \* rows of the schedule whose time has passed
  installed,  \* the baseline snapshot exists
  conf,       \* the command in weewx.conf
  live,       \* the command of the running container
  state,      \* the arm in the state file
  settled,    \* SETTLE_SECS have passed since it was written
  stop,       \* the STOP sentinel
  pause,      \* the PAUSE sentinel: no, yes, or for longer than its ceiling
  samples,    \* the last readings of reception: at or above the floor
  sign,       \* the sign of recovery the monitor has logged since the pause
  window,     \* the monitor's open window: of what the station receives on, or mixed
  period,     \* the windows closed since its last reading: none, of that alone, or mixed
  lines,      \* history: readings since an arm was recorded
  foreign,    \* history: one of them, after the first ones, was not of the arm alone
  raced,      \* history: the lock was lost or an abort went without it
  disturbed,  \* history: a reboot, a failure or a cleared STOP since the swap began
  mishaps

files == <<installed, conf, live, state, settled>>
sentinels == <<stop, pause>>
origin == <<window, period, lines, foreign>>
log == <<samples, sign, origin>>
history == <<raced, disturbed>>
campaignVars == <<todo, target, lock, due, files, sentinels, log, history, mishaps>>

CampaignInit ==
  /\ todo = [p \in Programs |-> <<>>]
  /\ target = NONE
  /\ lock = "free"
  /\ due = 0
  /\ installed = FALSE
  /\ conf = BASELINE /\ live = BASELINE
  /\ state = NONE /\ settled = TRUE
  /\ stop = FALSE /\ pause = "no"
  /\ samples = <<>> /\ sign = "none"
  /\ window = "same" /\ period = "none" /\ lines = 0
  /\ foreign = FALSE /\ raced = FALSE /\ disturbed = FALSE
  /\ mishaps = 0

------------------------------------------------------------------------------
(* The steps of a program. *)

Idle(p) == todo[p] = <<>>
AtWork(p) == ~Idle(p) /\ todo[p][1] \notin {"break", "retake", "pid"}
Quiet == \A p \in Programs : ~AtWork(p)

\* trip_abort, for a program that has no lock to release and for one that has, and
\* tick's answer to a failed write: restore_baseline, and then trip_abort.
TripUnlocked == <<"stop", "copy", "restart">>
TripAbort == <<"stop", "copy", "restart", "release">>
WriteFailed == <<"copy", "restart", "stop", "copy", "restart", "release">>

Continue(p, steps) == todo' = [todo EXCEPT ![p] = steps]
Done(p) == Continue(p, Tail(todo[p]))
At(p, step) == ~Idle(p) /\ todo[p][1] = step

\* What the station receives on; its start after a swap, until it is known to be healthy,
\* is no reception of the new arm.
Station == IF At("tick", "health") THEN NONE ELSE live

\* The records of the log: a step that changes the station falls into the open window, and
\* the closed ones, too, tell of what came before.
Heard ==
  /\ IF Station' = Station THEN UNCHANGED <<window, period>>
     ELSE window' = "mixed" /\ period' = IF period = "none" THEN "none" ELSE "mixed"
  /\ UNCHANGED <<lines, foreign>>

Mishap(kind) ==
  /\ kind \in Mishaps
  /\ mishaps < MaxMishaps
  /\ mishaps' = mishaps + 1

Body(p) == IF p = "abort" THEN TripAbort ELSE <<"check">>

(* acquire_lock.  A pass that finds the lock held is skipped; an abort goes on. *)

\* Mutant: the directory may be there already, as for mkdir -p.
MkdirP(p) ==
  /\ Idle(p)
  /\ lock \in {"free", "nopid"}
  /\ lock' = "nopid"
  /\ Continue(p, <<"pid">>)

Mkdir(p) ==
  /\ Idle(p)
  /\ lock = "free"
  /\ lock' = "nopid"
  /\ Continue(p, <<"pid">>)

FindStale(p) ==
  /\ Idle(p)
  /\ lock = "dead"
  /\ Continue(p, <<"break">>)
  /\ UNCHANGED lock

Start(p) ==
  /\ Mkdir(p) \/ FindStale(p)
  /\ IF p = "abort" THEN Mishap("abort") ELSE UNCHANGED mishaps
  /\ UNCHANGED <<target, due, files, sentinels, log, history>>

\* An abort that does not get the lock; it has no lock to release either.
AbortUnlocked ==
  /\ \/ Idle("abort") /\ lock \notin {"free", "dead"} /\ Mishap("abort")
     \/ At("abort", "retake") /\ lock # "free" /\ UNCHANGED mishaps
  /\ Continue("abort", TripUnlocked)
  /\ raced' = TRUE
  /\ UNCHANGED <<target, lock, due, files, sentinels, log, disturbed>>

Break(p) ==
  /\ At(p, "break")
  /\ lock' = "free"
  /\ raced' = (raced \/ lock \notin {"dead", "free"})
  /\ Continue(p, <<"retake">>)
  /\ UNCHANGED <<target, due, files, sentinels, log, disturbed, mishaps>>

Retake(p) ==
  /\ At(p, "retake")
  /\ \/ lock = "free" /\ lock' = "nopid" /\ Continue(p, <<"pid">>)
     \/ lock # "free" /\ p # "abort" /\ UNCHANGED lock /\ Continue(p, <<>>)
  /\ UNCHANGED <<target, due, files, sentinels, log, history, mishaps>>

\* The write fails, unnoticed, if another program has removed the directory.
WritePid(p) ==
  /\ At(p, "pid")
  /\ lock' = IF lock = "free" THEN "free" ELSE p
  /\ Continue(p, Body(p))
  /\ UNCHANGED <<target, due, files, sentinels, log, history, mishaps>>

\* release_lock, in the exit trap: it removes the directory whosever it is.
Release(p) ==
  /\ At(p, "release")
  /\ lock' = "free"
  /\ target' = IF p = "tick" THEN NONE ELSE target
  /\ Done(p)
  /\ UNCHANGED <<due, files, sentinels, log, history, mishaps>>

------------------------------------------------------------------------------
(* tick. *)

Want == IF due = 0 THEN NONE ELSE Schedule[due]   \* due_arm

\* Mutant: the state is written before the container is restarted.
SwapRecordsFirst(arm) ==
  IF arm = BASELINE THEN <<"copy", "restart", "record", "release">>
  ELSE <<"write", "record", "restart", "health", "release">>

Swap(arm) == IF arm = BASELINE THEN <<"copy", "restart", "record", "release">>
             ELSE <<"write", "restart", "health", "record", "release">>

\* Mutant: the self-terminator waits for the pause to end.
SwapsUnpaused == ~stop /\ installed /\ Want \notin {NONE, state} /\ pause = "no"

Swaps == /\ ~stop /\ installed
         /\ Want \notin {NONE, state}
         /\ pause = "no" \/ Want = BASELINE

\* The tick works alone, under its lock: what came before it is past.
Alone == lock = "tick" /\ Idle("guard") /\ Idle("abort")

\* The checks at the top; a swap to BASELINE clears the pause; the harvest.
TickCheck ==
  /\ At("tick", "check")
  /\ IF Swaps
     THEN /\ target' = Want
          /\ pause' = "no" /\ sign' = "none"
          /\ raced' = (raced /\ ~Alone)
          /\ disturbed' = (disturbed /\ ~Alone)
          /\ Continue("tick", Swap(Want))
     ELSE /\ Continue("tick", <<"release">>)
          /\ UNCHANGED <<target, pause, sign, history>>
  /\ UNCHANGED <<lock, due, files, stop, samples, origin, mishaps>>

\* write_arm replaces the command line or, on any failure, nothing.
WriteArm ==
  /\ At("tick", "write")
  /\ \/ conf' = target /\ Done("tick") /\ UNCHANGED mishaps
     \/ Mishap("fault") /\ Continue("tick", WriteFailed) /\ UNCHANGED conf
  /\ UNCHANGED <<target, lock, due, installed, live, state, settled, sentinels, log,
                 history>>

\* Mutant: an unhealthy container is only logged.
HealthLogged ==
  /\ At("tick", "health")
  /\ Done("tick")
  /\ UNCHANGED <<target, lock, due, files, sentinels, samples, sign, history, mishaps>>
  /\ Heard

\* Mutant: an unhealthy container halts the campaign where it is.
HealthHalts ==
  /\ At("tick", "health")
  /\ \/ live # NONE /\ Done("tick")
     \/ Continue("tick", <<"stop", "release">>)
  /\ UNCHANGED <<target, lock, due, files, sentinels, samples, sign, history, mishaps>>
  /\ Heard

\* health_ok: the container runs and adds a record; in an RF-dead spell it adds none.
HealthOk ==
  /\ At("tick", "health")
  /\ \/ live # NONE /\ Done("tick")
     \/ Continue("tick", TripAbort)
  /\ UNCHANGED <<target, lock, due, files, sentinels, samples, sign, history, mishaps>>
  /\ Heard

WriteState ==
  /\ At("tick", "record")
  /\ state' = target /\ settled' = FALSE
  /\ lines' = 0 /\ foreign' = FALSE
  /\ Done("tick")
  /\ UNCHANGED <<target, lock, due, installed, conf, live, sentinels, samples, sign, window, period,
                 history, mishaps>>

------------------------------------------------------------------------------
(* trip_abort, restore_baseline and restart_container, for all three. *)

\* STOP is written, then PAUSE removed.
TripStop(p) ==
  /\ At(p, "stop")
  /\ stop' = TRUE
  /\ pause' = "no" /\ sign' = "none"
  /\ Done(p)
  /\ UNCHANGED <<target, lock, due, files, samples, origin, history, mishaps>>

\* Without a snapshot, or when cp fails, restore_baseline returns before its restart.
Copy(p) ==
  /\ At(p, "copy")
  /\ \/ /\ installed
        /\ conf' = BASELINE
        /\ Done(p)
        /\ UNCHANGED <<disturbed, mishaps>>
     \/ /\ IF installed THEN Mishap("fault") ELSE UNCHANGED mishaps
        /\ Continue(p, Tail(Tail(todo[p])))
        /\ disturbed' = (disturbed \/ installed)
        /\ UNCHANGED conf
  /\ UNCHANGED <<target, lock, due, installed, live, state, settled, sentinels, log,
                 raced>>

\* Only a tick's own restart to an arm is followed by a health check.
Checked(p) == Len(todo[p]) > 1 /\ todo[p][2] = "health"

\* A restart may fail with the container gone, or be refused with the old one running.
Restart(p) ==
  /\ At(p, "restart")
  /\ \/ live' = conf /\ UNCHANGED <<disturbed, mishaps>>
     \/ /\ Mishap("fault")
        /\ live' \in {NONE, live}
        /\ disturbed' = (disturbed \/ live' # NONE \/ ~Checked(p))
  /\ Done(p)
  /\ Heard
  /\ UNCHANGED <<target, lock, due, installed, conf, state, settled, sentinels, samples, sign,
                 raced>>

------------------------------------------------------------------------------
(* guard. *)

Recovered == sign # "none"                        \* recovered_since

\* A mean below the floor needs one reading below it, and all below it force it.
MeanLow(low) ==
  /\ low => \E i \in 1 .. Len(samples) : ~samples[i]
  /\ (\A i \in 1 .. Len(samples) : ~samples[i]) => low

Armed == ~stop /\ state \notin {NONE, BASELINE}

Pause ==
  /\ pause = "no" /\ settled /\ Len(samples) = ABORT_SAMPLES
  /\ MeanLow(TRUE)
  /\ pause' = "yes"

Resume == pause # "no" /\ Recovered /\ pause' = "no"

Escalate == pause = "ceiling" /\ ~Recovered

Waits == \/ ~Armed
         \/ pause = "yes" /\ ~Recovered
         \/ pause = "no" /\ (~settled \/ Len(samples) < ABORT_SAMPLES \/ MeanLow(FALSE))

GuardCheck ==
  /\ At("guard", "check")
  /\ \/ /\ Armed
        /\ Pause \/ Resume
        /\ sign' = "none"
        /\ Continue("guard", <<"release">>)
     \/ /\ Armed /\ Escalate
        /\ Continue("guard", TripAbort)
        /\ UNCHANGED <<pause, sign>>
     \/ /\ Waits
        /\ Continue("guard", <<"release">>)
        /\ UNCHANGED <<pause, sign>>
  /\ UNCHANGED <<target, lock, due, files, stop, samples, origin, history, mishaps>>

------------------------------------------------------------------------------
(* The human, the host and the monitor. *)

\* install refuses a schedule that has started.
Install ==
  /\ ~installed /\ due = 0
  /\ installed' = TRUE
  /\ state' = NONE
  /\ UNCHANGED <<todo, target, lock, due, conf, live, settled, sentinels, log, history, mishaps>>

ClearStop ==
  /\ stop /\ Mishap("clear")
  /\ stop' = FALSE
  /\ disturbed' = TRUE
  /\ UNCHANGED <<todo, target, lock, due, files, pause, log, raced>>

\* Every program ends where it is, the monitor too; the container comes up on what
\* weewx.conf says.
Reboot ==
  /\ Mishap("reboot")
  /\ todo' = [p \in Programs |-> <<>>]
  /\ target' = NONE
  /\ lock' = IF lock = "free" THEN "free" ELSE "dead"
  /\ live' = conf
  /\ disturbed' = (disturbed \/ \E p \in Programs : AtWork(p))
  /\ window' = "same" /\ period' = "none"
  /\ UNCHANGED <<due, installed, conf, state, settled, sentinels, samples, sign, lines, foreign,
                 raced>>

RowDue ==
  /\ due < Len(Schedule)
  /\ due' = due + 1
  /\ UNCHANGED <<todo, target, lock, files, sentinels, log, history, mishaps>>

Settle ==
  /\ ~settled
  /\ settled' = TRUE
  /\ UNCHANGED <<todo, target, lock, due, installed, conf, live, state, sentinels, log, history, mishaps>>

PauseAges ==
  /\ pause = "yes"
  /\ pause' = "ceiling"
  /\ UNCHANGED <<todo, target, lock, due, files, stop, log, history, mishaps>>

\* The readings that tail -n keeps.
Last(all) == IF Len(all) > ABORT_SAMPLES THEN Tail(all) ELSE all

\* The monitor closes a window; a good one may bring a RECOVERY line.
CloseWindow ==
  /\ period' = IF "mixed" \in {window, period} THEN "mixed" ELSE "same"
  /\ window' = "same"
  /\ sign' \in {sign} \cup (IF pause = "no" THEN {} ELSE {"edge"})
  /\ UNCHANGED <<todo, target, lock, due, files, sentinels, samples, lines, foreign, history,
                 mishaps>>

\* It starts its account anew: the log was rotated or stood still, or it was restarted.
Recount ==
  /\ window' = "same" /\ period' = "none"
  /\ UNCHANGED <<todo, target, lock, due, files, sentinels, samples, sign, lines, foreign, history,
                 mishaps>>

\* The next reading counts, and averages more than the recorded arm.
Mixed == lines = SettleSamples /\ (period = "mixed" \/ Station # state)

\* What a RECEPTION line changes: the readings, the sign and what is known of the arms.
Reading(good) ==
  /\ samples' = Last(Append(samples, good))
  /\ sign' = IF pause = "no" \/ sign = "edge" THEN sign ELSE IF good THEN "level" ELSE "none"
  /\ lines' = IF state # NONE /\ lines < SettleSamples THEN lines + 1 ELSE lines
  /\ foreign' = (foreign \/ Mixed)
  /\ UNCHANGED <<todo, target, lock, due, files, sentinels, window, history, mishaps>>

\* Mutant: the windows of a line are counted in the next one again.
SampleKeepsPeriod(good) == period # "none" /\ Reading(good) /\ UNCHANGED period

\* A RECEPTION line: the mean of the windows closed since the last one.
Sample(good) == period # "none" /\ Reading(good) /\ period' = "none"

------------------------------------------------------------------------------
Program(p) ==
  \/ Break(p) \/ Retake(p) \/ WritePid(p) \/ Release(p)
  \/ TripStop(p) \/ Copy(p) \/ Restart(p)

Tick == Program("tick") \/ TickCheck \/ WriteArm \/ HealthOk \/ WriteState
Guard == Program("guard") \/ GuardCheck
Abort == Program("abort") \/ AbortUnlocked

CampaignNext ==
  \/ Tick \/ Guard \/ Abort
  \/ \E p \in Programs : Start(p)
  \/ Install \/ ClearStop \/ Reboot
  \/ RowDue \/ Settle \/ PauseAges
  \/ CloseWindow \/ Recount
  \/ \E good \in BOOLEAN : Sample(good)

\* Every step of a program ends, time passes, and a tick is tried every five minutes:
\* it does not find the lock taken each time.
Fairness ==
  /\ WF_campaignVars(Tick) /\ WF_campaignVars(Guard) /\ WF_campaignVars(Program("abort"))
  /\ WF_campaignVars(RowDue)
  /\ SF_campaignVars(Start("tick"))

CampaignSpec == CampaignInit /\ [][CampaignNext]_campaignVars /\ Fairness

------------------------------------------------------------------------------
(* Properties. *)

\* The lock serialises: unless a program has removed a live one's directory or an
\* abort has gone without it, no two programs work at the same time.
OneAtATime ==
  ~raced => \A p, q \in Programs : AtWork(p) /\ AtWork(q) => p = q

\* The record tells the truth: with no program at work and STOP absent, the recorded
\* arm is the one in weewx.conf and the one the container runs.  Undisturbed: no
\* reboot into a swap, no refused copy or restart, no STOP cleared since it.
RecordIsTrue ==
  Quiet /\ ~stop /\ state # NONE /\ ~raced /\ ~disturbed => conf = state /\ live = state

\* A stop ends on production: with STOP there and no program at work, weewx.conf
\* and the container are back on the baseline.
StopMeansBaseline ==
  Quiet /\ stop /\ ~raced /\ ~disturbed => conf = BASELINE /\ live = BASELINE

\* What is harvested under an arm's name was received on that arm alone, from the third
\* reading since it was recorded: a reading is the mean of some windows, and the windows
\* of the first two may reach back into the restart or the arm before it.
HarvestTrue ==
  [][target = NONE /\ target' # NONE /\ state # NONE /\ ~raced /\ ~disturbed
       => ~foreign]_campaignVars

\* The schedule terminates itself: an installed campaign ends at the recorded baseline
\* or stopped, whatever reboots, fails, is paused or is cleared on the way.
SelfTerminates == <>[](installed => stop \/ state = BASELINE)

==============================================================================
