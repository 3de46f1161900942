-------------------------------- MODULE Monitor --------------------------------
(***************************************************************************)
(* The outage monitor (weewx_monitor.py): it polls the weewx log and, from *)
(* the records published in it, judges reception in windows, raises the    *)
(* reception alert, keeps the ledger of episodes, fires the remedy on a    *)
(* stall and judges its effect.                                            *)
(*                                                                         *)
(* Time is counted in polls.  One poll is one action: it reads what was    *)
(* logged since the last one -- the records published, at most one line of *)
(* the driver's supervision -- and runs to the end of the loop's body.     *)
(* Left out: the repeats of an alert, and the mails about rain.  The       *)
(* uploaders' downtime mails are in Uploads, the summaries in Reports.     *)
(***************************************************************************)
EXTENDS Integers, FiniteSets

CONSTANTS
  Window,      \* WU_RF_WINDOW
  Sustain,     \* WU_RF_SUSTAIN
  Full,        \* records of one poll at full reception
  MinGood,     \* WU_RF_MIN_PCT, as records of a window
  Verify,      \* RESET_VERIFY_S
  Cooldown,    \* RESET_CD
  MaxTries,    \* RESET_MAX_TRIES
  Stale,       \* INPUT_STALE_S
  MaxLag,      \* bound: the window clock's lag saturates here
  MaxEpisodes, MaxRestarts, MaxFailures   \* bounds on one behaviour

ASSUME MonitorAssumption ==
  /\ {Window, Sustain, Full, MinGood, Verify, Cooldown, MaxTries, Stale} \subseteq Nat \ {0}
  /\ Full < MinGood /\ MinGood <= Window * Full
  /\ Window < Verify
  /\ Verify + Window <= Cooldown
  /\ Window < MaxLag
  /\ {MaxLag, MaxEpisodes, MaxRestarts, MaxFailures} \subseteq Nat

Episodes == 1 .. MaxEpisodes

\* A stall, an exit of the receiver, a line the episode only counts, or none.
Events == {"stall", "exit", "counted", "none"}

VARIABLES
  up,        \* the monitor runs
  acc,       \* the window accounting: clock, record count, bad and empty windows
             \* in a row, first seen
  wd,        \* WD
  blind,     \* BLIND['active']
  inputAge,  \* polls since the log was written
  alert,     \* wu_in_alert
  onset,     \* EP['onset']: the open episode, 0 for none
  mirror,    \* the episode in EPISODE_STATE, 0 for no file
  rows,      \* rows of each episode in EPISODES_LOG
  episodes,  \* episodes opened so far
  restarts, failures,
  verdict,   \* history: what this poll logged of the pending remedy
  mail,      \* history: what this poll's alert calls reception, "DOWN" or "LOW"
  remedies,  \* history: remedies fired since a record or a good window; saturates
  heard,     \* history: records read since the pending remedy; saturates
  fullRun,   \* history: polls of full reception in a row; saturates
  lowFor,    \* history: polls since reception was last surely good; saturates
  silentFor, \* history: polls since a record was read; saturates
  backlog,   \* history: the windows of this streak began with an overdue clock
  excused    \* history: episodes a failed write touched

judging == <<acc, wd, blind, inputAge, alert, onset>>
disk == <<mirror, rows, excused>>
histories == <<verdict, mail, remedies, heard, fullRun, lowFor, silentFor, backlog>>
vars == <<up, judging, disk, episodes, restarts, failures, histories>>

SureRun == 2 * Window - 1   \* so many full polls hold a whole window

UpTo(bound, n) == IF n > bound THEN bound ELSE n

\* The accounting of a monitor that just started, or starts over.
Fresh == [lag |-> 0, count |-> 0, bad |-> 0, empty |-> 0, first |-> FALSE]

Armed == [tries |-> 0, pending |-> FALSE, escalated |-> FALSE, sinceReset |-> Cooldown]

Init ==
  /\ up = TRUE
  /\ acc = Fresh /\ wd = Armed
  /\ blind = FALSE /\ inputAge = 0
  /\ alert = FALSE /\ onset = 0 /\ mirror = 0
  /\ rows = [e \in Episodes |-> 0]
  /\ episodes = 0 /\ restarts = 0 /\ failures = 0
  /\ verdict = "none" /\ mail = "none" /\ remedies = 0 /\ heard = MinGood
  /\ fullRun = 0 /\ lowFor = 0 /\ silentFor = 0 /\ backlog = FALSE
  /\ excused = {}

------------------------------------------------------------------------------
(* The watchdog. *)

\* reset_dongle acts: no campaign asked for silence, REMEDY_MODE is not none, and the
\* cooldown is over.  Whether the remedy's thread succeeds is not looked at.
Fires(w, inhibited) == ~inhibited /\ w.sinceReset >= Cooldown

Remedied(w, inhibited) ==
  IF Fires(w, inhibited) THEN [w EXCEPT !.sinceReset = 0, !.pending = TRUE] ELSE w

\* watchdog_stall: a remedy, or after MaxTries ineffective ones the escalation.
WatchdogStall(w, inhibited) ==
  IF w.tries >= MaxTries THEN [w EXCEPT !.escalated = TRUE] ELSE Remedied(w, inhibited)

\* watchdog_not_running: never a remedy.
WatchdogNotRunning(w) == [w EXCEPT !.escalated = TRUE]

Void(w) == [w EXCEPT !.pending = FALSE]

Due(w) == w.pending /\ w.sinceReset >= Verify

\* Mutant: an ineffective remedy is not counted.
Uncounted(w, bad) == IF Due(w) THEN Void(w) ELSE w

\* watchdog_poll: the pending remedy worked when the last window was not bad.
WatchdogPoll(w, bad) ==
  IF ~Due(w) THEN w
  ELSE IF bad = 0 THEN [Void(w) EXCEPT !.tries = 0, !.escalated = FALSE]
  ELSE [Void(w) EXCEPT !.tries = @ + 1]

\* watchdog_recovered
WatchdogRecovered(w, bad) ==
  IF bad = 0 /\ (w.tries > 0 \/ w.escalated)
  THEN [Void(w) EXCEPT !.tries = 0, !.escalated = FALSE]
  ELSE w

------------------------------------------------------------------------------
(* One poll. *)

\* The accounting and the watchdog at the start of the loop's body: a log that
\* shrank starts the accounting over and voids the pending verdict.
AccAtPoll(rotated) ==
  IF rotated THEN Fresh ELSE [acc EXCEPT !.lag = UpTo(MaxLag, acc.lag + 1)]

WdAtPoll(rotated) ==
  LET w == [wd EXCEPT !.sinceReset = UpTo(Cooldown, wd.sinceReset + 1)]
  IN  IF rotated THEN Void(w) ELSE w

\* The lines of the poll: n records, and the supervision line ev.
AccRead(rotated, n) ==
  LET a == AccAtPoll(rotated)
  IN  [a EXCEPT !.count = UpTo(MinGood, a.count + n), !.first = a.first \/ n > 0]

WdRead(rotated, ev, inhibited) ==
  LET w == WdAtPoll(rotated)
  IN  CASE ev = "stall" -> WatchdogStall(w, inhibited)
        [] ev = "exit" -> WatchdogNotRunning(w)
        [] OTHER -> w

\* check_input_freshness: the log was written since the last poll, or not.
AgeNow(wrote) == IF wrote THEN 0 ELSE UpTo(Stale + 1, inputAge + 1)
BlindNow(wrote) == AgeNow(wrote) > Stale

\* Mutant: blindness over, the window clock goes on from where it was.
GoOn(a) == a

\* What the gap left is thrown away, this poll's records included.
StartOver(a) == Fresh

AccJudged(rotated, n) == IF blind THEN StartOver(AccRead(rotated, n)) ELSE AccRead(rotated, n)

\* A window is closed: the clock moves by one window, however late it is.
Closes(a) == a.first /\ a.lag >= Window

Closed(a) ==
  [a EXCEPT !.lag = @ - Window, !.count = 0,
            !.bad = IF a.count < MinGood THEN UpTo(Sustain, a.bad + 1) ELSE 0,
            !.empty = IF a.count = 0 THEN UpTo(Sustain, a.empty + 1) ELSE 0]

After(a) == IF Closes(a) THEN Closed(a) ELSE a

\* Mutant: the pending remedy is judged at every poll (#180).
JudgesEveryPoll(a) == TRUE

JudgesVerdict(a) == Closes(a)

\* The whole watchdog after a poll that is not blind.
WdAfter(a, w) ==
  LET bad == After(a).bad
      judged == IF JudgesVerdict(a) THEN WatchdogPoll(w, bad) ELSE w
  IN  IF Closes(a) THEN WatchdogRecovered(judged, bad) ELSE judged

VerdictOf(a, w) ==
  IF JudgesVerdict(a) /\ Due(w)
  THEN IF After(a).bad = 0 THEN "effective" ELSE "ineffective"
  ELSE "none"

Recovers(a) == Closes(a) /\ alert /\ Closed(a).bad = 0
Alerts(a) == Closes(a) /\ ~alert /\ Closed(a).bad >= Sustain

\* classify_reception_alert: nothing at all came in, or the watchdog gave up.
FullOutage(a, w) == a.empty >= Sustain \/ w.escalated

\* episode_persist, which a line the episode counts calls too; `ok`: the disk takes
\* this poll's writes, or refuses them all and the refusal is only logged.
Persist(episode, ok) ==
  IF ok THEN mirror' = episode /\ UNCHANGED <<failures, excused>>
  ELSE /\ failures < MaxFailures
       /\ failures' = failures + 1
       /\ excused' = excused \cup ({onset, onset', mirror} \ {0})
       /\ UNCHANGED mirror

\* What the poll records about the air, for the properties.
Heard(n, fired, good) ==
  LET run == IF n = Full THEN UpTo(SureRun, fullRun + 1) ELSE 0
      before == IF n > 0 THEN 0 ELSE remedies
  IN  /\ remedies' = IF good THEN 0
                     ELSE IF fired THEN UpTo(MaxTries + 1, before + 1) ELSE before
      /\ heard' = IF fired THEN 0
                  ELSE IF wd.pending THEN UpTo(MinGood, heard + n) ELSE MinGood
      /\ fullRun' = run
      /\ lowFor' = IF run = SureRun THEN 0 ELSE UpTo((Sustain - 1) * Window, lowFor + 1)
      /\ silentFor' = IF n > 0 THEN 0 ELSE UpTo((Sustain - 1) * Window, silentFor + 1)

\* A poll that trusts its input, a and w being what it has read.
Judge(rotated, ev, n, fired, a, w, ok) ==
  LET good == Closes(a) /\ Closed(a).bad = 0
      recovers == Recovers(a)
      alerts == Alerts(a)
      writes == recovers \/ alerts \/ ev \in {"stall", "counted"}
  IN  /\ alerts => episodes < MaxEpisodes
      /\ ok \/ writes
      /\ acc' = After(a)
      /\ wd' = WdAfter(a, w)
      /\ verdict' = VerdictOf(a, w)
      /\ mail' = IF ~alerts THEN "none"
                 ELSE IF FullOutage(Closed(a), w) THEN "DOWN" ELSE "LOW"
      /\ alert' = ((alert /\ ~recovers) \/ alerts)
      /\ episodes' = IF alerts THEN episodes + 1 ELSE episodes
      /\ onset' = IF alerts THEN episodes' ELSE IF recovers THEN 0 ELSE onset
      /\ rows' = IF recovers /\ onset # 0 /\ ok THEN [rows EXCEPT ![onset] = @ + 1] ELSE rows
      /\ IF writes THEN Persist(onset', ok) ELSE UNCHANGED <<mirror, failures, excused>>
      /\ Heard(n, fired, good)
      /\ backlog' = IF ~a.first \/ good THEN FALSE
                    ELSE IF rotated \/ ~acc.first THEN a.lag > Window
                    ELSE backlog

Poll(rotated, ev, n, wrote, inhibited, ok) ==
  /\ up /\ ~BlindNow(wrote)
  /\ inputAge' = AgeNow(wrote) /\ blind' = FALSE
  /\ \E a \in {AccJudged(rotated, n)}, w \in {WdRead(rotated, ev, inhibited)} :
       Judge(rotated, ev, n, w.sinceReset = 0, a, IF blind THEN Void(w) ELSE w, ok)
  /\ UNCHANGED <<up, restarts>>

\* A poll of a log that has not been written for too long: nothing is judged.
PollBlind ==
  /\ up /\ BlindNow(FALSE)
  /\ inputAge' = AgeNow(FALSE) /\ blind' = TRUE
  /\ acc' = AccAtPoll(FALSE)
  /\ wd' = WdAtPoll(FALSE)
  /\ verdict' = "none" /\ mail' = "none"
  /\ Heard(0, FALSE, FALSE)
  /\ UNCHANGED <<up, alert, onset, disk, episodes, restarts, failures, backlog>>

------------------------------------------------------------------------------
(* A monitor restart: its memory is gone. *)

Dies ==
  /\ up /\ restarts < MaxRestarts
  /\ restarts' = restarts + 1
  /\ up' = FALSE
  /\ acc' = Fresh /\ wd' = Armed
  /\ blind' = FALSE /\ inputAge' = 0
  /\ alert' = FALSE /\ onset' = 0
  /\ verdict' = "none" /\ mail' = "none"
  /\ fullRun' = 0 /\ lowFor' = 0 /\ silentFor' = 0 /\ backlog' = FALSE
  /\ heard' = MinGood
  /\ UNCHANGED <<remedies, episodes, failures, excused>>

Crash == Dies /\ UNCHANGED <<mirror, rows>>

\* Mutant: the episode is cleared first, and its row written then.
ClearFirst == mirror' = 0 /\ UNCHANGED rows

\* The first half of episode_close.
RowFirst == rows' = [rows EXCEPT ![onset] = @ + 1] /\ UNCHANGED mirror

\* The process ends in the middle of episode_close.
CrashInClose ==
  /\ onset # 0 /\ Recovers(AccJudged(FALSE, Full))
  /\ Dies
  /\ RowFirst

\* main: the episode the previous process left open is the alert of this one.
Start ==
  /\ ~up
  /\ up' = TRUE
  /\ onset' = mirror
  /\ alert' = (mirror # 0)
  /\ UNCHANGED <<acc, wd, blind, inputAge, disk, episodes, restarts, failures, histories>>

Next ==
  \/ \E rotated \in BOOLEAN, ev \in Events, n \in 0 .. Full,
        ok \in {TRUE} \cup {failures = MaxFailures} :
       \/ Poll(rotated, ev, n, TRUE, FALSE, ok)
       \/ /\ ev = "stall" /\ Fires(WdAtPoll(rotated), FALSE)   \* else the same poll
          /\ Poll(rotated, ev, n, TRUE, TRUE, ok)
  \/ Poll(FALSE, "none", 0, FALSE, FALSE, TRUE)
  \/ PollBlind
  \/ Crash
  \/ CrashInClose
  \/ Start

Spec == Init /\ [][Next]_vars

------------------------------------------------------------------------------
(* Properties. *)

\* One outage gets MaxTries remedies and then a human (ERR-0005), as long as the
\* reception accounting has run since the last published record.
RemediesBounded == acc.first => remedies <= MaxTries

\* A remedy is called effective only if a good window's records came in after it:
\* never because a rotation or a restart zeroed the counter (#180).
EffectiveMeansHeard == verdict = "effective" => heard >= MinGood

\* An alert is an open episode, and no episode whose writes succeeded is lost to a
\* restart at any moment; a crash can at worst duplicate its row.
EpisodesKept ==
  /\ up => (alert <=> onset # 0)
  /\ \A e \in 1 .. episodes :
       /\ rows[e] > 0 \/ e \in {onset, mirror} \/ e \in excused
       /\ rows[e] <= 1 + restarts

\* An alert says that reception was bad for Sustain windows in a row, and the
\* mail that calls it DOWN that no record came in for so long, or that the
\* watchdog has given up: neither is raised out of a gap in the monitor's own
\* view.  Excepted is a streak that began with an overdue clock, whose windows
\* last one poll each.
AlertMeansLoss ==
  [][(mail' # mail /\ mail' # "none" /\ ~backlog') =>
       /\ lowFor' >= (Sustain - 1) * Window
       /\ mail' = "DOWN" => silentFor' >= (Sustain - 1) * Window \/ wd'.escalated]_vars

==============================================================================
