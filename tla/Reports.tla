-------------------------------- MODULE Reports --------------------------------
(***************************************************************************)
(* The monitor's reception report (weewx_monitor.py): when the wall clock  *)
(* enters a new block of the day, it mails what the archive says of the    *)
(* blocks since the last report, or what its own windows say if the        *)
(* archive tells nothing, and once a low battery of the station.           *)
(*                                                                         *)
(* A report shares the poll, the windows and the restarts with the alerts, *)
(* and nothing else: a behaviour follows one of the two.  Where it follows *)
(* the reports, reception is full whenever the log is written.             *)
(***************************************************************************)
EXTENDS Monitor

CONSTANTS
  Day, RF_REPORT_INTERVAL_HOURS,   \* in polls
  BATTERY_LOW_MIN_MINUTES,
  RowKinds,              \* the archive rows that occur
  MaxClock, MaxMishaps   \* bounds: polls; late rows, failed reads and gaps in the
                         \* log together

Reception == {"good", "poor", "null"}   \* rxCheckPercent, by BATTERY_HEALTHY_RX_PCT
Flag == {"set", "clear", "null"}        \* txBatteryStatus

ASSUME ReportsAssumption ==
  /\ {Day, RF_REPORT_INTERVAL_HOURS, BATTERY_LOW_MIN_MINUTES} \subseteq Nat \ {0}
  /\ RF_REPORT_INTERVAL_HOURS <= Day
  /\ RowKinds \subseteq [rx : Reception, flag : Flag]
  /\ {MaxClock, MaxMishaps} \subseteq Nat

Watched == {"alerts", "reports"}

VARIABLES
  watched,
  clock,              \* polls since a midnight
  archive,            \* dateTime -> row
  wu_report_start,
  wu_hourly_buckets,  \* a window was closed since the last report
  battery_alerted,
  mishaps,
  reported,  \* history: dateTime -> archive reports it was counted in; saturates
  passedOver,  \* history: rows that came late, or were in an archive that could not
             \* be read, or in a block that ended while no monitor ran
  battery,   \* history: since the last clear block or restart, was one read that is
             \* low, and how many mails said so
  sight,     \* history: polls in a row that saw records, in this block; saturates
  unsent     \* history: a report due was not sent though reception was seen

reportVars == <<clock, archive, wu_report_start, wu_hourly_buckets, battery_alerted,
                mishaps, reported, passedOver, battery, sight, unsent>>

------------------------------------------------------------------------------

Mishap(one) ==
  mishaps' = mishaps + (IF one THEN 1 ELSE 0) /\ mishaps' <= MaxMishaps

\* The blocks start at midnight: the last of the day is shorter if they do not fit.
PeriodFloor(t) ==
  (t \div Day) * Day + ((t % Day) \div RF_REPORT_INTERVAL_HOURS) * RF_REPORT_INTERVAL_HOURS

\* _db_window_rows; a database that cannot be read has no rows.
WindowRows(from, to, readable) ==
  IF readable THEN {t \in DOMAIN archive : from <= t /\ t < to} ELSE {}

\* summarize_reception_rows: rows without reception are gaps; none at all is None.
ReceptionSummary(times) ==
  LET gaps == {t \in times : archive[t].rx = "null"}
  IN  [records |-> Cardinality(times \ gaps), gaps |-> Cardinality(gaps)]

Tells(summary) == summary.records > 0 \/ summary.gaps > 0

\* summarize_battery_rows: what is flagged in poor reception is set aside.
BatterySummary(times) ==
  LET known == {t \in times : archive[t].flag # "null"}
      flagged == {t \in known : archive[t].flag = "set" /\ archive[t].rx = "good"}
  IN  [seen |-> known # {},
       low |-> Cardinality(flagged) >= BATTERY_LOW_MIN_MINUTES,
       clear |-> flagged = {}]

\* battery_alert_decision: one mail until a block is clear again.
AlertedAfter(b) ==
  IF ~b.seen THEN battery_alerted
  ELSE b.low \/ (battery_alerted /\ ~b.clear)

SendsBattery(b) == b.seen /\ b.low /\ ~battery_alerted

\* The report of [wu_report_start, block).  Two reads, either of which may fail.
Report(block, windowClosed, canRead, canReadFlags) ==
  LET times == WindowRows(wu_report_start, block, canRead)
      fromArchive == Tells(ReceptionSummary(times))
      sent == fromArchive \/ windowClosed
      b == BatterySummary(WindowRows(wu_report_start, block, canReadFlags))
      starts == b.seen /\ b.clear
  IN  /\ wu_report_start' = block
      /\ wu_hourly_buckets' = FALSE
      /\ battery_alerted' = AlertedAfter(b)
      /\ reported' = [t \in DOMAIN archive |->
                        IF t \in times THEN UpTo(2, reported[t] + 1) ELSE reported[t]]
      /\ passedOver' = IF canRead THEN passedOver
                     ELSE passedOver \cup WindowRows(wu_report_start, block, TRUE)
      /\ battery' = [low |-> ~starts /\ (battery.low \/ (b.seen /\ b.low)),
                     mails |-> IF starts THEN 0
                               ELSE UpTo(2, battery.mails + (IF SendsBattery(b) THEN 1 ELSE 0))]
      /\ sight' = 0
      /\ unsent' = (unsent \/ (~sent /\ sight > Window))

\* The rest of the poll, after the windows; n records were read.
ReportStep(n) ==
  LET a == AccJudged(FALSE, n)
      windowClosed == wu_hourly_buckets \/ Closes(a)
      block == PeriodFloor(clock')
  IN  IF block > wu_report_start
      THEN \E canRead, canReadFlags \in BOOLEAN :
             /\ Mishap((n = 0 /\ inputAge = 0) \/ ~canRead \/ ~canReadFlags)
             /\ Report(block, windowClosed, canRead, canReadFlags)
      ELSE /\ wu_hourly_buckets' = windowClosed
           /\ sight' = IF sight > Window THEN sight ELSE IF n = 0 THEN 0 ELSE sight + 1
           /\ Mishap(n = 0 /\ inputAge = 0)
           /\ UNCHANGED <<wu_report_start, battery_alerted, reported, passedOver, battery,
                          unsent>>

ReportsPoll ==
  /\ clock < MaxClock /\ clock' = clock + 1
  /\ \E n \in {0, Full} : ReportStep(n) /\ Poll(FALSE, "none", n, n = Full, FALSE, TRUE)
  /\ UNCHANGED archive

\* check_input_freshness fails: no report either, however many blocks go by.
ReportsPollBlind ==
  /\ clock < MaxClock /\ clock' = clock + 1
  /\ PollBlind
  /\ sight' = IF sight > Window THEN sight ELSE 0
  /\ UNCHANGED <<archive, wu_report_start, wu_hourly_buckets, battery_alerted, mishaps,
                 reported, passedOver, battery, unsent>>

With(f, t, value) == [u \in DOMAIN f \cup {t} |-> IF u = t THEN value ELSE f[u]]

\* WeeWX commits a row, one for each window, in its time or late.
Archive ==
  /\ clock < MaxClock
  /\ \E t \in {clock, PeriodFloor(clock) - Window}, row \in RowKinds :
       /\ t \in Nat \ DOMAIN archive /\ t % Window = 0
       /\ Mishap(t # clock)
       /\ archive' = With(archive, t, row)
       /\ reported' = With(reported, t, 0)
       /\ passedOver' = IF t = clock THEN passedOver ELSE passedOver \cup {t}
  /\ UNCHANGED <<vars, clock, wu_report_start, wu_hourly_buckets, battery_alerted,
                 battery, sight, unsent>>

\* The monitor's memory is gone, and time goes on without it.
ReportsCrash ==
  /\ clock < MaxClock /\ Crash
  /\ battery' = [low |-> FALSE, mails |-> 0] /\ sight' = 0
  /\ UNCHANGED <<clock, archive, wu_report_start, wu_hourly_buckets, battery_alerted,
                 mishaps, reported, passedOver, unsent>>

Elapse ==
  /\ ~up /\ clock < MaxClock /\ clock' = clock + 1
  /\ UNCHANGED <<vars, archive, wu_report_start, wu_hourly_buckets, battery_alerted,
                 mishaps, reported, passedOver, battery, sight, unsent>>

\* Mutant: the report starts where the monitor does.
FromNow(t) == t

\* The block under way is reported whole.
FirstReportStart(t) == PeriodFloor(t)

ReportsStart ==
  /\ Start
  /\ wu_report_start' = FirstReportStart(clock)
  /\ wu_hourly_buckets' = FALSE /\ battery_alerted' = FALSE
  /\ passedOver' = passedOver \cup {t \in DOMAIN archive : t < PeriodFloor(clock) /\ reported[t] = 0}
  /\ UNCHANGED <<clock, archive, mishaps, reported, battery, sight, unsent>>

------------------------------------------------------------------------------

WatchInit ==
  /\ Init /\ watched \in Watched
  /\ clock = 0 /\ archive = << >> /\ wu_report_start = PeriodFloor(0)
  /\ wu_hourly_buckets = FALSE /\ battery_alerted = FALSE /\ mishaps = 0
  /\ reported = << >> /\ passedOver = {}
  /\ battery = [low |-> FALSE, mails |-> 0] /\ sight = 0 /\ unsent = FALSE

ReportsNext ==
  \/ ReportsPoll \/ ReportsPollBlind \/ Archive \/ ReportsCrash \/ Elapse \/ ReportsStart
  \/ clock = MaxClock /\ UNCHANGED <<vars, reportVars>>   \* the bound

WatchNext ==
  /\ UNCHANGED watched
  /\ \/ watched = "alerts" /\ Next /\ UNCHANGED reportVars
     \/ watched = "reports" /\ ReportsNext

WatchSpec == WatchInit /\ [][WatchNext]_<<vars, watched, reportVars>>

------------------------------------------------------------------------------
(* Properties. *)

\* Every row the archive holds in its time is in exactly one report, once its
\* block is over: whatever restart, blind gap or shorter block lies in between.
RowsReportedOnce ==
  \A t \in DOMAIN archive \ passedOver :
    reported[t] = IF t < wu_report_start THEN 1 ELSE 0

\* A low battery is told, and told once, until a block is clear.
LowToldOnce == battery.mails = IF battery.low THEN 1 ELSE 0

\* The report tells each row once, and a low battery once until it is clear; and
\* no trouble with the database loses a report, as long as the monitor has seen
\* reception for a window ("never lost to a DB hiccup").
ReportsTrue == RowsReportedOnce /\ LowToldOnce /\ ~unsent

==============================================================================
