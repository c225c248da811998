---------------------------- MODULE SmartAlerts ----------------------------
(***************************************************************************)
(* SmartAlerter (_evm_legacy/src/alerting/smart_alerts.py): one thread     *)
(* wakes every minute and sends the hourly report when an interval has     *)
(* passed, the daily one when the day's hour has.  The main thread of      *)
(* run_live_with_dashboard.py checks for the hourly report too, after a    *)
(* scan with an opportunity, and no lock orders the two.  A report first   *)
(* asks the repository and then mails, which takes time and may fail; a    *)
(* query that raises ends its thread, and the program if that is the main  *)
(* one.  One unit of time is the loop's sleep.                             *)
(***************************************************************************)
EXTENDS Naturals, Sequences

CONSTANTS
    EmailInterval,  \* email_interval_seconds
    FirstEmail,     \* the first hourly report comes this long after the start
    DayLength,
    DailyHour,      \* _daily_hour_est
    MaxNow          \* bound: the clock

ASSUME AlertAssumption ==
    /\ {EmailInterval, FirstEmail, DayLength, DailyHour, MaxNow} \subseteq Nat
    /\ FirstEmail <= EmailInterval
    /\ DailyHour < DayLength

VARIABLES
    smNow,       \* starts at EmailInterval: times before the start are >= 0
    smLastEmail, \* _last_email_at
    smLastDaily, \* _last_daily_date; 0 is ""
    smRunning,   \* _running
    smLoop,      \* "asleep", "hourly", "hourly_send", "daily", "daily_send", "ended"
    smAsleepAt,  \* when the loop went to sleep, or when it took the time
    smMain,      \* "scanning", "hourly_send", "ended"
    smReports    \* history: reports tried, sent or failed, with the time

smVars == <<smNow, smLastEmail, smLastDaily, smRunning, smLoop, smAsleepAt, smMain, smReports>>

Today == smNow \div DayLength + 1

SmInit ==
    /\ smNow = EmailInterval
    /\ smLastEmail = FirstEmail
    /\ smLastDaily = 0
    /\ smRunning = TRUE
    /\ smLoop = "asleep"
    /\ smAsleepAt = EmailInterval
    /\ smMain = "scanning"
    /\ smReports = <<>>

ClockTicks ==
    /\ smNow < MaxNow
    /\ smNow' = smNow + 1
    /\ UNCHANGED <<smLastEmail, smLastDaily, smRunning, smLoop, smAsleepAt, smMain, smReports>>

WakeUp ==
    /\ smLoop = "asleep"
    /\ smNow > smAsleepAt
    /\ smLoop' = "hourly"
    /\ UNCHANGED <<smNow, smLastEmail, smLastDaily, smRunning, smAsleepAt, smMain, smReports>>

HourlyIsDue == smNow >= smLastEmail + EmailInterval

\* maybe_send_hourly: the check.
HourlyDue ==
    /\ smLoop = "hourly"
    /\ smLoop' = IF HourlyIsDue THEN "hourly_send" ELSE "daily"
    /\ smAsleepAt' = smNow
    /\ UNCHANGED <<smNow, smLastEmail, smLastDaily, smRunning, smMain, smReports>>

\* maybe_send_daily: the check, and the date noted before the report.
DailyDue ==
    /\ smLoop = "daily"
    /\ LET due == smNow % DayLength >= DailyHour /\ Today # smLastDaily
       IN  /\ smLoop' = IF due THEN "daily_send" ELSE IF smRunning THEN "asleep" ELSE "ended"
           /\ smLastDaily' = IF due THEN Today ELSE smLastDaily
    /\ smAsleepAt' = smNow
    /\ UNCHANGED <<smNow, smLastEmail, smRunning, smMain, smReports>>

Reported(kind, thread) ==
    smReports' = Append(smReports, [kind |-> kind, by |-> thread, at |-> smNow, date |-> smLastDaily])

\* Mutant: the interval runs from the check on.
StampedAtCheck == smAsleepAt

StampedAt == smNow

\* send_hourly_report: mailed or not (a failure is logged), the next waits an
\* interval.
SendHourly ==
    /\ smLoop = "hourly_send"
    /\ Reported("hourly", "loop")
    /\ smLastEmail' = StampedAt
    /\ smLoop' = "daily"
    /\ UNCHANGED <<smNow, smLastDaily, smRunning, smAsleepAt, smMain>>

SendDaily ==
    /\ smLoop = "daily_send"
    /\ Reported("daily", "loop")
    /\ smLoop' = IF smRunning THEN "asleep" ELSE "ended"
    /\ smAsleepAt' = smNow
    /\ UNCHANGED <<smNow, smLastEmail, smLastDaily, smRunning, smMain>>

\* A query of the report raises through the loop; _running stays True.
ReportRaises ==
    /\ smLoop \in {"hourly_send", "daily_send"}
    /\ smLoop' = "ended"
    /\ UNCHANGED <<smNow, smLastEmail, smLastDaily, smRunning, smAsleepAt, smMain, smReports>>

\* The main thread's own check, and its report.
MainChecksHourly ==
    /\ smMain = "scanning" /\ HourlyIsDue
    /\ smMain' = "hourly_send"
    /\ UNCHANGED <<smNow, smLastEmail, smLastDaily, smRunning, smLoop, smAsleepAt, smReports>>

MainSendsHourly ==
    /\ smMain = "hourly_send"
    /\ Reported("hourly", "main")
    /\ smLastEmail' = StampedAt
    /\ smMain' = "scanning"
    /\ UNCHANGED <<smNow, smLastDaily, smRunning, smLoop, smAsleepAt>>

\* A query that raises in the main thread ends the program.
MainRaises ==
    /\ smMain = "hourly_send"
    /\ smMain' = "ended" /\ smLoop' = "ended"
    /\ UNCHANGED <<smNow, smLastEmail, smLastDaily, smRunning, smAsleepAt, smReports>>

\* stop: at a signal, or after the last scan; seen by the loop after the pass
\* it is in.
StopReports ==
    /\ smRunning
    /\ smRunning' = FALSE
    /\ smMain' \in {smMain} \cup (IF smMain = "scanning" THEN {"ended"} ELSE {})
    /\ UNCHANGED <<smNow, smLastEmail, smLastDaily, smLoop, smAsleepAt, smReports>>

SmNext ==
    \/ ClockTicks \/ WakeUp \/ HourlyDue \/ DailyDue \/ SendHourly \/ SendDaily \/ ReportRaises
    \/ MainChecksHourly \/ MainSendsHourly \/ MainRaises \/ StopReports

\* However slow a mail server is, two hourly reports of one thread are an
\* interval apart (two threads send at most two in one), no date has two daily
\* reports, and none comes before its date's hour.
ReportsSpaced ==
    /\ \A i, j \in 1 .. Len(smReports) :
        i < j /\ smReports[i].kind = smReports[j].kind =>
            IF smReports[i].kind = "hourly"
            THEN smReports[i].by = smReports[j].by => smReports[j].at >= smReports[i].at + EmailInterval
            ELSE smReports[j].date # smReports[i].date
    /\ \A i \in 1 .. Len(smReports) :
        smReports[i].kind = "daily" => smReports[i].at >= (smReports[i].date - 1) * DayLength + DailyHour
=============================================================================
