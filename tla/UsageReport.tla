---------------------------- MODULE UsageReport ----------------------------
(***************************************************************************)
(* The usage report of one week.  Each query of the builder has a snapshot *)
(* of its own, so rows are added and taken away between them.  Times are   *)
(* days, every row of the trail is a read that was allowed.                *)
(***************************************************************************)
EXTENDS AuditTrail

CONSTANTS Weeks,      \* what may be asked for, as [start, end]
          Installs    \* when the schema may have been created

UsageReportConstants ==
  /\ AuditTrailConstants
  /\ \A w \in Weeks : w.start \in Nat /\ w.end \in Nat /\ w.start < w.end
  /\ Installs \subseteq Nat
  /\ None # "no_successful_read"

VARIABLES metered,   \* the days of usage_daily
          created,   \* MIN(applied_at) of the schema's versions
          report     \* the report being built

usageVars == <<trailVars, metered, created, report>>

Blank == [step |-> "none", week |-> None, trimmed |-> FALSE, reads |-> None, days |-> None,
          first |-> None, note |-> None,
          before |-> {}, counted |-> [here |-> {}, gone |-> {}], found |-> {}]

UsageReportInit ==
  /\ AuditTrailInit
  /\ metered = {} /\ created \in Installs
  /\ report = Blank

Happens ==
  /\ Record \/ Remove \/ (\E t \in 1..MaxTime : TrimByDate(t))
  /\ UNCHANGED <<metered, created, report>>

(* recordUsage: after the read, best effort, on the day the database has. *)
Meter ==
  /\ clock \notin metered
  /\ \E r \in rows \cup gone : r.at <= clock
  /\ metered' = metered \cup {clock}
  /\ UNCHANGED <<trailVars, created, report>>

In(R, week)   == {r \in R : week.start <= r.at /\ r.at < week.end}
BeforeInstall == report.week.end <= created

(* Mutant: only removals that lie within the week. *)
Reaches_Inside(c, week) == c.from >= week.start /\ c.to < week.end

Reaches(c, week) == c.from < week.end /\ c.to >= week.start

(* Whether a removal reached into the week.  `before' is history. *)
CheckTrims(week) ==
  /\ report.step = "none"
  /\ week.start <= clock
  /\ report' = [report EXCEPT !.step = "count", !.week = week, !.before = gone,
                              !.trimmed = \E c \in checkpoints : Reaches(c, week)]
  /\ UNCHANGED <<trailVars, metered, created>>

CountReads ==
  /\ report.step = "count"
  /\ report' = [report EXCEPT !.step = "days",
                  !.counted = [here |-> rows, gone |-> gone],
                  !.reads = IF report.trimmed \/ BeforeInstall THEN None
                            ELSE Cardinality(In(rows, report.week))]
  /\ UNCHANGED <<trailVars, metered, created>>

(* The days themselves; the report has their number. *)
CountDays ==
  /\ report.step = "days"
  /\ report' = [report EXCEPT !.step = "first",
                  !.days = IF report.trimmed \/ BeforeInstall THEN None
                           ELSE Times(In(rows, report.week))
                                  \cup {d \in metered : report.week.start <= d /\ d < report.week.end}]
  /\ UNCHANGED <<trailVars, metered, created>>

(* Mutant: with no read to be found it is not asked why. *)
FindFirst_NoQuestion ==
  /\ report.step = "first"
  /\ report' = IF BeforeInstall THEN [report EXCEPT !.step = "done", !.note = "before_install"]
               ELSE IF rows # {}
               THEN [report EXCEPT !.step = "done", !.found = rows \cup gone,
                                   !.first = Max({0, Min(Times(rows)) - created})]
               ELSE [report EXCEPT !.step = "done", !.found = rows \cup gone, !.note = "no_successful_read"]
  /\ UNCHANGED <<trailVars, metered, created>>

(* The first read there still is.  `found' is history. *)
FindFirst ==
  /\ report.step = "first"
  /\ report' = IF BeforeInstall THEN [report EXCEPT !.step = "done", !.note = "before_install"]
               ELSE IF rows # {}
               THEN [report EXCEPT !.step = "done", !.found = rows \cup gone,
                                   !.first = Max({0, Min(Times(rows)) - created})]
               ELSE [report EXCEPT !.step = "why", !.found = rows \cup gone]
  /\ UNCHANGED <<trailVars, metered, created>>

AskWhy ==
  /\ report.step = "why"
  /\ report' = [report EXCEPT !.step = "done",
                  !.note = IF checkpoints # {} THEN "audit_trimmed" ELSE "no_successful_read"]
  /\ UNCHANGED <<trailVars, metered, created>>

UsageReportNext ==
  \/ Happens
  \/ Meter
  \/ \E w \in Weeks : CheckTrims(w)
  \/ CountReads \/ CountDays \/ FindFirst \/ AskWhy

-----------------------------------------------------------------------------
(* A count that is a number misses no read of the week, but for one removed
   after the report had looked for removals, and one an erasure took without
   counting it; a read that is counted and still there has its day among the
   active ones; and it is said that no read was ever allowed only when none had
   been, none removed since included (usage-report.ts, buildUsageReport: "an
   undercount reported as a number is the error this report exists to avoid"). *)
ReportIsHonest ==
  report.step = "done" =>
    /\ report.reads # None =>
         In(report.counted.gone, report.week) \cap report.before \subseteq overrun
    /\ report.days # None =>
         Times(In(report.counted.here \ gone, report.week)) \subseteq report.days
    /\ report.note = "no_successful_read" => report.found = {}
=============================================================================
