-------------------------------- MODULE Jobs --------------------------------
(***************************************************************************)
(* The background jobs as their caller sees them: a job does its work, its *)
(* run is recorded in job_run by another statement, and runMaintenance     *)
(* tries four jobs one after the other.  What a job does to the rows and   *)
(* objects is in FileStore and AuditChain; here it changes something or    *)
(* not, and it may fail half way.  The database may refuse a record, and a *)
(* caller may be cut off anywhere.  Calls share nothing but the table.     *)
(***************************************************************************)
EXTENDS Integers, FiniteSets

CONSTANTS Runs,        \* calls of runMaintenance, or of one job
          MaxFaults    \* bound for the model checker

JobNames == << "audit_seal", "upload_reservations", "storage_orphans", "audit_trim" >>

VARIABLES run,       \* the calls
          jobRun,    \* the table job_run
          changed,   \* history: the calls and jobs that changed something
          faults

jobVars == <<run, jobRun, changed, faults>>

JobsInit ==
  /\ run = [r \in Runs |-> [stage |-> "new"]]
  /\ jobRun = {}
  /\ changed = {}
  /\ faults = 0

(* The jobs a call goes through: without a policy the trim is skipped. *)
Plan(k) == IF k.whole THEN (1..4) \ (IF k.policy THEN {} ELSE {4}) ELSE {k.job}

Started(job, whole, dry, policy) ==
  [stage |-> "work", job |-> job, whole |-> whole, dry |-> dry, policy |-> policy,
   outcome |-> "ok", failed |-> {}, tried |-> {}]

BeginMaintenance(r, dry, policy) ==
  /\ run[r].stage = "new"
  /\ run' = [run EXCEPT ![r] = Started(1, TRUE, dry, policy)]
  /\ UNCHANGED <<jobRun, changed, faults>>

(* One of the wrappers is called by itself; a trim needs its policy. *)
BeginJob(r, job, dry) ==
  /\ run[r].stage = "new"
  /\ run' = [run EXCEPT ![r] = Started(job, FALSE, dry, TRUE)]
  /\ UNCHANGED <<jobRun, changed, faults>>

(* Mutant: the flag does not reach the sweep. *)
Live_SweepAlways(k) == ~k.dry \/ k.job # 2

(* The two collectors look only, unless told otherwise; a seal and a trim
   have no dry mode.                                                       *)
Live(k) == ~k.dry \/ k.job \in {1, 4}

Works(r, outcome) ==
  /\ run[r].stage = "work"
  /\ changed' = changed
  /\ run' = [run EXCEPT ![r].stage = "record", ![r].outcome = outcome, ![r].tried = @ \cup {run[r].job}]
  /\ UNCHANGED jobRun

FindsNothing(r) == Works(r, "ok") /\ UNCHANGED faults

Acts(r, outcome) ==
  /\ run[r].stage = "work" /\ Live(run[r])
  /\ changed' = changed \cup {<<r, run[r].job>>}
  /\ run' = [run EXCEPT ![r].stage = "record", ![r].outcome = outcome, ![r].tried = @ \cup {run[r].job}]
  /\ UNCHANGED jobRun

ChangesSomething(r) == Acts(r, "ok") /\ UNCHANGED faults

Fault == faults < MaxFaults /\ faults' = faults + 1

(* A job that throws, before it did anything or after a part of it. *)
Throws(r) == (Works(r, "failed") \/ Acts(r, "failed")) /\ Fault

(* Mutant: the first failure ends the round. *)
AfterJob_StopAtFailure(k, outcome) ==
  LET failed == IF outcome = "ok" THEN k.failed ELSE k.failed \cup {k.job}
      rest   == {j \in Plan(k) : j > k.job}
  IN  IF rest # {} /\ failed = {}
      THEN [k EXCEPT !.stage = "work", !.failed = failed,
                     !.job = CHOOSE j \in rest : \A i \in rest : j <= i]
      ELSE [k EXCEPT !.stage = IF failed = {} THEN "returned" ELSE "threw", !.failed = failed]

(* Mutant: the job that was just done is among those still to do. *)
AfterJob_Again(k, outcome) ==
  LET failed == IF outcome = "ok" THEN k.failed ELSE k.failed \cup {k.job}
      rest   == {j \in Plan(k) : j >= k.job}
  IN  IF rest # {}
      THEN [k EXCEPT !.stage = "work", !.failed = failed,
                     !.job = CHOOSE j \in rest : \A i \in rest : j <= i]
      ELSE [k EXCEPT !.stage = IF failed = {} THEN "returned" ELSE "threw", !.failed = failed]

(* attempt: whatever became of a job, the next one has its turn; what failed
   is thrown at the end.                                                   *)
AfterJob(k, outcome) ==
  LET failed == IF outcome = "ok" THEN k.failed ELSE k.failed \cup {k.job}
      rest   == {j \in Plan(k) : j > k.job}
  IN  IF rest # {}
      THEN [k EXCEPT !.stage = "work", !.failed = failed,
                     !.job = CHOOSE j \in rest : \A i \in rest : j <= i]
      ELSE [k EXCEPT !.stage = IF failed = {} THEN "returned" ELSE "threw", !.failed = failed]

(* A run that threw is recorded as live: it may have changed something. *)
Record(r) ==
  LET k == run[r]
  IN  /\ k.stage = "record"
      /\ jobRun' = jobRun \cup {[run |-> r, job |-> k.job, outcome |-> k.outcome,
                                   mode |-> IF k.outcome = "ok" /\ ~Live(k) THEN "dry" ELSE "live"]}
      /\ run' = [run EXCEPT ![r] = AfterJob(k, k.outcome)]
      /\ UNCHANGED <<changed, faults>>

(* Mutant: a record that cannot be written is nobody's business. *)
RecordRefused_Swallowed(r) ==
  /\ run[r].stage = "record"
  /\ run' = [run EXCEPT ![r] = AfterJob(run[r], run[r].outcome)]
  /\ Fault
  /\ UNCHANGED <<jobRun, changed>>

(* The record cannot be written: the job failed for its caller, whatever it
   did.                                                                    *)
RecordRefused(r) ==
  /\ run[r].stage = "record"
  /\ run' = [run EXCEPT ![r] = AfterJob(run[r], "failed")]
  /\ Fault
  /\ UNCHANGED <<jobRun, changed>>

IsCutOff(r) ==
  /\ run[r].stage \in {"work", "record"}
  /\ run' = [run EXCEPT ![r].stage = "cut"]
  /\ Fault
  /\ UNCHANGED <<jobRun, changed>>

JobsNext ==
  \E r \in Runs :
    \/ \E dry, policy \in BOOLEAN : BeginMaintenance(r, dry, policy)
    \/ \E job \in 1..4, dry \in BOOLEAN : BeginJob(r, job, dry)
    \/ FindsNothing(r) \/ ChangesSomething(r) \/ Throws(r)
    \/ Record(r) \/ RecordRefused(r) \/ IsCutOff(r)

JobsSpec == JobsInit /\ [][JobsNext]_jobVars /\ \A r \in Runs :
  /\ WF_jobVars(FindsNothing(r) \/ ChangesSomething(r) \/ Throws(r))
  /\ WF_jobVars(Record(r) \/ RecordRefused(r))

-----------------------------------------------------------------------------
Recorded(r, j) == \E row \in jobRun : row.run = r /\ row.job = j

(* One broken job hides no other: a call that came to its end has tried every
   job of its plan, and it throws just when one of them failed
   (filelayer.ts, runMaintenance).                                         *)
NoJobMasksAnother ==
  \A r \in Runs : run[r].stage \in {"returned", "threw"} =>
    /\ run[r].tried = Plan(run[r])
    /\ run[r].stage = "returned" => \A j \in Plan(run[r]) : Recorded(r, j)

(* What a job changed is in job_run or in the error its caller got: only a
   call cut off between the work and its record is silent, and to jobStatus
   a job that only ever ended that way has never run.                      *)
ActsAreReported ==
  \A c \in changed :
    \/ Recorded(c[1], c[2])
    \/ run[c[1]].stage = "record" /\ run[c[1]].job = c[2]
    \/ run[c[1]].stage = "cut" /\ run[c[1]].job = c[2]
    \/ c[2] \in run[c[1]].failed

(* A record of a dry run stands for a job that changed nothing, and a call
   in dry mode destroys nothing but what a trim policy names.              *)
DryRunsChangeNothing ==
  /\ \A row \in jobRun : row.mode = "dry" => <<row.run, row.job>> \notin changed
  /\ \A c \in changed : run[c[1]].dry => c[2] \in {1, 4}

(* Every call comes to an end, whatever fails in it. *)
RoundsEnd ==
  \A r \in Runs : run[r].stage \in {"work", "record"} ~> run[r].stage \in {"returned", "threw", "cut"}
=============================================================================
