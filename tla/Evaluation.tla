------------------------------- MODULE Evaluation -------------------------------
(***************************************************************************)
(* The evaluation of a cohort of tasks and its report.                     *)
(*                                                                         *)
(*   pepsicode/evals/runner.py   evaluate, grade, run_process, aggregate   *)
(*   pepsicode/evals/worker.py   run_worker, MeasuredAdapter               *)
(*                                                                         *)
(* The runs of a cohort come one after the other, each in a new workspace  *)
(* and with processes of its own: the worker, in two of them where a       *)
(* checkpoint is tested, and the grader, before and after.  What the agent *)
(* does to the workspace is whether its task is solved and the protected   *)
(* files are as they were.                                                 *)
(***************************************************************************)
EXTENDS Integers, FiniteSets, SequencesExt

CONSTANTS
  Cohort,       \* the scenarios of the planned runs
  Kind,         \* "offline_smoke", "scripted_service" or "provider"
  MaxRequests,  \* the limits of a run
  Budget,
  MaxCost       \* bound: the cost of a request

VARIABLES
  run,        \* the planned run under way
  at,         \* where it is
  checkpoint, \* the state the worker has saved for another one, and its note
  result,     \* worker.json
  solved, intact,
  asks,       \* requests of the worker under way
  usage,      \* what is known of the usage of them
  spent,      \* CostTracker.total_cost_usd
  limit,      \* MeasuredAdapter.limit_reason
  compactions,
  record,     \* of the run under way
  records,
  billed,     \* history: the requests that were made, those of killed workers
              \* among them, and what is known of their usage
  report

vars == <<run, at, checkpoint, result, solved, intact, asks, usage, spent, limit, compactions,
          record, records, billed, report>>

EvaluationAssumption ==
  /\ Cohort \in Seq({"coding", "resume", "interrupted", "compaction"}) /\ Cohort # <<>>
  /\ Kind \in {"offline_smoke", "scripted_service", "provider"}
  /\ MaxRequests \in Nat \ {0} /\ Budget \in Nat \ {0} /\ MaxCost \in Nat \ {0}

Scenario == Cohort[run]
Restored == Scenario \in {"resume", "interrupted"}
NoResult == [status |-> "none"]

(* A record says nothing of success until it is known.                         *)
NewRecord == [success |-> "none", status |-> "error", claimed |-> FALSE, requests |-> 0,
              usage |-> {}, cost |-> "none"]

Init ==
  /\ run = 1 /\ at = "baseline" /\ checkpoint = {} /\ result = NoResult
  /\ solved = FALSE /\ intact = TRUE /\ asks = 0 /\ usage = {} /\ spent = 0 /\ limit = "none"
  /\ compactions = 0 /\ record = NewRecord /\ records = <<>> /\ report = <<>>
  /\ billed = [made |-> 0, killed |-> 0, usage |-> {}]

--------------------------------------------------------------------------------
(* The runner.                                                                 *)

Worker == <<asks, usage, spent, limit, compactions>>
Workspace == <<solved, intact>>
Finished == <<records, billed, report>>

(* The grader has to fail before the agent begins, or the fixture is invalid.  *)
Baseline ==
  /\ at = "baseline"
  /\ at' = IF Restored THEN "prepare" ELSE "work"
  /\ UNCHANGED <<run, checkpoint, result, record, Worker, Workspace, Finished>>

(* An exception of the harness leaves a run that is not scored.                *)
HarnessFails ==
  /\ at \in {"baseline", "prepare", "work", "grade"}
  /\ record' = [record EXCEPT !.success = "none", !.status = "error"]
  /\ at' = "record"
  /\ UNCHANGED <<run, checkpoint, result, Worker, Workspace, Finished>>

(* The deadline is that of the phases together; the group is killed, and the   *)
(* requests of the worker are in no record.                                    *)
Timeout ==
  /\ at \in {"prepare", "work"}
  /\ record' = [record EXCEPT !.success = "no", !.status = "timeout"]
  /\ at' = "record"
  /\ UNCHANGED <<run, checkpoint, result, Worker, Workspace, Finished>>

(* A worker saves the seeded context; it reports that or stops without notice. *)
Prepare ==
  /\ at = "prepare" /\ "state" \notin checkpoint
  /\ IF Scenario = "interrupted"
     THEN checkpoint' = {"state", "note"} /\ UNCHANGED result
     ELSE checkpoint' = {"state"} /\ result' = [status |-> "prepared"]
  /\ UNCHANGED <<run, at, record, Worker, Workspace, Finished>>

(* The runner goes on with the next phase; a result of the first is removed.   *)
Reopen ==
  /\ at = "prepare"
  /\ IF Scenario = "interrupted" THEN "note" \in checkpoint ELSE result.status = "prepared"
  /\ result' = NoResult /\ at' = "work"
  /\ UNCHANGED <<run, checkpoint, record, Worker, Workspace, Finished>>

(* record.update takes the fields of the result, which knows no success.       *)
Taken == [record EXCEPT !.status = result.status, !.requests = result.requests,
                        !.usage = result.usage, !.cost = result.cost, !.claimed = result.claimed]

(* The worker has ended with a result.                                         *)
Collect ==
  /\ at = "work" /\ result # NoResult
  /\ record' = IF result.status = "error" THEN [Taken EXCEPT !.claimed = FALSE] ELSE Taken
  /\ at' = IF result.status = "error" THEN "record" ELSE "grade"
  /\ UNCHANGED <<run, checkpoint, result, Worker, Workspace, Finished>>

Limits == {"budget_limit", "request_limit", "awaiting_user", "step_limit", "cancelled"}

(* grade looks at the workspace with a script outside of it, and takes only the *)
(* line it made up itself for a pass.                                          *)
Graded(passed) ==
  /\ at = "grade" /\ at' = "record"
  /\ record' = [record EXCEPT !.success = IF passed THEN "yes" ELSE "no",
                              !.status = IF passed THEN "passed" ELSE "failed"]
  /\ UNCHANGED <<run, checkpoint, result, Worker, Workspace, Finished>>

Achieved == solved /\ intact /\ (Scenario = "compaction" => compactions >= 2)

(* Mutant: what was done within a limit counts.                                *)
GradeLimited == Graded(Achieved)

Grade == Graded(Achieved /\ result.status \notin Limits)

Record ==
  /\ at = "record"
  /\ records' = Append(records, record)
  /\ billed' = [made |-> billed.made + asks, usage |-> billed.usage \union usage,
                killed |-> billed.killed + IF record.status = "timeout" THEN asks ELSE 0]
  /\ IF run = Len(Cohort) THEN run' = run /\ at' = "report"
     ELSE run' = run + 1 /\ at' = "baseline"
  /\ checkpoint' = {} /\ result' = NoResult /\ solved' = FALSE /\ intact' = TRUE
  /\ asks' = 0 /\ usage' = {} /\ spent' = 0 /\ limit' = "none" /\ compactions' = 0
  /\ record' = NewRecord
  /\ UNCHANGED report

--------------------------------------------------------------------------------
(* The worker.                                                                 *)

Working == at = "work" /\ result = NoResult /\ (Restored => "state" \in checkpoint)

(* The compactions that are forced before the turn begins.                     *)
Rounds == CASE Scenario = "compaction" -> 2 [] Scenario = "resume" -> 1 [] OTHER -> 0
InTurn == Working /\ compactions >= Rounds

Runner == <<run, at, checkpoint, record, Finished>>

(* _send: a request is made within the limits; what it costs is known when its *)
(* usage is, and in the report if its model has a price.                       *)
Send ==
  /\ Working /\ limit = "none" /\ Kind # "offline_smoke"
  /\ asks < MaxRequests /\ spent < Budget
  /\ asks' = asks + 1
  /\ \/ \E cost \in 1..MaxCost, known \in {"priced", "counted"} :
          usage' = usage \union {known} /\ spent' = spent + cost
     \/ usage' = usage \union {"unknown"} /\ spent' = spent
  /\ UNCHANGED <<limit, compactions, result, Workspace, Runner>>

(* The request that is refused ends the turn.                                  *)
Refuse ==
  /\ Working /\ limit = "none" /\ Kind # "offline_smoke"
  /\ \/ asks >= MaxRequests /\ limit' = "request_limit"
     \/ asks < MaxRequests /\ spent >= Budget /\ limit' = "budget_limit"
  /\ UNCHANGED <<asks, usage, spent, compactions, result, Workspace, Runner>>

(* Each compaction takes a request, a forced one or one of the turn.            *)
Compact ==
  /\ Working /\ limit = "none" /\ compactions < asks /\ compactions < 2
  /\ compactions' = compactions + 1
  /\ UNCHANGED <<asks, usage, spent, limit, result, Workspace, Runner>>

(* A tool of the agent changes the workspace.                                  *)
Work ==
  /\ InTurn /\ limit = "none"
  /\ \/ solved' = ~solved /\ UNCHANGED intact
     \/ intact /\ intact' = FALSE /\ UNCHANGED solved
  /\ UNCHANGED <<Worker, result, Runner>>

Result(status, claims) ==
  [status |-> status, requests |-> asks, usage |-> usage, claimed |-> claims,
   cost |-> IF usage = {"priced"} THEN "known" ELSE "none"]

(* run_worker: a compaction that fails with a request that did is an error; the *)
(* status of a turn is that of a limit, once there is one.                     *)
Compacted == {"error", "compaction_failed"}
Stopped == {"completed", "model_error", "step_limit", "awaiting_user"}

Answer ==
  /\ Working
  /\ \/ ~InTurn /\ \E status \in Compacted : result' = Result(status, FALSE)
     \/ InTurn /\ limit # "none" /\ result' = Result(limit, FALSE)
     \/ /\ InTurn /\ limit = "none"
        /\ \E status \in Stopped, claims \in BOOLEAN :
             result' = Result(status, claims /\ status = "completed")
     \/ result' = [Result("error", FALSE) EXCEPT !.requests = 0, !.usage = {}, !.cost = "none"]
  /\ UNCHANGED <<Worker, Workspace, Runner>>

--------------------------------------------------------------------------------
(* The report.                                                                 *)

Scored  == {i \in DOMAIN records : records[i].success # "none"}
Passed  == {i \in DOMAIN records : records[i].success = "yes"}
Claimed == {i \in Scored : records[i].claimed}

Complete == Len(records) = Len(Cohort) /\ Scored = DOMAIN records
Usage == UNION {records[i].usage : i \in DOMAIN records}
UsageComplete == Complete /\ Usage # {} /\ "unknown" \notin Usage
Requests == FoldSeq(LAMBDA r, n : r.requests + n, 0, records)

(* aggregate: null is -1.  The sums of tokens, of the input and of the output,  *)
(* are those of the recorded requests, each counted as one here.                *)
Aggregate ==
  [planned |-> Len(Cohort), passed |-> Cardinality(Passed),
   failed |-> Cardinality({i \in DOMAIN records : records[i].success = "no"}),
   unscored |-> Len(Cohort) - Cardinality(Scored),
   rate |-> IF Kind = "provider" /\ Complete THEN Cardinality(Passed) ELSE -1,
   behavior |-> IF Complete THEN Cardinality(Passed) ELSE -1,
   claims |-> Cardinality(Claimed),
   false |-> IF Claimed # {} THEN Cardinality(Claimed \ Passed) ELSE -1,
   requests |-> Requests, complete |-> UsageComplete,
   tokens |-> IF UsageComplete THEN Requests ELSE -1,
   cost |-> UsageComplete /\ \A i \in DOMAIN records : records[i].cost = "known"]

Report ==
  /\ at = "report" /\ report' = <<Aggregate>> /\ at' = "end"
  /\ UNCHANGED <<run, checkpoint, result, record, Worker, Workspace, records, billed>>

Next ==
  \/ Baseline \/ HarnessFails \/ Timeout \/ Prepare \/ Reopen \/ Collect \/ Grade \/ Record
  \/ Send \/ Refuse \/ Compact \/ Work \/ Answer \/ Report

Spec == Init /\ [][Next]_vars

--------------------------------------------------------------------------------
(* docs/task-evaluations.md: a run passes only with its task solved, its files *)
(* intact and no limit reached; it fails only if the agent had its turn or its *)
(* time; what the harness is to blame for is not scored.                       *)
ScoredFairly ==
  at = "record" =>
    /\ record.success = "yes" =>
         /\ solved /\ intact /\ result # NoResult /\ limit = "none"
         /\ Scenario = "compaction" => compactions >= 2
    /\ record.success = "no" => result.status \notin {"none", "error"} \/ record.status = "timeout"
    /\ record.status = "error" => record.success = "none"

(* The limits of MeasuredAdapter._send: only the last request may go beyond.   *)
WithinLimits == asks <= MaxRequests /\ spent < Budget + MaxCost

(* The numbers of a report add up, no rate is given of a cohort that is not    *)
(* complete or not of a provider, costs only when those of all requests that   *)
(* were made are known, and tokens only when those of all requests are known   *)
(* but the ones of workers killed at their deadline, which are left out.       *)
ReportAddsUp ==
  report # <<>> =>
    LET r == report[1] IN
    /\ r.planned = r.passed + r.failed + r.unscored
    /\ r.rate # -1 => r.unscored = 0 /\ Kind = "provider"
    /\ r.false <= r.claims /\ r.claims <= r.passed + r.failed
    /\ r.cost => billed.usage \subseteq {"priced"} /\ billed.killed = 0
    /\ r.requests <= billed.made - billed.killed
    /\ r.tokens # -1 => r.complete /\ r.tokens = billed.made - billed.killed

(* "Missing telemetry is null" (evals/runner.py): tokens are given as a number *)
(* only if they are those of all requests that were made.                      *)
MissingIsNull == report # <<>> => report[1].tokens \in {-1, billed.made}

EvaluationSafe == ScoredFairly /\ WithinLimits /\ ReportAddsUp
================================================================================
