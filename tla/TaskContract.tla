------------------------------ MODULE TaskContract ------------------------------
(***************************************************************************)
(* What the user asked for, and when it counts as done.                    *)
(*                                                                         *)
(*   pepsicode/core/task_control.py       begin_task, admit_steering       *)
(*   pepsicode/core/task_intent.py        delivered and pending intent     *)
(*   pepsicode/core/task_verification.py  TaskVerifier, settle_task        *)
(*   pepsicode/core/verification.py       _run_verified_turn_once          *)
(*   pepsicode/core/loop_engine.py        run_loop                         *)
(*   pepsicode/tools/task_state.py        define, revise, classify         *)
(*   pepsicode/tooling.py                 the gate of a mutating tool      *)
(*                                                                         *)
(* Actors: the client, whose steering is accepted between any two steps of *)
(* the worker; the worker of the turn; whoever else edits the workspace.   *)
(* What the inbox itself promises is InputInbox; here it is two sets.      *)
(* Messages are numbered in the order in which they are sent.              *)
(***************************************************************************)
EXTENDS Naturals, FiniteSets

CONSTANTS
  Messages,       \* numbers of the messages users may send
  Mode,           \* of a message: "run" starts a turn, "steer", "follow_up"
  Word,           \* what a message says: a member of Words
  Conditions,     \* acceptance conditions
  Good,           \* contents of the workspace in which the conditions hold
  MaxWorld,       \* bound: changes of the workspace
  MaxRevision,    \* bound: revisions after which the model leaves the contract alone
  MaxIterations,  \* max_iterations of run_loop
  MaxCancels,     \* bound: times the user stops a turn
  MaxCrashes      \* bound: times the process dies

(* "only" is a request to explain and not to modify; "fix" an explicit action,
   "do" one the rules are not sure of; "note" a supplement or a question.      *)
Words == {"only", "fix", "do", "note", "continue"}
Modes == {"run", "steer", "follow_up"}

MessagesAssumption ==
  /\ Messages \subseteq Nat \ {0} /\ IsFiniteSet(Messages)
  /\ Mode \in [Messages -> Modes] /\ Word \in [Messages -> Words]
BoundsAssumption ==
  /\ Good \subseteq Nat
  /\ MaxWorld \in Nat /\ MaxRevision \in Nat /\ MaxIterations \in Nat \ {0}
  /\ MaxCancels \in Nat /\ MaxCrashes \in Nat

VARIABLES
  task,       \* session.task_control["task"]; its id is 0 before the first one
  questions,  \* required questions of this task that nobody answered
  queue,      \* pending, claimed and returned inputs, in memory and on disk
  newest,     \* number of the message sent last
  pc,         \* where the worker is; "idle" when no turn runs
  back,       \* where it goes on after a delivery
  human,      \* the user's message a task begins with
  taken,      \* the inputs being delivered
  seen,       \* TaskVerifier.verify: the task when acceptance started
  before,     \* TaskVerifier.verify: the workspace at that time
  copy,       \* TaskVerifier._verify: its own snapshot of the task
  report,     \* the project's checks, then the verdict
  found,      \* evidence collected and not stored yet
  last,       \* how the loop ended: the last message, or the stop reason
  iteration,  \* of run_loop
  mutated,    \* mutation_count > verified_mutation_count
  world,      \* contents of the workspace
  cancelled,  \* cancellation_event
  cancels, crashes,
  ruling,     \* history: the latest word delivered for this task that decides
  awaiting,   \* history: the last turn ended with a question to the user
  lost        \* inputs whose delivery failed and was not repeated

worker  == <<back, human, taken, last, iteration>>
baseline == <<seen, before>>
verify  == <<baseline, copy, report, found>>
bounds  == <<cancels, crashes>>
history == <<ruling, awaiting>>
vars == <<task, questions, queue, newest, pc, worker, verify, mutated, world,
          cancelled, bounds, history, lost>>

Is(mode) == {m \in Messages : Mode[m] = mode}
Saying(W) == {m \in Messages : Word[m] \in W}
Newest(S) == CHOOSE m \in S : \A n \in S : n <= m

--------------------------------------------------------------------------------
(* Intent.                                                                     *)

Intents == [kind : {"answer", "change"}, only : BOOLEAN, locked : BOOLEAN, human : BOOLEAN]

(* classify_intent; "human" is the source "human_instruction".                 *)
Classify(m, steering) ==
  [kind   |-> IF Word[m] \in {"fix", "do"} THEN "change" ELSE "answer",
   only   |-> Word[m] = "only",
   locked |-> Word[m] \in {"only", "fix"},
   human  |-> steering]

NoEvidence == [revision |-> 0, met |-> FALSE, world |-> 0]
NoProof == [revision |-> 0, world |-> 0]

NoTask == [id |-> 0, revision |-> 0, admitted |-> 0, status |-> "active",
           class |-> [kind |-> "answer", only |-> FALSE, locked |-> FALSE, human |-> FALSE],
           intent |-> [kind |-> "answer", only |-> FALSE, locked |-> FALSE, human |-> FALSE],
           inputs |-> {}, delivered |-> {}, pending |-> {}, instruction |-> 0,
           criteria |-> {}, stated |-> 0, evidence |-> NoEvidence, accepted |-> NoProof]

(* Mutant: pending input is looked at when it is delivered.                    *)
ProjectDelivered(t) == [t EXCEPT !.class = t.intent]

(* _project: a pending input may narrow the task, never widen it.              *)
Project(t) ==
  LET narrowing == t.pending \cap Saying({"only"})
  IN [t EXCEPT !.class = IF narrowing = {} THEN t.intent ELSE Classify(Newest(narrowing), TRUE)]

Admitted(t) == IF t.pending = {} THEN [t EXCEPT !.admitted = t.revision] ELSE t

(* Every instruction the task has not seen is a revision.                      *)
Revised(t, new) ==
  IF new = {} THEN t
  ELSE [t EXCEPT !.revision = @ + Cardinality(new), !.inputs = @ \cup new,
                 !.instruction = Newest(new), !.status = "active",
                 !.evidence = NoEvidence, !.accepted = NoProof]

(* apply_user_instruction(delivered=False) for every pending steering.         *)
Accepted(t, S) ==
  LET new == S \ t.delivered
  IN IF new = {} THEN t
     ELSE Project([Revised(t, new \ t.inputs) EXCEPT !.pending = @ \cup new])

(* apply_user_instruction(delivered=True): a supplement, or a plain "continue",
   leaves the intent as it is.                                                 *)
Delivered(t, S) ==
  LET new == S \ t.delivered
      deciding == new \cap Saying({"only", "fix", "do"})
  IN IF new = {} THEN t
     ELSE Admitted(Project(
            [Revised(t, new \ t.inputs) EXCEPT
               !.intent = IF deciding = {} THEN @ ELSE Classify(Newest(deciding), TRUE),
               !.pending = @ \ new, !.delivered = @ \cup new]))

(* return_user_instructions.                                                   *)
Withdrawn(t, S) ==
  IF t.pending \cap S = {} THEN t
  ELSE Admitted(Project([t EXCEPT !.pending = @ \ S]))

(* _persist: the queue and its effect on the task are one save.                *)
Persist(q) ==
  /\ queue' = q
  /\ task' = IF task.id = 0 THEN task
             ELSE Withdrawn(Accepted(task, q.pending \cap Is("steer")), q.returned)

--------------------------------------------------------------------------------
Init ==
  /\ task = NoTask /\ questions = 0 /\ newest = 0
  /\ queue = [pending |-> {}, claimed |-> {}, returned |-> {}, accepting |-> FALSE]
  /\ pc = "idle" /\ back = "idle" /\ human = 0 /\ taken = {} /\ last = "normal"
  /\ iteration = 0 /\ mutated = FALSE /\ world = 0
  /\ seen = NoTask /\ before = 0 /\ copy = NoTask /\ report = "none" /\ found = NoEvidence
  /\ cancelled = FALSE /\ cancels = 0 /\ crashes = 0
  /\ ruling = 0 /\ awaiting = FALSE /\ lost = {}

--------------------------------------------------------------------------------
(* The client.                                                                 *)

(* turn/run: the queue starts, and publishes, before the worker has begun.     *)
Run(m) ==
  /\ pc = "idle" /\ m > newest
  /\ newest' = m /\ human' = m /\ pc' = "begin" /\ cancelled' = FALSE /\ last' = "normal"
  /\ Persist([queue EXCEPT !.accepting = TRUE])
  /\ UNCHANGED <<questions, back, taken, iteration, verify, mutated, world, bounds, history, lost>>

Enqueue(m) ==
  /\ queue.accepting /\ ~cancelled /\ m > newest
  /\ newest' = m
  /\ Persist([queue EXCEPT !.pending = @ \cup {m}])
  /\ UNCHANGED <<questions, pc, worker, verify, mutated, world, cancelled, bounds, history, lost>>

Dequeue(m) ==
  /\ m \in queue.pending
  /\ Persist([queue EXCEPT !.pending = @ \ {m}, !.returned = @ \cup {m}])
  /\ UNCHANGED <<questions, newest, pc, worker, verify, mutated, world, cancelled, bounds, history, lost>>

Cancel ==
  /\ pc # "idle" /\ ~cancelled /\ cancels < MaxCancels
  /\ cancelled' = TRUE /\ cancels' = cancels + 1
  /\ UNCHANGED <<task, questions, queue, newest, pc, worker, verify, mutated, world, crashes, history, lost>>

Elsewhere ==
  /\ world < MaxWorld /\ world' = world + 1
  /\ UNCHANGED <<task, questions, queue, newest, pc, worker, verify, mutated, cancelled, bounds, history, lost>>

--------------------------------------------------------------------------------
(* The turn.  begin_task, then the caller's acceptance in a save of its own.   *)

Resumes(t, m) ==
  /\ t.id # 0 /\ Mode[m] # "follow_up"
  /\ t.status = "waiting_user" \/ Word[m] = "continue"
  /\ t.status \notin {"complete", "answered"}

NewTask(t, m) ==
  [NoTask EXCEPT !.id = t.id + 1, !.revision = 1, !.admitted = 1,
                 !.class = Classify(m, FALSE), !.intent = Classify(m, FALSE),
                 !.inputs = {m}, !.delivered = {m}]

Begin ==
  /\ pc = "begin" /\ pc' = "configure" /\ iteration' = 1
  /\ seen' = NoTask /\ before' = 0 /\ copy' = NoTask /\ report' = "none" /\ found' = NoEvidence
  /\ awaiting' = FALSE
  /\ \/ /\ human \in task.inputs
        /\ task' = Admitted([task EXCEPT !.status = "active", !.evidence = NoEvidence])
        /\ UNCHANGED <<questions, ruling>>
     \/ /\ human \notin task.inputs /\ Resumes(task, human)
        /\ task' = Delivered(task, {human})
        /\ questions' \in IF questions < 2 THEN {0} ELSE 0..questions
        /\ ruling' = IF human \in Saying({"only", "fix", "do"}) THEN human ELSE ruling
     \/ /\ human \notin task.inputs /\ ~Resumes(task, human)
        /\ task' = NewTask(task, human)
        /\ questions' = 0 /\ ruling' = human
  /\ UNCHANGED <<queue, newest, back, human, taken, last, mutated, world, cancelled, bounds, lost>>

Configure(C) ==
  /\ pc = "configure" /\ pc' = "step"
  /\ \/ task' = task
     \/ task' = [task EXCEPT !.criteria = C, !.stated = task.revision]
  /\ UNCHANGED <<questions, queue, newest, worker, verify, mutated, world, cancelled, bounds, history, lost>>

--------------------------------------------------------------------------------
(* Delivery: taken from the queue, saved as messages together with the intent, *)
(* and acknowledged.                                                           *)

Steering == queue.pending \cap Is("steer")

Take(S, from, to) ==
  /\ S # {} /\ taken' = S /\ back' = to /\ pc' = "admit"
  /\ Persist([queue EXCEPT !.pending = @ \ S, !.claimed = @ \cup S])

TakeSteering ==
  /\ pc \in {"step", "final"} /\ ~cancelled
  /\ IF Steering = {}
       THEN /\ pc' = IF pc = "step" THEN "model" ELSE "accept"
            /\ UNCHANGED <<task, queue, back, taken>>
       ELSE Take(Steering, pc, IF pc = "step" THEN "model" ELSE "step")
  /\ UNCHANGED <<questions, newest, human, last, iteration, verify, mutated, world, cancelled, bounds, history, lost>>

Admit ==
  /\ pc = "admit" /\ pc' = "acknowledge"
  /\ LET new == (taken \cap Is("steer")) \ task.delivered
         deciding == new \cap Saying({"only", "fix", "do"})
     IN /\ task' = Delivered(task, new)
        /\ ruling' = IF deciding = {} THEN ruling ELSE Newest(deciding)
  /\ human' = Newest(taken)
  /\ lost' = lost \ taken
  /\ UNCHANGED <<questions, queue, newest, back, taken, last, iteration, verify, mutated, world,
                 cancelled, bounds, awaiting>>

Acknowledge ==
  /\ pc = "acknowledge" /\ pc' = back /\ taken' = {}
  /\ Persist([queue EXCEPT !.claimed = @ \ taken])
  /\ UNCHANGED <<questions, newest, back, human, last, iteration, verify, mutated, world,
                 cancelled, bounds, history, lost>>

--------------------------------------------------------------------------------
(* The model answers, asks, fails, changes the contract or calls a tool that   *)
(* may modify the workspace.                                                   *)

Respond ==
  /\ pc = "model" /\ ~cancelled
  /\ \/ pc' = "final" /\ UNCHANGED <<questions, last, iteration>>
     \/ pc' = "settle" /\ last' = "awaiting" /\ questions' \in {1, 2} /\ questions' > questions
        /\ UNCHANGED iteration
     \/ pc' = "settle" /\ last' = "error" /\ UNCHANGED <<questions, iteration>>
     \/ iteration < MaxIterations /\ iteration' = iteration + 1 /\ pc' = "step"
        /\ UNCHANGED <<questions, last>>
  /\ UNCHANGED <<task, queue, newest, back, human, taken, verify, mutated, world, cancelled, bounds, history, lost>>

(* task_state, with the revision it was called with current and delivered.     *)
Contract(t, kind, criteria) ==
  LET reclassified == kind # t.class.kind
      class == IF reclassified THEN [t.class EXCEPT !.kind = kind, !.human = FALSE] ELSE t.class
      next == IF reclassified \/ criteria # t.criteria THEN t.revision + 1 ELSE t.revision
  IN [t EXCEPT !.class = class, !.intent = IF reclassified THEN class ELSE @,
               !.criteria = criteria, !.stated = next, !.evidence = NoEvidence,
               !.revision = next, !.admitted = next]

MayState(t) == pc = "model" /\ ~cancelled /\ t.admitted = t.revision /\ t.revision < MaxRevision

MayBecome(t, kind) == kind = t.class.kind \/ (kind = "change" /\ ~t.class.only)

Define(kind, C) ==
  /\ MayState(task) /\ MayBecome(task, kind)
  /\ task' = Contract(task, kind, task.criteria \cup C)

Reclassify(C) ==
  /\ MayState(task) /\ ~task.class.locked /\ task.criteria = {}
  /\ task' = Contract(task, "answer", C)

MayRevise(t) == t.instruction # 0 /\ t.stated # t.revision /\ Word[t.instruction] # "continue"

Revise(kind, C) ==
  /\ MayState(task) /\ MayRevise(task) /\ MayBecome(task, kind)
  /\ task' = Contract(task, kind, C)

TaskState ==
  /\ \E C \in SUBSET Conditions :
       Reclassify(C) \/ \E kind \in {"answer", "change"} : Define(kind, C) \/ Revise(kind, C)
  /\ pc' = "step"
  /\ UNCHANGED <<questions, queue, newest, worker, verify, mutated, world, cancelled, bounds, history, lost>>

(* ToolRegistry._execute: what the task allows is read before the hooks and    *)
(* the approval; a task that only answers is promoted in a later save.         *)
CheckTool ==
  /\ pc = "model" /\ ~cancelled
  /\ pc' = IF task.class.only THEN "step"
           ELSE IF task.class.kind = "answer" THEN "promote" ELSE "approve"
  /\ UNCHANGED <<task, questions, queue, newest, worker, verify, mutated, world, cancelled, bounds, history, lost>>

Promote ==
  /\ pc = "promote" /\ pc' = "approve"
  /\ LET class == [task.class EXCEPT !.kind = "change", !.locked = TRUE, !.human = FALSE]
     IN task' = [task EXCEPT !.class = class, !.intent = class, !.status = "active",
                             !.evidence = NoEvidence,
                             !.revision = @ + 1, !.admitted = task.revision + 1]
  /\ UNCHANGED <<questions, queue, newest, worker, verify, mutated, world, cancelled, bounds, history, lost>>

Dispatch ==
  /\ pc = "approve" /\ pc' = "step"
  /\ \/ UNCHANGED <<world, mutated>>
     \/ ~cancelled /\ world < MaxWorld /\ world' = world + 1 /\ mutated' = TRUE
  /\ UNCHANGED <<task, questions, queue, newest, worker, verify, cancelled, bounds, history, lost>>

--------------------------------------------------------------------------------
(* Acceptance.  verify notes the task and the workspace; _verify works on a    *)
(* snapshot of its own and looks again before every commit.                    *)

Answers(t) ==
  /\ t.class.kind = "answer"
  /\ t.criteria = {} \/ (t.class.only /\ t.class.human)

(* An explanation makes no claim about the workspace, which is not scanned.    *)
Unscanned == Answers(task) /\ (task.class.only \/ ~mutated)

StartAcceptance ==
  /\ pc = "accept" /\ pc' = "snapshot"
  /\ seen' = IF Unscanned THEN NoTask ELSE task
  /\ before' = world
  /\ UNCHANGED <<task, questions, queue, newest, worker, copy, report, found, mutated, world, cancelled, bounds, history, lost>>

Snapshot ==
  /\ pc = "snapshot" /\ pc' = "project" /\ copy' = task
  /\ UNCHANGED <<task, questions, queue, newest, worker, baseline, report, found, mutated, world, cancelled, bounds, history, lost>>

(* What a command may leave behind.                                            *)
Changes == {w \in {world, world + 1} : w <= MaxWorld}

(* ProjectVerifier.verify: its commands may change the workspace.              *)
ProjectCheck ==
  /\ pc = "project" /\ pc' = "check"
  /\ IF (copy.class.kind = "answer" /\ copy.class.only) \/ ~mutated
       THEN report' = "not_run" /\ UNCHANGED <<mutated, world>>
       ELSE /\ report' \in {"passed", "failed", "not_run"}
            /\ mutated' = (report' # "passed")
            /\ world' \in Changes
  /\ UNCHANGED <<task, questions, queue, newest, worker, baseline, copy, found, cancelled, bounds, history, lost>>

Current(t) == t.id = copy.id /\ t.revision = copy.revision /\ t.admitted = t.revision

Check ==
  /\ pc = "check"
  /\ IF ~Current(task) \/ report = "failed"
       THEN pc' = "conclude" /\ report' = "failed"
     ELSE IF questions > 0
       THEN pc' = "conclude" /\ report' = "awaiting"
     ELSE IF Answers(copy)
       THEN pc' = "answer" /\ UNCHANGED report
     ELSE IF copy.criteria = {} \/ copy.stated # copy.revision
       THEN pc' = "conclude" /\ report' = "failed"
     ELSE pc' = "evaluate" /\ UNCHANGED report
  /\ UNCHANGED <<task, questions, queue, newest, worker, baseline, copy, found, mutated, world, cancelled, bounds, history, lost>>

(* Mutant: what was checked is taken to be what is asked for now.              *)
AnsweredUnchecked ==
  /\ task' = [task EXCEPT !.status = "answered", !.accepted = NoProof, !.evidence = NoEvidence]
  /\ UNCHANGED report

Answered ==
  IF Current(task)
    THEN /\ task' = [task EXCEPT !.status = "answered", !.accepted = NoProof, !.evidence = NoEvidence]
         /\ UNCHANGED report
    ELSE task' = task /\ report' = "failed"

Answer ==
  /\ pc = "answer" /\ pc' = "conclude" /\ Answered
  /\ UNCHANGED <<questions, queue, newest, worker, baseline, copy, found, mutated, world, cancelled, bounds, history, lost>>

(* A file is read, a command runs and may itself change the workspace.         *)
Evaluate ==
  /\ pc = "evaluate" /\ pc' = "recheck"
  /\ found' = [found EXCEPT !.revision = copy.revision, !.met = world \in Good, !.world = world]
  /\ mutated' \in {mutated, TRUE}
  /\ world' \in (IF mutated' THEN Changes ELSE {world})
  /\ UNCHANGED <<task, questions, queue, newest, worker, baseline, copy, report, cancelled, bounds, history, lost>>

(* Files are read a second time; what a command found is not.                  *)
Recheck ==
  /\ pc = "recheck" /\ pc' = "store"
  /\ \/ UNCHANGED found
     \/ found.world # world /\ found' = [found EXCEPT !.met = FALSE]
  /\ UNCHANGED <<task, questions, queue, newest, worker, baseline, copy, report, mutated, world, cancelled, bounds, history, lost>>

Store ==
  /\ pc = "store" /\ pc' = "conclude"
  /\ IF Current(task)
       THEN /\ task' = [task EXCEPT !.evidence = found, !.status = "active"]
            /\ report' = IF found.met THEN "accepted" ELSE "failed"
       ELSE /\ task' = [task EXCEPT !.evidence = NoEvidence]
            /\ report' = "failed"
  /\ UNCHANGED <<questions, queue, newest, worker, baseline, copy, found, mutated, world, cancelled, bounds, history, lost>>

(* Mutant: the workspace is not compared.                                      *)
SameContract ==
  task.id = seen.id /\ task.revision = seen.revision /\ task.criteria = seen.criteria

(* The last look, under the lock: the contract and the workspace are those     *)
(* that acceptance started with.                                               *)
Unchanged ==
  /\ task.id = seen.id /\ task.revision = seen.revision /\ task.criteria = seen.criteria
  /\ world = before

Conclude ==
  /\ pc = "conclude" /\ pc' = "verdict"
  /\ IF seen.id = 0
       THEN UNCHANGED <<task, report>>
     ELSE IF ~Unchanged
       THEN /\ task' = [task EXCEPT !.status = "active", !.evidence = NoEvidence, !.accepted = NoProof]
            /\ report' = "failed"
     ELSE IF report \notin {"passed", "accepted"}
       THEN task' = [task EXCEPT !.accepted = NoProof] /\ UNCHANGED report
     ELSE IF questions > 0 \/ cancelled
       THEN /\ task' = [task EXCEPT !.status = "active", !.evidence = NoEvidence, !.accepted = NoProof]
            /\ report' = "blocked"
     ELSE /\ task' = [task EXCEPT !.status = "complete",
                                 !.accepted = [revision |-> seen.revision, world |-> before]]
          /\ UNCHANGED report
  /\ UNCHANGED <<questions, queue, newest, worker, baseline, copy, found, mutated, world, cancelled, bounds, history, lost>>

--------------------------------------------------------------------------------
(* run_loop and the end of the turn.                                           *)

Verdict ==
  /\ pc = "verdict"
  /\ IF report # "failed"
       THEN /\ pc' = "settle" /\ UNCHANGED iteration
            /\ last' = IF report \in {"awaiting", "blocked"} THEN report ELSE "normal"
       ELSE \/ /\ iteration < MaxIterations /\ iteration' = iteration + 1
               /\ pc' = "step" /\ UNCHANGED last
            \/ /\ iteration > 1 \/ iteration = MaxIterations
               /\ pc' = "settle" /\ last' = "error" /\ UNCHANGED iteration
  /\ seen' = NoTask /\ before' = 0 /\ copy' = NoTask /\ report' = "none" /\ found' = NoEvidence
  /\ UNCHANGED <<task, questions, queue, newest, back, human, taken, mutated, world, cancelled, bounds, history, lost>>

(* settle_task.                                                                *)
Settled(t) ==
  [t EXCEPT !.status =
     IF cancelled THEN "cancelled"
     ELSE IF last = "awaiting" THEN "waiting_user"
     ELSE IF last = "error" THEN "incomplete"
     ELSE IF t.status \in {"complete", "answered"} THEN t.status
     ELSE IF last = "blocked" THEN "blocked" ELSE "incomplete"]

Settle ==
  /\ pc = "settle" /\ pc' = IF cancelled \/ last # "normal" THEN "close" ELSE "next"
  /\ task' = Settled(task)
  /\ awaiting' = (~cancelled /\ last = "awaiting")
  /\ UNCHANGED <<questions, queue, newest, worker, verify, mutated, world, cancelled, bounds, ruling, lost>>

(* Mutant: only the loop is guarded, not what prepares it.                     *)
InLoop ==
  pc \notin {"idle", "begin", "configure", "next", "close"} /\ back # "begin"

(* Claimed, but not in the message tree (bind_session looks there).            *)
Undelivered == lost \cup (IF pc = "admit" THEN taken ELSE {})

(* settle_task_failure: cancellation, a budget or an error ends the turn.  What *)
(* was claimed for a delivery that failed stays claimed.                       *)
InTask == pc \notin {"idle", "next", "close"} /\ ~(pc \in {"admit", "acknowledge"} /\ back = "begin")

Fail ==
  /\ pc # "idle" /\ pc # "close" /\ pc' = "close"
  /\ IF InTask /\ task.id # 0
       THEN \E status \in IF cancelled THEN {"cancelled"} ELSE {"budget_exhausted", "incomplete"} :
              task' = [task EXCEPT !.status = status]
       ELSE UNCHANGED task
  /\ taken' = {} /\ lost' = Undelivered
  /\ UNCHANGED <<questions, queue, newest, back, human, last, iteration, verify, mutated, world,
                 cancelled, bounds, history>>

(* next_or_close, then begin_task again.                                       *)
FollowUp == {m \in queue.pending : \A n \in queue.pending : m <= n}

NextOrClose ==
  /\ pc = "next"
  /\ IF cancelled THEN pc' = "close" /\ UNCHANGED <<task, queue, back, taken>>
     ELSE IF Steering # {} THEN Take(Steering, "next", "begin")
     ELSE IF queue.pending # {} THEN Take(FollowUp, "next", "begin")
     ELSE pc' = "close" /\ Persist([queue EXCEPT !.accepting = FALSE]) /\ UNCHANGED <<back, taken>>
  /\ UNCHANGED <<questions, newest, human, last, iteration, verify, mutated, world, cancelled, bounds, history, lost>>

Close ==
  /\ pc = "close" /\ pc' = "idle"
  /\ IF ~queue.accepting /\ queue.pending = {} THEN UNCHANGED <<task, queue>>
     ELSE Persist([queue EXCEPT !.pending = {}, !.returned = @ \cup queue.pending, !.accepting = FALSE])
  /\ UNCHANGED <<questions, newest, worker, verify, mutated, world, cancelled, bounds, history, lost>>

(* The process dies, or the session is opened again: what was claimed and did  *)
(* not become a message is pending, and success is not taken on trust; of the  *)
(* mutation count there is what was saved last.                                *)
Proved(t) == t.accepted.revision = t.revision /\ t.accepted.world = world

Reopen ==
  /\ crashes < MaxCrashes /\ crashes' = crashes + 1
  /\ pc' = "idle" /\ back' = "idle" /\ taken' = {} /\ mutated' \in BOOLEAN /\ cancelled' = FALSE
  /\ last' = "normal" /\ iteration' = 0 /\ human' = 0
  /\ queue' = [queue EXCEPT !.pending = @ \cup (queue.claimed \cap Undelivered),
                            !.claimed = {}, !.accepting = FALSE]
  /\ task' = IF task.status = "complete" /\ ~Proved(task)
               THEN [task EXCEPT !.status = "incomplete", !.evidence = NoEvidence] ELSE task
  /\ seen' = NoTask /\ before' = 0 /\ copy' = NoTask /\ report' = "none" /\ found' = NoEvidence
  /\ UNCHANGED <<questions, newest, world, cancels, history, lost>>

--------------------------------------------------------------------------------
Client ==
  \/ \E m \in Is("run") : Run(m)
  \/ \E m \in Is("steer") \cup Is("follow_up") : Enqueue(m)
  \/ \E m \in Messages : Dequeue(m)
  \/ Cancel

Worker ==
  \/ Begin \/ \E C \in SUBSET Conditions : Configure(C)
  \/ TakeSteering \/ Admit \/ Acknowledge
  \/ Respond \/ TaskState \/ CheckTool \/ Promote \/ Dispatch
  \/ StartAcceptance \/ Snapshot \/ ProjectCheck \/ Check \/ Answer
  \/ Evaluate \/ Recheck \/ Store \/ Conclude \/ Verdict
  \/ Settle \/ Fail \/ NextOrClose \/ Close

Next == Client \/ Worker \/ Elsewhere \/ Reopen

Spec == Init /\ [][Next]_vars

--------------------------------------------------------------------------------
PCs == {"idle", "begin", "configure", "step", "model", "final", "admit", "acknowledge",
        "promote", "approve", "accept", "snapshot", "project", "check", "answer", "evaluate",
        "recheck", "store", "conclude", "verdict", "settle", "next", "close"}
Statuses == {"active", "answered", "complete", "incomplete", "waiting_user", "cancelled",
             "blocked", "budget_exhausted"}
Evidence == [revision : Nat, met : BOOLEAN, world : 0..MaxWorld]
Tasks == [id : Nat, revision : Nat, admitted : Nat, status : Statuses,
          class : Intents, intent : Intents,
          inputs : SUBSET Messages, delivered : SUBSET Messages, pending : SUBSET Messages,
          instruction : Messages \cup {0}, criteria : SUBSET Conditions, stated : Nat,
          evidence : Evidence, accepted : [revision : Nat, world : 0..MaxWorld]]

(* The lists of the inbox and of the task hold messages of the right kind.     *)
TypeOK ==
  /\ task \in Tasks /\ seen \in Tasks /\ copy \in Tasks
  /\ questions \in Nat /\ newest \in Messages \cup {0} /\ human \in Messages \cup {0}
  /\ queue \in [pending : SUBSET Messages, claimed : SUBSET Messages,
                returned : SUBSET Messages, accepting : BOOLEAN]
  /\ task.pending \subseteq task.inputs /\ task.delivered \subseteq task.inputs
  /\ task.pending \cap task.delivered = {}
  /\ pc \in PCs /\ back \in PCs /\ taken \subseteq Messages
  /\ before \in 0..MaxWorld /\ world \in 0..MaxWorld /\ found \in Evidence
  /\ report \in {"none", "passed", "failed", "not_run", "awaiting", "accepted", "blocked"}
  /\ last \in {"normal", "awaiting", "error", "blocked"}
  /\ iteration \in 0..MaxIterations
  /\ mutated \in BOOLEAN /\ cancelled \in BOOLEAN
  /\ cancels \in 0..MaxCancels /\ crashes \in 0..MaxCrashes
  /\ ruling \in Messages \cup {0} /\ awaiting \in BOOLEAN /\ lost \subseteq Messages

(* Whatever arrives while acceptance runs, a task is done only for the revision
   that the user's last instruction made, with every instruction delivered whose
   delivery did not fail, no question open, and evidence of the same revision for
   its conditions.                                                             *)
DoneIsCurrent ==
  task.status \in {"complete", "answered"} =>
    /\ task.admitted = task.revision /\ task.pending \subseteq lost /\ questions = 0
    /\ task.status = "complete" =>
         /\ task.accepted.revision = task.revision
         /\ task.criteria # {} =>
              /\ task.stated = task.revision
              /\ task.evidence.revision = task.revision /\ task.evidence.met

(* What the contract of a task promises at any time.                           *)
TaskSafe == TypeOK /\ DoneIsCurrent

(* A task becomes complete, or is still complete when its session is opened
   again, only in the workspace in which its evidence was collected.           *)
Accepts ==
  /\ task'.status = "complete" /\ task.status # "complete" /\ task.criteria # {} =>
       task.evidence.world = world /\ world \in Good
  /\ task'.status = "complete" /\ crashes' # crashes => task.accepted.world = world
AcceptsTheWorkspace == [][Accepts]_vars

(* From the moment an instruction not to modify anything is accepted, and until
   a later instruction to the contrary is delivered, the task is restricted
   whenever the model may call a tool: no supplement, contract change, promotion
   or withdrawal of another input lifts it.                                    *)
Restrictions == Saying({"only"}) \cap ({ruling} \cup task.pending \cup
                  ((queue.pending \cup taken) \cap Is("steer")))
RestrictionHolds ==
  pc \in {"model", "promote", "approve"} /\ Restrictions # {} => task.class.only

(* A turn does not end with its task still active, unless the process died or
   an instruction that reopened the task was not delivered.                    *)
TurnsSettle ==
  pc = "idle" /\ task.status = "active" /\ task.id # 0 =>
    crashes > 0 \/ task.inputs \cap (queue.returned \cup queue.claimed) # {}

(* task_intent.py: what is accepted narrows at once (docs/task-orchestration.md,
   "收紧为…在接收时立即阻止新的修改"): no tool modifies a restricted task.       *)
NarrowsAtOnce == [][pc = "approve" /\ pc' = "step" /\ world' # world => ~task.class.only]_vars

(* What the user says when a turn ended with a question to him goes to the task
   that asked ("等待澄清时收到回复，会保留任务 ID 并增加版本").                     *)
AnswerResumes == [][pc = "begin" /\ awaiting => task'.id = task.id]_vars
================================================================================
