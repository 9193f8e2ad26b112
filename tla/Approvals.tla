------------------------------- MODULE Approvals -------------------------------
(***************************************************************************)
(* Permission modes, approvals and what is remembered of them.             *)
(*                                                                         *)
(*   pepsicode/permissions.py       PermissionManager                      *)
(*   pepsicode/approval/store.py    ApprovalStore                          *)
(*                                                                         *)
(* Tool calls of one process check their requests at the same time; one    *)
(* that nothing decides waits for the lock of the prompts and then for the *)
(* user, who may change the mode, or let a turn end, meanwhile.  Processes *)
(* share the file of the lasting decisions, which each reads once.         *)
(***************************************************************************)
EXTENDS Naturals, Sequences, FiniteSets

CONSTANTS
  Procs,        \* processes that share the file
  Callers,      \* calls that check at the same time
  Child,        \* the callers of sub-agents
  Requests,     \* what is asked for: [kind, on, intent, cwd]
  Modes,        \* access modes the user chooses among
  Parent,       \* the directory of a path
  Above,        \* a path and the directories that contain it
  Inside,       \* the paths of the workspace
  PlanFile,     \* one of them
  MaxRevision,  \* bound: revisions of the task
  MaxFailures,  \* bound: writes of the file that fail
  MaxRestarts   \* bound: restarts

Paths == DOMAIN Parent
AccessModes == {"read_only", "auto", "trust_commands", "full_access", "default"}
Kinds == {"path", "command", "edit", "mcp", "external", "plan"}

CallersAssumption == Child \subseteq Callers
RequestsAssumption ==
  /\ Requests # {}
  /\ \A r \in Requests : r.kind \in Kinds /\ r.cwd \in Paths
                         /\ (r.kind \in {"path", "edit"} => r.on \in Paths)
PathsAssumption ==
  /\ Parent \in [Paths -> Paths] /\ Above \in [Paths -> SUBSET Paths]
  /\ \A t \in Paths : t \in Above[t] /\ \A d \in Above[t] : Parent[d] \in Above[t]
  /\ PlanFile \in Inside /\ Inside \subseteq Paths
ModesAssumption == Modes \subseteq AccessModes
BoundsAssumption == MaxRevision \in Nat \ {0} /\ MaxFailures \in Nat /\ MaxRestarts \in Nat

VARIABLES
  mode,      \* of a process, "plan" or an access mode
  previous,  \* the access mode behind plan mode
  always, never,     \* lasting decisions in memory, pairs of kind and scope
  notNow,            \* refusals of the session
  thisTurn,          \* edits granted for the turn, "all" among them
  grants,            \* keys of the commands granted for the task
  callers,           \* [at, req, path, key, how, ops] of a caller
  lock,              \* the caller whose prompt is shown
  disk,              \* the file: [always, never]
  task, world,       \* revision of the task, contents of the workspace
  failures, restarts,
  refused,           \* history: what the user refused and saw accepted
  agreed,            \* history: keys granted since the last turn or mode
  seen               \* history: directories shown with a lasting grant

store == <<always, never, notNow, thisTurn, grants>>
outside == <<task, world, failures, restarts>>
history == <<refused, agreed, seen>>
vars == <<mode, previous, store, callers, lock, disk, outside, history>>

NoRequest == CHOOSE r \in Requests : TRUE
Idle == [at |-> "idle", req |-> NoRequest, path |-> FALSE, key |-> <<>>, how |-> "", ops |-> {}]

Init ==
  /\ mode \in [Procs -> Modes] /\ previous = mode
  /\ always = [p \in Procs |-> {}] /\ never = always /\ notNow = always
  /\ thisTurn = always /\ grants = always
  /\ callers = [p \in Procs |-> [c \in Callers |-> Idle]]
  /\ lock = [p \in Procs |-> {}]
  /\ disk = [always |-> {}, never |-> {}]
  /\ task = 1 /\ world = 0 /\ failures = 0 /\ restarts = 0
  /\ refused = always /\ agreed = always /\ seen = always

--------------------------------------------------------------------------------
(* What the store says.                                                        *)

(* A command is remembered with its directory.                                 *)
Scope(r) == IF r.kind = "command" THEN <<r.on, r.cwd>> ELSE r.on

Reading(r) == r.kind = "path" /\ r.intent \in {"read", "list", "search"}

Decided(decisions, k, s) ==
  IF k = "path" THEN \E d \in Above[s] : <<k, d>> \in decisions ELSE <<k, s>> \in decisions

Refuses(p, k, s) == <<k, s>> \in notNow[p] \/ Decided(never[p], k, s)

Grants(p, k, s) ==
  \/ Decided(always[p], k, s)
  \/ k = "edit" /\ (s \in thisTurn[p] \/ "all" \in thisTurn[p])

Lookup(p, k, s) ==
  IF Refuses(p, k, s) THEN "deny" ELSE IF Grants(p, k, s) THEN "store" ELSE "ask"

(* _task_command_key: none for a sub-agent.                                    *)
Key(p, c, r) == IF c \in Child THEN <<>> ELSE <<Scope(r), task, mode[p], world>>

(* ensure_tool_allowed: what the modes that only read refuse at once.          *)
ToolAllowed(p, r) ==
  \/ mode[p] \notin {"read_only", "plan"} \/ Reading(r)
  \/ mode[p] = "plan" /\ (r.kind = "plan" \/ (r.kind = "edit" /\ r.on = PlanFile))

(* check_path_access.                                                          *)
PathVerdict(p, t, r, ops) ==
  LET reads == Reading(r)
  IN IF mode[p] = "plan" /\ ~reads /\ t # PlanFile THEN "deny"
     ELSE IF <<mode[p], t, r.intent>> \in ops /\ (mode[p] # "read_only" \/ reads) THEN "operation"
     ELSE IF mode[p] = "read_only" /\ ~reads THEN "deny"
     ELSE IF mode[p] = "full_access" THEN "full"
     ELSE IF t \in Inside THEN "workspace" ELSE Lookup(p, "path", t)

(* Mutant: a grant of the task comes before a refusal.                         *)
CommandVerdictTask(p, c, r) ==
  IF Key(p, c, r) \in grants[p] THEN "task"
  ELSE IF Refuses(p, "command", Scope(r)) THEN "deny"
  ELSE IF mode[p] = "trust_commands" THEN "trust"
  ELSE Lookup(p, "command", Scope(r))

(* check_command once its directory is allowed.  A refusal comes before a      *)
(* grant of the task, the grant before what the store says.                    *)
CommandVerdict(p, c, r) ==
  IF Refuses(p, "command", Scope(r)) THEN "deny"
  ELSE IF mode[p] = "trust_commands" THEN "trust"
  ELSE IF Key(p, c, r) \in grants[p] THEN "task"
  ELSE Lookup(p, "command", Scope(r))

(* check_edit: the modes that do not ask for each file ask for its directory.  *)
EditVerdict(p, r, ops) ==
  CASE mode[p] = "plan" -> IF r.on = PlanFile THEN "plan" ELSE "deny"
    [] mode[p] = "read_only" -> "deny"
    [] mode[p] = "full_access" -> "full"
    [] mode[p] \in {"auto", "trust_commands"} /\ Lookup(p, "edit", r.on) = "ask" ->
         PathVerdict(p, r.on, r, ops)
    [] OTHER -> Lookup(p, "edit", r.on)

(* check_mcp_tool, and check_external_action, which looks nothing up.          *)
McpVerdict(p, r) ==
  IF mode[p] \in {"read_only", "plan"} THEN "deny"
  ELSE IF mode[p] = "full_access" THEN "full"
  ELSE IF r.kind = "external" THEN "ask" ELSE Lookup(p, "mcp", r.on)

(* The verdict on a request, and whether it is the directory that is asked     *)
(* for: that of a command, or that of an edit.                                 *)
Verdict(p, c, r, ops) ==
  CASE r.kind = "path" -> PathVerdict(p, r.on, r, ops)
    [] r.kind = "edit" -> EditVerdict(p, r, ops)
    [] r.kind \in {"mcp", "external"} -> McpVerdict(p, r)
    [] r.kind = "plan" -> IF mode[p] = "plan" THEN "ask" ELSE "deny"
    [] OTHER ->
         IF mode[p] \in {"read_only", "plan"} THEN "deny"
         ELSE IF mode[p] = "full_access" THEN "full"
         ELSE IF PathVerdict(p, r.cwd, r, ops) \in {"deny", "ask"} THEN PathVerdict(p, r.cwd, r, ops)
         ELSE CommandVerdict(p, c, r)

AsksPath(p, r) ==
  \/ r.kind = "path"
  \/ r.kind = "edit" /\ mode[p] \in {"auto", "trust_commands"}
  \/ r.kind = "command" /\ PathVerdict(p, r.cwd, r, {}) = "ask"

Target(r) == IF r.kind = "command" THEN r.cwd ELSE r.on

--------------------------------------------------------------------------------
(* A call checks, waits for its turn to ask, and hears the answer.             *)

Set(p, c, state) == callers' = [callers EXCEPT ![p][c] = state]

(* After the verdict v on what the caller s asks for.                          *)
After(p, c, s, v) ==
  CASE v = "deny" -> Idle
    [] v = "ask" -> [s EXCEPT !.at = "waiting", !.path = AsksPath(p, s.req),
                              !.key = IF s.req.kind = "command" THEN Key(p, c, s.req) ELSE <<>>]
    [] OTHER -> [s EXCEPT !.at = "allowed", !.how = v, !.key = <<>>]

Check(p, c, r) ==
  /\ callers[p][c].at = "idle"
  /\ LET s == [Idle EXCEPT !.req = r]
     IN Set(p, c, IF ToolAllowed(p, r) THEN After(p, c, s, Verdict(p, c, r, {})) ELSE Idle)
  /\ UNCHANGED <<mode, previous, store, lock, disk, outside, history>>

(* The operation checks its request again.                                     *)
CheckAgain(p, c) ==
  LET s == callers[p][c]
  IN /\ s.at = "allowed" /\ s.req.kind = "path"
     /\ Set(p, c, After(p, c, s, Verdict(p, c, s.req, s.ops)))
     /\ UNCHANGED <<mode, previous, store, lock, disk, outside, history>>

Done(p, c) ==
  /\ callers[p][c].at = "allowed" /\ Set(p, c, Idle)
  /\ UNCHANGED <<mode, previous, store, lock, disk, outside, history>>

(* Mutant: the prompt of a sub-agent comes over the one that is open.          *)
PromptAnyway(p, c) ==
  /\ callers[p][c].at = "waiting" /\ lock' = [lock EXCEPT ![p] = @ \cup {c}]
  /\ callers' = [callers EXCEPT ![p][c].at = "asked"]
  /\ UNCHANGED <<mode, previous, store, disk, outside, history>>

(* _request_approval: one prompt at a time.                                    *)
Prompt(p, c) ==
  /\ callers[p][c].at = "waiting" /\ lock[p] = {} /\ lock' = [lock EXCEPT ![p] = {c}]
  /\ callers' = [callers EXCEPT ![p][c].at = "asked"]
  /\ UNCHANGED <<mode, previous, store, disk, outside, history>>

(* The call is cancelled, or there is nobody to ask.                           *)
Unanswered(p, c) ==
  /\ callers[p][c].at \in {"waiting", "asked"} /\ Set(p, c, Idle)
  /\ lock' = [lock EXCEPT ![p] = @ \ {c}]
  /\ UNCHANGED <<mode, previous, store, disk, outside, history>>

Choices(s) ==
  IF s.path \/ s.req.kind = "mcp" THEN {"allow_once", "allow_always", "deny_once", "deny_always"}
  ELSE CASE s.req.kind = "command" ->
              {"allow_once", "allow_always", "deny_once", "deny_always"}
              \cup IF s.key = <<>> THEN {} ELSE {"allow_task"}
         [] s.req.kind = "edit" ->
              {"allow_once", "allow_turn", "allow_all_turn", "allow_always", "deny_once",
               "deny_with_feedback", "deny_always"}
         [] s.req.kind = "external" -> {"allow_once", "deny_once"}
         [] OTHER -> {"allow_once", "deny_with_feedback", "deny_once"}

(* What the prompt names, and what a lasting decision records: the parent, of  *)
(* a directory that is listed or run in too.                                   *)
Shown(s) ==
  IF s.req.intent \in {"list", "command_cwd"} THEN Target(s.req) ELSE Parent[Target(s.req)]

Recorded(s) == IF s.path THEN <<"path", Parent[Target(s.req)]>> ELSE <<s.req.kind, Scope(s.req)>>
Once(s)     == IF s.path THEN <<"path", Target(s.req)>> ELSE <<s.req.kind, Scope(s.req)>>

With(f, p, x) == [f EXCEPT ![p] = @ \cup {x}]

(* record: every grant and refusal but that of one operation is kept.  A       *)
(* lasting one is written with all the others that this process knows of.      *)
Record(p, s, d) ==
  /\ always' = IF d = "allow_always" THEN With(always, p, Recorded(s)) ELSE always
  /\ never' = IF d = "deny_always" THEN With(never, p, Recorded(s)) ELSE never
  /\ notNow' = IF d = "deny_once" /\ s.req.kind \notin {"external", "plan"}
                 THEN With(notNow, p, Once(s)) ELSE notNow
  /\ thisTurn' = CASE d = "allow_turn" -> With(thisTurn, p, s.req.on)
                   [] d = "allow_all_turn" -> With(thisTurn, p, "all")
                   [] OTHER -> thisTurn
  /\ grants' = IF d = "allow_task" THEN With(grants, p, s.key) ELSE grants

Lasting(d) == d \in {"allow_always", "deny_always"}

Persist(p, d) ==
  IF Lasting(d) THEN disk' = [always |-> always'[p], never |-> never'[p]] ELSE UNCHANGED disk

Remember(p, s, d) ==
  /\ refused' =
       CASE d = "deny_once" /\ s.req.kind \notin {"external", "plan"} ->
              With(refused, p, <<Once(s), FALSE>>)
         [] d = "deny_always" ->
              With(refused, p, <<IF s.path THEN <<"path", Shown(s)>> ELSE Recorded(s), TRUE>>)
         [] OTHER -> refused
  /\ agreed' = IF d = "allow_task" THEN With(agreed, p, s.key) ELSE agreed
  /\ seen' = IF d = "allow_always" /\ s.path THEN With(seen, p, <<"path", Shown(s)>>) ELSE seen

(* What the call goes on with: a command whose directory is allowed is looked  *)
(* up next, without a new look at the mode.                                    *)
Answered(p, c, s, d) ==
  IF d \notin {"allow_once", "allow_task", "allow_always", "allow_turn", "allow_all_turn"} THEN Idle
  ELSE LET t == [s EXCEPT !.ops = IF s.path THEN @ \cup {<<mode[p], Target(s.req), s.req.intent>>}
                                           ELSE @]
       IN IF s.path /\ s.req.kind = "command"
            THEN LET v == CommandVerdict(p, c, s.req)
                 IN IF v = "ask" THEN [t EXCEPT !.at = "waiting", !.path = FALSE, !.key = Key(p, c, s.req)]
                                 ELSE After(p, c, t, v)
            ELSE [t EXCEPT !.at = "allowed", !.how = "user", !.key = <<>>, !.path = FALSE]

(* A grant for the task whose inputs changed while it was asked for is a       *)
(* refusal, and not recorded.                                                  *)
Stale(p, c, s, d) == d = "allow_task" /\ Key(p, c, s.req) # s.key

Answer(p, c, d) ==
  LET s == callers[p][c]
  IN /\ s.at = "asked" /\ s.req.kind # "plan" /\ d \in Choices(s)
     /\ lock' = [lock EXCEPT ![p] = {}]
     /\ IF Stale(p, c, s, d)
          THEN Set(p, c, Idle) /\ UNCHANGED <<store, disk, history>>
          ELSE Record(p, s, d) /\ Persist(p, d) /\ Remember(p, s, d) /\ Set(p, c, Answered(p, c, s, d))
     /\ UNCHANGED <<mode, previous, outside>>

(* The file cannot be written: the check raises, what is in memory stays.      *)
AnswerUnsaved(p, c, d) ==
  LET s == callers[p][c]
  IN /\ s.at = "asked" /\ s.req.kind # "plan" /\ d \in Choices(s) /\ Lasting(d)
     /\ failures < MaxFailures /\ failures' = failures + 1
     /\ lock' = [lock EXCEPT ![p] = {}] /\ Record(p, s, d) /\ Set(p, c, Idle)
     /\ UNCHANGED <<mode, previous, disk, task, world, restarts, history>>

(* request_plan_approval.                                                      *)
AnswerPlan(p, c, d) ==
  LET s == callers[p][c]
  IN /\ s.at = "asked" /\ s.req.kind = "plan" /\ d \in Choices(s)
     /\ lock' = [lock EXCEPT ![p] = {}] /\ Set(p, c, Idle)
     /\ mode' = IF d = "allow_once" THEN [mode EXCEPT ![p] = previous[p]] ELSE mode
     /\ UNCHANGED <<previous, store, disk, outside, history>>

--------------------------------------------------------------------------------
(* The modes, the turns and the rest of the world.                             *)

ClearGrants(p) == grants' = [grants EXCEPT ![p] = {}] /\ agreed' = [agreed EXCEPT ![p] = {}]

(* set_access_mode.                                                            *)
SetMode(p, m) ==
  /\ m \in Modes \ {"default"} /\ ClearGrants(p)
  /\ IF mode[p] = "plan"
       THEN previous' = [previous EXCEPT ![p] = m] /\ UNCHANGED mode
       ELSE mode' = [mode EXCEPT ![p] = m] /\ UNCHANGED previous
  /\ UNCHANGED <<always, never, notNow, thisTurn, callers, lock, disk, outside, refused, seen>>

EnterPlan(p) ==
  /\ mode[p] # "plan" /\ ClearGrants(p)
  /\ previous' = [previous EXCEPT ![p] = mode[p]] /\ mode' = [mode EXCEPT ![p] = "plan"]
  /\ UNCHANGED <<always, never, notNow, thisTurn, callers, lock, disk, outside, refused, seen>>

LeavePlan(p) ==
  /\ mode[p] = "plan" /\ ClearGrants(p) /\ mode' = [mode EXCEPT ![p] = previous[p]]
  /\ UNCHANGED <<previous, always, never, notNow, thisTurn, callers, lock, disk, outside, refused, seen>>

(* begin_turn and end_turn; sub-agents may go on in the background.            *)
TurnChanges(p) ==
  /\ \A c \in Callers \ Child : callers[p][c].at = "idle"
  /\ ClearGrants(p) /\ thisTurn' = [thisTurn EXCEPT ![p] = {}]
  /\ UNCHANGED <<mode, previous, always, never, notNow, callers, lock, disk, outside, refused, seen>>

FilesChange ==
  /\ world' = 1 - world
  /\ UNCHANGED <<mode, previous, store, callers, lock, disk, task, failures, restarts, history>>

Revise ==
  /\ task < MaxRevision /\ task' = task + 1
  /\ UNCHANGED <<mode, previous, store, callers, lock, disk, world, failures, restarts, history>>

(* A process starts again and reads the file; the mode is that of its session. *)
Restart(p) ==
  /\ restarts < MaxRestarts /\ restarts' = restarts + 1
  /\ always' = [always EXCEPT ![p] = disk.always] /\ never' = [never EXCEPT ![p] = disk.never]
  /\ notNow' = [notNow EXCEPT ![p] = {}] /\ thisTurn' = [thisTurn EXCEPT ![p] = {}]
  /\ ClearGrants(p)
  /\ callers' = [callers EXCEPT ![p] = [c \in Callers |-> Idle]] /\ lock' = [lock EXCEPT ![p] = {}]
  /\ refused' = [refused EXCEPT ![p] = {x \in @ : x[2]}]
  /\ UNCHANGED <<mode, previous, disk, task, world, failures, seen>>

Decisions == {"allow_once", "allow_task", "allow_always", "allow_turn", "allow_all_turn",
              "deny_once", "deny_always", "deny_with_feedback"}

Next ==
  \/ \E p \in Procs, c \in Callers :
       \/ \E r \in Requests : Check(p, c, r)
       \/ CheckAgain(p, c) \/ Done(p, c) \/ Prompt(p, c) \/ Unanswered(p, c)
       \/ \E d \in Decisions : Answer(p, c, d) \/ AnswerUnsaved(p, c, d) \/ AnswerPlan(p, c, d)
  \/ \E p \in Procs :
       \/ \E m \in Modes : SetMode(p, m)
       \/ EnterPlan(p) \/ LeavePlan(p) \/ TurnChanges(p) \/ Restart(p)
  \/ FilesChange \/ Revise

Spec == Init /\ [][Next]_vars

--------------------------------------------------------------------------------
TypeOK ==
  /\ mode \in [Procs -> AccessModes \cup {"plan"}] /\ previous \in [Procs -> AccessModes]
  /\ \A p \in Procs, c \in Callers :
       callers[p][c].at \in {"idle", "waiting", "asked", "allowed"} /\ callers[p][c].req \in Requests
  /\ task \in 1..MaxRevision /\ world \in 0..1

(* The user is asked one thing at a time, by the caller that holds the lock.   *)
OnePrompt ==
  \A p \in Procs : lock[p] = {c \in Callers : callers[p][c].at = "asked"} /\ Cardinality(lock[p]) <= 1

(* What the invariant of a run checks: the types and the single prompt.        *)
PromptsSafe == TypeOK /\ OnePrompt

Passed(p, c) == callers[p][c].at # "allowed" /\ callers'[p][c].at = "allowed"

(* Is the request r among what the user of p refused?                          *)
WasRefused(p, r) ==
  \E x \in refused[p] :
    \/ x[1] = <<r.kind, Scope(r)>>
    \/ r.kind = "path" /\ x[2] /\ x[1][1] = "path" /\ x[1][2] \in Above[r.on]

(* A refusal of this session, or a lasting one of this process or of an        *)
(* earlier, stands against every grant made before or after it: nothing        *)
(* that was refused passes without a new answer, unless the user chose full    *)
(* access.                                                                     *)
PassesUnrefused ==
  \A p \in Procs, c \in Callers :
    Passed(p, c) /\ callers'[p][c].how \in {"store", "task", "trust"}
      => ~WasRefused(p, callers'[p][c].req)

RefusalsStand == [][PassesUnrefused]_vars

(* A command runs on a grant for the task only if the user gave it for this    *)
(* command, task, mode and contents, with no turn and no change of mode since; *)
(* and a call that asks nobody while plan mode is on reads or writes the plan. *)
PassesGranted ==
  \A p \in Procs, c \in Callers : Passed(p, c) =>
    /\ callers'[p][c].how = "task"
         => <<Scope(callers'[p][c].req), task, mode[p], world>> \in agreed[p]
    /\ callers[p][c].at = "idle" /\ mode[p] = "plan"
         => Reading(callers'[p][c].req) \/ callers'[p][c].req.on = PlanFile

GrantsFit == [][PassesGranted]_vars

(* What the documentation of record says: a lasting grant of a directory that  *)
(* is listed or run in is kept for that directory, the one that was shown.     *)
GrantsAsShown == \A p \in Procs : {x \in always[p] : x[1] = "path"} \subseteq seen[p]

(* What the module says: a lasting refusal is on disk, whatever the others     *)
(* write.                                                                      *)
RefusalsLast ==
  \A p \in Procs : \A x \in refused[p] :
    x[2] => IF x[1][1] = "path" THEN Decided(disk.never, "path", x[1][2]) ELSE x[1] \in disk.never
================================================================================
