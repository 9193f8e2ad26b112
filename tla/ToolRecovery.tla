------------------------------ MODULE ToolRecovery ------------------------------
(***************************************************************************)
(* Tool calls whose outcome may be lost, and what a task may do after one. *)
(*                                                                         *)
(*   pepsicode/execution/runtime.py       ExecutionJournal, ExecutionScope,*)
(*                                        _recover, scoped_turn            *)
(*   pepsicode/tooling.py                 ToolRegistry.execute, _execute   *)
(*   pepsicode/execution/process.py       checked_argv, Popen, run,        *)
(*                                        _watch_background                *)
(*   pepsicode/execution/filesystem.py    FileSystemService.write          *)
(*   pepsicode/tools/execution_status.py  observe, reconcile               *)
(*   pepsicode/core/session_tree.py       checkpoint_execution             *)
(*                                                                         *)
(* Actors: the thread that runs the turn; one watcher thread for each      *)
(* background process; the user, who answers approvals; and a process that *)
(* may die between any two steps.  Every turn has a journal of its own;    *)
(* the session file points to one.  What is observed of files is left out: *)
(* that a file no longer is as it was observed only refuses, and the user  *)
(* may refuse at any time.                                                 *)
(***************************************************************************)
EXTENDS Naturals, FiniteSets

CONSTANTS
  Calls,        \* tool calls, by call_id
  File,         \* those that write files through FILES
  Background,   \* those that start a process and leave it running
  Status,       \* those of execution_status that reconcile; the others run a
                \* process to its end
  MaxTurns,     \* bound: turns
  MaxFailures,  \* bound: appends and saves that fail
  MaxCrashes    \* bound: times the process dies

ASSUME CallsAssumption ==
  /\ File \subseteq Calls /\ Background \subseteq Calls /\ Status \subseteq Calls
  /\ File \cap Background = {} /\ Status \cap (File \cup Background) = {}
  /\ Calls \cap (0..MaxTurns) = {}
ASSUME LimitsAssumption ==
  MaxTurns \in Nat /\ MaxFailures \in Nat /\ MaxCrashes \in Nat

VARIABLES
  turn,        \* turns begun; the number of the current journal
  journal,     \* for each turn what interrupted_calls has read of its journal
  pointer,     \* journal of session.execution_state, in memory; 0 for none
  saved,       \* the same in the session file
  pc,          \* where the thread of the turn is
  call,        \* the call it is executing
  outcome,     \* what the tool reported of it
  unresolved,  \* scope.unresolved
  revision,    \* scope.recovery_version
  observed,    \* scope.observations
  target,      \* the call to reconcile, and the observation cited for it
  claim,
  watched,     \* background processes
  failures, crashes,
  started,     \* history: calls that were dispatched, and in which turn
  since,
  acted,       \* history: calls that may have had an effect
  closed,      \* history: calls whose outcome is known or was reconciled
  agreed       \* history: calls that were reconciled

disk    == <<journal, saved>>
thread  == <<pc, call, outcome>>
scope   == <<unresolved, revision, observed>>
cited   == <<target, claim>>
bounds  == <<failures, crashes>>
history == <<started, since, acted, closed, agreed>>
vars == <<turn, disk, pointer, thread, scope, cited, watched, bounds, history>>

Turns  == 1..MaxTurns
NoCall == 0

(* A turn among the unknown operations is its journal, which cannot be read.   *)
Ops    == Calls \cup Turns
None   == [revision |-> 0, known |-> {}]
Blank  == [pending |-> {}, finished |-> {}, tail |-> "whole"]

Init ==
  /\ turn = 0 /\ journal = [t \in Turns |-> Blank] /\ pointer = 0 /\ saved = 0
  /\ pc = "idle" /\ call = NoCall /\ outcome = "definite"
  /\ unresolved = {} /\ revision = 0 /\ observed = {}
  /\ target = NoCall /\ claim = None
  /\ watched = [c \in Calls |-> "no"]
  /\ failures = 0 /\ crashes = 0
  /\ started = {} /\ since = [c \in Calls |-> 0] /\ acted = {} /\ closed = {} /\ agreed = {}

--------------------------------------------------------------------------------
(* A journal is appended to and read once, from its start: the loop of         *)
(* interrupted_calls is what each record does to the calls it holds pending.   *)

(* Mutant: the decision is not read back.                                      *)
ReconciledIgnored(j, c) == j

Pending(j, S)    == [j EXCEPT !.pending = @ \cup S]
Started(j, c)    == [j EXCEPT !.pending = @ \cup {c}]
Reconciled(j, c) == [j EXCEPT !.pending = @ \ {c}]
Completed(j, c)  == [j EXCEPT !.pending = @ \ {c}, !.finished = @ \cup {c}]

(* Mutant: a running process counts as done.                                   *)
SettledWhenRunning(j, c, state) ==
  IF state # "unknown" THEN [j EXCEPT !.pending = @ \ {c}] ELSE j

Settled(j, c, state) ==
  IF state = "definite" \/ (state = "running" /\ c \in j.finished)
    THEN [j EXCEPT !.pending = @ \ {c}]
    ELSE j

(* A record behind a torn one makes a line that is committed and corrupt.      *)
Line(j, new) == IF j.tail = "whole" THEN new ELSE [j EXCEPT !.tail = "corrupt"]
Tear(j) == [j EXCEPT !.tail = IF @ = "whole" THEN "torn" ELSE @]

Append(t, new) == journal' = [journal EXCEPT ![t] = Line(@, new)] /\ UNCHANGED failures

(* A failed append has written nothing, a part, all but the newline, or all.   *)
AppendFails(t, new) ==
  /\ failures < MaxFailures /\ failures' = failures + 1
  /\ \E j \in {journal[t], Tear(journal[t]), Line(journal[t], new), Tear(Line(journal[t], new))} :
       journal' = [journal EXCEPT ![t] = j]

(* Mutant: what cannot be read is skipped.                                     *)
InterruptedReadable(p) ==
  IF p = 0 \/ journal[p].tail = "corrupt" THEN {} ELSE journal[p].pending

(* The operations that journal p leaves unknown.  A corrupt journal proves     *)
(* nothing: one operation stands for all it held.                              *)
Interrupted(p) ==
  IF p = 0 THEN {} ELSE IF journal[p].tail = "corrupt" THEN {p} ELSE journal[p].pending

(* Mutant: the caller has no id to mark.                                       *)
MarkAnonymous(c) == unresolved' = unresolved \cup {NoCall} /\ revision' = revision + 1

MarkUnknown(c) == unresolved' = unresolved \cup {c} /\ revision' = revision + 1

--------------------------------------------------------------------------------
(* scoped_turn.                                                                *)

StartTurn ==
  /\ pc = "idle" /\ turn < MaxTurns
  /\ turn' = turn + 1
  /\ unresolved' = Interrupted(pointer)
  /\ revision' = 0 /\ observed' = {}
  /\ pc' = "recover"
  /\ UNCHANGED <<disk, pointer, call, outcome, cited, watched, bounds, history>>

(* recovery/pending and task/started, before anything points to the journal.   *)
Recover ==
  /\ pc = "recover"
  /\ \/ Append(turn, Pending(journal[turn], unresolved)) /\ pc' = "checkpoint"
     \/ AppendFails(turn, Pending(journal[turn], unresolved)) /\ pc' = "idle"
  /\ UNCHANGED <<turn, saved, pointer, call, outcome, scope, cited, watched, crashes,
                 history>>

(* A failed save leaves the pointer in memory ahead of the session file.       *)
Checkpoint ==
  /\ pc = "checkpoint"
  /\ pointer' = turn
  /\ \/ saved' = turn /\ pc' = "ready" /\ UNCHANGED failures
     \/ /\ failures < MaxFailures /\ failures' = failures + 1
        /\ pc' = "idle" /\ UNCHANGED saved
  /\ UNCHANGED <<turn, journal, call, outcome, scope, cited, watched, crashes, history>>

EndTurn ==
  /\ pc = "ready"
  /\ pc' = "idle"
  /\ UNCHANGED <<turn, disk, pointer, call, outcome, scope, cited, watched, bounds, history>>

(* KeyboardInterrupt, SystemExit and BudgetExceededError pass through execute: *)
(* the call is not settled.                                                    *)
Abandon ==
  /\ pc = "running"
  /\ pc' = "idle"
  /\ UNCHANGED <<turn, disk, pointer, call, outcome, scope, cited, watched, bounds, history>>

--------------------------------------------------------------------------------
(* ToolRegistry.execute.                                                       *)

Begin(c) ==
  /\ started' = started \cup {c} /\ since' = [since EXCEPT ![c] = turn]
  /\ call' = c

(* tool/started is on disk before the tool runs; otherwise it does not run.    *)
Dispatch(c) ==
  /\ pc = "ready" /\ c \notin started \cup Status
  /\ unresolved = {}
  /\ Begin(c)
  /\ \/ Append(turn, Started(journal[turn], c)) /\ pc' = "asked" /\ UNCHANGED <<outcome, closed>>
     \/ /\ AppendFails(turn, Started(journal[turn], c))
        /\ pc' = "returned" /\ outcome' = "definite" /\ closed' = closed \cup {c}
  /\ UNCHANGED <<turn, saved, pointer, scope, cited, watched, crashes, acted, agreed>>

(* While an outcome is unknown a call is refused; the refusal is recorded, or  *)
(* else the refused call is unknown too.                                       *)
Refuse(c) ==
  /\ pc = "ready" /\ c \notin started \cup Status \cup unresolved
  /\ unresolved # {}
  /\ \/ /\ Append(turn, Settled(journal[turn], c, "definite"))
        /\ UNCHANGED <<unresolved, revision>>
     \/ /\ AppendFails(turn, Settled(journal[turn], c, "definite"))
        /\ MarkUnknown(c)
  /\ UNCHANGED <<turn, saved, pointer, thread, observed, cited, watched, crashes, history>>

Return(how) ==
  /\ pc' = "returned" /\ outcome' = how
  /\ closed' = IF how = "definite" THEN closed \cup {call} ELSE closed
  /\ UNCHANGED call

Denied ==
  /\ pc = "asked"
  /\ Return("definite")
  /\ UNCHANGED <<turn, disk, pointer, scope, cited, watched, bounds, started, since, acted,
                 agreed>>

(* The user approved.  A file is prepared only if nothing became unknown        *)
(* meanwhile; a process is started without looking again.  file/prepared or    *)
(* process/prepared comes first.                                               *)
Act ==
  /\ pc = "asked"
  /\ \/ /\ call \in File => unresolved = {}
        /\ \/ /\ Append(turn, journal[turn])
              /\ IF call \in File THEN pc' = "prepared" /\ UNCHANGED acted
                                ELSE pc' = "running" /\ acted' = acted \cup {call}
              /\ UNCHANGED <<call, outcome, closed>>
           \/ AppendFails(turn, journal[turn]) /\ Return("unknown") /\ UNCHANGED acted
     \/ /\ call \in File /\ unresolved # {}
        /\ Return("definite") /\ UNCHANGED <<journal, failures, acted>>
  /\ UNCHANGED <<turn, saved, pointer, scope, cited, watched, crashes, started, since, agreed>>

(* Mutant: the look before the preparation is thought to be enough.            *)
LookAway ==
  /\ pc = "prepared" /\ pc' = "looked"
  /\ UNCHANGED <<turn, disk, pointer, call, outcome, scope, cited, watched, bounds, history>>

(* The new content is in a temporary file, or could not be written; the last    *)
(* look at what is unknown follows, and only then the replacement, without a   *)
(* lock that would keep a watcher from reporting in between.                   *)
Look ==
  /\ pc = "prepared"
  /\ \/ unresolved = {} /\ pc' = "looked" /\ UNCHANGED <<call, outcome, closed>>
     \/ unresolved # {} /\ Return("definite")
     \/ Return("unknown")
  /\ UNCHANGED <<turn, disk, pointer, scope, cited, watched, bounds, started, since, acted,
                 agreed>>

Replace ==
  /\ pc = "looked" /\ pc' = "running"
  /\ acted' = acted \cup {call}
  /\ UNCHANGED <<turn, disk, pointer, call, outcome, scope, cited, watched, bounds, started,
                 since, closed, agreed>>

(* An exception after the dispatch, a timeout, a cancellation: unknown, as is  *)
(* what cannot be recorded.  A background process that started is handed to    *)
(* its watcher.                                                                *)
Finish ==
  /\ pc = "running"
  /\ \/ Return("unknown") /\ UNCHANGED <<journal, failures, watched>>
     \/ AppendFails(turn, journal[turn]) /\ Return("unknown") /\ UNCHANGED watched
     \/ /\ Append(turn, journal[turn])
        /\ IF call \in Background
             THEN Return("running") /\ watched' = [watched EXCEPT ![call] = "running"]
             ELSE Return("definite") /\ UNCHANGED watched
  /\ UNCHANGED <<turn, saved, pointer, scope, cited, crashes, started, since, acted, agreed>>

(* tool/settled; what cannot be recorded is unknown, whatever the tool said.   *)
Settle ==
  /\ pc = "returned" /\ pc' = "ready"
  /\ \/ /\ Append(turn, Settled(journal[turn], call, outcome))
        /\ IF outcome = "unknown" THEN MarkUnknown(call) ELSE UNCHANGED <<unresolved, revision>>
     \/ /\ AppendFails(turn, Settled(journal[turn], call, outcome))
        /\ MarkUnknown(call)
  /\ UNCHANGED <<turn, saved, pointer, call, outcome, observed, cited, watched, crashes, history>>

--------------------------------------------------------------------------------
(* _watch_background: first the record, then mark_unknown on the scope that    *)
(* started the process, which need not be the current one.                     *)

Exit(c) ==
  /\ watched[c] = "running"
  /\ \/ /\ Append(since[c], Completed(journal[since[c]], c))
        /\ watched' = [watched EXCEPT ![c] = "no"] /\ closed' = closed \cup {c}
     \/ /\ \/ Append(since[c], journal[since[c]])
           \/ AppendFails(since[c], journal[since[c]])
           \/ AppendFails(since[c], Completed(journal[since[c]], c))
        /\ watched' = [watched EXCEPT ![c] = "failed"]
        /\ closed' = IF c \in journal'[since[c]].finished THEN closed \cup {c} ELSE closed
  /\ UNCHANGED <<turn, saved, pointer, thread, scope, cited, crashes, started, since, acted,
                 agreed>>

Report(c) ==
  /\ watched[c] = "failed"
  /\ watched' = [watched EXCEPT ![c] = "no"]
  /\ IF since[c] = turn THEN MarkUnknown(c) ELSE UNCHANGED <<unresolved, revision>>
  /\ UNCHANGED <<turn, disk, pointer, thread, observed, cited, bounds, history>>

--------------------------------------------------------------------------------
(* execution_status.  An observation keeps the revision it was made at; what   *)
(* was unknown then is history.  A call that only observes is not followed.    *)

Observe ==
  /\ pc = "ready" /\ unresolved # {}
  /\ Append(turn, journal[turn])
  /\ observed' = observed \cup {[revision |-> revision, known |-> unresolved]}
  /\ UNCHANGED <<turn, saved, pointer, thread, unresolved, revision, cited, watched, crashes,
                 history>>

Cite(d, c, o) ==
  /\ pc = "ready" /\ d \in Status \ started
  /\ c \in unresolved /\ o.revision = revision
  /\ Begin(d)
  /\ target' = c /\ claim' = o
  /\ \/ Append(turn, Started(journal[turn], d)) /\ pc' = "citing" /\ UNCHANGED <<outcome, closed>>
     \/ /\ AppendFails(turn, Started(journal[turn], d))
        /\ pc' = "returned" /\ outcome' = "definite" /\ closed' = closed \cup {d}
  /\ UNCHANGED <<turn, saved, pointer, scope, watched, crashes, acted, agreed>>

(* The answer to the approval, with the checks behind it.                      *)
Answer ==
  /\ pc = "citing"
  /\ \/ /\ claim.revision = revision
        /\ pc' = "commit" /\ UNCHANGED <<call, outcome, closed>>
     \/ Return("definite")
  /\ UNCHANGED <<turn, disk, pointer, scope, cited, watched, bounds, started, since, acted,
                 agreed>>

(* The calls that operations stand for: a journal that cannot be read may have *)
(* held any call up to its turn.                                               *)
Covered(S) == {c \in started : c \in S \/ \E t \in S \cap Turns : since[c] <= t}

Agree(o) ==
  /\ agreed' = agreed \cup Covered({o})
  /\ closed' = closed \cup Covered({o}) \cup {call}

(* Mutant: compare without regard to the revision.                             *)
ReconcileStale ==
  /\ pc = "commit"
  /\ target \in unresolved
  /\ Append(turn, Reconciled(journal[turn], target))
  /\ unresolved' = unresolved \ {target} /\ revision' = revision + 1
  /\ Agree(target)
  /\ pc' = "returned" /\ outcome' = "definite"
  /\ UNCHANGED <<turn, saved, pointer, call, observed, cited, watched, crashes, started, since,
                 acted>>

(* ExecutionScope.reconcile compares and commits under one lock.               *)
Reconcile ==
  /\ pc = "commit"
  /\ claim.revision = revision /\ target \in unresolved
  /\ Append(turn, Reconciled(journal[turn], target))
  /\ unresolved' = unresolved \ {target} /\ revision' = revision + 1
  /\ Agree(target)
  /\ pc' = "returned" /\ outcome' = "definite"
  /\ UNCHANGED <<turn, saved, pointer, call, observed, cited, watched, crashes, started, since,
                 acted>>

Superseded ==
  /\ pc = "commit"
  /\ claim.revision # revision \/ target \notin unresolved
  /\ Return("definite")
  /\ UNCHANGED <<turn, disk, pointer, scope, cited, watched, bounds, started, since, acted,
                 agreed>>

(* The decision may be on disk although the append raised; the call of         *)
(* execution_status then has an unknown outcome of its own.                    *)
ReconcileFails ==
  /\ pc = "commit"
  /\ claim.revision = revision /\ target \in unresolved
  /\ AppendFails(turn, Reconciled(journal[turn], target))
  /\ IF target \in journal'[turn].pending
       THEN UNCHANGED <<closed, agreed>>
       ELSE /\ agreed' = agreed \cup Covered({target})
            /\ closed' = closed \cup Covered({target})
  /\ pc' = "returned" /\ outcome' = "unknown"
  /\ UNCHANGED <<turn, saved, pointer, call, scope, cited, watched, crashes, started, since,
                 acted>>

--------------------------------------------------------------------------------

(* Memory and watchers are gone; the processes they watched may live on.       *)
Crash ==
  /\ crashes < MaxCrashes /\ crashes' = crashes + 1
  /\ pc' = "idle" /\ pointer' = saved
  /\ unresolved' = {} /\ revision' = 0 /\ observed' = {}
  /\ watched' = [c \in Calls |-> "no"]
  /\ UNCHANGED <<turn, disk, call, outcome, cited, failures, history>>

Turn ==
  \/ StartTurn \/ Recover \/ Checkpoint \/ EndTurn \/ Abandon
  \/ Denied \/ Act \/ Look \/ Replace \/ Finish \/ Settle
  \/ \E c \in Calls : Dispatch(c) \/ Refuse(c)

StatusTool ==
  \/ Observe \/ Answer \/ Reconcile \/ Superseded \/ ReconcileFails
  \/ \E d \in Status, c \in unresolved, o \in observed : Cite(d, c, o)

Next ==
  \/ Turn \/ StatusTool \/ Crash
  \/ \E c \in Calls : Exit(c) \/ Report(c)

Spec == Init /\ [][Next]_vars

--------------------------------------------------------------------------------
(* Properties.                                                                 *)

Journals == [pending : SUBSET Ops, finished : SUBSET Calls, tail : {"whole", "torn", "corrupt"}]
Observations == [revision : Nat, known : SUBSET Ops]
PCs == {"idle", "recover", "checkpoint", "ready", "asked", "prepared", "looked", "running",
        "returned", "citing", "commit"}

(* Type invariant of the journals, the session and the scope of the turn. *)
TypeOK ==
  /\ turn \in 0..MaxTurns /\ pointer \in 0..turn /\ saved \in 0..turn
  /\ journal \in [Turns -> Journals]
  /\ pc \in PCs /\ call \in Calls \cup {NoCall} /\ outcome \in {"definite", "unknown", "running"}
  /\ unresolved \subseteq Ops /\ revision \in Nat
  /\ observed \subseteq Observations /\ claim \in Observations
  /\ target \in Ops \cup {NoCall}
  /\ watched \in [Calls -> {"no", "running", "failed"}]
  /\ failures \in Nat /\ crashes \in Nat
  /\ started \subseteq Calls /\ since \in [Calls -> 0..turn]
  /\ acted \subseteq Calls /\ closed \subseteq Calls /\ agreed \subseteq Calls

(* Calls that were dispatched and whose outcome nobody knows. *)
Dangling == started \ closed

(* The calls that the turn recovering from journal p takes to be unknown. *)
Told(p) == Covered(Interrupted(p))

(* Append before dispatch: whenever the process dies, or the next turn begins,
   the journal it will recover from names every call without a known outcome.  *)
RecoveryKnows == Dangling \subseteq Told(pointer) /\ Dangling \subseteq Told(saved)

(* No call has an effect while a call of an earlier turn has no known outcome,
   through crashes, torn and corrupt journals and failed saves: nothing is built
   on, or repeats, what may have happened.  *)
NothingOverUnknown ==
  [][acted' # acted => \A c \in started : since[c] < turn => c \in closed]_vars

(* Within a turn too a file is published only after a last look at which no
   outcome is missing, however long its approval took, but that of a background
   process whose watcher has not told the harness yet; and what is missing when
   the file is replaced is the outcome of such a process of this turn, which may
   have been told of between the two.  *)
Waited(S) == Dangling \ {call} \subseteq {c \in Background : since[c] = turn /\ c \in S}

FilesWait ==
  [][/\ pc # "looked" /\ pc' = "looked" => Waited({c \in Calls : watched[c] # "no"})
     /\ (acted' \ acted) \cap File # {} =>
          pc = "looked" /\ Waited({c \in Calls : watched[c] # "no"} \cup unresolved)]_vars

(* "While an outcome is unknown ordinary processes may not be started either."  *)
ProcessesWait ==
  [][(acted' \ acted) \ File # {} => Waited({c \in Calls : watched[c] # "no"})]_vars

(* A call is reconciled on evidence observed when the same calls were unknown:
   what became unknown since, also while the approval was open, refuses it.  *)
EvidenceIsCurrent ==
  [][agreed' # agreed => claim.known = unresolved]_vars

(* A decision is final: what was reconciled is not asked for again by a turn
   that recovers from the journal of the session file.  *)
AgreedStays ==
  agreed \cap Interrupted(saved) = {}
================================================================================
