------------------------------ MODULE Subagents ------------------------------
(***************************************************************************)
(* Sub-agents (tools/task.py, agents/, ExecutionScope.child): the task     *)
(* calls of one batch of a turn, run side by side when they are of the     *)
(* built-in read-only kinds and one at a time otherwise; a child's loop of *)
(* requests and tools under the revision of the task it was made for; and  *)
(* the report its call returns.  The host may change the task, stop the    *)
(* turn or let its deadline pass at any time, and the definition of an     *)
(* agent of the project may be edited between its checks and its use.      *)
(***************************************************************************)
EXTENDS Naturals, Sequences, FiniteSets

CONSTANTS Batches,      \* the batches of calls: sequences of agent names
          MaxRevision,  \* bound: revisions of the task
          MaxTurns,     \* steps of a child
          MaxEdits      \* bound: edits of the custom definition

VARIABLES task,         \* revision, read-only request and kind of the task
          event, past,  \* the stop event is set; the deadline has passed
          definition,   \* the custom agent's file: "reads", "writes" or "gone"
          edits,
          batch,        \* the calls
          first,        \* the call from which _execute_calls_in_order goes on
          child         \* per call: where it is and what it knows

vars == <<task, event, past, definition, edits, batch, first, child>>

Calls == DOMAIN batch

NoChild == [pc |-> "queued", spawn |-> 0, identity |-> 0, readonly |-> FALSE,
            tools |-> {}, turns |-> 0, writes |-> 0, late |-> 0, old |-> FALSE,
            status |-> "none", trace |-> "none"]

Init ==
  /\ task \in [revision : {1}, readonly : BOOLEAN, kind : {"answer", "change"}]
  /\ task.readonly => task.kind = "answer"
  /\ event = FALSE /\ past = FALSE
  /\ definition \in {"reads", "writes"} /\ edits = 0
  /\ batch \in Batches
  /\ first = 1
  /\ child = [c \in DOMAIN batch |-> NoChild]

(***************************************************************************)
(* The host and the world.                                                 *)
(***************************************************************************)
Instruct ==
  /\ task.revision < MaxRevision
  /\ \E readonly \in BOOLEAN :
       task' = [revision |-> task.revision + 1, readonly |-> readonly,
                kind |-> IF readonly THEN "answer" ELSE "change"]
  /\ UNCHANGED <<event, past, definition, edits, batch, first, child>>

Stop ==
  /\ ~event /\ event' = TRUE
  /\ UNCHANGED <<task, past, definition, edits, batch, first, child>>

Deadline ==
  /\ ~past /\ past' = TRUE
  /\ UNCHANGED <<task, event, definition, edits, batch, first, child>>

EditDefinition ==
  /\ edits < MaxEdits /\ \E c \in Calls : batch[c] = "custom"  \* bound: where it matters
  /\ \E d \in {"reads", "writes", "gone"} \ {definition} : definition' = d
  /\ edits' = edits + 1
  /\ UNCHANGED <<task, event, past, batch, first, child>>

(***************************************************************************)
(* The tools of an agent.  A read-only definition leaves those of the      *)
(* allowlist, and the project cannot replace the built-in definitions.     *)
(***************************************************************************)
Loaded(agent) == CASE agent = "explore" -> "reads"
                   [] agent = "general" -> "writes"
                   [] OTHER -> definition
Tools(agent) == IF Loaded(agent) = "reads" THEN {"read"} ELSE {"read", "write"}

(* A call of an agent that is gone counts as one that may change files.    *)
Affects(agent) == Loaded(agent) = "gone" \/ Tools(agent) # {"read"}

(***************************************************************************)
(* Calls of the built-in read-only agents that follow one another run at   *)
(* once and are joined before the next call; any other call runs alone.    *)
(***************************************************************************)
Safe(c) == batch[c] = "explore"
InGroup(c) == c = first \/ (c > first /\ \A k \in first .. c : Safe(k))
Ended(c) == child[c].pc = "ended"

Join ==
  /\ first <= Len(batch)
  /\ \A c \in Calls : InGroup(c) => Ended(c)
  /\ first' = 1 + CHOOSE c \in Calls :
                    InGroup(c) /\ \A k \in Calls : InGroup(k) => k <= c
  /\ UNCHANGED <<task, event, past, definition, edits, batch, child>>

(***************************************************************************)
(* check_cancelled of the child's scope: the task is of another revision   *)
(* than when the scope was made, the turn was stopped, or its deadline has *)
(* passed, which sets the event for everybody.                             *)
(***************************************************************************)
Stale(c) == child[c].identity # task.revision
Refused(c) == Stale(c) \/ event \/ past
Notice(c) == event' = (event \/ (past /\ ~Stale(c)))
Cancelled == IF past THEN "timed_out" ELSE "cancelled"

To(c, pc) == [child EXCEPT ![c].pc = pc]
End(c, status) ==
  [child EXCEPT ![c].pc = "ended", ![c].status = status,
                ![c].trace = IF child[c].trace = "none" THEN "none" ELSE status]

(***************************************************************************)
(* The parent's registry checks the call: a request to change nothing      *)
(* refuses a child that could, and such a child makes an answer a change.  *)
(***************************************************************************)
Dispatch(c) ==
  /\ child[c].pc = "queued" /\ InGroup(c)
  /\ LET changes == Affects(batch[c])
         blocked == changes /\ task.readonly
         runs == ~event /\ Loaded(batch[c]) # "gone" /\ ~blocked
     IN /\ child' = IF runs THEN To(c, "spawn")
                    ELSE End(c, IF event THEN "cancelled"
                                ELSE IF blocked THEN "blocked" ELSE "failed")
        /\ task' = IF runs /\ changes /\ task.kind = "answer"
                   THEN [task EXCEPT !.kind = "change", !.revision = @ + 1]
                   ELSE task
  /\ UNCHANGED <<event, past, definition, edits, batch, first>>

(* The task tool notes the revision, then loads the definition (again) ... *)
Spawn(c) ==
  /\ child[c].pc = "spawn"
  /\ child' = [child EXCEPT ![c].pc = "load", ![c].spawn = task.revision]
  /\ UNCHANGED <<task, event, past, definition, edits, batch, first>>

Load(c) ==
  /\ child[c].pc = "load"
  /\ child' = IF Loaded(batch[c]) = "gone" THEN End(c, "failed")
              ELSE [child EXCEPT ![c].pc = "scope", ![c].tools = Tools(batch[c]),
                                 ![c].trace = "running"]
  /\ UNCHANGED <<task, event, past, definition, edits, batch, first>>

(* ... and the child's scope takes a projection of the task of its own.    *)
Scope(c) ==
  /\ child[c].pc = "scope"
  /\ child' = [child EXCEPT ![c].pc = "head", ![c].identity = task.revision,
                            ![c].readonly = task.readonly]
  /\ UNCHANGED <<task, event, past, definition, edits, batch, first>>

(***************************************************************************)
(* The child's loop.  What its head raises ends the call at once; what a   *)
(* request or a tool meets is a result that is reported.                   *)
(***************************************************************************)
Report(c, status) ==
  child' = [child EXCEPT ![c].pc = "report", ![c].status = status]

StepHead(c) ==
  /\ child[c].pc = "head"
  /\ IF child[c].turns = MaxTurns THEN Report(c, "failed") /\ UNCHANGED event
     ELSE IF Refused(c)
     THEN /\ child' = End(c, IF Stale(c) THEN "blocked" ELSE Cancelled)
          /\ Notice(c)
     ELSE child' = [child EXCEPT ![c].pc = "request", ![c].turns = @ + 1] /\ UNCHANGED event
  /\ UNCHANGED <<task, past, definition, edits, batch, first>>

Request(c) ==
  /\ child[c].pc = "request"
  /\ IF Refused(c)
     THEN /\ Report(c, IF Stale(c) /\ ~event THEN "failed" ELSE Cancelled)
          /\ Notice(c)
     ELSE child' = To(c, "answer") /\ UNCHANGED event
  /\ UNCHANGED <<task, past, definition, edits, batch, first>>

Answer(c) ==
  /\ child[c].pc = "answer"
  /\ \/ event /\ Report(c, Cancelled)
     \/ ~event /\ \E status \in {"completed", "awaiting_user", "failed"} : Report(c, status)
     \/ ~event /\ \E tool \in {"read", "write"} :
                    child' = To(c, IF tool = "write" /\ tool \in child[c].tools
                                   THEN "tool" ELSE "head")
  /\ UNCHANGED <<task, event, past, definition, edits, batch, first>>

(* A change passes the child's registry, the user and the last check that  *)
(* precedes the replacement of the file or the start of the process.       *)
Tool(c) ==
  /\ child[c].pc = "tool"
  /\ child' = To(c, IF child[c].readonly \/ Refused(c) THEN "head" ELSE "approve")
  /\ IF child[c].readonly THEN UNCHANGED event ELSE Notice(c)
  /\ UNCHANGED <<task, past, definition, edits, batch, first>>

Decide(c) ==
  /\ child[c].pc = "approve"
  /\ \E pc \in {"commit", "head"} :
       child' = [child EXCEPT ![c].pc = pc, ![c].old = Stale(c) \/ event]
  /\ UNCHANGED <<task, event, past, definition, edits, batch, first>>

Commit(c) ==
  /\ child[c].pc = "commit"
  /\ child' = To(c, IF Refused(c) THEN "head" ELSE "effect")
  /\ Notice(c)
  /\ UNCHANGED <<task, past, definition, edits, batch, first>>

Effect(c) ==
  /\ child[c].pc = "effect"
  /\ child' = [child EXCEPT ![c].pc = "head", ![c].writes = @ + 1,
                            ![c].late = IF Stale(c) \/ event THEN @ + 1 ELSE @]
  /\ UNCHANGED <<task, event, past, definition, edits, batch, first>>

ReportedAnyway(c) ==
  /\ child[c].pc = "report"
  /\ child' = End(c, child[c].status)
  /\ UNCHANGED <<task, event, past, definition, edits, batch, first>>

(* The report of a task that has changed since the call is a blocked one.  *)
Reported(c) ==
  /\ child[c].pc = "report"
  /\ child' = End(c, IF child[c].spawn # task.revision THEN "blocked"
                     ELSE child[c].status)
  /\ UNCHANGED <<task, event, past, definition, edits, batch, first>>

Step(c) ==
  \/ Dispatch(c) \/ Spawn(c) \/ Load(c) \/ Scope(c) \/ StepHead(c) \/ Request(c)
  \/ Answer(c) \/ Tool(c) \/ Decide(c) \/ Commit(c) \/ Effect(c) \/ Reported(c)

Next ==
  \/ Instruct \/ Stop \/ Deadline \/ EditDefinition \/ Join
  \/ \E c \in Calls : Step(c)

Spec == Init /\ [][Next]_vars

(***************************************************************************)
(* The batch is run in the order of its calls, with a child that can       *)
(* change files alone; a child of a read-only kind, or of a request to     *)
(* change nothing, changes nothing; once the task has changed or was       *)
(* stopped a child has at most the one effect it was about to have, none   *)
(* if the user was still being asked for it, and its report is not that of *)
(* completed work; the trace says how every child ended.                   *)
(***************************************************************************)
Running(c) == child[c].pc \notin {"queued", "ended"}

InOrder ==
  \A c \in Calls :
    /\ Running(c) => InGroup(c)
    /\ c < first => Ended(c)
    /\ \A e \in Calls \ {c} : Running(c) /\ Running(e) => Safe(c) /\ Safe(e)

SideEffects ==
  \A c \in Calls :
    /\ child[c].writes > 0 => ~child[c].readonly /\ ~Safe(c)
    /\ child[c].late <= 1
    /\ child[c].pc = "effect" => ~child[c].old
    /\ Ended(c) /\ child[c].status \in {"completed", "awaiting_user"} => child[c].late = 0

Traced ==
  \A c \in Calls :
    /\ Ended(c) => child[c].trace \in {"none", child[c].status}
    /\ Running(c) /\ child[c].identity # 0 => child[c].trace = "running"

SubagentSafe == InOrder /\ SideEffects /\ Traced

(* docs/features.md: a result of an older revision of the task is marked   *)
(* stale and cannot complete the new one: a completed report was made at   *)
(* the revision its child worked on.                                       *)
ReportsCurrent ==
  \A c \in Calls :
    /\ Running(c) /\ child'[c].pc = "ended"
    /\ child'[c].status \in {"completed", "awaiting_user"}
    => child[c].identity = task.revision
ReportsAreCurrent == [][ReportsCurrent]_vars
=============================================================================
