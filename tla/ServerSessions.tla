---------------------------- MODULE ServerSessions ----------------------------
(***************************************************************************)
(* One connection of the application server.                               *)
(*                                                                         *)
(*   pepsicode/server/app.py       ClientSession, PepsiCodeServer,         *)
(*                                 RemotePermissionBridge                  *)
(*   pepsicode/permissions.py      plan mode                               *)
(*   pepsicode/server/thinking.py  ThinkingStream                          *)
(*                                                                         *)
(* Actors: the loop that reads the socket and answers one request at a     *)
(* time; the background task of a turn; the worker thread it starts, whose *)
(* tools (Askers) may wait for permissions beside each other; the client;  *)
(* and the drain that a closed connection leaves behind.  A request that   *)
(* awaits is two actions, and everything else may happen in between.       *)
(* The queue of inputs is InputInbox; here only whom it belongs to.        *)
(***************************************************************************)
EXTENDS Naturals, FiniteSets

CONSTANTS
  Askers,       \* threads of the worker that may ask for a permission
  MaxSessions,  \* bound: sessions made or loaded
  MaxTurns,     \* bound: turns accepted
  MaxSettings,  \* bound: changes of model, provider or access mode
  MaxPlans,     \* bound: plans the client asks to be approved
  MaxAsks       \* bound: permissions asked for by one thread

BoundsAssumption ==
  /\ MaxSessions \in Nat \ {0} /\ MaxTurns \in Nat \ {0}
  /\ MaxSettings \in Nat /\ MaxPlans \in Nat /\ MaxAsks \in Nat

VARIABLES
  loop,       \* what the loop of the socket is doing
  connected,  \* the client is there; the server has not been stopped
  session,    \* session_data, 0 before the first
  made,       \* sessions made so far
  tools,      \* the registry of tools in use, 0 before the first
  disposed,   \* registries that were disposed of
  settings,   \* changes of model, provider and access mode so far
  plan,       \* the permissions are in plan mode
  stale,      \* they are not, and previous_mode is not their access mode
  plans,      \* plans the client has asked to be approved
  inbox,      \* the session the input queue is bound to
  accepting,  \* the queue accepts input
  turn,       \* where the background task of a turn is
  intended,   \* history: the session that was current when the turn was accepted
  turns,      \* turns accepted
  worker,     \* _worker_active
  failed,     \* the worker raised an exception
  cancelled,  \* _cancellation_event
  bridge,     \* the bridge: "unset", "set" as the permissions' approval, "closed"
  prompt,     \* the permission each thread asks for
  asked,      \* permissions asked for
  known,      \* threads whose present prompt the client has been shown
  thinking,   \* a block of thinking has been started for the client and not ended
  closing,    \* _closing
  drain       \* the task that cleans up after the connection

sessions == <<session, made, tools, disposed, inbox>>
prompts  == <<prompt, asked, known>>
modes    == <<plan, stale, plans>>
ending   == <<closing, drain, connected>>
vars == <<loop, sessions, settings, modes, accepting, turn, intended, turns, worker, failed,
          cancelled, bridge, prompts, thinking, ending>>

Held   == {"begun", "command", "working", "worked", "saving"}
Turns  == Held \cup {"none", "pending", "answering"}
Asking == {"none", "waiting", "late", "allow", "deny"}

Init ==
  /\ loop = "idle" /\ connected = TRUE
  /\ session = 0 /\ made = 0 /\ tools = 0 /\ disposed = {} /\ inbox = 0
  /\ settings = 0 /\ plan = FALSE /\ stale = FALSE /\ plans = 0 /\ accepting = FALSE
  /\ turn = "none" /\ intended = 0 /\ turns = 0
  /\ worker = FALSE /\ failed = FALSE /\ cancelled = FALSE
  /\ bridge = "unset" /\ prompt = [a \in Askers |-> "none"]
  /\ asked = [a \in Askers |-> 0] /\ known = {}
  /\ thinking = FALSE /\ closing = FALSE /\ drain = "none"

(* Mutant: requests look at the worker only.                                   *)
BusyWorker == worker

(* _turn_lock.locked(), and the guard most requests begin with.                *)
Locked == turn \in Held \/ loop = "branching"
Busy == Locked \/ worker

Request == loop = "idle" /\ connected /\ ~closing

--------------------------------------------------------------------------------
(* Sessions.                                                                   *)

(* initialize: the tools of the session before are disposed of, new services   *)
(* made for the workspace, permissions in no plan mode among them.             *)
Initialize ==
  /\ tools' = made + 1
  /\ disposed' = disposed \cup ({tools} \ {0})
  /\ UNCHANGED plans
NewModes == plan' = FALSE /\ stale' = FALSE

(* Another access mode: in plan mode it is the one to return to.               *)
Access == IF plan THEN UNCHANGED <<plan, stale>> ELSE plan' = FALSE /\ stale' \in BOOLEAN

(* bind_session refuses while the queue accepts for another session.           *)
Bindable == ~accepting \/ inbox = 0

Create ==
  /\ Request /\ ~Busy /\ made < MaxSessions
  /\ Initialize /\ NewModes /\ made' = made + 1 /\ session' = made + 1
  /\ \/ Bindable /\ inbox' = made + 1 /\ bridge' = "set"
     \/ ~Bindable /\ UNCHANGED inbox /\ bridge' = "unset"
  /\ UNCHANGED <<loop, settings, accepting, turn, intended, turns, worker, failed,
                 cancelled, prompts, thinking, ending>>

(* session/resume makes a session of its own first and binds the queue to it;  *)
(* the access mode and the plan mode of the session are restored.              *)
Restored == plan' \in BOOLEAN /\ stale' \in BOOLEAN /\ ~(plan' /\ stale')

Resume ==
  /\ Request /\ ~Busy /\ made + 1 < MaxSessions
  /\ Initialize
  /\ \/ /\ ~accepting /\ Restored
        /\ made' = made + 2 /\ session' = made + 2 /\ inbox' = made + 2 /\ bridge' = "set"
     \/ /\ accepting /\ inbox = 0 /\ Restored
        /\ made' = made + 2 /\ session' = made + 2 /\ inbox' = made + 1 /\ bridge' = "set"
     \/ /\ ~Bindable /\ NewModes
        /\ made' = made + 1 /\ session' = made + 1 /\ UNCHANGED inbox /\ bridge' = "unset"
  /\ UNCHANGED <<loop, settings, accepting, turn, intended, turns, worker, failed,
                 cancelled, prompts, thinking, ending>>

(* _change_branch: checkout stays in its session, fork and clone go on in a    *)
(* copy, to which the queue is bound last.                                     *)
Branched ==
  \/ UNCHANGED <<session, made, inbox>>
  \/ /\ made < MaxSessions
     /\ made' = made + 1 /\ session' = made + 1
     /\ inbox' = IF Bindable THEN made + 1 ELSE inbox

Branch ==
  /\ Request /\ ~Busy /\ turn = "none" /\ session # 0
  /\ Branched
  /\ loop' = "branching"
  /\ UNCHANGED <<tools, disposed, settings, modes, accepting, turn, intended, turns, worker, failed,
                 cancelled, bridge, prompts, thinking, ending>>

(* The access mode, the model and its provider change between turns.  A        *)
(* provider added to a session that ran on the mock model replaces its tools.  *)
Configure ==
  /\ Request /\ ~Busy /\ session # 0 /\ settings < MaxSettings
  /\ settings' = settings + 1
  /\ \/ Access /\ UNCHANGED <<made, tools, disposed>>
     \/ /\ made < MaxSessions /\ UNCHANGED <<plan, stale>>
        /\ made' = made + 1 /\ tools' = made + 1 /\ disposed' = disposed \cup {tools}
  /\ UNCHANGED <<loop, session, inbox, plans, accepting, turn, intended, turns, worker, failed,
                 cancelled, bridge, prompts, thinking, ending>>

(* plan/enter and plan/exit look at no turn.  plan/exit takes previous_mode    *)
(* for the mode in plan mode or not: outside of it, that brings back an access *)
(* mode from before the present one.                                           *)
PlanEnter ==
  /\ Request /\ session # 0 /\ ~plan
  /\ plan' = TRUE /\ stale' = FALSE
  /\ UNCHANGED <<loop, sessions, settings, plans, accepting, turn, intended, turns, worker, failed,
                 cancelled, bridge, prompts, thinking, ending>>
PlanExit ==
  /\ Request /\ session # 0
  /\ plan' = FALSE /\ stale' = FALSE
  /\ IF stale THEN settings < MaxSettings /\ settings' = settings + 1 ELSE UNCHANGED settings
  /\ UNCHANGED <<loop, sessions, plans, accepting, turn, intended, turns, worker, failed,
                 cancelled, bridge, prompts, thinking, ending>>

(* plan/approve asks the client on the loop itself, which then can neither     *)
(* send the question nor take an answer: it stands still until the time of the *)
(* prompt is over, and the plan is not approved.                               *)
PlanApprove ==
  /\ Request /\ session # 0 /\ plan /\ plans < MaxPlans
  /\ bridge = "set" /\ ~cancelled
  /\ plans' = plans + 1 /\ loop' = "planning"
  /\ UNCHANGED <<sessions, settings, plan, stale, accepting, turn, intended, turns, worker, failed,
                 cancelled, bridge, prompts, thinking, ending>>
PlanDone ==
  /\ loop = "planning" /\ loop' = "idle"
  /\ UNCHANGED <<sessions, settings, modes, accepting, turn, intended, turns, worker, failed,
                 cancelled, bridge, prompts, thinking, ending>>

BranchDone ==
  /\ loop = "branching" /\ loop' = "idle"
  /\ UNCHANGED <<sessions, settings, modes, accepting, turn, intended, turns, worker, failed,
                 cancelled, bridge, prompts, thinking, ending>>

--------------------------------------------------------------------------------
(* A turn.  Whatever it raises ends in the answer to its request.              *)

RunTurn ==
  /\ Request /\ turn = "none" /\ ~Locked /\ turns < MaxTurns
  /\ cancelled' = FALSE /\ accepting' = TRUE
  /\ turn' = "pending" /\ intended' = session /\ turns' = turns + 1
  /\ UNCHANGED <<loop, sessions, settings, modes, worker, failed, bridge, prompts, thinking, ending>>

(* _run_turn is left: the lock is free again and the queue closed.             *)
Leaves == turn' = "answering" /\ accepting' = FALSE

(* No session yet, a connection that closes, or a turn stopped before it began.*)
Declines ==
  /\ turn = "pending"
  /\ session = 0 \/ closing \/ cancelled \/ worker
  /\ Leaves
  /\ UNCHANGED <<loop, sessions, settings, modes, intended, turns, worker, failed, cancelled,
                 bridge, prompts, thinking, ending>>

Begin ==
  /\ turn = "pending" /\ session # 0 /\ ~closing /\ ~cancelled /\ ~worker
  /\ turn' = "begun"
  /\ UNCHANGED <<loop, sessions, settings, modes, accepting, intended, turns, worker, failed,
                 cancelled, bridge, prompts, thinking, ending>>

(* The input is a command: it changes the branch, a setting or the mode, or    *)
(* only runs.                                                                  *)
Command ==
  /\ turn = "begun" /\ turn' = "command"
  /\ \/ Branched /\ UNCHANGED <<settings, plan, stale>>
     \/ /\ settings < MaxSettings /\ settings' = settings + 1
        /\ Access
        /\ UNCHANGED <<session, made, inbox>>
     \/ plan' = TRUE /\ stale' = FALSE /\ UNCHANGED <<settings, session, made, inbox>>
  /\ UNCHANGED <<loop, plans, tools, disposed, accepting, intended, turns, worker, failed,
                 cancelled, bridge, prompts, thinking, ending>>

CommandDone ==
  /\ turn = "command" /\ Leaves
  /\ UNCHANGED <<loop, sessions, settings, modes, intended, turns, worker, failed, cancelled,
                 bridge, prompts, thinking, ending>>

Work ==
  /\ turn = "begun" /\ turn' = "working" /\ worker' = TRUE /\ failed' = FALSE
  /\ UNCHANGED <<loop, sessions, settings, modes, accepting, intended, turns, cancelled,
                 bridge, prompts, thinking, ending>>

(* consume: thinking tokens start a block; text, a tool or the end close it.   *)
Think ==
  /\ worker /\ \A a \in Askers : prompt[a] = "none"
  /\ thinking' = ~thinking
  /\ UNCHANGED <<loop, sessions, settings, modes, accepting, turn, intended, turns, worker, failed,
                 cancelled, bridge, prompts, ending>>

(* The worker is done or raises; it waits for the threads of its tools.        *)
WorkDone ==
  /\ worker /\ \A a \in Askers : prompt[a] = "none"
  /\ failed' \in BOOLEAN
  /\ thinking' = FALSE /\ worker' = FALSE
  /\ turn' = IF turn = "working" THEN "worked" ELSE turn
  /\ UNCHANGED <<loop, sessions, settings, modes, accepting, intended, turns, cancelled,
                 bridge, prompts, ending>>

(* The future reaches the loop.                                                *)
Worked ==
  /\ turn = "worked"
  /\ IF failed THEN Leaves ELSE turn' = "saving" /\ UNCHANGED accepting
  /\ UNCHANGED <<loop, sessions, settings, modes, intended, turns, worker, failed, cancelled,
                 bridge, prompts, thinking, ending>>

Saved ==
  /\ turn = "saving" /\ Leaves
  /\ UNCHANGED <<loop, sessions, settings, modes, intended, turns, worker, failed, cancelled,
                 bridge, prompts, thinking, ending>>

Answered ==
  /\ turn = "answering" /\ turn' = "none"
  /\ UNCHANGED <<loop, sessions, settings, modes, accepting, intended, turns, worker, failed,
                 cancelled, bridge, prompts, thinking, ending>>

--------------------------------------------------------------------------------
(* Permissions over the wire.                                                  *)

(* Mutant: a prompt looks at the event before it takes the lock.               *)
NeverRefusing == FALSE

(* A prompt is refused at once when the turn is stopped or the bridge closed.  *)
Refusing == bridge = "closed" \/ cancelled

(* Tools whose permissions were never given the bridge ask nobody.             *)
Ask(a) ==
  /\ worker /\ bridge # "unset" /\ prompt[a] = "none" /\ asked[a] < MaxAsks
  /\ asked' = [asked EXCEPT ![a] = @ + 1]
  /\ prompt' = [prompt EXCEPT ![a] = IF Refusing THEN "deny" ELSE "waiting"]
  /\ known' = known \ {a}
  /\ thinking' = FALSE
  /\ UNCHANGED <<loop, sessions, settings, modes, accepting, turn, intended, turns, worker, failed,
                 cancelled, bridge, ending>>

(* The scheduled event reaches the client.                                     *)
Show(a) ==
  /\ prompt[a] \in {"waiting", "late"} /\ connected /\ a \notin known /\ loop # "planning"
  /\ known' = known \cup {a}
  /\ UNCHANGED <<loop, sessions, settings, modes, accepting, turn, intended, turns, worker, failed,
                 cancelled, bridge, prompt, asked, thinking, ending>>

(* resolve: an answer that comes while the timeout is being raised is taken    *)
(* for one in time, and not used.                                              *)
Approve(a) ==
  /\ loop = "idle" /\ connected /\ a \in known
  /\ \E d \in {"allow", "deny"} :
       prompt' = IF prompt[a] = "waiting" THEN [prompt EXCEPT ![a] = d] ELSE prompt
  /\ known' = known \ {a}
  /\ UNCHANGED <<loop, sessions, settings, modes, accepting, turn, intended, turns, worker, failed,
                 cancelled, bridge, asked, thinking, ending>>

Timeout(a) ==
  /\ prompt[a] = "waiting"
  /\ prompt' = [prompt EXCEPT ![a] = "late"]
  /\ UNCHANGED <<loop, sessions, settings, modes, accepting, turn, intended, turns, worker, failed,
                 cancelled, bridge, asked, known, thinking, ending>>

(* A plan that is approved in time ends plan mode.                             *)
Use(a) ==
  /\ prompt[a] \in {"late", "allow", "deny"}
  /\ prompt' = [prompt EXCEPT ![a] = "none"]
  /\ \/ UNCHANGED plan
     \/ prompt[a] = "allow" /\ plan' = FALSE
  /\ UNCHANGED <<loop, sessions, settings, stale, plans, accepting, turn, intended, turns, worker, failed,
                 cancelled, bridge, asked, known, thinking, ending>>

(* cancel_pending answers every prompt that waits.                             *)
Pending == [a \in Askers |-> IF prompt[a] = "waiting" THEN "deny" ELSE prompt[a]]

(* turn/cancel: first the event, then what waits.                              *)
Cancel ==
  /\ Request /\ turn # "none"
  /\ cancelled' = TRUE /\ loop' = "cancelling"
  /\ UNCHANGED <<sessions, settings, modes, accepting, turn, intended, turns, worker, failed,
                 bridge, prompts, thinking, ending>>

CancelPending ==
  /\ loop = "cancelling" /\ loop' = "idle"
  /\ prompt' = Pending
  /\ UNCHANGED <<sessions, settings, modes, accepting, turn, intended, turns, worker, failed,
                 cancelled, bridge, asked, known, thinking, ending>>

--------------------------------------------------------------------------------
(* The end of a connection.                                                    *)

(* The client leaves, or the server stops.                                     *)
Disconnect ==
  /\ connected /\ connected' = FALSE
  /\ UNCHANGED <<loop, sessions, settings, modes, accepting, turn, intended, turns, worker, failed,
                 cancelled, bridge, prompts, thinking, closing, drain>>

(* _close_session.                                                             *)
Close ==
  /\ ~connected /\ loop = "idle" /\ drain = "none"
  /\ closing' = TRUE /\ cancelled' = TRUE
  /\ bridge' = "closed" /\ prompt' = Pending
  /\ drain' = "waiting"
  /\ UNCHANGED <<loop, sessions, settings, modes, accepting, turn, intended, turns, worker, failed,
                 asked, known, thinking, connected>>

(* The server gave the connection five seconds; asyncio.run then cancels every *)
(* task.  A thread cannot be cancelled.                                        *)
CancelTasks ==
  /\ drain = "waiting" /\ turn # "none"
  /\ turn' = "none" /\ accepting' = IF turn = "pending" THEN accepting ELSE FALSE
  /\ UNCHANGED <<loop, sessions, settings, modes, intended, turns, worker, failed, cancelled,
                 bridge, prompts, thinking, ending>>

(* drain: the background tasks are over, and the worker has left.              *)
Idle == turn = "none" /\ ~worker

Dispose ==
  /\ drain = "waiting" /\ Idle
  /\ disposed' = disposed \cup ({tools} \ {0})
  /\ drain' = "done"
  /\ UNCHANGED <<loop, session, made, tools, inbox, settings, modes, accepting, turn, intended, turns,
                 worker, failed, cancelled, bridge, prompts, thinking, closing, connected>>

--------------------------------------------------------------------------------
Requests == \/ Create \/ Resume \/ Branch \/ Configure \/ RunTurn \/ Cancel
            \/ PlanEnter \/ PlanExit \/ PlanApprove
Worker == WorkDone \/ \E a \in Askers : Timeout(a) \/ Use(a)
(* The task of a turn runs on the loop, unless that stands still.              *)
Task == /\ loop # "planning"
        /\ \/ Declines \/ Begin \/ Command \/ CommandDone \/ Work \/ Worked \/ Saved
           \/ Answered
Loop == BranchDone \/ CancelPending \/ PlanDone \/ Close

Next ==
  \/ Requests \/ Task \/ Loop \/ Worker \/ Think
  \/ \E a \in Askers : Ask(a) \/ Show(a) \/ Approve(a)
  \/ Disconnect \/ CancelTasks \/ Dispose

Spec == Init /\ [][Next]_vars

(* The loop runs its tasks, the worker comes to an end, a prompt that nobody   *)
(* answers times out, one of the loop too, and a connection that was lost is   *)
(* noticed.                                                                    *)
Fairness ==
  /\ WF_vars(Task) /\ WF_vars(Loop) /\ WF_vars(Dispose)
  /\ WF_vars(WorkDone)
  /\ \A a \in Askers : WF_vars(Timeout(a)) /\ WF_vars(Use(a))

FairSpec == Spec /\ Fairness

--------------------------------------------------------------------------------
TypeOK ==
  /\ loop \in {"idle", "branching", "cancelling", "planning"} /\ connected \in BOOLEAN
  /\ session \in 0..MaxSessions /\ made \in 0..MaxSessions /\ tools \in 0..MaxSessions
  /\ disposed \subseteq 1..MaxSessions /\ inbox \in 0..MaxSessions
  /\ settings \in 0..MaxSettings /\ accepting \in BOOLEAN
  /\ plan \in BOOLEAN /\ stale \in BOOLEAN /\ plans \in 0..MaxPlans
  /\ turn \in Turns /\ intended \in 0..MaxSessions /\ turns \in 0..MaxTurns
  /\ worker \in BOOLEAN /\ failed \in BOOLEAN /\ cancelled \in BOOLEAN
  /\ bridge \in {"unset", "set", "closed"}
  /\ prompt \in [Askers -> Asking] /\ asked \in [Askers -> 0..MaxAsks]
  /\ known \subseteq Askers /\ thinking \in BOOLEAN
  /\ closing \in BOOLEAN /\ drain \in {"none", "waiting", "done"}

(* Once a turn has been stopped, or its connection closed, no thread of its    *)
(* worker waits for the user: a prompt made at that moment either sees the     *)
(* event or is among those cancel_pending answers.                             *)
StopReachesPrompts ==
  cancelled /\ loop # "cancelling" => \A a \in Askers : prompt[a] # "waiting"

(* A worker never works with tools that were disposed of, not even one whose   *)
(* turn was cancelled with the server.                                         *)
ToolsLive == worker => tools \notin disposed

(* The client sees no block of thinking that outlives the worker or stands     *)
(* beside a question to the user.                                              *)
ThinkingEnds ==
  thinking => worker /\ \A a \in Askers : prompt[a] = "none"

ServerSafe == TypeOK /\ StopReachesPrompts /\ ToolsLive /\ ThinkingEnds

(* While a turn holds the lock or a worker runs, nothing but the command that  *)
(* is the turn changes the session, the tools, the queue, the model or its     *)
(* provider under it.  The mode of the permissions is not protected so: the    *)
(* plan requests change it under a turn, and of the access mode this says that *)
(* only plan/exit outside of plan mode does.                                   *)
Undisturbed ==
  (turn \in Held /\ ~(turn = "begun" /\ turn' = "command")) \/ worker =>
    /\ UNCHANGED <<session, tools, inbox>>
    /\ UNCHANGED settings \/ (stale /\ ~stale' /\ ~plan')
TurnUndisturbed == [][Undisturbed]_vars

TurnRuns == turn # "none"
Lost == ~connected
Drained == drain = "done"

(* Every accepted turn is answered, stopped or not, and a lost connection      *)
(* gives its resources back.                                                   *)
TurnsAndConnectionsEnd ==
  /\ TurnRuns ~> ~TurnRuns
  /\ Lost ~> Drained

(* /fork and /clone in a turn go on in the copy with everything the connection *)
(* has, its queue of inputs included.                                          *)
ForkTakesQueue ==
  turn = "command" => inbox = session
===============================================================================
