------------------------------- MODULE InputInbox -------------------------------
(***************************************************************************)
(* Input that reaches a task while it runs.                                *)
(*                                                                         *)
(*   pepsicode/core/input_queue.py   TurnInputQueue                        *)
(*   pepsicode/core/agent_loop.py    append_queued_inputs, the step loop   *)
(*   pepsicode/core/verification.py  run_verified_turn                     *)
(*   pepsicode/server/app.py         turn/run, turn/enqueue, turn/dequeue, *)
(*                                   turn/cancel, session/resume           *)
(*                                                                         *)
(* Actors: the client, whose requests the server's event loop handles one  *)
(* at a time; the worker thread of the running turn; the disk, where every *)
(* mutation of the queue is saved before it is acknowledged and where a    *)
(* save may fail; and a process that may die between any two steps.        *)
(*                                                                         *)
(* A list of inputs with distinct identities is modelled by the set of its *)
(* members, ordered by seat: _pending is queue.pending in order of seat.   *)
(***************************************************************************)
EXTENDS Naturals, FiniteSets

CONSTANTS
  Inputs,           \* the inputs users may send during a turn
  Steer,            \* those sent as "steer"; the others are "follow_up"
  MaxPending,       \* MAX_PENDING_INPUTS
  MaxSteps,         \* max_steps of the agent loop
  CloseAttempts,    \* how often the callers of a turn try to close its queue
  MaxSaveFailures,  \* bound: saves that fail
  MaxReopens        \* bound: times the process dies or the session is reopened

ASSUME SteerAssumption == Steer \subseteq Inputs
ASSUME BoundsAssumption ==
  /\ MaxPending \in Nat /\ MaxSteps \in Nat
  /\ CloseAttempts \in Nat \ {0}
  /\ MaxSaveFailures \in Nat /\ MaxReopens \in Nat

VARIABLES
  queue,      \* the queue in memory: _pending, _claimed, _returned
  accepting,  \* _accepting
  listening,  \* _listener is not None
  notified,   \* _returned_notified
  inbox,      \* session.task_control["inbox"] in the session file
  delivered,  \* inputs that are messages of the session file
  seat,       \* place of an input in the order of _pending
  last,       \* the highest seat given so far
  pc,         \* where the worker of the turn is; "idle" when there is no turn
  back,       \* where it goes on after a delivery
  taken,      \* the inputs it took from the queue and has not yet acknowledged
  steps,      \* steps of the agent loop since the task began
  cancelled,  \* the cancellation event of the turn
  closes,     \* attempts to close the queue at the end of the turn
  failures,   \* saves that failed
  reopens,    \* times the session was reopened
  stamp,      \* history: when an input was accepted, 0 if it was not
  echoed      \* history: times the listener was told that an input is returned

durable == <<inbox, delivered>>
order   == <<seat, last, stamp>>
turn    == <<pc, back, taken, steps, cancelled, closes>>
told    == <<listening, notified, echoed>>
vars == <<queue, accepting, told, durable, order, turn, failures, reopens>>

Queues == [pending : SUBSET Inputs, claimed : SUBSET Inputs, returned : SUBSET Inputs]
Empty  == [pending |-> {}, claimed |-> {}, returned |-> {}]

Init ==
  /\ queue = Empty /\ inbox = Empty
  /\ accepting = FALSE /\ listening = FALSE /\ cancelled = FALSE
  /\ notified = {} /\ delivered = {} /\ taken = {}
  /\ seat = [i \in Inputs |-> 0] /\ stamp = [i \in Inputs |-> 0] /\ last = 0
  /\ echoed = [i \in Inputs |-> 0]
  /\ pc = "idle" /\ back = "idle" /\ steps = 0 /\ closes = 0
  /\ failures = 0 /\ reopens = 0

--------------------------------------------------------------------------------
(* Every mutation ends in _persist: one save of the whole session.  When it    *)
(* fails, _mutation and edit_control put the lists and the session back.       *)

Persist(q) ==
  /\ queue' = q /\ inbox' = q
  /\ UNCHANGED failures

SaveFails ==
  /\ failures < MaxSaveFailures
  /\ failures' = failures + 1
  /\ UNCHANGED <<queue, inbox, accepting, told, order>>

(* _publish tells the listener, once per binding, what went back to the user.  *)
Announce(S) ==
  /\ notified' = notified \cup S
  /\ echoed' = IF listening'
                 THEN [i \in Inputs |-> IF i \in S \ notified THEN echoed[i] + 1 ELSE echoed[i]]
                 ELSE echoed

(* Mutant: pop() for pop(0).                                                   *)
Latest == {i \in queue.pending : \A j \in queue.pending : seat[j] <= seat[i]}

Steering == queue.pending \cap Steer
Earliest == {i \in queue.pending : \A j \in queue.pending : seat[i] <= seat[j]}

(* Mutants: a claim that is not recorded; a list appended where it should      *)
(* extend; an input that stays pending.                                        *)
ClaimUnrecorded(S) == Persist([queue EXCEPT !.pending = @ \ S])
GiveBackNested(S) == Persist([queue EXCEPT !.pending = @ \ S, !.returned = @ \cup {S}])
GiveBackCopy(S) == Persist([queue EXCEPT !.returned = @ \cup S])

Claim(S) == Persist([queue EXCEPT !.pending = @ \ S, !.claimed = @ \cup S])
GiveBack(S) == Persist([queue EXCEPT !.pending = @ \ S, !.returned = @ \cup S])

--------------------------------------------------------------------------------
(* The client's requests.                                                      *)

(* turn/run: start() publishes the queue, then echoes what earlier turns       *)
(* returned.  The event of the previous turn is cleared first.                 *)
StartTurn ==
  /\ pc = "idle" /\ ~accepting
  /\ Persist(queue)
  /\ accepting' = TRUE /\ listening' = TRUE /\ cancelled' = FALSE
  /\ Announce(queue.returned)
  /\ pc' = "begin" /\ steps' = 0 /\ closes' = 0
  /\ UNCHANGED <<delivered, order, back, taken, reopens>>

(* Either publication may fail to save; the first may have reached the disk.   *)
StartTurnFails ==
  /\ pc = "idle" /\ ~accepting
  /\ failures < MaxSaveFailures /\ failures' = failures + 1
  /\ inbox' \in {inbox, queue}
  /\ cancelled' = FALSE
  /\ UNCHANGED <<queue, accepting, told, delivered, order, pc, back, taken, steps, closes, reopens>>

Admissible(i) ==
  /\ accepting /\ ~cancelled
  /\ stamp[i] = 0
  /\ Cardinality(queue.pending) < MaxPending

Enqueue(i) ==
  /\ Admissible(i)
  /\ last' = last + 1
  /\ seat' = [seat EXCEPT ![i] = last'] /\ stamp' = [stamp EXCEPT ![i] = last']
  /\ Persist([queue EXCEPT !.pending = @ \cup {i}])
  /\ UNCHANGED <<accepting, told, delivered, turn, reopens>>

EnqueueFails(i) ==
  /\ Admissible(i)
  /\ SaveFails
  /\ UNCHANGED <<delivered, turn, reopens>>

(* Mutants: the client is not told; the input is dropped, not returned.        *)
RemoveSilently(i) ==
  /\ i \in queue.pending
  /\ GiveBack({i})
  /\ UNCHANGED <<told, accepting, delivered, order, turn, reopens>>

RemoveForgets(i) ==
  /\ i \in queue.pending
  /\ Persist([queue EXCEPT !.pending = @ \ {i}])
  /\ UNCHANGED <<told, accepting, delivered, order, turn, reopens>>

(* turn/dequeue needs no turn: the client also lists what a reopened session   *)
(* holds (pending_inputs of session/resume).                                   *)
Remove(i) ==
  /\ i \in queue.pending
  /\ GiveBack({i})
  /\ UNCHANGED listening
  /\ Announce({i})
  /\ UNCHANGED <<accepting, delivered, order, turn, reopens>>

RemoveFails(i) ==
  /\ i \in queue.pending
  /\ SaveFails
  /\ UNCHANGED <<delivered, turn, reopens>>

(* turn/cancel only sets the event: the worker looks at it when it next checks. *)
Cancel ==
  /\ pc # "idle" /\ ~cancelled
  /\ cancelled' = TRUE
  /\ UNCHANGED <<queue, accepting, told, durable, order, pc, back, taken, steps, closes,
                 failures, reopens>>

--------------------------------------------------------------------------------
(* The worker of the turn.                                                     *)

Goto(l) == pc' = l /\ UNCHANGED <<back, taken, steps, cancelled, closes>>
Quiet == UNCHANGED <<queue, accepting, told, durable, order, failures, reopens>>

(* The head of the step loop; a cancelled turn takes no more steering.         *)
BeginStep ==
  /\ pc = "begin"
  /\ IF steps < MaxSteps /\ ~cancelled
       THEN pc' = "steer" /\ steps' = steps + 1 /\ back' = "model"
       ELSE pc' = "close" /\ UNCHANGED <<steps, back>>
  /\ UNCHANGED <<taken, cancelled, closes>>
  /\ Quiet

(* The model asks for tools, or answers, or the turn stops: an error, a        *)
(* question to the user, a cancellation.                                       *)
Model ==
  /\ pc = "model"
  /\ Quiet
  /\ \E l \in {"begin", "final", "close"} : Goto(l)

FinalAnswer ==
  /\ pc = "final"
  /\ IF cancelled THEN pc' = "verify" /\ back' = back ELSE pc' = "steer" /\ back' = "begin"
  /\ UNCHANGED <<taken, steps, cancelled, closes>>
  /\ Quiet

(* take_steering: without steering nothing is saved.                           *)
TakeSteering ==
  /\ pc = "steer"
  /\ \/ /\ Steering # {}
        /\ Claim(Steering)
        /\ taken' = Steering /\ pc' = "admit"
        /\ UNCHANGED <<back, steps, cancelled, closes, accepting, told, delivered, order, reopens>>
     \/ /\ Steering = {}
        /\ Goto(IF back = "model" THEN "model" ELSE "verify")
        /\ Quiet

TakeSteeringFails ==
  /\ pc = "steer" /\ Steering # {}
  /\ SaveFails
  /\ Goto("close")
  /\ UNCHANGED <<delivered, reopens>>

(* Verification passes, asks for another iteration, or ends the turn.  The     *)
(* event is read here and not again before next_or_close.                      *)
Verify ==
  /\ pc = "verify"
  /\ Quiet
  /\ \E l \in (IF cancelled THEN {"close"} ELSE {"settle", "begin", "close"}) : Goto(l)

(* Mutant: the oldest input is next, whatever its kind.                        *)
NextInLine ==
  /\ pc = "settle"
  /\ LET next == Earliest
     IN /\ Claim(next)
        /\ taken' = next
        /\ accepting' = (accepting /\ next # {})
        /\ pc' = IF next = {} THEN "close" ELSE "admit"
  /\ back' = "begin" /\ steps' = 0
  /\ UNCHANGED <<told, delivered, order, cancelled, closes, reopens>>

(* next_or_close: all steering, else the first follow-up, else the queue stops *)
(* accepting, in one critical section with the save.                           *)
NextOrClose ==
  /\ pc = "settle"
  /\ LET next == IF Steering # {} THEN Steering ELSE Earliest
     IN /\ Claim(next)
        /\ taken' = next
        /\ accepting' = (accepting /\ next # {})
        /\ pc' = IF next = {} THEN "close" ELSE "admit"
  /\ back' = "begin" /\ steps' = 0
  /\ UNCHANGED <<told, delivered, order, cancelled, closes, reopens>>

NextOrCloseFails ==
  /\ pc = "settle"
  /\ SaveFails
  /\ Goto("close")
  /\ UNCHANGED <<delivered, reopens>>

(* admit_steering saves the messages and the intent of the task in one commit. *)
Admit ==
  /\ pc = "admit"
  /\ delivered' = delivered \cup taken
  /\ pc' = "ack"
  /\ UNCHANGED <<queue, accepting, told, inbox, order, back, taken, steps, cancelled, closes,
                 failures, reopens>>

AdmitFails ==
  /\ pc = "admit"
  /\ SaveFails
  /\ pc' = "close" /\ taken' = {}
  /\ UNCHANGED <<delivered, back, steps, cancelled, closes, reopens>>

Acknowledge ==
  /\ pc = "ack"
  /\ Persist([queue EXCEPT !.claimed = @ \ taken])
  /\ pc' = back /\ taken' = {}
  /\ UNCHANGED <<accepting, told, delivered, order, back, steps, cancelled, closes, reopens>>

AcknowledgeFails ==
  /\ pc = "ack"
  /\ SaveFails
  /\ pc' = "close" /\ taken' = {}
  /\ UNCHANGED <<delivered, back, steps, cancelled, closes, reopens>>

(* Mutant: an empty queue is left as it is, accepting.                         *)
CloseUnlessEmpty ==
  /\ pc = "close"
  /\ IF queue.pending # {}
       THEN /\ GiveBack(queue.pending)
            /\ UNCHANGED listening
            /\ Announce(queue.pending)
            /\ accepting' = FALSE
       ELSE UNCHANGED <<queue, inbox, told, failures, accepting>>
  /\ pc' = "idle"
  /\ UNCHANGED <<delivered, order, back, taken, steps, cancelled, closes, reopens>>

(* close() in the finally of run_verified_turn; it does nothing when the queue *)
(* is closed and empty.                                                        *)
Close ==
  /\ pc = "close"
  /\ IF accepting \/ queue.pending # {}
       THEN /\ GiveBack(queue.pending)
            /\ UNCHANGED listening
            /\ Announce(queue.pending)
       ELSE UNCHANGED <<queue, inbox, told, failures>>
  /\ accepting' = FALSE
  /\ pc' = "idle"
  /\ UNCHANGED <<delivered, order, back, taken, steps, cancelled, closes, reopens>>

(* The caller of the turn closes again when that raised; then it gives up.     *)
CloseFails ==
  /\ pc = "close"
  /\ accepting \/ queue.pending # {}
  /\ SaveFails
  /\ closes' = closes + 1
  /\ pc' = IF closes' = CloseAttempts THEN "idle" ELSE "close"
  /\ UNCHANGED <<delivered, back, taken, steps, cancelled, reopens>>

--------------------------------------------------------------------------------
(* Reopening the session: bind_session on what the session file holds.  What   *)
(* was claimed and is not among the messages goes behind what was pending.     *)

(* Mutants: every claim is queued again; none is.                              *)
AllClaimed == inbox.claimed
NoneClaimed == {}

Unadmitted == inbox.claimed \ delivered

Overtaken == \E i \in Unadmitted, j \in inbox.pending : seat[i] < seat[j]

Bind ==
  /\ queue' = [pending |-> inbox.pending \cup Unadmitted, claimed |-> {},
               returned |-> inbox.returned]
  /\ seat' = [i \in Inputs |-> IF Overtaken /\ i \in Unadmitted THEN seat[i] + last ELSE seat[i]]
  /\ last' = IF Overtaken THEN last + last ELSE last
  /\ notified' = {} /\ echoed' = [i \in Inputs |-> 0]
  /\ accepting' = FALSE
  /\ pc' = "idle" /\ taken' = {} /\ steps' = 0 /\ closes' = 0 /\ back' = "idle" /\ cancelled' = FALSE
  /\ UNCHANGED <<durable, stamp, failures>>

(* The process dies at any point; a new one resumes the session.               *)
Crash ==
  /\ reopens < MaxReopens
  /\ reopens' = reopens + 1
  /\ Bind /\ listening' = FALSE

(* session/resume on the same connection, whose listener stays.                *)
Resume ==
  /\ pc = "idle" /\ ~accepting
  /\ reopens < MaxReopens
  /\ reopens' = reopens + 1
  /\ Bind /\ UNCHANGED listening

(* A queue that is still accepting refuses start(); the error ends the         *)
(* connection, and a new one resumes the session.                              *)
Reconnect ==
  /\ pc = "idle" /\ accepting
  /\ Bind /\ listening' = FALSE
  /\ UNCHANGED reopens

Client ==
  \/ StartTurn \/ StartTurnFails \/ Cancel \/ Resume \/ Reconnect
  \/ \E i \in Inputs : Enqueue(i) \/ EnqueueFails(i) \/ Remove(i) \/ RemoveFails(i)

Worker ==
  \/ BeginStep \/ Model \/ FinalAnswer \/ TakeSteering \/ TakeSteeringFails
  \/ Verify \/ NextOrClose \/ NextOrCloseFails
  \/ Admit \/ AdmitFails \/ Acknowledge \/ AcknowledgeFails
  \/ Close \/ CloseFails

Next == Client \/ Worker \/ Crash

Spec == Init /\ [][Next]_vars

(* The worker is a thread the operating system schedules, and each of its      *)
(* calls is bounded (timeouts, max_steps): it is never stopped for ever.  No    *)
(* fairness is assumed of the client.                                          *)
FairSpec == Spec /\ WF_vars(Worker)

--------------------------------------------------------------------------------
(* Properties.                                                                 *)

PCs == {"idle", "begin", "steer", "model", "final", "verify", "settle", "admit", "ack", "close"}

(* Type invariant of the queue, the session file and the worker. *)
TypeOK ==
  /\ queue \in Queues /\ inbox \in Queues
  /\ accepting \in BOOLEAN /\ listening \in BOOLEAN /\ cancelled \in BOOLEAN
  /\ notified \subseteq Inputs /\ delivered \subseteq Inputs /\ taken \subseteq Inputs
  /\ seat \in [Inputs -> Nat] /\ stamp \in [Inputs -> Nat] /\ last \in Nat
  /\ echoed \in [Inputs -> Nat]
  /\ pc \in PCs /\ back \in {"idle", "begin", "model"}
  /\ steps \in Nat /\ closes \in Nat /\ failures \in Nat /\ reopens \in Nat

Accepted == {i \in Inputs : stamp[i] > 0}

(* Whatever the process was doing when it died, an input whose acceptance was
   acknowledged is in the session file: still in its inbox, or a message.  *)
AcceptedIsDurable ==
  Accepted \subseteq inbox.pending \cup inbox.claimed \cup inbox.returned \cup delivered

(* An input reaches the conversation at most once, whatever crashes lie between
   its claim, its admission and the acknowledgement.  *)
DeliveredOnce == pc = "admit" => taken \cap delivered = {}

(* An input handed back to the user as a draft is not executed as well, and no
   input is queued or held by the worker twice; bind_session refuses a session
   whose inbox lists an input as pending and as claimed.  *)
OneplaceOf(q) ==
  /\ q.pending \cap q.claimed = {}
  /\ q.pending \cap q.returned = {}
  /\ q.claimed \cap q.returned = {}
  /\ delivered \cap (q.pending \cup q.returned) = {}

OnePlace == OneplaceOf(queue) /\ OneplaceOf(inbox)

(* Rollback is exact: from the start of a turn to its end the lists in memory
   are the lists in the session file, however many saves failed.  *)
MemoryIsSaved == pc # "idle" => queue = inbox

HeldOnce == DeliveredOnce /\ OnePlace /\ MemoryIsSaved

(* When the worker exits, the queue is closed and empty and every input it took
   has been delivered: no accepted input is left without a settlement.  *)
NoneStranded ==
  [][pc # "idle" /\ pc' = "idle" /\ reopens' = reopens
       => ~accepting' /\ Accepted \subseteq delivered' \cup queue'.returned]_vars

(* Inputs of one kind are delivered in the order in which they were accepted.  *)
InOrder(kind) ==
  \A i \in (delivered' \ delivered) \cap kind, j \in Accepted \cap kind :
    stamp[j] < stamp[i] => j \in delivered' \cup queue.returned

KindsInOrder == [][InOrder(Steer) /\ InOrder(Inputs \ Steer)]_vars

(* Steering belongs to the current task: no follow-up is taken while accepted
   steering waits, so a follow-up task never starts with a stale instruction.  *)
SteeringFirst ==
  [][(taken' \ taken) \ Steer # {} => Steering = {}]_vars

(* The client is told once, and not again, that an input went back to it.  *)
EchoedOnce == \A i \in Inputs : echoed[i] <= 1

(* While a turn runs, the client has been told of every returned input: none is
   missing from its draft.  *)
ReturnedIsEchoed == pc # "idle" => \A i \in queue.returned : echoed[i] > 0

ClientIsTold == EchoedOnce /\ ReturnedIsEchoed

(* A turn ends and closes its queue, and every input accepted is settled.  *)
TurnEnds == pc # "idle" ~> (pc = "idle" /\ ~accepting)
Settled == \A i \in Inputs : stamp[i] > 0 ~> (i \in delivered \cup queue.returned)
Settles == TurnEnds /\ Settled

(* The queue keeps the promise of InputLedger, read off the session file.  *)
LedgerStatus ==
  [i \in Inputs |-> IF i \in delivered THEN "delivered"
                    ELSE IF i \in inbox.returned THEN "returned"
                    ELSE IF i \in inbox.pending \cup inbox.claimed THEN "held"
                    ELSE "new"]

Ledger == INSTANCE InputLedger WITH status <- LedgerStatus

KeepsLedger == Ledger!LedgerSpec
================================================================================
