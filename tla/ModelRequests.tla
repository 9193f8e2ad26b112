----------------------------- MODULE ModelRequests -----------------------------
(***************************************************************************)
(* Requests of a task and its sub-agents to the provider, and the budget   *)
(* they share.                                                             *)
(*                                                                         *)
(*   pepsicode/execution/runtime.py         RequestBudget, scoped_turn     *)
(*   pepsicode/execution/model_requests.py  recorded_request,              *)
(*                                          recorded_stream                *)
(*   pepsicode/llm/anthropic_adapter.py     next, next_stream, _send,      *)
(*                                          _stream_attempt                *)
(*   pepsicode/llm/cost_tracker.py          add_usage                      *)
(*                                                                         *)
(* Actors: the thread of the task and one for each sub-agent that it runs  *)
(* and waits for; the provider, whose answers, statuses and connections    *)
(* may be any; the user, who stops the turn.  Money is a small number: a   *)
(* request is projected to cost Projected and costs up to MaxCost.         *)
(***************************************************************************)
EXTENDS Naturals, FiniteSets

CONSTANTS
  Main,         \* the scope of the task
  Children,     \* those of its sub-agents
  Limits,       \* price limits to choose from; 0 is none
  Projected,    \* what a request is projected to cost
  MaxCost,      \* what it costs at most
  Retries,      \* PEPSI_CODE_MAX_RETRIES
  MaxRequests,  \* modelRequestLimit
  ChildLimit,   \* subagentRequestLimit
  HasFallback,  \* fallbackModel is configured and another model
  MaxAsks,      \* bound: steps of the agent loops
  MaxTurns      \* bound: turns

AmountsAssumption ==
  /\ Limits \subseteq Nat /\ Projected \in Nat /\ MaxCost \in Nat /\ Projected <= MaxCost
  /\ Retries \in Nat /\ MaxRequests \in Nat \ {0} /\ ChildLimit \in Nat \ {0}
  /\ MaxAsks \in Nat /\ MaxTurns \in Nat \ {0}

Scopes == {Main} \cup Children
Nobody == "nobody"

ScopesAssumption == Main \notin Children /\ Nobody \notin Scopes /\ HasFallback \in BOOLEAN

VARIABLES
  limit,      \* budgetLimitUsd; 0 for none
  spent,      \* tracker.total_cost_usd
  unmetered,  \* budget.unmetered
  requests,   \* budget.requests
  own,        \* scope.requests of each sub-agent
  holder,     \* who holds the lock of the budget
  cancelled,  \* cancellation_event is set
  pc,         \* where each scope's request is
  kind,       \* next or next_stream
  attempt,
  onFallback, \* next() has turned to the fallback model
  started,    \* _stream_started: a part of the answer was passed on
  asks, turns,
  billed      \* history: what all requests of the process cost

budget  == <<spent, unmetered, requests, own, holder>>
sending == <<pc, kind, attempt, onFallback, started>>
bounds  == <<asks, turns>>
vars == <<limit, budget, cancelled, sending, bounds, billed>>

Priced == limit # 0

Init ==
  /\ limit \in Limits /\ spent = 0 /\ unmetered = FALSE /\ requests = 0
  /\ own = [c \in Children |-> 0] /\ holder = Nobody /\ cancelled = FALSE
  /\ pc = [s \in Scopes |-> "idle"] /\ kind = [s \in Scopes |-> "next"]
  /\ attempt = [s \in Scopes |-> 0]
  /\ onFallback = [s \in Scopes |-> FALSE] /\ started = [s \in Scopes |-> FALSE]
  /\ asks = 0 /\ turns = 1 /\ billed = 0

--------------------------------------------------------------------------------
(* A step of a loop asks the model.  The task waits for its sub-agents, whose  *)
(* loops do not stream.                                                        *)
Ask(s) ==
  /\ pc[s] = "idle" /\ asks < MaxAsks /\ asks' = asks + 1
  /\ IF s = Main THEN \A c \in Children : pc[c] = "idle" ELSE pc[Main] = "idle"
  /\ \E k \in IF s = Main THEN {"next", "stream"} ELSE {"next"} :
       kind' = [kind EXCEPT ![s] = k]
  /\ pc' = [pc EXCEPT ![s] = "gate"]
  /\ UNCHANGED <<limit, budget, cancelled, attempt, onFallback, started, turns, billed>>

(* The request is over; the next one starts anew.                              *)
Done(s) ==
  /\ pc' = [pc EXCEPT ![s] = "idle"] /\ kind' = [kind EXCEPT ![s] = "next"]
  /\ attempt' = [attempt EXCEPT ![s] = 0]
  /\ onFallback' = [onFallback EXCEPT ![s] = FALSE]
  /\ started' = [started EXCEPT ![s] = FALSE]

(* RequestBudget.check, the projection and _allocate_child.                    *)
Refused(s) ==
  \/ Priced /\ (unmetered \/ spent >= limit \/ spent + Projected > limit)
  \/ requests >= MaxRequests
  \/ s # Main /\ own[s] >= ChildLimit

(* Mutant: the lock covers only the check, whatever the limit.                 *)
HoldNever(s) == UNCHANGED holder

(* With a price limit the lock is held until the answer is accounted for.      *)
Hold(s) == IF Priced THEN holder' = s ELSE UNCHANGED holder

Admit(s) ==
  /\ pc[s] = "gate" /\ holder = Nobody /\ ~cancelled /\ ~Refused(s)
  /\ requests' = requests + 1
  /\ own' = IF s = Main THEN own ELSE [own EXCEPT ![s] = @ + 1]
  /\ Hold(s)
  /\ pc' = [pc EXCEPT ![s] = "sent"]
  /\ UNCHANGED <<limit, spent, unmetered, cancelled, kind, attempt, onFallback, started,
                 bounds, billed>>

Refuse(s) ==
  /\ pc[s] = "gate" /\ holder = Nobody /\ ~cancelled /\ Refused(s)
  /\ Done(s)
  /\ UNCHANGED <<limit, budget, cancelled, bounds, billed>>

(* While it waits for the lock or between two attempts a request is stopped.   *)
Stop(s) ==
  /\ pc[s] \in {"gate", "backoff"} /\ cancelled
  /\ Done(s)
  /\ UNCHANGED <<limit, budget, cancelled, bounds, billed>>

--------------------------------------------------------------------------------
(* CostTracker.add_usage.                                                      *)
Charge(known) == spent' = spent + known

(* Mutant: an attempt without usage keeps the lock.                            *)
RecordHolding(s, cost, known, metered) ==
  /\ Charge(known)
  /\ unmetered' = (unmetered \/ ~metered)
  /\ holder' = IF holder = s /\ metered THEN Nobody ELSE holder
  /\ billed' = billed + cost
  /\ UNCHANGED <<requests, own>>

(* RequestBudget.record: usage that is not known makes the budget unmetered.   *)
(* known is what the answer reports of its cost, cost what it really costs.    *)

Record(s, cost, known, metered) ==
  /\ Charge(known)
  /\ unmetered' = (unmetered \/ ~metered)
  /\ holder' = IF holder = s THEN Nobody ELSE holder
  /\ billed' = billed + cost
  /\ UNCHANGED <<requests, own>>

Again(s) ==
  IF attempt[s] < Retries
    THEN /\ pc' = [pc EXCEPT ![s] = "backoff"]
         /\ attempt' = [attempt EXCEPT ![s] = @ + 1]
         /\ UNCHANGED <<kind, onFallback, started>>
    ELSE Done(s)

(* A whole answer, with its usage or without.                                  *)
Answer(s) ==
  /\ pc[s] = "sent" /\ (kind[s] = "stream" => started[s])
  /\ \E cost \in 0..MaxCost, metered \in BOOLEAN :
       Record(s, cost, IF metered THEN cost ELSE 0, metered)
  /\ Done(s)
  /\ UNCHANGED <<limit, cancelled, bounds>>

(* 400, 413 and the like end the request; 429 is asked again.  Neither costs.  *)
Rejected(s) ==
  /\ pc[s] = "sent" /\ ~started[s]
  /\ Record(s, 0, 0, TRUE)
  /\ Again(s) \/ Done(s)
  /\ UNCHANGED <<limit, cancelled, bounds>>

(* 529: next() turns to the fallback model, once; a stream gives up.           *)
Overloaded(s) ==
  /\ pc[s] = "sent" /\ ~started[s]
  /\ Record(s, 0, 0, TRUE)
  /\ IF kind[s] = "next" /\ HasFallback /\ ~onFallback[s]
       THEN /\ pc' = [pc EXCEPT ![s] = "gate"]
            /\ attempt' = [attempt EXCEPT ![s] = 0]
            /\ onFallback' = [onFallback EXCEPT ![s] = TRUE]
            /\ UNCHANGED <<kind, started>>
       ELSE Done(s)
  /\ UNCHANGED <<limit, cancelled, bounds>>

(* A server error, or no connection: what it costs is not known.               *)
Fails(s) ==
  /\ pc[s] = "sent" /\ ~started[s]
  /\ \E cost \in 0..MaxCost : Record(s, cost, 0, FALSE)
  /\ IF cancelled THEN Done(s) ELSE Again(s)
  /\ UNCHANGED <<limit, cancelled, bounds>>

Backoff(s) ==
  /\ pc[s] = "backoff" /\ ~cancelled
  /\ pc' = [pc EXCEPT ![s] = "gate"]
  /\ UNCHANGED <<limit, budget, cancelled, kind, attempt, onFallback, started, bounds, billed>>

--------------------------------------------------------------------------------
(* A stream.                                                                   *)

Begins(s) ==
  /\ pc[s] = "sent" /\ kind[s] = "stream" /\ ~started[s]
  /\ started' = [started EXCEPT ![s] = TRUE]
  /\ UNCHANGED <<limit, budget, cancelled, pc, kind, attempt, onFallback, bounds, billed>>

(* Mutant: a stream that breaks is asked for again, like an answer that fails. *)
BreaksRetried(s) ==
  /\ pc[s] = "sent" /\ started[s]
  /\ \E cost \in 0..MaxCost : \E known \in 0..cost : Record(s, cost, known, FALSE)
  /\ IF cancelled THEN Done(s) ELSE Again(s)
  /\ UNCHANGED <<limit, cancelled, bounds>>

(* It breaks, ends without its last event, or its reader closes it: what it    *)
(* has reported is spent, and the rest is not known.                           *)
Breaks(s) ==
  /\ pc[s] = "sent" /\ started[s]
  /\ \E cost \in 0..MaxCost : \E known \in 0..cost : Record(s, cost, known, FALSE)
  /\ Done(s)
  /\ UNCHANGED <<limit, cancelled, bounds>>

--------------------------------------------------------------------------------
Cancel ==
  /\ ~cancelled /\ cancelled' = TRUE /\ \E s \in Scopes : pc[s] # "idle"
  /\ UNCHANGED <<limit, budget, sending, bounds, billed>>

(* A turn has a budget of its own, with the tracker of the session; what was   *)
(* not metered is saved with the state of the execution (scoped_turn).         *)
NewTurn ==
  /\ turns < MaxTurns /\ \A s \in Scopes : pc[s] = "idle"
  /\ turns' = turns + 1 /\ cancelled' = FALSE
  /\ requests' = 0 /\ own' = [c \in Children |-> 0]
  /\ UNCHANGED <<limit, spent, unmetered, holder, sending, asks, billed>>

Step(s) ==
  \/ Admit(s) \/ Refuse(s) \/ Stop(s) \/ Backoff(s)
  \/ Answer(s) \/ Rejected(s) \/ Overloaded(s) \/ Fails(s) \/ Breaks(s)

Next == Cancel \/ NewTurn \/ \E s \in Scopes : Ask(s) \/ Step(s) \/ Begins(s)

Spec == Init /\ [][Next]_vars

(* Every attempt has a timeout; a thread that waits for the lock gets it       *)
(* again and again, for its holder's attempt ends.                             *)
FairSpec == Spec /\ \A s \in Scopes : SF_vars(Step(s))

--------------------------------------------------------------------------------
TypeOK ==
  /\ limit \in Limits /\ spent \in Nat /\ billed \in Nat
  /\ unmetered \in BOOLEAN /\ cancelled \in BOOLEAN
  /\ requests \in 0..MaxRequests /\ own \in [Children -> 0..ChildLimit]
  /\ holder \in Scopes \cup {Nobody}
  /\ pc \in [Scopes -> {"idle", "gate", "sent", "backoff"}]
  /\ kind \in [Scopes -> {"next", "stream"}]
  /\ attempt \in [Scopes -> 0..Retries]
  /\ onFallback \in [Scopes -> BOOLEAN] /\ started \in [Scopes -> BOOLEAN]
  /\ asks \in 0..MaxAsks /\ turns \in 1..MaxTurns

(* With a price limit, all that was really billed but for the last request is  *)
(* within the limit, and that one was projected to be: no request leaves while *)
(* another's cost is open, or after one whose cost will never be known.        *)
(* (runtime.py RequestBudget.request, model_requests.py)                       *)
WithinLimit == Priced => billed <= limit + (MaxCost - Projected)

(* As long as everything was metered and nothing is under way, the tracker     *)
(* holds what was billed: no attempt is charged twice or forgotten.            *)
Accounted == ~unmetered => spent = billed

BudgetSafe == TypeOK /\ WithinLimit /\ Accounted

(* An answer of which a part was passed on is never asked for again.           *)
(* (anthropic_adapter.py:626, "Never replay emitted tool calls or text")       *)
Continued ==
  \A s \in Scopes : started[s] /\ pc[s] = "sent" => pc'[s] \in {"sent", "idle"}
NoReplay == [][Continued]_vars

(* The budget's lock starves nobody: whoever asks gets an answer or a refusal. *)
Waits(s) == pc[s] = "gate"
Idle(s) == pc[s] = "idle"
Served == \A s \in Scopes : Waits(s) ~> Idle(s)
================================================================================
