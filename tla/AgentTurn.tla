------------------------------- MODULE AgentTurn -------------------------------
(***************************************************************************)
(* One turn of the agent: requests to the model, the tool calls it asks    *)
(* for, and the ways the turn can end.                                     *)
(*                                                                         *)
(*   pepsicode/core/agent_loop.py   run_agent_turn, run_agent_turn_stream, *)
(*                                  _execute_calls_in_order, _finish_*     *)
(*   pepsicode/cancellation.py      raise_if_cancelled, cancellable_turn   *)
(*   pepsicode/tooling.py           ToolRegistry.execute                   *)
(*                                                                         *)
(* Actors: the thread of the turn; up to Parallel threads of its pool, one *)
(* for each call they execute; the model, which answers as it likes; and   *)
(* the user, who adds steering and may stop the turn.  Of the conversation *)
(* only what was appended since the last response is kept, by its role.    *)
(***************************************************************************)
EXTENDS Naturals, Sequences, FiniteSets

CONSTANTS
  Tools,      \* the tools the model may call
  Safe,       \* those that may run beside each other (concurrency_safe)
  Awaiting,   \* those whose result waits for the user (awaitUser)
  ExitPlan,   \* exit_plan_mode
  NoInput,    \* those called without arguments: no input_json_delta arrives
  Batches,    \* the sequences of tools a response may ask for
  Parallel,   \* MAX_PARALLEL_TOOLS
  MaxSteps,   \* max_steps
  Overflows,  \* compactions an overflow may ask for (3)
  Empties,    \* empty responses that are asked again (2)
  Thoughts,   \* recoverable thinking stops that are asked again (3)
  MaxInputs   \* bound: steering the user sends

ToolsAssumption ==
  /\ Safe \subseteq Tools /\ Awaiting \subseteq Tools /\ NoInput \subseteq Tools
  /\ ExitPlan \in Tools \ (Safe \cup Awaiting)
BatchesAssumption == \A b \in Batches : b \in Seq(Tools)
LimitsAssumption ==
  /\ Parallel \in Nat \ {0} /\ MaxSteps \in Nat \ {0}
  /\ Overflows \in Nat /\ Empties \in Nat /\ Thoughts \in Nat /\ MaxInputs \in Nat

VARIABLES
  streaming,   \* run_agent_turn_stream rather than run_agent_turn
  phase,       \* where the thread of the turn is
  status,      \* how the turn ended
  step,
  overflows, empties, thoughts,
  fresh,       \* what was appended to current_messages since the last response
  batch,       \* the calls of the response, and each one's place and result
  place,
  result,
  queued,      \* steering that waits in the queue of the turn
  cancelled,   \* cancellation_event is set
  inputs,      \* steering sent
  requests,    \* history: requests sent, and those sent after the cancellation
  late,
  reply        \* history: the last response

counters == <<step, overflows, empties, thoughts>>
calls    == <<batch, place, result>>
user     == <<queued, cancelled, inputs>>
history  == <<requests, late>>
vars == <<streaming, phase, status, counters, fresh, calls, user, history, reply>>

Stops     == {"end", "cut", "thought"}
Texts     == {"none", "progress", "plain"}
Responses == [text : Texts, tools : Batches \cup {<<>>}, stop : Stops]
NoReply   == [text |-> "none", tools |-> <<>>, stop |-> "end"]
Results   == {"ok", "failed", "blocked", "cancelled", "await"}
Ends      == {"completed", "error", "max_steps", "awaiting_user", "cancelled", "raised"}

Init ==
  /\ streaming \in BOOLEAN
  /\ phase = "head" /\ status = "running" /\ step = 0
  /\ overflows = 0 /\ empties = 0 /\ thoughts = 0
  /\ fresh = <<"user">>
  /\ batch = <<>> /\ place = <<>> /\ result = <<>>
  /\ queued = 0 /\ cancelled = FALSE /\ inputs = 0
  /\ requests = 0 /\ late = 0 /\ reply = NoReply

--------------------------------------------------------------------------------
(* How a turn ends: _finish_hook_turn, _finish_cancelled_turn, and an          *)
(* exception that leaves the loop, after which nothing of the turn is saved.   *)

Finish(as, messages) == phase' = "ended" /\ status' = as /\ fresh' = messages

Raise == phase' = "ended" /\ status' = "raised" /\ fresh' = <<>>

Steering == [i \in 1..queued |-> "user"]

(* append_queued_inputs: after a final answer the turn goes on if the user     *)
(* has said something; a cancelled turn leaves the queue to its owner.         *)

Answer(messages) ==
  IF queued > 0 /\ ~cancelled
    THEN /\ phase' = "head" /\ fresh' = messages \o Steering
         /\ queued' = 0 /\ UNCHANGED <<status, cancelled, inputs>>
    ELSE Finish("completed", messages) /\ UNCHANGED user

--------------------------------------------------------------------------------
(* The head of the loop.                                                       *)

StepsSpent ==
  /\ phase = "head" /\ step = MaxSteps
  /\ Finish("max_steps", Append(fresh, "assistant"))
  /\ UNCHANGED <<streaming, counters, calls, user, history, reply>>

(* The scope of a sub-agent was cancelled, or the budget is spent.             *)
StepRefused ==
  /\ phase = "head" /\ step < MaxSteps
  /\ Raise
  /\ UNCHANGED <<streaming, counters, calls, user, history, reply>>

BeginStep ==
  /\ phase = "head" /\ step < MaxSteps
  /\ step' = step + 1 /\ phase' = "send"
  /\ IF cancelled
       THEN UNCHANGED <<fresh, user>>
       ELSE fresh' = fresh \o Steering /\ queued' = 0 /\ UNCHANGED <<cancelled, inputs>>
  /\ UNCHANGED <<streaming, status, overflows, empties, thoughts, calls, history, reply>>

(* raise_if_cancelled, then the request with what _messages_for_model adds.    *)
Send ==
  /\ phase = "send"
  /\ \/ /\ cancelled
        /\ Finish("cancelled", Append(fresh, "assistant"))
        /\ UNCHANGED history
     \/ /\ ~cancelled
        /\ phase' = "opened" /\ UNCHANGED <<status, fresh, history>>
  /\ UNCHANGED <<streaming, counters, calls, user, reply>>

(* The request leaves; the user may have stopped the turn since the check.     *)
Open ==
  /\ phase = "opened"
  /\ phase' = "model"
  /\ requests' = requests + 1
  /\ late' = IF cancelled THEN late + 1 ELSE late
  /\ UNCHANGED <<streaming, status, counters, fresh, calls, user, reply>>

(* A stream that has not begun may be retried, which leaves a record.          *)
Retry ==
  /\ phase = "model" /\ streaming /\ ~cancelled
  /\ fresh[Len(fresh)] # "retry" /\ fresh' = Append(fresh, "retry")
  /\ UNCHANGED <<streaming, phase, status, counters, calls, user, history, reply>>

(* Whatever a stopped turn receives is dropped.                                *)
Stopped ==
  /\ phase = "model" /\ cancelled
  /\ Finish("cancelled", Append(fresh, "assistant"))
  /\ UNCHANGED <<streaming, counters, calls, user, history, reply>>

(* ContextOverflowError: compact and ask again, which is no step.  When the    *)
(* compaction changes nothing only the first overflow is asked again.          *)
Overflow ==
  /\ phase = "model" /\ ~cancelled
  /\ \/ /\ overflows < Overflows
        /\ overflows' = overflows + 1
        /\ \E changed \in BOOLEAN :
             IF changed \/ overflows = 0
               THEN phase' = "head" /\ step' = step - 1 /\ UNCHANGED <<status, fresh>>
               ELSE Finish("error", Append(fresh, "assistant")) /\ UNCHANGED step
     \/ /\ overflows = Overflows
        /\ Finish("error", Append(fresh, "assistant")) /\ UNCHANGED <<step, overflows>>
  /\ UNCHANGED <<streaming, empties, thoughts, calls, user, history, reply>>

(* Connection, timeout and any other error of the request; the budget, the     *)
(* request limit and Ctrl-C are the caller's.                                  *)
RequestFails ==
  /\ phase = "model" /\ ~cancelled
  /\ Finish("error", Append(fresh, "assistant")) \/ Raise
  /\ UNCHANGED <<streaming, counters, calls, user, history, reply>>

--------------------------------------------------------------------------------
(* What a response asks for.  r is the response, stop its stop reason.         *)

IsEmpty(r) == r.text = "none" /\ r.tools = <<>>
Progress(r) == IF r.text = "none" THEN <<>> ELSE <<"progress">>

(* The text before the calls; without streaming it keeps its own role.         *)
Before(r) == IF ~streaming /\ r.text = "plain" THEN <<"assistant">> ELSE Progress(r)

(* An empty response whose thinking was cut is asked to go on, without         *)
(* streaming; every other unfinished response ends the turn.                   *)
Recoverable(r) == ~streaming /\ r.stop = "thought" /\ IsEmpty(r)

Cut(r) == r.stop # "end" /\ ~Recoverable(r)

(* _accumulate_stream_tokens closes a call when the next one starts, but only  *)
(* if some of its input has arrived; the last call is kept without.            *)
Accumulated(tools) ==
  LET kept == {k \in DOMAIN tools : tools[k] \notin NoInput \/ k = Len(tools)}
  IN [i \in 1..Cardinality(kept) |->
        tools[CHOOSE k \in kept : Cardinality({j \in kept : j <= k}) = i]]

Called(r) == IF streaming THEN Accumulated(r.tools) ELSE r.tools

Respond ==
  /\ phase = "model" /\ ~cancelled
  /\ \E r \in Responses :
       /\ reply' = r
       /\ \/ /\ Cut(r)
             /\ Finish("error", Progress(r) \o <<"assistant">>)
             /\ UNCHANGED <<empties, thoughts, calls, user>>
          \/ /\ Recoverable(r) /\ thoughts < Thoughts
             /\ thoughts' = thoughts + 1
             /\ phase' = "head" /\ fresh' = <<"progress", "nudge">>
             /\ UNCHANGED <<status, empties, calls, user>>
          \/ /\ IsEmpty(r) /\ ~Cut(r) /\ ~(Recoverable(r) /\ thoughts < Thoughts)
             /\ IF empties < Empties
                  THEN /\ empties' = empties + 1
                       /\ phase' = "head" /\ fresh' = <<"nudge">>
                       /\ UNCHANGED status
                  ELSE Finish("error", <<"assistant">>) /\ UNCHANGED empties
             /\ UNCHANGED <<thoughts, calls, user>>
          \/ /\ ~Cut(r) /\ r.tools = <<>> /\ r.text = "progress"
             /\ phase' = "head" /\ fresh' = <<"progress", "nudge">>
             /\ UNCHANGED <<status, empties, thoughts, calls, user>>
          \/ /\ ~Cut(r) /\ r.tools = <<>> /\ r.text = "plain"
             /\ Answer(<<"assistant">>)
             /\ UNCHANGED <<empties, thoughts, calls>>
          \/ /\ ~Cut(r) /\ r.tools # <<>>
             /\ batch' = Called(r)
             /\ place' = [k \in DOMAIN batch' |-> "waiting"]
             /\ result' = [k \in DOMAIN batch' |-> "ok"]
             /\ phase' = "tools"
             /\ fresh' = Before(r) \o [k \in DOMAIN batch' |-> "call"]
             /\ UNCHANGED <<status, empties, thoughts, user>>
  /\ UNCHANGED <<streaming, step, overflows, history>>

--------------------------------------------------------------------------------
(* _execute_calls_in_order: neighbours that are safe run beside each other,    *)
(* every other call alone and in its turn.                                     *)

Calls == 1..Len(batch)
Busy  == {k \in Calls : place[k] \in {"asked", "running"}}
Alone == \E k \in Calls : batch[k] = ExitPlan /\ Len(batch) > 1

(* The calls that were asked for with k, without one between that is not safe. *)
Together(j, k) == \A i \in j..k : batch[i] \in Safe

Ready(k) ==
  /\ Cardinality(Busy) < Parallel
  /\ \A j \in 1..(k - 1) : place[j] = "done" \/ Together(j, k)

(* exit_plan_mode with company: nothing runs and every call is told so.        *)
Reject ==
  /\ phase = "tools" /\ Alone /\ \E k \in Calls : place[k] # "done"
  /\ place' = [k \in Calls |-> "done"] /\ result' = [k \in Calls |-> "blocked"]
  /\ UNCHANGED <<streaming, phase, status, counters, fresh, batch, user, history, reply>>

(* ToolRegistry.execute looks for the cancellation when it begins and again    *)
(* when the hooks and the user have allowed the call.                          *)
Begin(k) ==
  /\ phase = "tools" /\ ~Alone /\ place[k] = "waiting" /\ Ready(k)
  /\ IF cancelled
       THEN place' = [place EXCEPT ![k] = "done"] /\ result' = [result EXCEPT ![k] = "cancelled"]
       ELSE place' = [place EXCEPT ![k] = "asked"] /\ UNCHANGED result
  /\ UNCHANGED <<streaming, phase, status, counters, fresh, batch, user, history, reply>>

Dispatch(k) ==
  /\ phase = "tools" /\ place[k] = "asked"
  /\ \/ ~cancelled /\ place' = [place EXCEPT ![k] = "running"] /\ UNCHANGED result
     \/ /\ place' = [place EXCEPT ![k] = "done"]
        /\ result' = [result EXCEPT ![k] = IF cancelled THEN "cancelled" ELSE "blocked"]
  /\ UNCHANGED <<streaming, phase, status, counters, fresh, batch, user, history, reply>>

Outcomes(k) == {"ok", "failed"} \cup (IF batch[k] \in Awaiting THEN {"await"} ELSE {})
                                \cup (IF cancelled THEN {"cancelled"} ELSE {})

Complete(k) ==
  /\ phase = "tools" /\ place[k] = "running"
  /\ \E o \in Outcomes(k) : result' = [result EXCEPT ![k] = o]
  /\ place' = [place EXCEPT ![k] = "done"]
  /\ UNCHANGED <<streaming, phase, status, counters, fresh, batch, user, history, reply>>

(* Ctrl-C and a budget that is spent inside a call leave the loop.             *)
CallRaises(k) ==
  /\ phase = "tools" /\ place[k] = "running"
  /\ Raise
  /\ UNCHANGED <<streaming, counters, calls, user, history, reply>>

(* Mutant: the results of the calls that succeeded.                            *)
ResultsOfSuccesses == SelectSeq([k \in Calls |-> IF result[k] = "ok" THEN "result" ELSE "none"],
                                LAMBDA x : x = "result")

ResultsOfAll == [k \in Calls |-> "result"]

(* _tool_recovery_nudge: what was blocked or stopped gets no hint.             *)
Hint == IF \E k \in Calls : result[k] = "failed" THEN <<"nudge">> ELSE <<>>

(* The results in the order of the calls, then the user's turn, a hint after a *)
(* failure, or the next step.                                                  *)
Record ==
  /\ phase = "tools" /\ \A k \in Calls : place[k] = "done"
  /\ IF \E k \in Calls : result[k] = "await"
       THEN Finish("awaiting_user", fresh \o ResultsOfAll \o <<"assistant">>) /\ UNCHANGED calls
       ELSE /\ phase' = "head" /\ UNCHANGED status
            /\ batch' = <<>> /\ place' = <<>> /\ result' = <<>>
            /\ fresh' = fresh \o ResultsOfAll \o Hint
  /\ UNCHANGED <<streaming, counters, user, history, reply>>

--------------------------------------------------------------------------------
(* The user.                                                                   *)

Steer ==
  /\ phase # "ended" /\ inputs < MaxInputs
  /\ inputs' = inputs + 1 /\ queued' = queued + 1
  /\ UNCHANGED <<streaming, phase, status, counters, fresh, calls, cancelled, history, reply>>

Cancel ==
  /\ phase # "ended" /\ ~cancelled /\ cancelled' = TRUE
  /\ UNCHANGED <<streaming, phase, status, counters, fresh, calls, queued, inputs, history, reply>>

Turn == StepsSpent \/ StepRefused \/ BeginStep \/ Send \/ Open \/ Stopped \/ Overflow \/ RequestFails
        \/ Respond \/ Record
Pool == Reject \/ \E k \in Calls : Begin(k) \/ Dispatch(k) \/ Complete(k) \/ CallRaises(k)
Next == Turn \/ Retry \/ Pool \/ Steer \/ Cancel

Spec == Init /\ [][Next]_vars

(* The thread and the pool go on; a request and a tool return at some time.    *)
FairSpec == Spec /\ WF_vars(Turn) /\ WF_vars(Pool)

--------------------------------------------------------------------------------
TypeOK ==
  /\ streaming \in BOOLEAN /\ cancelled \in BOOLEAN
  /\ phase \in {"head", "send", "opened", "model", "tools", "ended"}
  /\ status \in Ends \cup {"running"}
  /\ step \in 0..MaxSteps /\ overflows \in 0..Overflows
  /\ empties \in 0..Empties /\ thoughts \in 0..Thoughts
  /\ queued \in 0..MaxInputs /\ inputs \in 0..MaxInputs
  /\ requests \in Nat /\ late \in Nat
  /\ reply \in Responses
  /\ batch \in Seq(Tools)
  /\ place \in [1..Len(batch) -> {"waiting", "asked", "running", "done"}]
  /\ result \in [1..Len(batch) -> Results]

Count(role, s) == Cardinality({i \in DOMAIN s : s[i] = role})

(* What a provider accepts, and what is saved: every call has its result, the  *)
(* results follow the calls with nothing in between, and but for the record of  *)
(* a retry the last message is one to answer.                                  *)
(* (agent_loop.py, the appends of both loops and _execute_calls_in_order)      *)
Answered ==
  phase \in {"head", "send", "opened"} \/ (phase = "ended" /\ status # "raised") =>
    /\ Count("call", fresh) = Count("result", fresh)
    /\ \A i \in DOMAIN fresh : fresh[i] = "call" =>
         i < Len(fresh) /\ fresh[i + 1] \in {"call", "result"}
    /\ phase # "ended" =>
         \E i \in DOMAIN fresh :
           /\ fresh[i] \in {"user", "nudge", "result"}
           /\ \A j \in DOMAIN fresh : j > i => fresh[j] = "retry"

(* Only safe neighbours ever run at the same time, no more than the pool has   *)
(* threads, and a call that changes something waits for all those before it.   *)
(* (agent_loop.py _execute_calls_in_order)                                     *)
Ordered ==
  phase = "tools" =>
    /\ Cardinality(Busy) <= Parallel
    /\ \A j, k \in Calls : j < k /\ place[k] # "waiting" /\ place[j] # "done" =>
         \A i \in j..k : batch[i] \in Safe

(* A turn asks the model no more often than its steps and the compactions      *)
(* allow, and at most once when the user has stopped it.                       *)
Bounded == requests <= MaxSteps + Overflows /\ late <= 1

(* What a turn says of itself is so: completed only with a whole answer after  *)
(* which the user has said nothing that was taken, waiting for the user only   *)
(* when a call did, stopped only when he stopped it, and no call of a response *)
(* that was cut is ever begun.                                                 *)
Truthful ==
  /\ status = "completed" =>
       /\ reply.stop = "end" /\ reply.text = "plain" /\ reply.tools = <<>>
       /\ fresh[Len(fresh)] = "assistant"
  /\ status = "awaiting_user" => \E k \in Calls : result[k] = "await"
  /\ status = "cancelled" => cancelled
  /\ phase = "tools" => reply.stop = "end"

AgentSafe == TypeOK /\ Answered /\ Ordered /\ Bounded /\ Truthful

(* Every call of a whole response is executed or refused, with a result.       *)
(* (agent_loop.py:1111-1114, what _accumulate_stream_tokens says it returns)   *)
KeepsCalls == phase = "tools" => batch = reply.tools

(* Every turn ends, whatever the model answers and whatever the tools do.      *)
Over == phase = "ended"
TurnEnds == <>Over
================================================================================
