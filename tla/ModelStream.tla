------------------------------ MODULE ModelStream ------------------------------
(***************************************************************************)
(* How a streamed reply of the model becomes records of the conversation.  *)
(*                                                                         *)
(*   pepsicode/llm/anthropic_adapter.py   next_stream, _stream_attempt,    *)
(*     _process_sse_event, _to_anthropic_messages                          *)
(*   pepsicode/llm/assistant_text.py      parse_assistant_text,            *)
(*     AssistantTextStream                                                 *)
(*   pepsicode/core/agent_loop.py         run_agent_turn_stream,           *)
(*     _accumulate_stream_tokens, _unfinished_step                         *)
(*                                                                         *)
(* The provider sends a reply as events of three lines: its name, its data *)
(* and a blank one.  The stream may end, break or be given up after any    *)
(* line and within one.  Text is a sequence of symbols, markers of a       *)
(* channel being two symbols each.                                         *)
(***************************************************************************)
EXTENDS Integers, SequencesExt

CONSTANTS
  Replies,      \* what the provider may answer: sequences of events
  Room,         \* messages that a request has room for
  Retries,      \* _get_retry_limit
  MaxSteps,     \* steps of a turn
  MaxInputs     \* instructions given while the turn runs

StreamAssumption == Room > 0 /\ Retries >= 0 /\ MaxSteps > 0 /\ MaxInputs >= 0

VARIABLES
  phase,      \* "head", "connect", "read", "received" or "done"
  step,
  overflows,  \* overflow_retry_count
  empties,    \* empty_response_retry_count
  attempt,    \* attempts of the request that failed
  inputs,     \* instructions that have been given
  messages,   \* current_messages
  reply,      \* what the provider is sending
  at,         \* events of it that were handled
  lines,      \* lines in the buffer
  attempted,  \* of _stream_attempt: thinking_state, usage_state, stop_reason
  got         \* of _accumulate_stream_tokens

vars == <<phase, step, overflows, empties, attempt, inputs, messages, reply, at, lines,
          attempted, got>>

Message(role, id, val) == [role |-> role, id |-> id, val |-> val]
User == Message("user", "", <<>>)
Error == Message("error", "", <<>>)
Notice == Message("retry", "", <<>>)

Nobody == [block |-> 0, id |-> "", input |-> <<>>]
Attempted == [open |-> <<>>, usage |-> {}, stop |-> "end_turn", finish |-> ""]
Nothing == [text |-> <<>>, pending |-> <<>>, decided |-> FALSE, closing |-> <<>>, shown |-> <<>>,
            calls |-> <<>>, tool |-> Nobody, thoughts |-> <<>>]

Init ==
  /\ phase = "head" /\ step = 0 /\ overflows = 0 /\ empties = 0 /\ attempt = 0 /\ inputs = 0
  /\ messages \in {<<User>>, <<User, Error, User>>}
  /\ reply = <<>> /\ at = 0 /\ lines = 0 /\ attempted = Attempted /\ got = Nothing

--------------------------------------------------------------------------------
(* assistant_text.py.                                                          *)

Markers == {
  [open |-> <<"<", "final>">>, kind |-> "final", close |-> <<"</", "final>">>],
  [open |-> <<"[", "FINAL]">>, kind |-> "final", close |-> <<>>],
  [open |-> <<"<", "progress>">>, kind |-> "progress", close |-> <<"</", "progress>">>],
  [open |-> <<"[", "PROGRESS]">>, kind |-> "progress", close |-> <<>>]}

Blank(text, i, j) == \A k \in i..j : text[k] = " "
RTrim(text) == SubSeq(text, 1, CHOOSE n \in 0..Len(text) :
                 Blank(text, n + 1, Len(text)) /\ (n > 0 => text[n] # " "))
LTrim(text) == SubSeq(text, 1 + (CHOOSE n \in 0..Len(text) :
                 Blank(text, 1, n) /\ (n < Len(text) => text[n + 1] # " ")), Len(text))
Trim(text) == RTrim(LTrim(text))

Marked(text) == {m \in Markers : IsPrefix(m.open, text)}
Without(text, n) == SubSeq(text, n + 1, Len(text))
Unclosed(text, close) ==
  IF close # <<>> /\ IsSuffix(close, text) THEN SubSeq(text, 1, Len(text) - Len(close)) ELSE text

(* parse_assistant_text.                                                       *)
Said(content) ==
  LET text == Trim(content)
  IN IF Marked(text) = {} THEN [body |-> text, kind |-> "plain"]
     ELSE LET m == CHOOSE x \in Marked(text) : TRUE
          IN [body |-> RTrim(Unclosed(Trim(Without(text, Len(m.open))), m.close)), kind |-> m.kind]

(* AssistantTextStream: what may be a part of a marker is held.                *)
Show(g) ==
  LET text == RTrim(g.pending)
      held == {n \in 1..Len(g.closing) : IsSuffix(SubSeq(g.closing, 1, n), text)}
      most == CHOOSE n \in held : \A k \in held : k <= n
      cut == IF held = {} THEN Len(g.pending) ELSE Len(text) - most
  IN [g EXCEPT !.shown = @ \o SubSeq(g.pending, 1, cut), !.pending = Without(@, cut)]

Feed(g, text) ==
  LET pending == g.pending \o text
      probe == LTrim(pending)
      open == {m \in Marked(probe) : ~g.decided}
      marker == CHOOSE m \in open : TRUE
  IN IF ~g.decided /\ (probe = <<>> \/ \E m \in Markers : IsStrictPrefix(probe, m.open))
     THEN [g EXCEPT !.pending = pending]
     ELSE IF open = {} THEN Show([g EXCEPT !.pending = pending, !.decided = TRUE])
     ELSE Show([g EXCEPT !.pending = Without(probe, Len(marker.open)), !.decided = TRUE,
                         !.closing = marker.close])

Flush(g) ==
  LET text == RTrim(g.pending)
      tail == IF g.closing # <<>> /\ IsSuffix(g.closing, text) THEN Unclosed(text, g.closing)
              ELSE g.pending
  IN [g EXCEPT !.shown = @ \o tail, !.pending = <<>>]

--------------------------------------------------------------------------------
(* What is sent.                                                               *)

RoleOf(message) == IF message.role \in {"user", "result"} THEN "user" ELSE "assistant"
BlocksOf(message) ==
  IF message.role = "thinking" THEN [i \in DOMAIN message.val |-> Message("thinking", "", <<>>)]
  ELSE <<[message EXCEPT !.val = <<>>]>>

(* _push_anthropic_message: messages of one role become one.                   *)
Push(wire, message) ==
  IF wire # <<>> /\ wire[Len(wire)].role = RoleOf(message)
  THEN [wire EXCEPT ![Len(wire)].blocks = @ \o BlocksOf(message)]
  ELSE Append(wire, [role |-> RoleOf(message), blocks |-> BlocksOf(message)])

(* _to_anthropic_messages.                                                     *)
Wire == FoldLeft(Push, <<>>, messages)

(* _fit_output_to_context: nothing is sent that leaves no room for an answer.  *)
Fits == Len(messages) <= Room

--------------------------------------------------------------------------------
(* The step of the loop.                                                       *)

Settle(records) ==
  /\ messages' = messages \o records /\ phase' = "done"
  /\ UNCHANGED <<step, overflows, empties, attempt, inputs, reply, at, lines, attempted, got>>
Fail == Settle(<<Error>>)

Proceed(records) ==
  /\ messages' = messages \o records /\ phase' = "head"
  /\ UNCHANGED <<step, overflows, attempt, inputs, reply, at, lines, attempted, got>>

(* What compaction leaves: a checkpoint, and all from an instruction on.       *)
Compacted(list) ==
  {<<User>> \o SubSeq(list, i, Len(list)) : i \in {n \in 2..Len(list) : list[n].role = "user"}}

(* A step takes the instructions that were given, may compact, and asks the    *)
(* model.  A spent budget leaves the turn without a record.                    *)
Begin ==
  /\ phase = "head" /\ step < MaxSteps
  /\ step' = step + 1 /\ phase' = "connect" /\ attempt' = 0
  /\ \E new \in 0..(MaxInputs - inputs) :
       /\ inputs' = inputs + new
       /\ LET asked == messages \o [i \in 1..new |-> User]
          IN messages' \in {asked} \cup Compacted(asked)
  /\ got' = Nothing /\ attempted' = Attempted
  /\ reply' = <<>> /\ at' = 0 /\ lines' = 0
  /\ UNCHANGED <<overflows, empties>>

StepsSpent == phase = "head" /\ step = MaxSteps /\ Fail

Accepted ==
  /\ phase = "connect" /\ Fits
  /\ reply' \in Replies /\ phase' = "read"
  /\ UNCHANGED <<step, overflows, empties, attempt, inputs, messages, at, lines, attempted, got>>

(* Nothing has come: the request is made again, and a notice is recorded.      *)
Retry ==
  IF attempt = Retries THEN Fail
  ELSE /\ attempt' = attempt + 1 /\ messages' = Append(messages, Notice)
       /\ phase' = "connect" /\ attempted' = Attempted
       /\ reply' = <<>> /\ at' = 0 /\ lines' = 0
       /\ UNCHANGED <<step, overflows, empties, inputs, got>>

TurnedAway == phase = "connect" /\ Fits /\ (Retry \/ Fail)

(* ContextOverflowError, before or after the request was sent: at first, the   *)
(* request is made again even when compaction changed nothing.                 *)
Overflow ==
  /\ phase = "connect"
  /\ \/ /\ \/ overflows < 3 /\ messages' \in Compacted(messages)
           \/ overflows = 0 /\ UNCHANGED messages
        /\ phase' = "head" /\ step' = step - 1 /\ overflows' = overflows + 1
        /\ UNCHANGED <<empties, attempt, inputs, reply, at, lines, attempted, got>>
     \/ overflows > 0 /\ Fail

--------------------------------------------------------------------------------
(* _stream_attempt.                                                            *)

Started == at + lines > 0

(* _process_sse_event for what is of the attempt: thinking is put together by  *)
(* its block, and handed on when the block stops.                              *)
Track(state, e) ==
  CASE e.type = "start" -> [state EXCEPT !.usage = {"input"}]
    [] e.type = "delta" -> [state EXCEPT !.usage = @ \cup {"output"}, !.stop = e.val[1]]
    [] e.type = "thinking" -> [state EXCEPT !.open = [n \in DOMAIN @ \cup {e.block} |->
                                                   IF n = e.block THEN e.val ELSE @[n]]]
    [] e.type \in {"thought", "signature"} /\ e.block \in DOMAIN state.open ->
         [state EXCEPT !.open[e.block] = @ \o e.val]
    [] e.type = "stop" -> [state EXCEPT !.open = [n \in DOMAIN @ \ {e.block} |-> @[n]]]
    [] OTHER -> state

(* A call that has arguments is done when the next one begins.                 *)
CallOf(tool) == [id |-> tool.id, input |-> tool.input]
Finished(g) == IF g.tool # Nobody /\ g.tool.input # <<>> THEN Append(g.calls, CallOf(g.tool)) ELSE g.calls

(* _accumulate_stream_tokens.                                                  *)
Accumulate(g, state, e) ==
  CASE e.type = "text" -> [Feed(g, e.val) EXCEPT !.text = @ \o e.val]
    [] e.type = "tool" -> [g EXCEPT !.calls = Finished(g),
                                    !.tool = [block |-> e.block, id |-> e.val[1], input |-> <<>>]]
    [] e.type = "json" -> [g EXCEPT !.tool.input = @ \o e.val]
    [] e.type = "stop" /\ e.block \in DOMAIN state.open -> [g EXCEPT !.thoughts = Append(@, state.open[e.block])]
    [] OTHER -> g

Ended(g) ==
  LET all == Flush(g)
  IN [all EXCEPT !.calls = IF g.tool = Nobody THEN @ ELSE Append(@, CallOf(g.tool)), !.tool = Nobody]

Receive(g, finish) ==
  /\ got' = Ended(g) /\ phase' = "received"
  /\ attempted' = [attempted EXCEPT !.finish = finish]
  /\ UNCHANGED <<step, overflows, empties, attempt, inputs, messages, reply>>

Event == reply[at + 1]

Handle ==
  IF Event.type = "end" THEN Receive(got, attempted.stop)
  ELSE /\ attempted' = Track(attempted, Event) /\ got' = Accumulate(got, attempted, Event)
       /\ UNCHANGED <<phase, step, overflows, empties, attempt, inputs, messages, reply>>

(* An event is complete when its blank line has come.                          *)
Line ==
  /\ phase = "read"
  /\ IF lines < 2 THEN /\ lines' = lines + 1
                       /\ UNCHANGED <<phase, step, overflows, empties, attempt, inputs, messages,
                                      reply, at, attempted, got>>
     ELSE lines' = 0 /\ at' = at + 1 /\ Handle

(* The stream ends: an event whose data has come is taken, one whose data was  *)
(* cut is not.  The stop reason of one that was cut is looked for in a string. *)
Close ==
  /\ phase = "read"
  /\ \/ /\ lines = 2 /\ at' = at + 1 /\ lines' = 0
        /\ IF Event.type = "end" THEN Receive(got, attempted.stop)
           ELSE Receive(Accumulate(got, attempted, Event), "stream_incomplete")
     \/ /\ lines < 2 /\ Receive(got, "stream_incomplete") /\ UNCHANGED <<at, lines>>
     \/ lines = 1 /\ Event.type = "delta" /\ Fail

(* The connection breaks: only what has not begun is asked for again.          *)
Break == phase = "read" /\ IF Started THEN Fail ELSE Retry

(* TurnCancelledError, at a line, a token or a pause.                          *)
Stop == phase \in {"connect", "read"} /\ Settle(<<Error>>)

--------------------------------------------------------------------------------
(* What the loop makes of a reply.                                             *)

Unfinished == attempted.finish \in {"max_tokens", "stream_incomplete", "pause_turn", "refusal"}
Text == Said(got.text)
Thoughts == IF got.thoughts = <<>> THEN <<>> ELSE <<Message("thinking", "", got.thoughts)>>
Progress(text) == IF text = <<>> THEN <<>> ELSE <<Message("progress", "", text)>>

(* _unfinished_step: no call of it is made; its text is kept as it came.       *)
Cut == phase = "received" /\ Unfinished /\ Settle(Progress(got.text) \o <<Error>>)

Empty ==
  /\ phase = "received" /\ ~Unfinished /\ Text.body = <<>> /\ got.calls = <<>>
  /\ IF empties < 2 THEN Proceed(<<User>>) /\ empties' = empties + 1 ELSE Fail

(* The records of the calls, and of what came of each.                         *)
Recorded(calls, role) ==
  [i \in DOMAIN calls |-> Message(role, calls[i].id, IF role = "call" THEN calls[i].input ELSE <<>>)]
Turned == Thoughts \o Progress(Text.body) \o Recorded(got.calls, "call") \o Recorded(got.calls, "result")

Call ==
  /\ phase = "received" /\ ~Unfinished /\ got.calls # <<>>
  /\ \/ Settle(Turned \o <<Message("asked", "", <<>>)>>)
     \/ \E guidance \in {<<>>, <<User>>} : Proceed(Turned \o guidance) /\ UNCHANGED empties

Continue ==
  /\ phase = "received" /\ ~Unfinished /\ got.calls = <<>> /\ Text.body # <<>> /\ Text.kind = "progress"
  /\ Proceed(Thoughts \o Progress(Text.body) \o <<User>>)
  /\ UNCHANGED empties

(* An instruction that came meanwhile continues the turn.                      *)
Answer ==
  /\ phase = "received" /\ ~Unfinished /\ got.calls = <<>> /\ Text.body # <<>> /\ Text.kind # "progress"
  /\ LET said == Thoughts \o <<Message("answer", "", Text.body)>>
     IN \/ Settle(said)
        \/ /\ inputs < MaxInputs /\ inputs' = inputs + 1
           /\ messages' = messages \o said \o <<User>> /\ phase' = "head"
           /\ UNCHANGED <<step, overflows, empties, attempt, reply, at, lines, attempted, got>>

Next ==
  \/ Begin \/ StepsSpent \/ Accepted \/ TurnedAway \/ Overflow
  \/ Line \/ Close \/ Break \/ Stop
  \/ Cut \/ Empty \/ Call \/ Continue \/ Answer

Spec == Init /\ [][Next]_vars

--------------------------------------------------------------------------------
(* What a reply says, whole.                                                   *)
Only(type, block) == SelectSeq(reply, LAMBDA e : e.type = type /\ e.block = block)
Joined(events) == FlattenSeq([i \in DOMAIN events |-> events[i].val])
Blocks(type) == SelectSeq(reply, LAMBDA e : e.type = type)

WholeText == Joined(Blocks("text"))
WholeCalls == [i \in DOMAIN Blocks("tool") |->
                [id |-> Blocks("tool")[i].val[1], input |-> Joined(Only("json", Blocks("tool")[i].block))]]
WholeThoughts == [i \in DOMAIN Blocks("thinking") |->
                   Joined(SelectSeq(reply, LAMBDA e : /\ e.type \in {"thinking", "thought", "signature"}
                                                      /\ e.block = Blocks("thinking")[i].block))]

(* A call without arguments is lost when another follows.                      *)
KeptCalls == LET last == Len(WholeCalls)
             IN SelectSeq(WholeCalls, LAMBDA x : x.input # <<>> \/ x = WholeCalls[last])

Complete == reply # <<>> /\ at = Len(reply)

(* What the user saw of a reply is what is recorded of it, without its markers *)
(* wherever the deltas cut them, and a request that is made again has shown    *)
(* nothing (assistant_text.py 27-63, anthropic_adapter.py 653-655).            *)
ShownIsSaid ==
  /\ phase = "received" => Trim(got.shown) = Said(got.text).body
  /\ phase = "received" /\ Complete => got.text = WholeText
  /\ phase = "connect" => got = Nothing

(* Every request can be answered: it begins with the user, every call in it    *)
(* has its result in the next message, before anything else, and signed        *)
(* thinking comes before the calls it led to (agent_loop.py 1540).             *)
WellFormed ==
  phase = "connect" =>
    LET wire == Wire
        Of(i, role) == SelectSeq(wire[i].blocks, LAMBDA x : x.role = role)
    IN /\ wire[1].role = "user"
       /\ \A i \in DOMAIN wire :
            /\ Of(i, "call") # <<>> => i < Len(wire)
            /\ i < Len(wire) =>
                 /\ Len(Of(i + 1, "result")) = Len(Of(i, "call"))
                 /\ \A j \in DOMAIN Of(i, "call") : wire[i + 1].blocks[j].role = "result"
                                                    /\ wire[i + 1].blocks[j].id = Of(i, "call")[j].id
            /\ \A j, k \in DOMAIN wire[i].blocks :
                 j < k /\ wire[i].blocks[j].role = "call" => wire[i].blocks[k].role = "call"

(* Every request ends with what is asked.  The code does not keep this: a      *)
(* notice of a retry is recorded as the assistant's, so when the repeated      *)
(* request is too large, the next one ends with the notice (agent_loop.py      *)
(* 1328-1340).                                                                 *)
AskedLast == phase = "connect" => messages[Len(messages)].role \in {"user", "result"} \/ attempt > 0

(* What is known of the usage of a whole reply is whole.                       *)
UsageWhole == phase = "received" /\ Complete => attempted.usage = {"input", "output"}

StreamSafe == ShownIsSaid /\ WellFormed /\ UsageWhole

(* What is recorded is of a whole reply: no call is made and no answer given   *)
(* of one that broke off or was cut, calls have all of their arguments, and    *)
(* thinking has its signature (agent_loop.py 105-118, 1503-1507).              *)
RecordsWhole ==
  phase = "received" =>
    LET new == SubSeq(messages', Len(messages) + 1, Len(messages'))
        Of(role) == SelectSeq(new, LAMBDA x : x.role = role)
        whole == Complete /\ \A e \in Range(Blocks("delta")) : e.val[1] \notin {"max_tokens", "refusal"}
    IN /\ Of("call") # <<>> => whole /\ Of("call") = Recorded(KeptCalls, "call")
       /\ Of("answer") # <<>> => whole /\ Of("answer")[1].val = Said(WholeText).body
       /\ Of("thinking") # <<>> => Of("thinking")[1].val = WholeThoughts
       /\ phase' = "done" /\ (~whole \/ (WholeCalls = <<>> /\ Trim(WholeText) = <<>>)) =>
            messages'[Len(messages')].role = "error"

Recordings == [][RecordsWhole]_vars
================================================================================
