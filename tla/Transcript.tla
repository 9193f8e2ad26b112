------------------------------ MODULE Transcript ------------------------------
(***************************************************************************)
(* The transcript on the screen, written by the thread of a turn.          *)
(*                                                                         *)
(*   pepsicode/tui/app.py          _handle_input: on_token,                *)
(*     finish_assistant_message, on_progress_message, on_tool_start,       *)
(*     on_tool_result, on_input_queue, _run_agent_background;              *)
(*     _finish_tool_entry, _finished_activity_groups                       *)
(*   pepsicode/core/agent_loop.py  run_agent_turn_stream,                  *)
(*     _execute_calls_in_order, _finish_cancelled_turn                     *)
(*                                                                         *)
(* An entry is named by its place, a word by the step whose reply holds it *)
(* and white space by 0.  A thread that has cleared is_busy goes on        *)
(* clearing the fields of its stream, beside the next turn; it is through  *)
(* before that turn ends.                                                  *)
(***************************************************************************)
EXTENDS Naturals, SequencesExt

CONSTANTS
  Batches,      \* calls of a reply: sequences of [tool, safe]
  MaxTurns,     \* bound: turns
  MaxSteps,     \* bound: replies of all turns
  MaxTokens,    \* bound: text tokens of a reply
  MaxThoughts,  \* bound: entries that show thinking
  MaxInputs,    \* bound: inputs delivered to turns
  MaxNotices    \* bound: retries and compactions that are announced

TranscriptAssumption ==
  /\ {MaxTurns, MaxSteps, MaxTokens, MaxThoughts, MaxInputs, MaxNotices} \subseteq Nat
  /\ \A calls \in Batches : calls # <<>>

VARIABLES
  entries,    \* state.transcript
  streaming,  \* state.streaming_entry_id, 0 for None
  text,       \* state.streaming_text
  thinking,   \* state.thinking_entry_id, 0 for None
  running,    \* pending_tool_entries of the turn
  busy,       \* state.is_busy
  leaving,    \* what the thread of the last turn clears next
  stage,      \* of the turn: "off", "model" or "calls"
  turn,       \* turns so far
  step,       \* replies asked for so far
  said,       \* the text of this reply so far
  calls,      \* its calls
  batch,      \* the last call of those that run together
  started, finished, executed,
  notices,
  replies,    \* history: the words of the replies that were kept whole
  strays,     \* history: entries left open, or written while a thread was leaving
  torn,       \* history: the turn has said something while a thread was leaving
  raised      \* history: the steps that an exception left

screen == <<entries, streaming, text, thinking>>
work   == <<calls, batch, started, finished, executed>>
past   == <<replies, strays, torn, raised>>
vars   == <<screen, running, busy, leaving, stage, turn, step, said, work, notices, past>>

Tools == UNION {{calls1[k].tool : k \in DOMAIN calls1} : calls1 \in Batches}
Entry(kind, live, at, of, shows) ==
  [kind |-> kind, live |-> live, at |-> at, of |-> of, shows |-> shows]
Words(pieces) == SelectSeq(pieces, LAMBDA piece : piece # 0)
Idle == [tool \in Tools |-> <<>>]

Init ==
  /\ entries = <<>> /\ streaming = 0 /\ text = <<>> /\ thinking = 0 /\ running = Idle
  /\ busy = FALSE /\ leaving = "nothing" /\ stage = "off" /\ turn = 0 /\ step = 0 /\ said = <<>>
  /\ calls = <<>> /\ batch = 0 /\ started = 0 /\ finished = 0 /\ executed = {} /\ notices = 0
  /\ replies = {} /\ strays = {} /\ torn = FALSE /\ raised = {}

--------------------------------------------------------------------------------
(* What the callbacks make of the entries.                                     *)

Thought(es) == IF thinking = 0 THEN es ELSE [es EXCEPT ![thinking].live = FALSE]

(* on_assistant_message and on_error_message.                                  *)
Assistant(content) ==
  IF streaming # 0 THEN [entries EXCEPT ![streaming].shows = content]
                   ELSE Append(entries, Entry("assistant", FALSE, step, <<>>, content))

(* on_progress_message: what was streamed is turned into progress as it is.    *)
Progress(content) ==
  IF streaming # 0 THEN [entries EXCEPT ![streaming].kind = "progress"]
                   ELSE Append(entries, Entry("progress", FALSE, step, <<>>, content))

(* Both forget the entry they have closed.                                     *)
Close == streaming' = 0 /\ text' = IF streaming = 0 THEN text ELSE <<>>

Shown(kind) == Cardinality({i \in DOMAIN entries : entries[i].kind = kind})
Forget == calls' = <<>> /\ batch' = 0 /\ started' = 0 /\ finished' = 0 /\ executed' = {}

(* The next step of the turn, with the inputs that are delivered to it.        *)
Onward(es) ==
  /\ step < MaxSteps /\ step' = step + 1 /\ stage' = "model" /\ said' = <<>>
  /\ \/ entries' = es
     \/ Shown("user") < turn + MaxInputs /\ entries' = Append(es, Entry("user", FALSE, step + 1, <<>>, <<>>))
  /\ Forget /\ UNCHANGED <<busy, leaving>>

(* The finally block: is_busy is cleared, and then the fields of the stream.   *)
Over(es) ==
  /\ entries' = es /\ stage' = "off" /\ busy' = FALSE
  /\ leaving = "nothing" /\ leaving' = "streaming"
  /\ said' = <<>> /\ Forget /\ UNCHANGED step

LeftOpen == strays' = strays \cup ({streaming} \ {0})
Keeps == replies' = IF torn THEN replies ELSE replies \cup {Words(said)}

--------------------------------------------------------------------------------
(* A message starts a turn; what the last one left is not looked at.           *)
Submit ==
  /\ ~busy /\ turn < MaxTurns /\ step < MaxSteps
  /\ busy' = TRUE /\ turn' = turn + 1 /\ stage' = "model" /\ step' = step + 1 /\ said' = <<>>
  /\ entries' = Append(entries, Entry("user", FALSE, step + 1, <<>>, <<>>))
  /\ running' = Idle /\ torn' = FALSE
  /\ UNCHANGED <<streaming, text, thinking, leaving, work, notices, replies, strays, raised>>

(* on_token: thinking, its end, and text.                                      *)
Think ==
  /\ stage = "model" /\ thinking = 0 /\ Shown("thinking") < MaxThoughts
  /\ entries' = Append(entries, Entry("thinking", TRUE, step, <<>>, <<>>))
  /\ thinking' = Len(entries) + 1
  /\ UNCHANGED <<streaming, text, running, busy, leaving, stage, turn, step, said, work, notices, past>>

FinishThinking ==
  /\ stage = "model" /\ thinking # 0
  /\ entries' = Thought(entries) /\ thinking' = 0
  /\ UNCHANGED <<streaming, text, running, busy, leaving, stage, turn, step, said, work, notices, past>>

TokenText(piece) == Append(text, piece)

Token ==
  /\ stage = "model" /\ Len(said) < MaxTokens
  /\ \E piece \in {0, step} :
       /\ said' = Append(said, piece) /\ text' = TokenText(piece)
       /\ LET es == Thought(entries) IN
            entries' = IF streaming # 0 THEN [es EXCEPT ![streaming].shows = text']
                       ELSE Append(es, Entry("assistant", FALSE, step, <<>>, text'))
  /\ thinking' = 0 /\ streaming' = IF streaming # 0 THEN streaming ELSE Len(entries) + 1
  /\ torn' = (torn \/ leaving # "nothing")
  /\ strays' = IF leaving = "nothing" THEN strays ELSE strays \cup {streaming'}
  /\ UNCHANGED <<running, busy, leaving, stage, turn, step, work, notices, replies, raised>>

(* A retry or a compaction is announced before the reply.                      *)
Announce ==
  /\ stage = "model" /\ said = <<>> /\ notices < MaxNotices /\ notices' = notices + 1
  /\ entries' = Progress(<<>>) /\ Close
  /\ UNCHANGED <<thinking, running, busy, leaving, stage, turn, step, said, work, past>>

--------------------------------------------------------------------------------
(* How a reply ends.                                                           *)

(* Text alone: the answer, which ends the turn unless an input is waiting; or  *)
(* progress, or nothing, which the model is asked to go on from.               *)
Answer ==
  /\ stage = "model" /\ Words(said) # <<>>
  /\ \/ Over(Assistant(said)) \/ Onward(Assistant(said)) \/ Onward(Progress(said))
  /\ Close /\ Keeps
  /\ UNCHANGED <<thinking, running, turn, notices, strays, torn, raised>>

Empty ==
  /\ stage = "model" /\ Words(said) = <<>> /\ Onward(entries) /\ LeftOpen
  /\ UNCHANGED <<streaming, text, thinking, running, turn, notices, replies, torn, raised>>

(* Calls, with progress before them if there are words.                        *)
Call ==
  /\ stage = "model" /\ stage' = "calls" /\ calls' \in Batches
  /\ batch' = 0 /\ started' = 0 /\ finished' = 0 /\ executed' = {}
  /\ IF Words(said) # <<>>
       THEN entries' = Progress(said) /\ Close /\ Keeps /\ UNCHANGED strays
       ELSE LeftOpen /\ UNCHANGED <<entries, streaming, text, replies>>
  /\ UNCHANGED <<thinking, running, busy, leaving, turn, step, said, notices, torn, raised>>

Settled == stage = "model" \/ (stage = "calls" /\ finished = Len(calls))

(* An error takes the place of what was streamed; so does, after calls, the    *)
(* question of a tool.  The notice of a cancelled turn is shown if nothing     *)
(* was streamed.  Both end the turn.                                           *)
Fail ==
  /\ Settled /\ (Over(Assistant(<<>>)) \/ Over(Progress(<<>>))) /\ Close
  /\ UNCHANGED <<thinking, running, turn, notices, past>>

(* A budget that is exceeded is raised through the turn, by a request or when  *)
(* the result of a call is asked for.                                          *)
Raise ==
  /\ stage = "model" \/ (stage = "calls" /\ finished < started /\ started = batch)
  /\ Over(Append(entries, Entry("assistant", FALSE, step, <<>>, <<>>)))
  /\ raised' = raised \cup {step}
  /\ UNCHANGED <<streaming, text, thinking, running, turn, notices, replies, strays, torn>>

(* The rest of the finally block.                                              *)
Clear ==
  /\ \/ /\ leaving = "streaming" /\ leaving' = "thinking" /\ streaming' = 0
        /\ UNCHANGED <<entries, thinking, text>>
     \/ /\ leaving = "thinking" /\ leaving' = "text" /\ entries' = Thought(entries) /\ thinking' = 0
        /\ UNCHANGED <<streaming, text>>
     \/ /\ leaving = "text" /\ leaving' = "nothing" /\ text' = <<>>
        /\ UNCHANGED <<entries, thinking, streaming>>
  /\ UNCHANGED <<running, busy, stage, turn, step, said, work, notices, past>>

--------------------------------------------------------------------------------
(* _execute_calls_in_order: safe calls next to each other are started, run     *)
(* together, and are reported in their order; any other runs alone.            *)
Together(k) ==
  CHOOSE n \in k..Len(calls) :
    /\ n > k => \A i \in k..n : calls[i].safe
    /\ calls[k].safe /\ n < Len(calls) => ~calls[n + 1].safe
    /\ ~calls[k].safe => n = k

(* on_tool_start.  An edit would share the entry of an edit of the same file   *)
(* that is under way in its turn; but edits are not safe, each has its result  *)
(* before the next call starts, and the count in its entry never passes one.   *)
Start ==
  /\ stage = "calls" /\ started < Len(calls)
  /\ batch' = IF started = finished THEN Together(started + 1) ELSE batch
  /\ started < batch' /\ started' = started + 1
  /\ entries' = Append(entries, Entry("tool", TRUE, step, <<step, started'>>, <<>>))
  /\ running' = [running EXCEPT ![calls[started'].tool] = Append(@, Len(entries) + 1)]
  /\ UNCHANGED <<streaming, text, thinking, busy, leaving, stage, turn, step, said, calls, finished,
                 executed, notices, past>>

Execute ==
  /\ stage = "calls" /\ started = batch
  /\ \E k \in (finished + 1)..started : k \notin executed /\ executed' = executed \cup {k}
  /\ UNCHANGED <<screen, running, busy, leaving, stage, turn, step, said, calls, batch, started,
                 finished, notices, past>>

(* _finish_tool_entry.                                                         *)
Ended(es, entry, output) == [es EXCEPT ![entry].live = FALSE, ![entry].shows = output]

(* on_tool_result: the first entry that waits under the name of the tool.      *)
Taken(queue) == Head(queue)

Finish ==
  /\ stage = "calls" /\ started = batch /\ finished + 1 \in executed /\ finished' = finished + 1
  /\ LET tool == calls[finished'].tool
         entry == Taken(running[tool]) IN
       /\ entries' = Ended(entries, entry, <<step, finished'>>)
       /\ running' = [running EXCEPT ![tool] = SelectSeq(@, LAMBDA other : other # entry)]
  /\ UNCHANGED <<streaming, text, thinking, busy, leaving, stage, turn, step, said, calls, batch,
                 started, executed, notices, past>>

Continue ==
  /\ stage = "calls" /\ finished = Len(calls) /\ Onward(entries)
  /\ UNCHANGED <<streaming, text, thinking, running, turn, notices, past>>

Next == Submit \/ Think \/ FinishThinking \/ Token \/ Announce \/ Answer \/ Empty \/ Call \/ Fail
        \/ Raise \/ Clear \/ Start \/ Execute \/ Finish \/ Continue

Spec == Init /\ [][Next]_vars

--------------------------------------------------------------------------------
(* _finished_activity_groups: runs of activity before an answer.               *)

Activity(es, i, j) == \A k \in i..j : es[k].kind \in {"progress", "thinking", "tool"}

Folded(es, open) ==
  {i \in DOMAIN es :
     /\ i = 1 \/ ~Activity(es, i - 1, i - 1)
     /\ \E j \in DOMAIN es : es[j].kind = "assistant" /\ j > i /\ j # open
          /\ Activity(es, i, j - 1) /\ \A k \in i..j : ~es[k].live}

(* What the calls of a reply gave is shown with the call that gave it, whether *)
(* they ran together under one name or not.                                    *)
ResultsMatch ==
  \A i \in DOMAIN entries : entries[i].kind = "tool" /\ ~entries[i].live => entries[i].shows = entries[i].of

(* A reply is shown once and whole, streamed or not, unless its turn began to  *)
(* speak before the thread of the last turn had left.                          *)
RepliesShown ==
  \A words \in replies :
    \E i \in DOMAIN entries :
      /\ Words(entries[i].shows) = words /\ entries[i].kind \in {"assistant", "progress"}
      /\ \A j \in DOMAIN entries \ {i} : entries[j].kind # "tool" => Last(words) \notin ToSet(entries[j].shows)

(* What stands in the transcript stands in the order it came, but for replies  *)
(* of white space that were left open, and what is written while a thread is   *)
(* leaving.                                                                    *)
InOrder ==
  \A i, j \in DOMAIN entries :
    i < j /\ i \notin strays /\ entries[i].kind \in {"assistant", "progress"} =>
      \A word \in ToSet(entries[i].shows) : word <= entries[j].at

(* After a turn nothing is shown as running, except calls that an exception    *)
(* has left.                                                                   *)
NothingRuns ==
  ~busy /\ leaving = "nothing" =>
    \A i \in DOMAIN entries : entries[i].live => entries[i].kind = "tool" /\ entries[i].at \in raised

TranscriptTrue == ResultsMatch /\ RepliesShown /\ InOrder /\ NothingRuns

(* What was folded away with its answer is not unfolded by what comes after,   *)
(* once the thread before has left.                                            *)
FoldsStay ==
  leaving = "nothing" => Folded(entries, streaming) \subseteq Folded(entries', streaming')
FoldedStays == [][FoldsStay]_vars
================================================================================
