------------------------------- MODULE Terminal -------------------------------
(***************************************************************************)
(* The terminal interface and the thread that runs its turns.              *)
(*                                                                         *)
(*   pepsicode/tui/app.py   run_tty_app, _handle_event, _handle_input,     *)
(*                          _execute_tool_shortcut, the approval handlers, *)
(*                          _restore_session_into_state                    *)
(*   pepsicode/permissions.py   plan mode and its follow-up                *)
(*                                                                         *)
(* The loop of the interface collects what a turn left, then handles the   *)
(* keys that came in one read.  A turn, or a tool called as a shortcut,    *)
(* runs in a thread beside it; both write the same fields without a lock,  *)
(* so a handler that reads a field twice is two actions here.              *)
(***************************************************************************)
EXTENDS Naturals, FiniteSets

CONSTANTS
  Sessions,    \* sessions of the workspace
  First,       \* the one the interface is started with
  MaxTurns,    \* bound: turns and shortcuts
  MaxPrompts,  \* bound: permissions asked for
  MaxInputs    \* bound: texts typed while a turn runs

TerminalAssumption ==
  First \in Sessions /\ {MaxTurns, MaxPrompts, MaxInputs} \subseteq Nat

VARIABLES
  ui,         \* where the loop of the interface is
  busy,       \* state.is_busy
  cancel,     \* state.cancellation_event
  worker,     \* where the thread of the turn is
  turn,       \* turns and shortcuts so far: the last one's number
  kind,       \* "agent" or "tool": what it is
  result,     \* agent_result["messages"], {} when a shortcut leaves none
  done,       \* agent_result["done"]
  messages,   \* args.messages: what was asked and how it ended, by turn
  session,    \* state.session
  disk,       \* what is saved of each session
  answered,   \* history: the turns that ended in each session
  since,      \* history: the last turn when the session was opened
  accepting,  \* the queue takes inputs
  typed,      \* texts typed while a turn ran
  pending,    \* those the queue holds
  returned,   \* state.returned_inputs
  composer,   \* those in the editor
  prompt,     \* state.pending_approval, 0 when there is none
  prompts,    \* permissions asked for so far
  event,      \* approval_event
  answer,     \* approval_result, "none" when it is empty
  choice,     \* the choice a handler is about to write
  allowing,   \* history: keys that allow, less the permissions given, up to MaxPrompts
  plan,       \* the permissions are in plan mode
  followup    \* _plan_followup: the session it was asked for in, "none" if there is none

thread == <<busy, cancel, worker, turn, kind, result, done>>
store  == <<messages, session, disk, answered, since>>
inputs == <<accepting, typed, pending, returned, composer>>
asking == <<prompt, prompts, event, answer, choice, allowing>>
modes  == <<plan, followup>>
vars   == <<ui, thread, store, inputs, asking, modes>>

Asked(t)    == <<t, "asked">>
Ends(t)     == {<<t, "answered">>, <<t, "failed">>}   \* the last message of a turn
Choices == {"allow", "deny", "feedback"}

Init ==
  /\ ui = "head" /\ busy = FALSE /\ cancel = FALSE
  /\ worker = "off" /\ turn = 0 /\ kind = "agent" /\ result = {} /\ done = FALSE
  /\ messages = {} /\ session = First /\ disk = [s \in Sessions |-> {}]
  /\ answered = [s \in Sessions |-> {}] /\ since = 0
  /\ accepting = FALSE /\ typed = 0 /\ pending = {} /\ returned = {} /\ composer = {}
  /\ prompt = 0 /\ prompts = 0 /\ event = FALSE /\ answer = "none" /\ choice = "none"
  /\ allowing = 0 /\ plan = TRUE /\ followup = "none"

--------------------------------------------------------------------------------
(* What the interface and its loop do.                                         *)

(* _collect_agent_result, with the returned inputs put before the draft.       *)
Results == IF done /\ kind = "agent" THEN result ELSE messages

Returns ==
  IF done THEN returned' = {} /\ composer' = composer \cup returned
          ELSE UNCHANGED <<returned, composer>>

Collect ==
  /\ ui = "head" /\ done
  /\ messages' = Results /\ done' = FALSE /\ Returns
  /\ ui' = "collected"
  /\ UNCHANGED <<busy, cancel, worker, turn, kind, result, session, disk, answered, since,
                 accepting, typed, pending, asking, modes>>

(* Starts a turn on the messages m; the queue is started with it, and the      *)
(* scope of its calls saves what was asked before anything else.               *)
StartsTurn(m) ==
  /\ turn < MaxTurns
  /\ turn' = turn + 1 /\ kind' = "agent" /\ worker' = "run"
  /\ busy' = TRUE /\ cancel' = FALSE /\ result' = {} /\ done' = FALSE
  /\ messages' = m \cup {Asked(turn + 1)} /\ accepting' = TRUE
  /\ disk' = [disk EXCEPT ![session] = messages']

(* After collecting, the loop takes the follow-up of a plan; it is gone when   *)
(* the thread has not yet cleared is_busy.                                     *)
Followup ==
  /\ ui = "collected" /\ followup' = "none" /\ ui' = "keys"
  /\ IF followup # "none" /\ ~busy
       THEN StartsTurn(messages)
       ELSE UNCHANGED <<thread, messages, disk, accepting>>
  /\ UNCHANGED <<session, answered, since, typed, pending, returned, composer, asking, plan>>

(* The loop reads keys, nothing to collect; or it has handled what it read.    *)
Turnover ==
  /\ \/ ui = "head" /\ ~done /\ ui' = "keys"
     \/ ui = "keys" /\ ui' = "head"
  /\ UNCHANGED <<thread, store, inputs, asking, modes>>

(* What a save takes.  While a turn runs it is what the turn has recorded, with *)
(* its answer once there is one; as soon as is_busy is cleared it is the        *)
(* messages of the interface, whether the result is collected or not.           *)
Recorded == IF worker \in {"ended", "announced"} /\ <<turn, "answered">> \in result
              THEN result ELSE messages
Live(m)  == IF busy THEN Recorded ELSE m

(* The autosave, once its interval is over; it comes before the collecting.    *)
Autosave ==
  /\ ui = "head" /\ disk[session] # Live(messages)
  /\ disk' = [disk EXCEPT ![session] = Live(messages)]
  /\ UNCHANGED <<ui, thread, messages, session, answered, since, inputs, asking, modes>>

Key == ui = "keys" /\ prompt = 0

--------------------------------------------------------------------------------
(* Keys of the normal mode.                                                    *)

(* Return with a message: what the last turn left is collected first.          *)
Submit ==
  /\ Key /\ ~busy /\ Returns /\ StartsTurn(Results)
  /\ UNCHANGED <<ui, session, answered, since, typed, pending, asking, modes>>

(* A tool called as a shortcut: no queue, no messages.                         *)
Shortcut ==
  /\ Key /\ ~busy /\ Returns /\ turn < MaxTurns
  /\ messages' = Results /\ turn' = turn + 1 /\ kind' = "tool" /\ worker' = "run"
  /\ busy' = TRUE /\ cancel' = FALSE /\ result' = {} /\ done' = FALSE
  /\ UNCHANGED <<ui, session, disk, answered, since, accepting, typed, pending, asking, modes>>

(* Return while a turn runs: the text waits in the queue, or stays a draft     *)
(* when the turn is being stopped or its queue is closed.                      *)
Enqueue ==
  /\ Key /\ busy /\ typed < MaxInputs /\ typed' = typed + 1
  /\ IF accepting /\ ~cancel
       THEN pending' = pending \cup {typed + 1} /\ UNCHANGED composer
       ELSE composer' = composer \cup {typed + 1} /\ UNCHANGED pending
  /\ UNCHANGED <<ui, thread, store, accepting, returned, asking, modes>>

(* Alt-Up takes the last input back, then moves what was returned to the       *)
(* editor, and then forgets what was returned.                                 *)
TakeBack ==
  /\ Key /\ pending # {} /\ ui' = "moving"
  /\ LET last == CHOOSE i \in pending : \A j \in pending : j <= i IN
       pending' = pending \ {last} /\ composer' = composer \cup returned \cup {last}
                                  /\ returned' = returned \cup {last}
  /\ UNCHANGED <<thread, store, accepting, typed, asking, modes>>
TakenBack ==
  /\ ui = "moving" /\ ui' = "keys" /\ returned' = {}
  /\ UNCHANGED <<thread, store, accepting, typed, pending, composer, asking, modes>>

(* /resume: nothing more is saved of the session that is left.                 *)
Resume ==
  /\ Key /\ ~busy
  /\ \E s \in Sessions \ {session} :
       /\ session' = s /\ messages' = disk[s] /\ since' = turn
       /\ answered' = [answered EXCEPT ![s] = {t \in @ : Ends(t) \cap disk[s] # {}}]
  /\ done' = FALSE /\ returned' = {} /\ composer' = {}
  /\ UNCHANGED <<ui, busy, cancel, worker, turn, kind, result, disk, accepting, typed, pending,
                 asking, modes>>

(* Tab: plan mode is entered or left; leaving it forgets the follow-up.        *)
SwitchPlan ==
  /\ Key /\ ~busy
  /\ plan' = ~plan
  /\ followup' = IF plan THEN "none" ELSE followup
  /\ UNCHANGED <<ui, thread, store, inputs, asking>>

(* Ctrl-C while a turn runs, whether a prompt is shown or not.                 *)
Stop ==
  /\ ui = "keys" /\ busy /\ cancel' = TRUE
  /\ UNCHANGED <<ui, busy, worker, turn, kind, result, done, store, inputs, asking, modes>>

--------------------------------------------------------------------------------
(* Keys while a permission is asked for.                                       *)

(* The prompt is looked at by the caller, and again by the handler of the key, *)
(* which fails when it is gone; a rejection by Escape does not look.           *)
Press ==
  /\ ui = "keys" /\ prompt # 0 /\ ui' = "choosing"
  /\ UNCHANGED <<thread, store, inputs, asking, modes>>
Choose ==
  /\ ui = "choosing"
  /\ \/ /\ ui' = "writing" /\ answer' = "none"
        /\ choice' \in IF prompt = 0 THEN {"deny"} ELSE Choices
        /\ allowing' = IF choice' = "allow" /\ allowing < MaxPrompts THEN allowing + 1 ELSE allowing
     \/ prompt = 0 /\ ui' = "keys" /\ UNCHANGED <<answer, choice, allowing>>
  /\ UNCHANGED <<thread, store, inputs, prompt, prompts, event, modes>>
Write ==
  /\ ui = "writing" /\ ui' = "keys"
  /\ answer' = choice /\ event' = TRUE /\ choice' = "none"
  /\ UNCHANGED <<thread, store, inputs, prompt, prompts, allowing, modes>>

--------------------------------------------------------------------------------
(* The thread of the turn.                                                     *)

(* The turn takes what waits in the queue.                                     *)
Deliver ==
  /\ worker = "run" /\ accepting /\ pending # {} /\ pending' = {}
  /\ UNCHANGED <<ui, thread, store, accepting, typed, returned, composer, asking, modes>>

(* Mutant: the event of the last prompt is not cleared.                        *)
RaisedSet == event

(* _permission_prompt_handler.  The last answer is left where it is.           *)
Raised == FALSE

Ask ==
  /\ worker = "run" /\ prompts < MaxPrompts
  /\ prompts' = prompts + 1 /\ prompt' = prompts + 1 /\ event' = Raised
  /\ worker' = "ask"
  /\ UNCHANGED <<ui, busy, cancel, turn, kind, result, done, store, inputs, answer, choice, allowing, modes>>

(* What the permissions make of an answer: a plan that is approved, or sent    *)
(* back with changes to make, is followed up.                                  *)
Takes(a) ==
  \/ UNCHANGED modes
  \/ /\ plan /\ kind = "agent" /\ a \in {"allow", "feedback"}
     /\ plan' = (a # "allow") /\ followup' = session

(* The handler looks for the event, and for the cancellation, and for the      *)
(* cancellation again when the event is there.                                 *)
Wake ==
  /\ worker = "ask" /\ event /\ prompt' = 0 /\ worker' = "run"
  /\ LET a == IF cancel \/ answer = "none" THEN "deny" ELSE answer IN
       Takes(a) /\ allowing' = IF a = "allow" THEN allowing - 1 ELSE allowing
  /\ UNCHANGED <<ui, busy, cancel, turn, kind, result, done, store, inputs, prompts, event, answer, choice>>

(* Mutant: the handler waits for the event alone.                              *)
StoppedNever == FALSE

Stopped == cancel

Poll ==
  /\ worker = "ask" /\ ~event /\ Stopped /\ prompt' = 0 /\ worker' = "run"
  /\ UNCHANGED <<ui, busy, cancel, turn, kind, result, done, store, inputs, prompts, event, answer, choice,
                 allowing, modes>>

(* The turn is over, and its messages are saved with the end of its task and   *)
(* of its calls; or it has failed, and what it says of that is in no save of   *)
(* its own.  The queue is closed and gives back what it holds.                 *)
End ==
  /\ worker = "run" /\ worker' = "ended"
  /\ IF kind = "agent"
       THEN /\ \/ result' = messages \cup {<<turn, "failed">>} /\ UNCHANGED disk
               \/ /\ result' = messages \cup {<<turn, "answered">>}
                  /\ disk' = [disk EXCEPT ![session] = result']
            /\ answered' = [answered EXCEPT ![session] = @ \cup {turn}]
            /\ accepting' = FALSE /\ returned' = returned \cup pending /\ pending' = {}
       ELSE UNCHANGED <<result, disk, answered, accepting, returned, pending>>
  /\ UNCHANGED <<ui, busy, cancel, turn, kind, done, messages, session, since, typed, composer,
                 asking, modes>>

(* The result is announced first, and is_busy cleared after it.                *)
Announce ==
  /\ worker = "ended" /\ worker' = "announced" /\ done' = TRUE
  /\ UNCHANGED <<ui, busy, cancel, turn, kind, result, store, inputs, asking, modes>>
Free ==
  /\ worker = "announced" /\ worker' = "off" /\ busy' = FALSE
  /\ UNCHANGED <<ui, cancel, turn, kind, result, done, store, inputs, asking, modes>>

--------------------------------------------------------------------------------
(* /exit, two Ctrl-C, or the end of the input: the turn is stopped, waited for *)
(* two seconds, collected if it ended, and the session saved.                  *)
Exit ==
  /\ ui = "keys"
  /\ IF busy THEN ui' = "stopping" /\ cancel' = TRUE ELSE ui' = "leaving" /\ UNCHANGED cancel
  /\ UNCHANGED <<busy, worker, turn, kind, result, done, store, inputs, asking, modes>>
Release ==
  /\ ui = "stopping" /\ ui' = "leaving" /\ event' = TRUE
  /\ UNCHANGED <<thread, store, inputs, prompt, prompts, answer, choice, allowing, modes>>
Leave ==
  /\ ui = "leaving" /\ ui' = "off"
  /\ messages' = Results /\ done' = FALSE /\ Returns
  /\ disk' = [disk EXCEPT ![session] = Live(Results)]
  /\ UNCHANGED <<busy, cancel, worker, turn, kind, result, session, answered, since,
                 accepting, typed, pending, asking, modes>>

Keys == Submit \/ Shortcut \/ Enqueue \/ TakeBack \/ Resume \/ SwitchPlan \/ Stop \/ Press \/ Exit
Loop == Collect \/ Followup \/ Turnover \/ TakenBack \/ Choose \/ Write \/ Release \/ Leave
Work == ui # "off" /\ (Poll \/ Wake \/ End \/ Announce \/ Free)
Next == Keys \/ Loop \/ Autosave \/ Work \/ (ui # "off" /\ (Deliver \/ Ask))

Spec == Init /\ [][Next]_vars

(* The threads run; nobody has to press a key.                                 *)
FairSpec == Spec /\ WF_vars(Loop) /\ WF_vars(Work)

--------------------------------------------------------------------------------
(* Between two keys and the thread that reads them:                            *)
(*  - a turn works on the end of every turn before it in its session;          *)
(*  - a permission is given only for a key that allows, once for each key,     *)
(*    whatever answer an earlier prompt or the exit has left behind;           *)
(*  - while a turn runs no other can be started, and an input that was typed   *)
(*    for it is not in two places.                                             *)
TerminalSafe ==
  /\ worker # "off" =>
       /\ busy
       /\ \A t \in answered[session] : (since < t /\ t < turn) => Ends(t) \cap messages # {}
  /\ allowing >= 0
  /\ pending \cap (composer \cup returned) = {}
  /\ prompt # 0 => worker = "ask"

(* A turn that is told to stop ends, even if nobody answers the permission it  *)
(* waits for, and what it left is collected.                                   *)
Told(t) == cancel /\ busy /\ turn = t
Collected(t) == turn # t \/ (~done /\ ~busy) \/ ui = "off"
StopReturns == \A t \in 1..MaxTurns : Told(t) ~> Collected(t)

(* The approved plan is carried out: its follow-up is taken by a turn, in the  *)
(* session it belongs to, unless plan mode is left.                            *)
ApprovedPlanStarts ==
  [][followup # "none" /\ followup' = "none" => ((turn' # turn /\ followup = session) \/ plan # plan')]_vars
================================================================================
