----------------------------- MODULE ModelContext -----------------------------
(***************************************************************************)
(* What a request to the model carries, and how it is made smaller.        *)
(*                                                                         *)
(*   pepsicode/context/context_manager.py  ContextManager, the circuit     *)
(*                                         breaker, the compact boundary   *)
(*   pepsicode/context/summarization.py    summarize_transcript            *)
(*   pepsicode/core/agent_loop.py          _messages_for_model, and when   *)
(*                                         a turn compacts                 *)
(*                                                                         *)
(* A message is what it is (its role), a number, and a size in tokens; the *)
(* text of a summary is the set of messages it covers.                     *)
(***************************************************************************)
EXTENDS Naturals, Sequences, FiniteSets, SequencesExt

CONSTANTS
  Window,       \* context_window
  MinKeep,      \* MIN_MESSAGES_TO_KEEP
  Protected,    \* PROTECTED_RECENT_GROUPS
  MaxAttempts,  \* MAX_COMPACTION_ATTEMPTS
  Sizes,        \* sizes of what the user and the tools say
  MaxMessages,  \* bound: messages made
  MaxContracts  \* bound: revisions of the task

ContextAssumption ==
  /\ {Window, MinKeep, Protected, MaxAttempts, MaxMessages, MaxContracts} \subseteq Nat
  /\ Sizes \subseteq Nat \ {0}

VARIABLES
  messages,  \* current_messages
  before,    \* what the host has: the messages the turn began with
  boundary,  \* the messages the last boundary's summary covers, {} before the first
  attempts,  \* attempts of the breaker that failed, one after the other
  tried,     \* the fingerprint of the last attempt: the messages made by then
  actual,    \* tokens the provider has counted, 0 when it is not known
  at,        \* where the turn is
  retries,   \* overflow_retry_count
  contract,  \* the revision of the task, 0 without one
  made,      \* messages made so far
  human,     \* history: what the user said on this route
  summarizes \* a summary can be had: the model answers, or the extract is short enough

manager == <<boundary, attempts, tried, actual>>
vars == <<messages, before, manager, at, retries, contract, made, human, summarizes>>

Message(role, n, size) == [role |-> role, n |-> n, size |-> size, covers |-> {}, revision |-> 0]
System == Message("system", 0, 1)
Note(n) == [Message("note", n, 1) EXCEPT !.revision = contract]

Tokens(s) ==
  LET upTo[i \in 0..Len(s)] == IF i = 0 THEN 0 ELSE upTo[i - 1] + s[i].size IN upTo[Len(s)]
Numbers(s, role) == {m.n : m \in {x \in ToSet(s) : x.role = role}}

Init ==
  /\ messages = <<System>> /\ before = messages
  /\ boundary = {} /\ attempts = 0 /\ tried = 0 /\ actual = 0
  /\ at = "idle" /\ retries = 0 /\ contract = 0 /\ made = 0 /\ human = {}
  /\ summarizes = TRUE

--------------------------------------------------------------------------------
(* compact_messages.                                                           *)

Least(S) == CHOOSE x \in S : \A y \in S : x <= y
Ceiling == (Window * 95) \div 100
Target  == Least({(Window * 70) \div 100, (Ceiling * 80) \div 100})
Crowded == (IF Tokens(messages) > actual THEN Tokens(messages) ELSE actual) >= Ceiling

(* _group_atomic_messages: a batch of calls and its results stay together, and *)
(* with what the model thought or reported before them.                        *)
Joins(s, i) ==
  i > 1 /\ \/ s[i - 1].role = "progress"
           \/ s[i].role = "call" /\ s[i - 1].role = "call"
           \/ s[i].role = "result" /\ s[i - 1].role \in {"call", "result"}

Systems(s) == SelectSeq(s, LAMBDA m : m.role = "system")
Markers(s) == SelectSeq(s, LAMBDA m : m.role = "marker")
Others(s)  == SelectSeq(s, LAMBDA m : m.role \notin {"system", "marker"})

(* The places where groups begin, and what it weighs to keep a group and all   *)
(* that follow it.                                                             *)
Starts(s) == {i \in 1..Len(s) : ~Joins(s, i)}
Weight(s, i) == Tokens(Systems(messages)) + Tokens(SubSeq(s, i, Len(s)))

(* Groups are dropped until the target is met, the protected ones are reached, *)
(* or too few messages would be left: where what remains begins.               *)
Enough(s, starts, i) ==
  LET later == {j \in starts : j > i} IN
  \/ Cardinality(later) < Protected
  \/ Weight(s, i) <= Target
  \/ Len(s) - (IF later = {} THEN Len(s) ELSE Least(later) - 1) < MinKeep
Remains(s) ==
  IF s = <<>> THEN s
  ELSE LET starts == Starts(s) IN SubSeq(s, Least({i \in starts : Enough(s, starts, i)}), Len(s))

(* Then calls without results and results without calls.                       *)
Repaired(s) ==
  LET whole == Numbers(s, "call") \cap Numbers(s, "result")
  IN  SelectSeq(s, LAMBDA m : m.role \in {"call", "result"} => m.n \in whole)

(* Mutant: what an earlier summary covers is not summarised again.             *)
SummaryAlone(dropped) == dropped

(* What the summary covers: the last boundary's, or the text of a marker, and  *)
(* what is dropped now.                                                        *)
Summary(dropped) ==
  dropped \cup (IF boundary # {} \/ Markers(messages) = <<>> THEN boundary ELSE Last(Markers(messages)).covers)

Kept == {Repaired(r) : r \in {Remains(s) : s \in {Others(messages)}}}
Dropped(kept) == {m.n : m \in ToSet(Others(messages)) \ ToSet(kept)}
Compacted(kept) ==
  Systems(messages) \o <<[Message("marker", 0, 1) EXCEPT !.covers = Summary(Dropped(kept))]>> \o kept

(* The breaker refuses the same messages again, and everything after too many  *)
(* failures.                                                                   *)
Blocked == attempts >= MaxAttempts \/ (tried = made /\ attempts > 0)

(* A summary that is empty or fails, or saves too little, changes nothing.     *)
Accepts(kept) ==
  /\ Dropped(kept) # {} /\ summarizes
  /\ (Tokens(messages) - Tokens(Compacted(kept))) * 5 >= Tokens(messages)

Compact ==
  \E kept \in Kept :
  \/ Blocked /\ UNCHANGED <<messages, manager>>
  \/ /\ ~Blocked /\ Accepts(kept)
     /\ messages' = Compacted(kept) /\ boundary' = Summary(Dropped(kept))
     /\ attempts' = 0 /\ tried' = 0 /\ actual' = 0
  \/ /\ ~Blocked /\ ~Accepts(kept)
     /\ attempts' = attempts + 1 /\ tried' = made
     /\ UNCHANGED <<messages, boundary, actual>>

--------------------------------------------------------------------------------
(* The turn.                                                                   *)

Room(n) == made + n <= MaxMessages

(* The user's message; the first look at the size is before the first step.    *)
Begin ==
  /\ at = "idle" /\ Room(1)
  /\ \E z \in Sizes : before' = Append(messages, Message("human", made + 1, z))
  /\ messages' = before' /\ made' = made + 1 /\ human' = human \cup {made + 1}
  /\ at' = "first" /\ retries' = 0
  /\ UNCHANGED <<manager, contract, summarizes>>

(* Before each request: compaction when the context is crowded.                *)
Look ==
  /\ at \in {"first", "step"} /\ at' = IF at = "first" THEN "step" ELSE "send"
  /\ IF Crowded THEN Compact ELSE UNCHANGED <<messages, manager>>
  /\ UNCHANGED <<before, retries, contract, made, human, summarizes>>

Notes == {i \in 1..Len(messages) : messages[i].role = "note"}

(* The task is told again when it has changed, and after the user has spoken.  *)
Told(i) ==
  /\ messages[i].revision = contract
  /\ \A j \in i..Len(messages) : messages[j].role # "human"

(* _messages_for_model: the last note supersedes the others.                   *)
Project ==
  /\ at = "send" /\ at' = "request"
  /\ IF \/ contract = 0 /\ Notes = {}
        \/ \E i \in Notes : Told(i) /\ \A j \in Notes : j <= i
       THEN UNCHANGED <<messages, made>>
       ELSE Room(1) /\ messages' = Append(messages, Note(made + 1)) /\ made' = made + 1
  /\ UNCHANGED <<before, manager, retries, contract, human, summarizes>>

(* The model calls a tool, or reports and calls two; the provider counts.     *)
Call ==
  /\ at = "request" /\ at' = "step"
  /\ \/ \E z \in Sizes :
          /\ Room(1) /\ made' = made + 1
          /\ messages' = messages \o <<Message("call", made + 1, 1), Message("result", made + 1, z)>>
     \/ /\ Room(3) /\ made' = made + 3
        /\ messages' = messages \o <<Message("progress", made + 1, 1),
                                     Message("call", made + 2, 1), Message("call", made + 3, 1),
                                     Message("result", made + 2, 1), Message("result", made + 3, 1)>>
  /\ actual' = Tokens(messages) + 1
  /\ UNCHANGED <<before, boundary, attempts, tried, retries, contract, human, summarizes>>

(* A tool call may have changed the task.                                      *)
Revise ==
  /\ at = "step" /\ contract < MaxContracts /\ contract' = contract + 1
  /\ UNCHANGED <<messages, before, manager, at, retries, made, human, summarizes>>

Answer ==
  /\ at = "request" /\ at' = "idle"
  /\ Room(1) /\ messages' = Append(messages, Message("answer", made + 1, 1)) /\ made' = made + 1
  /\ before' = messages' /\ retries' = 0
  /\ UNCHANGED <<manager, contract, human, summarizes>>

(* The request is too large: compaction is forced, three times at most; when   *)
(* nothing changes the request is made once more, and then given up.           *)
Refused == Tokens(messages) * 2 > Window

Overflow ==
  /\ at = "request" /\ Refused /\ retries < 3
  /\ Compact /\ retries' = retries + 1
  /\ at' = IF messages' # messages \/ retries = 0 THEN "step" ELSE "failed"
  /\ UNCHANGED <<before, contract, made, human, summarizes>>
GiveUp ==
  /\ \/ at = "failed"
     \/ at = "request" /\ Refused /\ retries = 3
  /\ at' = "idle" /\ before' = messages /\ retries' = 0
  /\ UNCHANGED <<messages, manager, contract, made, human, summarizes>>

(* The turn raises an exception: the host keeps what it had.                   *)
Raise ==
  /\ at = "request" /\ at' = "idle" /\ messages' = before /\ retries' = 0
  /\ UNCHANGED <<before, manager, contract, made, human, summarizes>>

(* Another route of the conversation: select_branch forgets the old summary.   *)
SelectBranch ==
  /\ at = "idle" /\ messages # <<System>>
  /\ messages' = <<System>> /\ human' = {}
  /\ boundary' = {} /\ attempts' = 0 /\ tried' = 0 /\ actual' = 0 /\ before' = messages'
  /\ UNCHANGED <<at, retries, contract, made, summarizes>>

(* The model that summarises can be out of reach for a while.                  *)
Outage ==
  /\ at = "idle" /\ summarizes' = ~summarizes
  /\ UNCHANGED <<messages, before, manager, at, retries, contract, made, human>>

Turn == Look \/ Project \/ Call \/ Answer \/ Overflow \/ GiveUp \/ Raise
Next == Begin \/ Turn \/ Revise \/ SelectBranch \/ Outage
Spec == Init /\ [][Next]_vars

--------------------------------------------------------------------------------
(* What a request carries, however often the context was made smaller:         *)
(*  - no call without its result and no result without its call;               *)
(*  - what the user said on this route is there, or the marker covers it;      *)
(*  - one marker at most, and the rest in the order it was said;               *)
(*  - the task as it is now, told after what the user said last.               *)
RequestSafe ==
  at = "request" =>
    /\ Numbers(messages, "call") = Numbers(messages, "result")
    /\ \A n \in human : n \in Numbers(messages, "human") \/ \E m \in ToSet(messages) : n \in m.covers
    /\ Len(Markers(messages)) <= 1
    /\ LET o == Others(messages) IN
         \A i, j \in 1..Len(o) : (i < j /\ o[i].role \notin {"call", "result"} /\ o[j].role \notin {"call", "result"})
                                   => o[i].n < o[j].n
    /\ contract # 0 =>
         \E i \in Notes : /\ messages[i].revision = contract
                          /\ \A j \in i..Len(messages) : messages[j].role # "human"

(* Old messages are compacted when the context comes near its limit: where     *)
(* that would make it smaller, and the summary can be had, it is done.         *)
NearLimitCompacts ==
  [][(at = "step" /\ at' = "send" /\ Crowded /\ (\A kept \in Kept : Accepts(kept))) => messages' # messages]_vars
================================================================================
