# Verification of PepsiCode

PepsiCode is a coding agent: a Python core (`pepsicode/`) that runs a model's
tool calls on a repository, an application server that exposes it over
JSON-RPC, a desktop client, a terminal interface and a bridge to a private QQ
chat (`integrations/qq/`). This directory holds TLA+ models of the parts whose
correctness depends on order, failure and restart, the TLC configurations that
check them, and proofs that TLAPS checks. All paths below are relative to
`src/`; a bare `x.py` is under `pepsicode/`.

Contents: [the system](#the-system), [the models](#the-models),
[the runs](#the-runs), [fairness](#fairness), [the proofs](#the-proofs),
[what the models found](#what-the-models-found),
[what is not modelled](#what-is-not-modelled), [the plan](#the-plan).

## The system

### How the parts interact

```
 desktop client      terminal interface      QQ bridge (own process, JS)
       \  JSON-RPC          |  in process        /  JSON-RPC
        +-------------- application server -----+        evaluation runner
                            |  turn/run, enqueue, cancel, resume   |
            input queue  <--+--> run_verified_turn <---------------+
                 |                  |  begin_task, run_loop, settle_task
                 |            task contract <--> acceptance and verification
                 |                  |
                 +----------> agent loop ----> context, memory --> request
                                    |                 (budget, retries, stream)
                              tool dispatch --> hooks --> approval
                                    |                        |
              sub-agents   execution journal    files / worktrees / processes /
              (own loops)           |           MCP and language servers
                              session file and tree (messages, task_control,
                              pointer to the journal of the turn)
```

One turn of a session runs in one worker thread. The server's event loop, or
the loop of the terminal, accepts requests and keys while it runs; approvals are
answered by the user at any later time; calls that are safe run beside each
other in a pool; sub-agents, the readers of servers, hooks in the background
and the watchers of processes have threads of their own; and the process may die
anywhere. What survives is the session file, written whole and replaced
atomically, one append-only journal for each turn, and the files of decisions,
memories, trust and worktrees, which several processes share.

### Inventory

Status: M modelled, P partly, - not. `PROJECT.json` lists the sources of each
component, what of it is left out, and the hazards with their lines.

| Component | State it keeps | What makes it hard | Correct when | |
|---|---|---|---|---|
| Input queue (`core/input_queue.py`) | pending, claimed, returned input; a copy in the session | a client and a worker; each mutation is a save that may fail; crashes | accepted input is never lost, delivered twice or both delivered and returned; order; every turn settles its input | M |
| Execution journal and recovery (`execution/runtime.py`) | a journal per turn, its pointer, unresolved calls, observations | torn and corrupt lines, failed appends, a pointer ahead of the file | every call without a known outcome is known to be unknown; nothing has an effect over it | P |
| Status of unknown calls (`tools/execution_status.py`) | the observation cited | an approval between observation and decision | decisions rest on current evidence and are final | M |
| Tool dispatch (`tooling.py`) | journal entry of a call, what the task allows | append before dispatch; approval between check and effect | as above; a restriction is respected | P |
| Process control (`execution/process.py`) | processes, watchers | watcher thread against the turn | an outcome is known or recorded as unknown | P |
| Effects outside the workspace (`execution/external.py`) | - | as processes | a refusal stands | P |
| Task contract (`core/task_control.py`, `task_intent.py`) | identity, revisions, status, intents, criteria, evidence | instructions at any point of a turn, delivered later or withdrawn | a restriction holds; nothing is done for an older revision | P |
| Acceptance (`core/task_verification.py`, `verification.py`) | baseline, snapshot, evidence, report | long checks that change the workspace; steering during them | done means the delivered revision in the workspace that was checked | P |
| Verification loop (`core/loop_engine.py`) | iteration, stop reason | ends in five ways | bounded; every end settles the task | P |
| Agent loop (`core/agent_loop.py`) | messages, step counters | concurrent calls, cut answers, cancellation, steering | every call has its result in its place; a turn ends as it says | P |
| Model requests and budget (`execution/model_requests.py`, `RequestBudget`) | spent, reserved, unmetered, children | streams that stop early; the lock held over a request; retries | the limit holds over all scopes; nothing passed on is asked for again | P |
| Model providers (`llm/`) | a stream being decoded, the parts of a reply | cut after any event; markers cut by deltas | what is recorded is of a whole reply and what was shown | P |
| Context (`context/context_manager.py`) | messages, boundary, breaker | compaction in mid turn, failures near the limit | requests are well formed and carry the task | P |
| Memory (`context/memory*.py`) | entries of a scope, two files, a database | several sessions over one file; a write of two files that fails half-way | no session drops what it never read | P |
| Sub-agents (`tools/task.py`, `agents/`) | child scopes, reports | tasks that change, deadlines, definitions that are edited | no effect and no report for an older task | P |
| Approvals and permissions (`permissions.py`, `approval/`) | modes, decisions of five lifetimes | prompts of concurrent calls; processes over one file | a refusal stands; a grant is used for what it was given | P |
| Hooks (`hooks/`) | hooks, claims, trust, background tasks | reload and close during events | once means once; a denial holds | P |
| Files (`execution/filesystem.py`, `tools/*edit*`) | versions observed, locks | other writers; approval before the write; renames of many files | no lost update; all or nothing | P |
| Worktrees (`worktree/`) | active worktree, head it was made from | a manager made anew for each call; other processes | work is not deleted unasked | P |
| MCP servers (`mcp.py`) | process, request ids, pending calls | late answers, restart with calls pending | each call is answered once, runs once | P |
| Code intelligence (`intelligence/lsp.py`) | open documents, diagnostics | diagnostics of an earlier text | answers are of the present text | P |
| Application server (`server/app.py`) | sessions, active turn, prompts over the wire | requests that await; disconnects | one turn per session, undisturbed but for its mode | P |
| Sessions and tree (`core/session*.py`) | entries, branches, the file | three lists of messages recorded into one tree; crashes | nothing recorded is lost or moved | P |
| Command line (`main.py`, `cli/`) | the session, its branch in three places, modes | lines that branch, retry or are refused, in any order | what is read next is about the branch chosen; modes hold | P |
| Terminal (`tui/`) | editor, menus, prompts, transcript | two threads over the same fields; keys in any number of reads | what is typed arrives, as it was typed, where it was meant | P |
| QQ bridge (`integrations/qq/src`) | inbox, outbox, flags; a state file | awaits, reconnects, redelivery, restarts | a message runs once, a reply is sent once; no wake-up is lost | P |
| Evaluations (`evals/`) | runs, their processes, the report | deadlines, killed workers | a report says what is known | P |
| Tools (`tools/`, `tooling.py`) | the names that are loaded, saved with the session | servers that are down, searches, compaction, sessions resumed by other processes | what was found or called is offered from then on | P |
| Discovery of checks, task tracker and application state, desktop client | - | - | - | - |

## The models

| Module | What it is | Checked in |
|---|---|---|
| `InputLedger` | the abstract promise about accepted input | `inbox_crash` (refinement) |
| `InputInbox`, `MCInputInbox`, `InputInboxProofs` | the input queue with client, worker, disk and crashes; implements `InputLedger`; proofs | `inbox_*` |
| `ToolRecovery`, `MCToolRecovery`, `ToolRecoveryProofs` | journal, recovery, dispatch, watchers, reconciliation; proofs | `recovery_crash` |
| `TaskContract`, `MCTask`, `TaskContractProofs` | intent, revisions, tool gate, acceptance, end of a turn; proofs | `task` |
| `ServerSessions`, `MCServerSessions`, `ServerSessionsProofs` | one connection of the server; proofs | `hosts`, `live`, `server_fork` |
| `Terminal` | the interface's loop and the thread of a turn | `hosts`, `live` |
| `InputDecoder` | bytes of the terminal to events | `hosts` |
| `Composer` | the editor, its history and queue, the menus and the form of a provider | `hosts` |
| `PipeSession` | the process of the command line, and its lines from a pipe | `hosts` |
| `SessionTree` | entries, branches, copies, saves, crashes | `recovery_crash` |
| `Approvals`, `ApprovalsProofs` | modes, prompts, grants and refusals; proofs | `hosts` |
| `QQBridge`, `QQOutbox` | the two directions of the bridge | `hosts` |
| `AgentTurn`, `AgentTurnProofs` | one turn: requests, batches of calls, ends; proofs | `turns`, `live` |
| `ModelStream` | a streamed reply and what is recorded of it | `turns` |
| `Transcript` | what the terminal shows of a turn | `turns` |
| `ModelRequests`, `ModelRequestsProofs` | requests of a task and its sub-agents under one budget; proofs | `live` |
| `ModelContext` | what a request carries; compaction | `turns`, `context_limit` |
| `Memory` | the memories of a scope, kept by several sessions | `turns` |
| `ToolCatalog` | the tools that are loaded and offered to the model | `turns` |
| `Subagents` | a batch of task calls and their children | `turns` |
| `McpClient`, `LspClient` | one MCP server, one language server | `recovery_crash`, `live` |
| `Hooks` | events, claims, trust, reload, close | `turns` |
| `FileEdits`, `MCFileEdits`, `FileEditsProofs` | versions, locks, edits, renames; proofs | `turns`, `files_read` |
| `Worktrees`, `MCWorktrees` | create, enter, exit, clean up | `recovery_crash`, `worktree_exit` |
| `Evaluation`, `MCEvaluation` | a cohort of runs and its report | `turns`, `report_numbers` |
| `MCToolRecovery`, `MCHosts`, `MCTurns`, `MCLive` | instances of the components above | |

**How they compose.** The modules meet in the same code but not in one state
space: the product would be out of TLC's reach, and each module has, at its own
level of detail, the part of its neighbours that it depends on. `InputInbox`,
`TaskContract`, `Terminal`, `ServerSessions` and `Composer` all have the queue
of a turn: the first knows every save, crash and bound of it and nothing of what
an input means; the second follows what each input does to the task; the server
has only whom the queue belongs to; the terminal what happens to what it gives
back. `ModelRequests` is a request of `AgentTurn`, whose attempts
`ModelStream` decodes and `Transcript` shows; `Subagents` has the loops of
children, whose money is in `ModelRequests`. `Terminal` has what its two threads
share, `Composer` all else that a key does. `QQBridge` and `QQOutbox` share only
`say`, which in `QQBridge` may find the outbox full and pause the queue.

**MC modules that hold several components.** `MCToolRecovery`, `MCHosts`,
`MCTurns` and `MCLive` are disjoint sums: `part` names the component a behaviour is
about. Each extends one component, `ToolRecovery`, `ServerSessions`, `FileEdits` and
`ModelRequests`, whose properties its run checks under their own names, so that the
theorems speak of the very properties the runs check. The other components share the
variable slots `v1`, `v2`, ...; each is an `INSTANCE` with its variables on the first
slots and its constants given by definitions, and the slots it does not use stay
unused (`Rests`). What such a run checks of them is a conjunction of
`part = "x" => X!Property`, and the next-state relation is the disjunction of the
components' own; nothing in a component depends on the others. `AllAssumptions`
evaluates the named assumptions of each component for the values of the run.

An operator marked "Mutant" is a variant of the definition after it, as a
plausible slip in the code would have it; no action uses it.
`PROJECT.json` ("mutants") names the property that each one breaks.

### InputInbox

`queue` is `_pending`, `_claimed`, `_returned` in memory; `inbox` is
`task_control["inbox"]` of the session file, and `delivered` the inputs that
are messages in it. A list of inputs with distinct ids is a set with a seat for
each member; the order among equal seats never matters because recovered
claims, the only ones that change seat, are shifted together.

Every mutation of the queue ends in `Persist`, as `_mutation` ends in
`_persist`; its failing variant leaves memory, file, listener and order as they
were (`SaveFails`), which is what the code's rollback restores. `StartTurn`
publishes twice, so its failing variant may have reached the disk. The worker
(`pc`) follows `run_verified_turn` and the step loop: the head of a step,
steering, the model, the final answer with its second look for steering,
verification, `next_or_close`, and `close` in the `finally`, tried again by each
of the callers of a turn (`CloseAttempts`). `admit_steering` saves messages and
intent in one commit (`Admit`), and `Acknowledge` is a later save: what lies
between is what `bind_session` (`Bind`) repairs after a crash.
`InputLedger` says what this is for: an accepted input is held until it is
settled once, as delivered or as returned. The mapping reads the status of an
input off the session file.

### ToolRecovery

A journal is modelled by what `interrupted_calls` has read of it: calls that
are pending, calls whose background process completed, and whether its last line
is whole, torn or, once something follows a torn line, corrupt. Each record is
a function on this. A failed append writes nothing, a part, everything but the
newline, or everything. A corrupt journal stands, as in the code, for one unknown
operation of its own, so an element of `unresolved` is a call or a turn.

The thread of a turn goes recover, checkpoint, ready; a call goes from `Dispatch`
(record before the tool) over the approval (`asked`) and the effect (`running`)
to `Settle`. A file asks again after its approval (`Act`, `file/prepared`), looks a
last time when its new content is on disk (`Look`, `execution/filesystem.py:275`), and is
replaced in a step of its own (`Replace`, `:279`), for no lock keeps the watchers out
in between. `Refuse` is a call while something is unknown. Watchers run beside
it: `Exit` writes the record, `Report` marks the scope that started the
process. `Observe`, `Cite`, `Answer` and `Reconcile` are the status tool; the
approval lies between `Cite` and `Answer`, the final comparison is under the
lock. `Crash` loses memory and watchers, and `pointer` falls back to `saved`.
History variables: `acted` (may have had an effect), `closed` (outcome known, or
decided by the user), `agreed` (decided by the user). Left out: reads and
calls that only observe; versions of observed files; the scopes of sub-agents.

### TaskContract

`task` is the record `task_control["task"]` with the fields that decide
something. Messages are numbered in the order sent, with the way they are sent
(`Mode`) and what they say (`Word`): the classes that `classify_intent`
distinguishes. `Persist` applies the pending and withdrawn input of the queue to
the task in the same save, like `_persist`. `world` is the content of the
workspace and stands for its digest; `Good` are the contents in which the
acceptance conditions hold; anyone may change it at any time (`Elsewhere`), as
may tools and the commands of the checks. Acceptance is cut at every point
where the code rereads something, from the baseline of `verify` to the last
comparison under the lock. `lost` is what a failed save or a crash left claimed and
outside the messages: with the input being delivered it is what `bind_session` puts
back into the queue (`Undelivered`). Left out: caller requirements and artifacts, roles of
files, todos, unknown outcomes (`ToolRecovery`), preparation commands, the
verification modes "always" and "off", a save that fails outside a delivery
(`InputInbox`), costs; the conditions a turn may be started with in place of the
classification.

### AgentTurn

One turn of either loop: a request, its answer (whole, empty, cut, too long for
the context, thinking only), the batches of `_execute_calls_in_order`, steering
at the head of a step, and every way to end. `appended` holds the roles of what
was appended since the last answer. Calls of a batch run in up to `Parallel`
threads; each may succeed, fail, ask the user, or stop the turn. `Answered` says
that each request and each end of a turn finds the calls with their results in
place, `Ordered` that a call which changes something waits for all before it and
runs alone, `Truthful` that a turn ends as it says.

### ModelRequests

The budget (`RequestBudget`) with its lock and its three numbers, and one thread
per scope from `request` over the attempts of `_send` or `_stream_attempt` to the
record. `billed` is what the provider charges, which the program sees only in an
answer that came whole. `WithinLimit` and `Accounted` relate the two: what is
really billed stays within the limit but for the error of one projection, and
the tracker holds it while everything was metered. `Continued`: once part of a
stream was passed on nothing asks for it again.

### ModelStream and Transcript

`ModelStream` has the reply as events of lines that may be cut anywhere;
`Decode` is `_process_sse_event` with its fields, the text goes through
`AssistantTextStream`, which holds back what may be the beginning of a marker.
`ShownIsSaid` compares what the user saw with what is recorded, `WellFormed` is
what the provider accepts of the next request, and `RecordsWhole` keeps parts of
broken replies out of the record. `Transcript` takes such replies as words and
callbacks: an entry is open while a reply is streamed, tools find their entry by
the id or the name, and an answer folds what came before. The sharing of one entry
by several edits of a file is left out: edits run one at a time, each with its result
before the next begins, so the counters of an entry never pass one. A thread that has
cleared `is_busy` still clears the fields of its stream (`leaving`); what a turn
writes in that window is excused by name (`torn`, `strays`).

### ModelContext and Memory

`ModelContext`: messages with sizes, the boundary of a compaction, the summary
as the set of messages it covers, the circuit breaker, the contract of the task
in the request, overflow, and a branch, which resets it. `Memory`: two managers
over one scope, each with the entries and versions it read when it was made;
`add`, `update`, `forget`, `inject`, the limit with its eviction, ids, the order
memory.json before MEMORY.md, writes that fail (`MaxTroubles`), the database with
its transaction and its mirror.

### Subagents

The task calls of one batch in their order, side by side when their kinds are
built in and read-only; a child's loop under the identity and the revision it
was made for; deadline, cancellation, edited definitions (`MaxEdits`); the
report and the trace. `ReportsCurrent` follows the revision a child worked on to
the report its call returns.

### ToolCatalog

The registry made of the built-in tools and of the servers that answered, in its
three modes of loading; restore, search with its save and its rollback,
`model_tools` before a request, resume, another branch, the first provider. `known`
is history: what a search reported or a message called. `KnownOffered` says that the
next requests offer it, `NothingForeign` that another session's finds stay there,
`SavedIsOffered` that who resumes the session offers the same, `OneTool` that a name
is one tool of one server.

### McpClient and LspClient

`McpClient`: start and handshake, one request at a time, a reader per process,
deadlines, the one restart, HTTP, dispose, and what is recorded of a call
(`NothingForgotten`). The server is external: it answers, is silent, acts and
dies. `LspClient`: documents open in the server with their versions, diagnostics
that may be late, requests, a restart, and a rename whose edits are of the text
it was planned on.

### Hooks, Approvals, FileEdits, Worktrees

`Hooks`: events of concurrent calls go through the hooks they found when they
began; claims of hooks that run once; trust, reload with new objects while calls
keep the old, the background pool, and close. `Approvals`: a request meets modes,
refusals and grants of the turn, the task, the session, the project and for ever;
prompts are serialised by a lock; the store is read once per process and written
whole. Paths are related by `Above`; a command has its class. `FileEdits`: a file
holds the set of changes made to it, so that a lost one can be seen; each tool
reads, asks, locks, compares and replaces, a rename does so for several files and
restores on failure. `Worktrees`: every call makes a manager of its own from the
session file and the directories. A removal is a step for each question to git
(`Uncommitted`, `Count`, `Unpushed`) and one for the removal by force (`Remove`); whoever
works in the tree edits, commits and pushes between them, and other calls create, enter
and remove. What somebody made is a piece of work, not committed or on the branch, so
that `KeepsWhatWasThere` can follow what was there when the removal began.

### ServerSessions and SessionTree

`ServerSessions`: a request that awaits is two actions, and the turn's task, its
worker, its prompts, cancellation and the drain of a lost connection come in
between. `Undisturbed` says that no request changes the session, the tools, the
queue or the settings under a turn. The requests of plan mode have no guard in the
code: the mode (`plan`) is left out of `Undisturbed`, and a plan/exit outside of
plan mode, which brings back an access mode from before the present one (`stale`),
is excepted by name. `SessionTree`: entries are numbers with parents; the host, the
session and the worker hold three lists that are each recorded into the tree;
checkout, retry, fork, clone, compaction, save, load and crash.

### PipeSession

The start of the process, which may be given up at every point, then either the
interface or one line after the other, and the closing of what was opened. A line is
its first words and whether it has arguments; a prompt with its answer is a number, a
branch a sequence of them and the tree of a session the set of its branches. A line
goes through the commands on the tree, `/plan`, the check of the mode, the local
commands, the settings of the model, the shortcuts and at last to the model as a
prompt, in the order of `main`; a retried prompt starts over behind the first.
`OneBranch`, `SaidIsSaved` and `OwnThinking` relate the messages, the context, the
loaded tools, the file and the thinking to the branch that is selected, `ModeHolds`
what was done to the mode it was done in. A killed process is not modelled.

### Terminal, Composer, InputDecoder

`Terminal` has what the loop and the thread of a turn share without a lock: a
handler that reads such a field twice is two actions. `Composer` is the loop
alone: every key, in the order in which `_handle_event` asks the approval, the
form of a provider, the menus, the selection and the editor; its history, the
queue of a running turn and what a turn gives back. `InputDecoder` reads the
bytes of keys, pastes, mouse and characters in chunks that end anywhere
(`EventsAsMeant`).

### QQBridge and QQOutbox

The bridge is one JavaScript event loop: an action is the code from one await
to the next. `mem` is the state in memory and `disk` the state file; a save
that throws ends the handler and stops the bridge (`phase` "closing") with what
it had changed in memory, and the closing bridge may still save it later.
`pump` is the promise of `pump()`: no loop, one that awaits `turn/run`, or one
that is over and whose `finally` has not run. `QQOutbox` counts the loops of
`flushLoop` that wait and that are over, because two can exist: the notice of
an overflow is said while `flush()` is on the stack (`bridge.js:127`). The 2048
most recent ids are a set without limit. Left out: approvals, status texts, the
account check, `/help` and `/status`, the splitting of texts and the formats.

### Evaluation

A cohort of runs one after the other: the grader before, the proxy with its
limits, the worker in one or two phases with its deadline and cancellation, the
grader after, what the record says, and the aggregates of the report. `ScoredFairly`
ties the verdict to what the agent did, `ReportAddsUp` the published numbers to
what is known. `billed` is history: all requests that were made, those of killed workers
among them. `ReportAddsUp` says what the code does with these, which is to leave them
out of requests and tokens; that this is no number of the cohort is `MissingIsNull`.

## The runs

Every bound is a constant of a module. Deadlock is checked in
`inbox_crash` and `inbox_order`; elsewhere the system may stop, for the messages, turns or
calls of the instance are used up.

| Run | Instance | Shows |
|---|---|---|
| `inbox_crash` | 2 steering inputs and a follow-up, `MaxPending` 2, 2 steps, 3 failed saves, 2 reopenings | nothing accepted is lost, delivered twice or in two places; rollback is exact; steering goes first; implements `InputLedger` |
| `inbox_order` | 4 inputs, 3 pending, no failure and no crash, fair worker | order in each kind; every turn ends and settles its input; the client knows what was returned |
| `recovery_crash` | a file call, a process, a background process, a status call; 3 turns, 1 failed append or save, 1 crash; beside it the parts below | recovery knows every open outcome; nothing over an unknown outcome; files wait; evidence is current; decisions stay; servers, worktrees and the tree of a session lose nothing |
| `task` | an action, a restriction during it, a follow-up that lifts it, "continue" later; one change of the workspace, 3 revisions, a cancellation or a crash (`OneStop`) | done is for the delivered revision and the workspace that was checked; restrictions hold; turns settle |
| `hosts` | below | what the user sends and answers reaches what it was meant for, once; what is recorded stays; decisions stand |
| `turns` | below | what a turn does, is billed, records, shows, remembers and changes is what it should |
| `live` | below, under fairness | turns end, and whoever waits is served |
| `server_fork`, `files_read`, `worktree_exit`, `report_numbers`, `context_limit` | the smallest that shows it | see [what the models found](#what-the-models-found) |

The other instances of `recovery_crash` (about 1.4 million states together):

| Part | Instance |
|---|---|
| mcp, lsp | 2 calls, 2 processes; 2 files, 2 edits, 2 queries, 2 starts |
| worktrees | 2 callers (alike), 3 names of 2 slugs, 2 pieces of work, a failing git, with and without a remote |
| tree | 3 entries, 2 sessions, a failing save, a crash anywhere |

The instances of `hosts` (about 1.7 million states together):

| Part | Instance |
|---|---|
| server | 2 tools that may ask, 3 sessions, 2 turns, a change of settings, a plan to approve, a prompt each |
| keys, resume | 1 session, 2 turns, 2 prompts; 2 sessions, 2 turns; 1 queued input |
| decoder | all pairs of 14 kinds of keys, pairs around a character, a lone escape before a key; chunks end anywhere |
| edits, browses, selects, submits | texts of 2 pieces or 1, a history of 2, a queue of 2; all menus; mouse, Ctrl-C and an image; the commands and the queue |
| piped, typed | lines that branch, with 2 models, 2 sessions and a tool to load; all other lines, with plan mode and 2 modes; 2 prompts each |
| bridge, outbox | 3 messages, a queue of 2, a failed save; an outbox of 3, 4 texts, an overflow, a resend, a failed save; any number of restarts |
| ofcommands, offiles, ofothers | commands of 2 callers in 2 modes; files over a directory, with a restart; other requests with a restart and a failed save |

The instances of `turns` (about 1.9 million states together):

| Part | Instance |
|---|---|
| agent | 5 tools in 4 batches, a pool of 2, 3 steps, 2 overflows, an empty answer, thinking, an input |
| stream | 7 replies that are cut anywhere, 2 steps, a retry, an input |
| talks, ponders, works | 2 turns of 3 steps with a call; thinking of 2 deltas; 2 calls of one name together or one after the other, an input, a notice |
| context | 7 messages of size 3 in a window of 10, 2 attempts of the breaker, a change of the contract |
| children | batches of 2 kinds that may run together, of one that may not, of an edited definition; 2 revisions, 2 turns |
| named, built, shared | 2 servers with one name of a tool; a built-in and a server's tool with a failed save; a tool for 2 sessions; 2 starts |
| prehooks, newhooks, posthooks | 2 calls at hooks before a tool; 2 loads of edited files; hooks after it with 2 background tasks |
| edits | 2 agents, 2 files, 2 changes, 1 from outside, a rename of both |
| remembered, aged, stored | 2 sessions, a limit of 1 with two texts, with a clock, and with the database |
| provider, service | a cohort of 2 runs, one with a checkpoint, against a provider; a scripted one |

`live` has a task with 2 sub-agents, without a limit and with one of 2, where a
request is projected at 1 and costs up to 2, with 2 requests of the loops, a retry and
a fallback, over 2 turns; a turn of the agent with 2 steps; one MCP call with one
restart; one turn of the server with a prompt; and two turns of the terminal with a
prompt.

Why the bounds are enough to be interesting. *Inbox:* two crashes let a recovered
claim be claimed again; `MaxPending` 2 with three inputs makes the queue full; three
failed saves exhaust the three attempts to close. Four inputs are two of each kind,
the least for an order within a kind beside the priority between kinds. *Recovery:*
three turns are one that leaves something unknown, one that dies or fails in
recovering, and one that recovers from the journal that one left; one failure tears
a line and the next append corrupts it. *Task:* four messages are one of each way in
and "continue"; the workspace may stop being good at any point; sending, delivering
and withdrawing are free in order. What the bounds leave out is proved. *Hosts:* two
turns are the least in which what one leaves behind meets the next; two prompts the
least for an answer that comes too late; a queue of 2 can be full behind a message
in flight; an outbox of 3 has room for a chunk being sent, one of unknown outcome
and one pending. *Turns:* two children are the least that wait for each other's
lock, and a limit of 2 may be exceeded by the second request; a window of 10 is
reached by the fourth message; two managers are the least for a stale one. The
instances have all the ways in which a component ends; beyond these bounds only the
proved properties are known to hold.

Some properties name an exception, which is the code's behaviour and not a
convenience of the model:

- `DoneIsCurrent` (in `TaskSafe`) excepts instructions whose delivery failed: such
  an instruction is neither a message nor pending until the session is reopened.
- `RestrictionHolds` speaks of input that is pending or being delivered. Input
  stranded as claimed no longer restricts anything.
- `TurnsSettle` excepts a process that died, and a task reopened by an input
  that was accepted after `settle_task` and then withdrawn before
  `next_or_close` (`core/verification.py:223`): that task stays active.
- `FilesWait` excepts a background process that has already failed and whose
  watcher has not yet said so at the last look of the file (`filesystem.py:275`). What
  the watcher says between that look and the replacement (`:279`) is known to the
  harness, and the file is replaced all the same.
- `KeepsWhatWasThere` (in `ToolsSafe`) speaks of work that was there when the call
  began and of answers that git gave. What is made after the question about it is
  removed with the worktree (`worktree/cleanup.py:66` to `:74`, and likewise at an exit).
  `git status` or `git rev-list` that returns an error counts as no change, while the
  docstring says that errors count as dirty (`worktree/changes.py:41`); a `git remote`
  that returns one counts as no remote (`:88`). A directory that was entered by another
  session, or by this one after the cleanup has read it, is removed as well.
- `Undisturbed` excepts the mode of plan/enter, plan/exit and plan/approve, see above.
- `ReportAddsUp` excepts the requests of workers killed at their deadline, see
  `report_numbers`.
- `PumpWakes` and `FlushWakes` except a save that throws in `connectGateway`:
  the gateway counts as ready and nothing is taken up until it reconnects.
  `FlushWakes` also excepts a full outbox: `/resend` marks a chunk as pending and
  its answer, which would start the loop, is refused (`bridge.js:80`).
- `DropsKnown` excepts what came from outside after the last comparison
  (`filesystem.py:275`), `AllFailWhole` a rename that is cancelled or whose
  restoring is refused, and files that somebody has changed since.
- `PassesUnrefused` is about what a process knows; a refusal that another process
  has overwritten is not known to the next (`RefusalsLast` below).
- `RemembersStored` excepts a transaction of the database left in doubt.
- `RepliesShown`, `InOrder` and `FoldsStay` except what is written while the
  thread of the turn before still clears its fields, and replies of white space.
- `NothingRuns` excepts calls that an exception has left (`tui/app.py:858`).
- `TextsKept` excepts a menu that opens over the editor and the commands that
  clear it (below).
- `KeptCalls`, the calls that `RecordsWhole` compares with, leaves out a call
  without arguments that another follows: the loop drops it.

## Fairness

`inbox_order` assumes weak fairness of `Worker`, the worker thread of the turn
as a whole. The operating system schedules the thread, and none of its calls
blocks for ever: requests and processes have timeouts, the step loop has
`max_steps`, and what it asks of the client is given up after five minutes
(`server/app.py:151`). That `Worker` makes progress does not say which way a step
goes. Nothing is assumed of the client, or of reopening.

`live` assumes, of each component:

- agent: weak fairness of the turn's thread and of the pool; a request and a tool
  return at some time, for both have timeouts. The user may stop the turn or not.
- requests: strong fairness of the steps of each scope. A thread that waits for
  the budget's lock is not enabled while another holds it; it is freed again and
  again, because each attempt has a timeout, and the lock of the interpreter
  hands it out in some order. Weak fairness would not say that a waiter ever gets
  it, and the code promises no more than `threading` does.
- MCP: weak fairness of the caller. It has a deadline, so nothing is assumed of
  the server or its readers.
- server: weak fairness of the loop, the turn's task, the disposal, the end of
  the worker, the timeout of a prompt and its use. Nothing of the client.
- terminal: weak fairness of the loop and of the thread of the turn. Nobody has to
  press a key: `TurnsEnd` speaks of turns that were told to stop.

All other runs check safety only.

## The proofs

TLAPS checks the theorems below for every value of the constants that satisfies
the modules' named assumptions: bounds are natural numbers, kinds of calls are
disjoint where the code's are, a call is not a turn number, nobody is not a
scope. The sets of inputs, calls, children, callers and requests may be infinite.
Thirty-one theorems are listed in `PROJECT.json`; what follows is how they hold.

**InputInboxProofs.** `TypeCorrect` is the type invariant. `InboxInvariant` is the
inductive invariant

    InboxInv == TypeOK, OnePlace, AcceptedIsDurable, MemoryIsInbox,
                TakenIsClaimed, OnlyAccepted

The properties are not inductive without the last three. What the
worker holds must be among the claimed inputs and not yet a message
(`TakenIsClaimed`), or `Admit` could deliver twice. Memory must be the saved
inbox, or what `bind_session` makes of it while no turn runs (`MemoryIsInbox`),
or a mutation of memory would say nothing about the file. And only accepted
input is anywhere (`OnlyAccepted`), so that `Enqueue` adds a new one.
`InboxSafe` is then AcceptedIsDurable with HeldOnce: no input in two places, none
delivered twice, memory what is saved. `SteeringSafe` (SteeringFirst) follows from
what each step may add to the worker's input. `LedgerRefinement` shows that `InputInbox`
implements `InputLedger`: under the invariant the status read off the file is the
status read off memory (`MemoryAgrees`), so that every mutation is one `Accept`,
`Deliver` or `Return`, or changes no status.

**ToolRecoveryProofs.** `RecoveryInvariant` is the inductive invariant

    RecoveryInv == TypeOK, Control, Born, Fresh, Known, RecoveryKnows, OldBlocked

`Control` says which journal the session points to at each point of a turn, `Born`
that a call starts only in a turn whose journal the session file already points to,
`Fresh` that the journal of a turn that has not recovered is empty, `Known` that a
completion in a journal is true, and `OldBlocked` that the open calls of earlier
turns are among the unresolved ones, or, while a call waits for its approval or for
the replacement of its file, that there are none. The core is a lemma about records:
no line that can be appended, whole, torn or behind a torn one, makes a journal
forget a call that is still open. `RecoverySafe` (RecoveryKnows) and `EffectsSafe`
(NothingOverUnknown) follow; `EvidenceSafe` (EvidenceIsCurrent) adds that an
observation with the current revision lists exactly what is unresolved.

On that invariant rest two more. `FilesSafe` (FilesWait) needs `Accounted`: in a
turn every other call without a known outcome blocks the turn's calls or has its
watcher, so what the scope does not know is the watchers' to report; and `Late`,
that what becomes known after the last look is a background process of the same
turn. So at that look nothing is unknown but what a watcher has still to tell, and
nothing else can be when the file is replaced. `DecisionsSafe` (AgreedStays) needs
`Apart`, that an unreadable journal that was taken over stands for calls earlier
than any the journal names, and `Decided`, that a call the user decided is in no
journal of the session and is not taken over: a line about it that comes later would
bring it back.

**ModelRequestsProofs.** `BudgetHolds` is `BudgetSafe` for any set of children, any
limits and prices, any number of retries, requests and turns, from the invariant

    BudgetInv == TypeOK, Alone, Room, WithinLimit, Accounted

`WithinLimit` alone is not inductive: a request that is sent may be billed at any
later step. `Alone` says that with a limit a request that is under way holds the
lock, so that one cost at most is open; `Room` that the holder was admitted with
room for its projection, and while everything was metered. `NothingReplayed` is
the action property `Continued`, which needs the type invariant only. The
constants' assumptions are hypotheses of these theorems (`ScopesAssumption`,
`AmountsAssumption`), evaluated by `turns` and `live` for their instances.

**InputInboxProofs, the order of input.** What holds in calmer circumstances follows
from an invariant of its own (`OrderInv`) on top of `InboxInv`. While no save fails,
a turn ends with its queue closed and everything settled (`TurnsSettleInput`, for
NoneStranded); with failing saves that is false, see below. While the session is not
opened again either, `OrderSafe` (KindsInOrder) holds because a seat is then the
time of acceptance (`Seated`) and what waits is later than what is being delivered
(`TakenInOrder`), and `ClientTold` (ClientIsTold) because somebody listens from the
start of a turn to its end (`AllTold`). `EchoesOnce` needs none of these: no
returned input is announced twice, whatever fails.

**FileEditsProofs.** `LocksAreHeld` (FilesSafe) and `EditsLoseNothing` (NothingLost)
hold for any agents, files and lists of files of a rename, by

    EditsInv == EditsTyped, LocksHeld, StillThere

`StillThere` is what makes the action property provable: from the comparison to the
replacement a file holds what it was compared with and what came from outside, for
whoever edits through the harness needs the lock. `EditsTyped` says of a call that
its first step has been made when it waits for the lock.

**TaskContractProofs.** For any messages, whatever they say and however they are
sent, any conditions and any number of revisions, iterations, cancellations and
crashes, `DoneForTheRevision` (TaskSafe), `RestrictedFromAcceptance`
(RestrictionHolds), `TurnsEndSettled` (TurnsSettle) and `AcceptedWhereChecked`
(AcceptsTheWorkspace) follow from one inductive invariant (`ContractHolds`):

    ContractInv == TypeOK, Books, Pends, Tight, Running, OfOne, Judged,
                   DoneIsCurrent, Restricted, Settling

`Books`: no input is in two lists, what the worker has taken is claimed, and
everything was sent before the newest message. `Pends`: the steering that waits and
the task knows is what is pending for it. On these two rests the lemma that all saves
of the queue share (`Saves`): a save either leaves what was found out about the task
alone, or makes a new revision of it and drops the verdict. `Tight` says where
the delivered revision may be the current one with an instruction pending: after a
promotion until the next step, and for what was never delivered; acceptance starts
outside of these. `OfOne` ties what acceptance holds (the task when it started, its
snapshot, its findings) to one task, revisions that only grow and a workspace between
its start and now, so that when the last look finds the first revision and the first
workspace, all in between were the same. `Judged` is what the verdict promises if
nothing has changed since. `Restricted` puts a restriction into the intent or among
the pending instructions, and either way into the class; `Settling` follows an active
task out of its turn. Messages are finitely many, because several may be admitted at once
and each counts as a revision.

**ServerSessionsProofs.** `ServerHolds` (ServerSafe) and `NoTurnDisturbed`
(TurnUndisturbed) hold for any threads that ask and any bounds, by

    ServerInv == TypeOK, StopReachesPrompts, ThinkingEnds, Registries, Phases

That a worker's tools are not disposed of under it (`ToolsLive`) is not inductive: a
registry that is replaced is disposed of, so the one in use must be known not to be
among those. `Registries` numbers them and lets the one in use be disposed of only
with its connection; `Phases` says that what cleans up after a closed connection has
waited for the turn and its worker, and that a turn that has begun has no worker yet.
With that the guards of each request suffice for the action property, but those of
plan mode have none: for these `ModesStep` says which steps move `plan` and `stale`, and
the theorem states what is left, that the access mode is changed under a turn only by a
plan/exit of a session that is not in plan mode.

**ApprovalsProofs.** For any requests, modes, callers and processes over one file,
`PromptsHold` is `PromptsSafe`: the types, and one prompt at a time. Its invariant

    PromptInv == CallersTyped, ModesTyped, LockHeld

makes the lock the set of the callers that are asked. Two theorems are about steps.
`GrantsAlwaysFit` (GrantsFit) needs that the grants in memory are those the user gave
since the last turn or change of mode, and that no grant has the empty key, which is
that of a sub-agent (`GrantsInv`). `RefusalsAlwaysStand` (RefusalsStand) needs
`RefusalsKnown`: a refusal for good is in memory and in the file, itself or as that of
the directory above, and one of the session is in memory. It supposes `OneProcess`, for
another process overwrites the file (`RefusalsLast` below), and that what is above a
path includes it and each directory of what it includes (`PathsAssumption`). The store
looks for refusals first, so no grant made before or after matters.
`DecisionsStand` of `hosts` is the conjunction of these two step properties over three
instances, each of one process.

**AgentTurnProofs.** `AgentHolds` (AgentSafe) holds for any tools, batches and limits:

    AgentInv == TypeOK, FreshInv, CountInv, Ordered, Truthful, Running

`FreshInv` says what the messages since the last response look like where a request
may be sent, where the turn is over, and, while calls are executed, that they are at
the end and have no results yet: `Answered` speaks only of the places in between.
`CountInv` counts requests against steps and compactions with the one that is about to
leave, and after a stop none but the one under way. That the results of a batch
complete it (`WholeCalls`, by the cardinality of intervals) and that what is said last
is to be answered (`AsksMore`) are lemmas on sequences. That what a stream keeps of the
calls of a response are calls of it (`CalledTyped`) needs the member of each rank of a
set of numbers (`Ranked`), and so the least of such a set (`Smallest`, from the
well-foundedness of the natural numbers): induction with an operator as parameter is
beyond the provers, a least counterexample is not.

**Model-checked only.** Liveness (`Settles`, `TurnsEnd`, `WaitsEnd`), which the
prover does not reach, and ENABLED; everything in the modules without a module of
proofs: the terminal with its editor, decoder and transcript, the command line, the
bridge, the tree of a session, streams, context, memories, the catalogue of tools,
sub-agents, servers, hooks, worktrees and evaluations, whose properties are
`TerminalSafe`, `QQSafe`, `QueuesKept`, `TreeSafe`, `ArchiveKept`, `RequestSafe`,
`ToolsSafe`, `HooksSafe`, `ReportsTrue` and `AnswersStand`. What is computed by
recursion (the decoder, the stream, the transcript, compaction) would need induction
over data; what the other modules promise is within reach of the same method.

## What the models found

Five runs expect a violation; `PROJECT.json` quotes the texts.

1. **A fork inside a turn leaves its queue behind** (`server_fork`,
   `server/app.py:1252`). `/fork` or `/clone` as the input of a turn makes the copy
   the connection's session and then fails to bind the queue, which is running.
2. **A search counts as reading** (`files_read`, `tools/grep_files.py:56`). It notes
   the present version of every file it searches, so a later overwrite drops a
   change the agent never saw.
3. **Leaving a worktree may delete commits** (`worktree_exit`,
   `worktree/manager.py:281`). A second call takes the present head for the commit
   the worktree was made from.
4. **A report gives numbers nobody has measured** (`report_numbers`,
   `evals/runner.py:128`). The requests of a worker killed at its deadline are in no
   record, and the tokens of the others are published as complete.
5. **The breaker stays open** (`context_limit`, `context/context_manager.py:372`).
   After its attempts no later context of the session is compacted.

The following statements of docs, comments or tests are kept in the modules as
definitions that TLC refutes; no run of the set checks them:

- `InputInbox!NoneStranded` with failing saves: when the save that admits claimed
  input fails, `close()` returns only what is pending (`core/input_queue.py:205`).
- `ToolRecovery!ProcessesWait`: `checked_argv` looks for unknown outcomes before
  the approval and not after it (`execution/process.py:59`), while a file looks twice
  more (`FilesWait`).
- `TaskContract!NarrowsAtOnce`: what the task allows is read before the hooks and
  the approval (`tooling.py:560`). `AnswerResumes`: steering accepted after a turn
  settled as waiting makes the task active, and the reply starts another one
  (`core/task_intent.py:35`).
- `QQBridge!BusyQueuesInOrder`: after `/continue` a message that comes during the
  next turn goes in front of the queue (`bridge.js:237`).
- `AgentTurn!KeepsCalls`: a streamed call without arguments is dropped when another
  follows it (`core/agent_loop.py:1154`, against its docstring at `:1111`).
- `Hooks!OncePerProcess` (`docs/hooks.md`): a reload makes new objects that may be claimed
  again. `ChangedIsAsked` (`docs/hooks.md:15`): a path that was allowed once stays so
  when its file has changed (`hooks/runtime.py:89`).
- `Terminal!ApprovedPlanStarts`: the follow-up of an approved plan is lost
  (`tui/app.py:3159`, `docs/features.md:187`).
- `Approvals!GrantsAsShown`: a lasting grant is kept for another directory than the
  one shown (`approval/store.py:191`). `RefusalsLast`: processes overwrite each
  other's refusals (`approval/store.py:264`).
- `ModelStream!AskedLast`: after a retry notice a request may end with it
  (`core/agent_loop.py:1328`).
- `Composer!HighlightHolds`: a paste leaves the highlight of a longer list.

Further behaviour that a reviewer of the code would want to know. It is in the
models unless it says otherwise.

*Queue and task.* After a crash between claim and admission a follow-up is delivered
behind later ones (`input_queue.py:84`). An input taken back after a session was
reopened and before its first turn is counted as announced and never echoed
(`input_queue.py:220`). A tool that promotes an answering task marks the new revision as
delivered with an instruction pending (`tooling.py:586`), while
`docs/task-orchestration.md` has it marked only after the model received the
instruction: TLC finds it in 8 steps. The next step delivers the instruction, unless
that delivery fails and the next turn goes on with "continue": then the task can become
complete with the instruction pending, in 29 steps with five revisions. The attempt to
prove that nothing is pending when a task is done found this; `DoneIsCurrent` names the
exception. The caller's acceptance conditions are stamped with the revision of an
instruction accepted in between (`core/verification.py:293`). A restriction withdrawn
during acceptance leaves a task to change something recorded as answered
(`task_verification.py:281`). A withdrawn instruction leaves its revision behind, so
that the model may replace the acceptance without a new one (`tools/task_state.py:105`).

*Server and tree.* `plan/enter`, `plan/exit` and `plan/approve`
(`server/app.py:897`) change the mode under a running turn, where `permissions/set`
refuses. `plan/exit` outside of plan mode brings back an old `previous_mode`, though
`PermissionManager.leave_plan_mode` asks whether plan mode is on. `plan/approve`
waits for its prompt on the event loop itself: the question is not sent and no
answer is read until its five minutes are over, so no plan is approved this way.
`hooks/reload` looks at no turn either; it replaces the hooks only, see `Hooks`. A
`session/create` or `resume` that arrives right after `turn/run` passed its guard
fails half-way in `bind_session`, and the turn runs in another session. An answer
that arrives as the prompt times out is acknowledged and not used (`app.py:159`). A
reload of the hooks does not close the old engine. `session/tree` between the end of
the worker and the relay records the messages from before the turn, which heals at
the next save. A deleted session that is open comes back at the next save. After a
turn that raises the host's list is stale, so the next message begins a sibling
branch. The index is a read-modify-write of several processes and loses listings
(not modelled).

*Command line.* A retried prompt whose line is refused, as `/resume` is in plan mode,
leaves the branch that was shortened for it saved. Nothing at a pipe leaves plan mode
again. The check of the mode compares the beginning of a line as it was typed, so a
worktree command with two spaces passes it in plan mode. `/permissions default` is
changed in any mode.

*Approvals and hooks.* The mode is not read again after a prompt, nor do waiting
identical requests look again; `request_plan_approval` restores the earlier mode even
if it was changed meanwhile. A hook event for a closed pool raises out of `emit`;
tasks submitted during `close` are not told.

*Files and worktrees.* `write_file` takes a file that was never read as it is. A
cancelled rename is not rolled back, and the rollback asks for an approval that may be
refused. The exit of another worktree clears the session's; names with "/" are found
again under their slug; a git that answers with an error counts as clean; `create -B`
resets a branch that exists.

*Terminal.* As soon as the thread of a turn has cleared `is_busy`, the periodic
snapshot takes the messages of the interface, whose result is not collected yet
(`tui/app.py:384`), and its save takes the saved end of the turn back; a `/resume` before
the next save opens the session without its last turn. No property says that this is
not so. A second key may answer the next prompt unseen, since handlers read
`pending_approval` again. Alt-Up's read-then-reset of what a turn gave back can lose
input; so does the Return of `/model`, `/provider`, `/permissions` or `/resume`, which
clears it (`docs/features.md:158`). Edits of a history entry are lost at the next Up
or Down. `/image` and `/exit` typed while busy go to the queue as text. An image pasted
while a turn runs goes along with the plan's follow-up. A lone Escape is held until
the next key; Return read together with other keys becomes a paste. `_finalize_dangling_
running_tools` is called for shortcuts only, so an exception that is not an `Exception`
leaves entries running for ever. The worker clears its streaming fields after
`is_busy = False` (`tui/app.py:2888`), so a turn started in that window is torn.

*Requests and context.* The streaming loop has no retry of recoverable thinking and no
fallback on 529, although its docstring says it is the same. With a price any 5xx or
dropped connection marks the budget unmetered, so that the retry is refused. A
background process that has ended is a zombie until the next `Popen`, so its status
stays "running".

*MCP and LSP.* The end of an old reader's stream can answer the new process's
requests (`mcp.py:575`). A call during `dispose` starts a server nobody stops.
A failed restart records "unknown" though nothing was sent. A server that does not
number its diagnostics has its late ones taken as current; edits to files that are not
open are not compared.

*Tools offered.* With eager loading a resumed session offers its saved list and no
search, so the tools of a server that was down then stay out of reach. Names that
collide are numbered among the servers that answered, so `mcp__a_b__x` may be another
server's tool after a restart. The registry made with the first provider is not
restored from the session's list (`tui/app.py:623`). A wrong `toolCoreTools` or
`toolSearchAliases` raises after the servers were started and leaves them running.

*Sub-agents, memory, evaluations.* The identity that a spawn cites is read before the
child's, so a change in between reports a stale child that is not. A manager never
reloads; a MEMORY.md changed by hand makes each later save report an error after
memory.json was written; ids repeat after a `forget` within a second; with the
database nothing is compared and a load that failed is an empty scope that the next
save writes. Requests of an evaluation worker killed at its deadline are lost, and its
usage is published as complete (`report_numbers`); a request without usage costs
nothing.

## What is not modelled

Prompts, texts, rendering, layout and anything that only reads. In detail:
*Discovery of checks* is a function of the workspace; the *task tracker and
application state* are counters and lists for display, changed by one thread; the
*desktop client* is React and Electron over the server's protocol, whose drafts and
late answers are a later candidate. Of the components that are partly modelled: the
classification of commands, schemas and the ranking of tool search (text), process
groups and job objects (the operating system), settings and the formats of
providers, search and scores of memories, skills and instructions, the parsing of
agent definitions and of the fallback's code intelligence, MCP resources and
prompts, `hooks/reload` and listings of the server, the index of sessions, scrolling
and the screen, the bridge's account check and formats, and the cases of
evaluations. `core/async_context.py` has no caller.

## The plan

1. Proofs, in the order of what they are worth: `Hooks` (`OncePerLoad`,
   `DenialsStand`), `QQOutbox` (`SentOnce`, `KeepsUnsettled`), `SessionTree`
   (`KeepsArchive`), `ToolCatalog`.
2. An abstract register with compare-and-set that `FileEdits` implements, and a
   mailbox with at-most-once delivery for the bridge.
3. The index of sessions, the desktop client's store, the scrolling of the terminal.
