------------------------------ MODULE MCTurns ------------------------------
(* What a turn is made of, for TLC: its loop, the streams of its replies, its     *)
(* context, what it remembers and its sub-agents; the hooks around its tools      *)
(* (before a tool, edited, after it) and the files they edit; the tools it        *)
(* offers; and the evaluation of turns.  The components do not run together       *)
(* here, so all but the editing of files share the variables of a state.          *)
EXTENDS FileEdits, TLC

CONSTANTS view, look, write, ask, plan, a, b, c, f1, f2

(* A rename or an edit of two files.                                            *)
OneOrder == {<<f1, f2>>}

(* The scenarios of two cohorts.                                                *)
Measured == <<"interrupted", "compaction">>
Scripted == <<"resume">>

(* What a model may reply: text in one channel or another, cut anywhere, signed *)
(* thinking, calls with and without arguments; and how it stops.                *)
Event(type, block, val) == [type |-> type, block |-> block, val |-> val]
Says(deltas) == [i \in DOMAIN deltas |-> Event("text", 9, deltas[i])]
Thinks == <<Event("thinking", 1, <<>>), Event("thought", 1, <<"because">>),
            Event("signature", 1, <<"signed">>), Event("stop", 1, <<>>)>>
Calls(block, id, input) ==
  <<Event("tool", block, <<id>>)>> \o [i \in DOMAIN input |-> Event("json", block, <<input[i]>>)]
  \o <<Event("stop", block, <<>>)>>
Replied(blocks, stop) ==
  <<Event("start", 0, <<>>)>> \o blocks \o <<Event("delta", 0, <<stop>>), Event("end", 0, <<>>)>>
Streamed == {
  Replied(Says(<<<<"<">>, <<"progress>", "word">>, <<"</">>, <<"progress>", " ">>>>), "end_turn"),
  Replied(Says(<<<<" ">>, <<"[">>, <<"FINAL]", "word">>, <<"</", "final>">>>>), "end_turn"),
  Replied(Thinks \o Says(<<<<"<", "final>", "word">>, <<" ">>, <<"</">>>>), "end_turn"),
  Replied(Thinks \o Says(<<<<"word", "<">>>>) \o Calls(2, "first", <<"half", "rest">>)
          \o Calls(3, "second", <<>>), "tool_use"),
  Replied(Calls(2, "first", <<>>) \o Calls(3, "second", <<"all">>), "tool_use"),
  Replied(Says(<<<<"word">>>>) \o Calls(2, "first", <<"half">>), "max_tokens"),
  Replied(<<>>, "end_turn")}

(* Calls of a reply: alone; two under one name together, or one after the other. *)
Called(tool, safe) == [tool |-> tool, safe |-> safe]
Alone == {<<Called("view", TRUE)>>}
Several == {<<Called("view", TRUE), Called("view", TRUE)>>, <<Called("task", TRUE), Called("task", FALSE)>>}

(* Tools of configured servers: two whose names become the same text, and one.    *)
Alike == <<[server |-> "first", alias |-> "tool"], [server |-> "second", alias |-> "tool"]>>
Single == <<[server |-> "first", alias |-> "tool"]>>

(* The agents of each component, its sessions and its callers are alike.         *)
Symmetry == Permutations({a, b})

VARIABLES part,  \* the component this behaviour is about
          v1, v2, v3, v4, v5, v6, v7, v8, v9, v10, v11, v12, v13, v14, v15, v16,
          v17, v18, v19, v20, v21  \* the variables of every one but FileEdits

slots == <<v1, v2, v3, v4, v5, v6, v7, v8, v9, v10, v11, v12, v13, v14, v15, v16,
           v17, v18, v19, v20, v21>>
all == <<part, slots, vars>>

(* The components with fewer variables leave the others alone. *)
Unused(k) ==
  /\ k = 0 =>
       /\ v1 = 0 /\ v2 = 0 /\ v3 = 0 /\ v4 = 0 /\ v5 = 0 /\ v6 = 0 /\ v7 = 0 /\ v8 = 0
  /\ k < 9 => v9 = 0
  /\ k < 10 => v10 = 0
  /\ k < 11 => v11 = 0
  /\ k < 12 => v12 = 0
  /\ k < 13 => v13 = 0
  /\ k < 14 => v14 = 0
  /\ k < 15 => v15 = 0
  /\ k < 16 => v16 = 0
  /\ k < 17 => v17 = 0
  /\ k < 18 => v18 = 0
  /\ k < 19 => v19 = 0
  /\ k < 20 => v20 = 0
  /\ k < 21 => v21 = 0
  /\ k > 0 => file = [f \in Files |-> {}]
Rests(k) ==
  /\ UNCHANGED part
  /\ k = 0 => UNCHANGED <<v1, v2, v3, v4, v5, v6, v7, v8>>
  /\ k < 9 => v9' = v9
  /\ k < 10 => v10' = v10
  /\ k < 11 => v11' = v11
  /\ k < 12 => v12' = v12
  /\ k < 13 => v13' = v13
  /\ k < 14 => v14' = v14
  /\ k < 15 => v15' = v15
  /\ k < 16 => v16' = v16
  /\ k < 17 => v17' = v17
  /\ k < 18 => v18' = v18
  /\ k < 19 => v19' = v19
  /\ k < 20 => v20' = v20
  /\ k < 21 => v21' = v21

Agent == INSTANCE AgentTurn WITH
  streaming <- v1, phase <- v2, status <- v3, step <- v4, overflows <- v5, empties
  <- v6, thoughts <- v7, fresh <- v8, batch <- v9, place <- v10, result <- v11,
  queued <- v12, cancelled <- v13, inputs <- v14, requests <- v15, late <- v16,
  reply <- v17, Tools <- {view, look, write, ask, plan}, Safe <- {view, look},
  Awaiting <- {ask}, NoInput <- {look}, ExitPlan <- plan, Batches <- {<<view, view,
  write>>, <<look, write, view>>, <<ask, write>>, <<plan, look>>}, Parallel <- 2,
  MaxSteps <- 3, Overflows <- 2, Empties <- 1, Thoughts <- 1, MaxInputs <- 1

Stream == INSTANCE ModelStream WITH
  phase <- v1, step <- v2, overflows <- v3, empties <- v4, attempt <- v5, inputs <-
  v6, messages <- v7, reply <- v8, at <- v9, lines <- v10, attempted <- v11, got <-
  v12, Replies <- Streamed, Room <- 5, Retries <- 1, MaxSteps <- 2, MaxInputs <- 1

Talks == INSTANCE Transcript WITH
  entries <- v1, streaming <- v2, text <- v3, thinking <- v4, running <- v5, busy <-
  v6, leaving <- v7, stage <- v8, turn <- v9, step <- v10, said <- v11, calls <-
  v12, batch <- v13, started <- v14, finished <- v15, executed <- v16, notices <-
  v17, replies <- v18, strays <- v19, torn <- v20, raised <- v21, Batches <- Alone,
  MaxTurns <- 2, MaxSteps <- 3, MaxTokens <- 1, MaxThoughts <- 0, MaxInputs <- 0,
  MaxNotices <- 0

Ponders == INSTANCE Transcript WITH
  entries <- v1, streaming <- v2, text <- v3, thinking <- v4, running <- v5, busy <-
  v6, leaving <- v7, stage <- v8, turn <- v9, step <- v10, said <- v11, calls <-
  v12, batch <- v13, started <- v14, finished <- v15, executed <- v16, notices <-
  v17, replies <- v18, strays <- v19, torn <- v20, raised <- v21, Batches <- Alone,
  MaxTurns <- 1, MaxSteps <- 2, MaxTokens <- 2, MaxThoughts <- 1, MaxInputs <- 0,
  MaxNotices <- 0

Works == INSTANCE Transcript WITH
  entries <- v1, streaming <- v2, text <- v3, thinking <- v4, running <- v5, busy <-
  v6, leaving <- v7, stage <- v8, turn <- v9, step <- v10, said <- v11, calls <-
  v12, batch <- v13, started <- v14, finished <- v15, executed <- v16, notices <-
  v17, replies <- v18, strays <- v19, torn <- v20, raised <- v21, Batches <-
  Several, MaxTurns <- 2, MaxSteps <- 2, MaxTokens <- 1, MaxThoughts <- 0, MaxInputs
  <- 1, MaxNotices <- 1

Context == INSTANCE ModelContext WITH
  messages <- v1, before <- v2, boundary <- v3, attempts <- v4, tried <- v5, actual
  <- v6, at <- v7, retries <- v8, contract <- v9, made <- v10, human <- v11,
  summarizes <- v12, Window <- 10, MinKeep <- 3, Protected <- 1, MaxAttempts <- 2,
  Sizes <- {3}, MaxMessages <- 7, MaxContracts <- 1

Children == INSTANCE Subagents WITH
  task <- v1, event <- v2, past <- v3, definition <- v4, edits <- v5, batch <- v6,
  first <- v7, child <- v8, Batches <- {<<"explore", "explore">>, <<"general",
  "explore">>, <<"custom">>}, MaxRevision <- 2, MaxTurns <- 2, MaxEdits <- 1

PreHooks == INSTANCE Hooks WITH
  objects <- v1, load <- v2, version <- v3, trusted <- v4, onceOnly <- v5, callers
  <- v6, tasks <- v7, closing <- v8, runs <- v9, accepted <- v10, Order <- <<"hint",
  "guard">>, Before <- {"hint", "guard"}, Denying <- {"guard"}, Strict <- {"hint"},
  Once <- {"hint"}, Background <- {}, Project <- {"hint", "guard"}, MaxTasks <- 0,
  MaxLoads <- 1, MaxVersions <- 1, Callers <- {a, b}, Workers <- 1

NewHooks == INSTANCE Hooks WITH
  objects <- v1, load <- v2, version <- v3, trusted <- v4, onceOnly <- v5, callers
  <- v6, tasks <- v7, closing <- v8, runs <- v9, accepted <- v10, Order <- <<"hint",
  "guard">>, Before <- {"hint", "guard"}, Denying <- {"guard"}, Strict <- {"hint"},
  Once <- {"hint"}, Background <- {}, Project <- {"hint", "guard"}, MaxTasks <- 0,
  MaxLoads <- 2, MaxVersions <- 2, Callers <- {c}, Workers <- 1

PostHooks == INSTANCE Hooks WITH
  objects <- v1, load <- v2, version <- v3, trusted <- v4, onceOnly <- v5, callers
  <- v6, tasks <- v7, closing <- v8, runs <- v9, accepted <- v10, Order <- <<"note",
  "after">>, Before <- {}, Denying <- {}, Strict <- {}, Once <- {"note"}, Background
  <- {"after"}, Project <- {"note"}, MaxTasks <- 2, MaxLoads <- 1, MaxVersions <- 1,
  Callers <- {a, b}, Workers <- 1

Remembered == INSTANCE Memory WITH
  json <- v1, md <- v2, rows <- v3, known <- v4, memory <- v5, call <- v6, held <-
  v7, fresh <- v8, doubtful <- v9, clock <- v10, writes <- v11, troubles <- v12,
  Managers <- {a, b}, Texts <- {f1, f2}, Limit <- 1, Database <- FALSE, MaxWrites <-
  2, MaxClock <- 0, MaxTroubles <- 1

Aged == INSTANCE Memory WITH
  json <- v1, md <- v2, rows <- v3, known <- v4, memory <- v5, call <- v6, held <-
  v7, fresh <- v8, doubtful <- v9, clock <- v10, writes <- v11, troubles <- v12,
  Managers <- {a, b}, Texts <- {f1}, Limit <- 1, Database <- FALSE, MaxWrites <- 2,
  MaxClock <- 1, MaxTroubles <- 1

Stored == INSTANCE Memory WITH
  json <- v1, md <- v2, rows <- v3, known <- v4, memory <- v5, call <- v6, held <-
  v7, fresh <- v8, doubtful <- v9, clock <- v10, writes <- v11, troubles <- v12,
  Managers <- {a, b}, Texts <- {f1, f2}, Limit <- 2, Database <- TRUE, MaxWrites <-
  2, MaxClock <- 0, MaxTroubles <- 1

Named == INSTANCE ToolCatalog WITH
  mode <- v1, up <- v2, loaded <- v3, model <- v4, at <- v5, session <- v6, disk <-
  v7, offered <- v8, phase <- v9, starts <- v10, failures <- v11, BuiltIn <- {},
  Core <- {}, Served <- Alike, Sessions <- {1}, Limit <- 1, MaxStarts <- 2,
  MaxFailures <- 0

Built == INSTANCE ToolCatalog WITH
  mode <- v1, up <- v2, loaded <- v3, model <- v4, at <- v5, session <- v6, disk <-
  v7, offered <- v8, phase <- v9, starts <- v10, failures <- v11, BuiltIn <-
  {<<"git", 1>>}, Core <- {}, Served <- Single, Sessions <- {1}, Limit <- 1,
  MaxStarts <- 2, MaxFailures <- 1

Shared == INSTANCE ToolCatalog WITH
  mode <- v1, up <- v2, loaded <- v3, model <- v4, at <- v5, session <- v6, disk <-
  v7, offered <- v8, phase <- v9, starts <- v10, failures <- v11, BuiltIn <- {},
  Core <- {}, Served <- Single, Sessions <- {1, 2}, Limit <- 1, MaxStarts <- 2,
  MaxFailures <- 1

Provider == INSTANCE Evaluation WITH
  run <- v1, at <- v2, checkpoint <- v3, result <- v4, solved <- v5, intact <- v6,
  asks <- v7, usage <- v8, spent <- v9, limit <- v10, compactions <- v11, record <-
  v12, records <- v13, billed <- v14, report <- v15, Cohort <- Measured, Kind <-
  "provider", MaxRequests <- 2, Budget <- 2, MaxCost <- 1

Service == INSTANCE Evaluation WITH
  run <- v1, at <- v2, checkpoint <- v3, result <- v4, solved <- v5, intact <- v6,
  asks <- v7, usage <- v8, spent <- v9, limit <- v10, compactions <- v11, record <-
  v12, records <- v13, billed <- v14, report <- v15, Cohort <- Scripted, Kind <-
  "scripted_service", MaxRequests <- 2, Budget <- 2, MaxCost <- 1

(* What each component assumes of its constants.                                  *)
ASSUME AllAssumptions ==
  /\ FilesAssumption
  /\ Agent!ToolsAssumption
  /\ Agent!BatchesAssumption
  /\ Agent!LimitsAssumption
  /\ Stream!StreamAssumption
  /\ Talks!TranscriptAssumption
  /\ Ponders!TranscriptAssumption
  /\ Works!TranscriptAssumption
  /\ Context!ContextAssumption
  /\ PreHooks!HooksAssumption
  /\ PreHooks!BoundsAssumption
  /\ NewHooks!HooksAssumption
  /\ NewHooks!BoundsAssumption
  /\ PostHooks!HooksAssumption
  /\ PostHooks!BoundsAssumption
  /\ Remembered!MemoryAssumption
  /\ Aged!MemoryAssumption
  /\ Stored!MemoryAssumption
  /\ Named!CatalogAssumption
  /\ Built!CatalogAssumption
  /\ Shared!CatalogAssumption
  /\ Provider!EvaluationAssumption
  /\ Service!EvaluationAssumption

AnyInit ==
  /\ Init
  /\ \/ part = "edits" /\ Unused(0)
     \/ part = "agent" /\ Agent!Init /\ Unused(17)
     \/ part = "stream" /\ Stream!Init /\ Unused(12)
     \/ part = "talks" /\ Talks!Init /\ Unused(21)
     \/ part = "ponders" /\ Ponders!Init /\ Unused(21)
     \/ part = "works" /\ Works!Init /\ Unused(21)
     \/ part = "context" /\ Context!Init /\ Unused(12)
     \/ part = "children" /\ Children!Init /\ Unused(8)
     \/ part = "prehooks" /\ PreHooks!Init /\ Unused(10)
     \/ part = "newhooks" /\ NewHooks!Init /\ Unused(10)
     \/ part = "posthooks" /\ PostHooks!Init /\ Unused(10)
     \/ part = "remembered" /\ Remembered!Init /\ Unused(12)
     \/ part = "aged" /\ Aged!Init /\ Unused(12)
     \/ part = "stored" /\ Stored!Init /\ Unused(12)
     \/ part = "named" /\ Named!Init /\ Unused(11)
     \/ part = "built" /\ Built!Init /\ Unused(11)
     \/ part = "shared" /\ Shared!Init /\ Unused(11)
     \/ part = "provider" /\ Provider!Init /\ Unused(15)
     \/ part = "service" /\ Service!Init /\ Unused(15)

AnyNext ==
  \/ part = "edits" /\ Next /\ Rests(0)
  \/ part = "agent" /\ Agent!Next /\ Rests(17) /\ UNCHANGED vars
  \/ part = "stream" /\ Stream!Next /\ Rests(12) /\ UNCHANGED vars
  \/ part = "talks" /\ Talks!Next /\ Rests(21) /\ UNCHANGED vars
  \/ part = "ponders" /\ Ponders!Next /\ Rests(21) /\ UNCHANGED vars
  \/ part = "works" /\ Works!Next /\ Rests(21) /\ UNCHANGED vars
  \/ part = "context" /\ Context!Next /\ Rests(12) /\ UNCHANGED vars
  \/ part = "children" /\ Children!Next /\ Rests(8) /\ UNCHANGED vars
  \/ part = "prehooks" /\ PreHooks!Next /\ Rests(10) /\ UNCHANGED vars
  \/ part = "newhooks" /\ NewHooks!Next /\ Rests(10) /\ UNCHANGED vars
  \/ part = "posthooks" /\ PostHooks!Next /\ Rests(10) /\ UNCHANGED vars
  \/ part = "remembered" /\ Remembered!Next /\ Rests(12) /\ UNCHANGED vars
  \/ part = "aged" /\ Aged!Next /\ Rests(12) /\ UNCHANGED vars
  \/ part = "stored" /\ Stored!Next /\ Rests(12) /\ UNCHANGED vars
  \/ part = "named" /\ Named!Next /\ Rests(11) /\ UNCHANGED vars
  \/ part = "built" /\ Built!Next /\ Rests(11) /\ UNCHANGED vars
  \/ part = "shared" /\ Shared!Next /\ Rests(11) /\ UNCHANGED vars
  \/ part = "provider" /\ Provider!Next /\ Rests(15) /\ UNCHANGED vars
  \/ part = "service" /\ Service!Next /\ Rests(15) /\ UNCHANGED vars

AnySpec == AnyInit /\ [][AnyNext]_all

(* Every call has its result in its place, unsafe calls run alone, requests are
   bounded, and a turn ends as it says (core/agent_loop.py). *)
AgentSafe == part = "agent" => Agent!AgentSafe

(* A request carries the contract and what was compacted (context_manager.py),
   the memories that the next session will read too (context/memory.py), and the
   tools that were found for its session (tooling.py). *)
RequestSafe ==
  /\ part = "context" => Context!RequestSafe
  /\ part = "remembered" => Remembered!MemorySafe
  /\ part = "aged" => Aged!MemorySafe
  /\ part = "stored" => Stored!MemorySafe
  /\ part = "named" => Named!CatalogSafe
  /\ part = "built" => Built!CatalogSafe
  /\ part = "shared" => Shared!CatalogSafe

(* A hook that runs once is claimed once, denials hold, a closed engine has told
   its tasks (hooks/engine.py). *)
HooksSafe ==
  /\ part = "prehooks" => PreHooks!HooksSafe
  /\ part = "newhooks" => NewHooks!HooksSafe
  /\ part = "posthooks" => PostHooks!HooksSafe

(* What is shown and reported is what happened.  A streamed reply is shown as it
   is kept, and every request can be answered (llm/anthropic_adapter.py); the
   transcript says what was said, in its order (tui/app.py); reports of children come
   in order, with effects of the current revision (tools/task.py); an evaluated run
   passes or fails for what the agent did, within its limits, and a report gives no
   rate and no cost of what is not known (evals/runner.py, evals/worker.py). *)
ReportsTrue ==
  /\ part = "stream" => Stream!StreamSafe
  /\ part = "talks" => Talks!TranscriptTrue
  /\ part = "ponders" => Ponders!TranscriptTrue
  /\ part = "works" => Works!TranscriptTrue
  /\ part = "children" => Children!SubagentSafe
  /\ part = "provider" => Provider!EvaluationSafe
  /\ part = "service" => Service!EvaluationSafe

(* What is recorded is of a reply that came whole (core/agent_loop.py), no report of
   an outdated child is taken (tools/task.py), a rename is done or undone as a
   whole (tools/code_intelligence.py), and no session drops a memory that it never
   had (context/memory_store.py). *)
AnswersStand ==
  [][/\ part = "stream" => Stream!RecordsWhole
     /\ part = "talks" => Talks!FoldsStay
     /\ part = "ponders" => Ponders!FoldsStay
     /\ part = "works" => Works!FoldsStay
     /\ part = "children" => Children!ReportsCurrent
     /\ part = "edits" => AllFailWhole
     /\ part = "remembered" => Remembered!ForgetsKnown
     /\ part = "aged" => Aged!ForgetsKnown]_all
=====================================================================
