------------------------------ MODULE MCLive ------------------------------
(* What must come to an end, for TLC: a turn of the agent, the requests of a   *)
(* turn and its children, a call of an MCP server, a turn and a connection of   *)
(* the server, and a turn of the terminal that is told to stop.  The components *)
(* do not run together, so they share the variables of one state.               *)
EXTENDS ModelRequests, Sequences, TLC

CONSTANTS view, write, ask, leave, main, c1, c2, a1, s1

VARIABLES part,  \* the component this behaviour is about
          v1, v2, v3, v4, v5, v6, v7, v8, v9, v10, v11, v12, v13, v14, v15, v16,
          v17, v18, v19, v20, v21, v22, v23, v24, v25, v26  \* the variables of every one but ModelRequests

slots == <<v1, v2, v3, v4, v5, v6, v7, v8, v9, v10, v11, v12, v13, v14, v15, v16,
           v17, v18, v19, v20, v21, v22, v23, v24, v25, v26>>
all == <<part, slots, vars>>

(* The components with fewer variables leave the others alone. *)
Unused(k) ==
  /\ k = 0 =>
       /\ v1 = 0 /\ v2 = 0 /\ v3 = 0 /\ v4 = 0 /\ v5 = 0 /\ v6 = 0 /\ v7 = 0 /\ v8 = 0
       /\ v9 = 0 /\ v10 = 0 /\ v11 = 0 /\ v12 = 0 /\ v13 = 0 /\ v14 = 0 /\ v15 = 0 /\ v16 = 0
  /\ k < 17 => v17 = 0
  /\ k < 18 => v18 = 0
  /\ k < 19 => v19 = 0
  /\ k < 20 => v20 = 0
  /\ k < 21 => v21 = 0
  /\ k < 22 => v22 = 0
  /\ k < 23 => v23 = 0
  /\ k < 24 => v24 = 0
  /\ k < 25 => v25 = 0
  /\ k < 26 => v26 = 0
  /\ k > 0 => limit = 0
Rests(k) ==
  /\ UNCHANGED part
  /\ k = 0 => UNCHANGED <<v1, v2, v3, v4, v5, v6, v7, v8, v9, v10, v11, v12, v13, v14, v15, v16>>
  /\ k < 17 => v17' = v17
  /\ k < 18 => v18' = v18
  /\ k < 19 => v19' = v19
  /\ k < 20 => v20' = v20
  /\ k < 21 => v21' = v21
  /\ k < 22 => v22' = v22
  /\ k < 23 => v23' = v23
  /\ k < 24 => v24' = v24
  /\ k < 25 => v25' = v25
  /\ k < 26 => v26' = v26

Agent == INSTANCE AgentTurn WITH
  streaming <- v1, phase <- v2, status <- v3, step <- v4, overflows <- v5, empties
  <- v6, thoughts <- v7, fresh <- v8, batch <- v9, place <- v10, result <- v11,
  queued <- v12, cancelled <- v13, inputs <- v14, requests <- v15, late <- v16,
  reply <- v17, Tools <- {view, write, ask, leave}, Safe <- {view}, Awaiting <-
  {ask}, NoInput <- {}, ExitPlan <- leave, Batches <- {<<view, view, write>>, <<ask,
  write>>}, Parallel <- 2, MaxSteps <- 2, Overflows <- 1, Empties <- 1, Thoughts <-
  1, MaxInputs <- 1

Mcp == INSTANCE McpClient WITH
  transport <- v1, connected <- v2, process <- v3, alive <- v4, spawned <- v5, stdin
  <- v6, stdout <- v7, thread <- v8, readers <- v9, pending <- v10, answer <- v11,
  nextId <- v12, call <- v13, closer <- v14, outcomes <- v15, executed <- v16,
  MaxCalls <- 1, MaxProcesses <- 2

Server == INSTANCE ServerSessions WITH
  loop <- v1, connected <- v2, session <- v3, made <- v4, tools <- v5, disposed <-
  v6, settings <- v7, plan <- v8, stale <- v9, plans <- v10, inbox <- v11, accepting
  <- v12, turn <- v13, intended <- v14, turns <- v15, worker <- v16, failed <- v17,
  cancelled <- v18, bridge <- v19, prompt <- v20, asked <- v21, known <- v22,
  thinking <- v23, closing <- v24, drain <- v25, Askers <- {a1}, MaxSessions <- 2,
  MaxTurns <- 1, MaxSettings <- 1, MaxPlans <- 1, MaxAsks <- 1

Term == INSTANCE Terminal WITH
  ui <- v1, busy <- v2, cancel <- v3, worker <- v4, turn <- v5, kind <- v6, result
  <- v7, done <- v8, messages <- v9, session <- v10, disk <- v11, answered <- v12,
  since <- v13, accepting <- v14, typed <- v15, pending <- v16, returned <- v17,
  composer <- v18, prompt <- v19, prompts <- v20, event <- v21, answer <- v22,
  choice <- v23, allowing <- v24, plan <- v25, followup <- v26, Sessions <- {s1},
  First <- s1, MaxTurns <- 2, MaxPrompts <- 1, MaxInputs <- 0

(* What each component assumes of its constants.                                  *)
ASSUME AllAssumptions ==
  /\ AmountsAssumption
  /\ ScopesAssumption
  /\ Agent!ToolsAssumption
  /\ Agent!BatchesAssumption
  /\ Agent!LimitsAssumption
  /\ Server!BoundsAssumption
  /\ Term!TerminalAssumption

AnyInit ==
  /\ Init
  /\ \/ part = "requests" /\ Unused(0)
     \/ part = "agent" /\ Agent!Init /\ Unused(17)
     \/ part = "mcp" /\ Mcp!Init /\ Unused(16)
     \/ part = "server" /\ Server!Init /\ Unused(25)
     \/ part = "term" /\ Term!Init /\ Unused(26)

AnyNext ==
  \/ part = "requests" /\ Next /\ Rests(0)
  \/ part = "agent" /\ Agent!Next /\ Rests(17) /\ UNCHANGED vars
  \/ part = "mcp" /\ Mcp!Next /\ Rests(16) /\ UNCHANGED vars
  \/ part = "server" /\ Server!Next /\ Rests(25) /\ UNCHANGED vars
  \/ part = "term" /\ Term!Next /\ Rests(26) /\ UNCHANGED vars

AnySpec == AnyInit /\ [][AnyNext]_all

(* The threads and the loops go on, the worker of the server comes to an end,  *)
(* a request has a timeout, and so has a prompt of the server that nobody       *)
(* answers; nobody has to press a key.                                          *)
Fairness ==
  /\ WF_all(part = "agent" /\ Agent!Turn /\ Rests(17) /\ UNCHANGED vars)
  /\ WF_all(part = "agent" /\ Agent!Pool /\ Rests(17) /\ UNCHANGED vars)
  /\ \A x \in Scopes : SF_all(part = "requests" /\ Step(x) /\ Rests(0))
  /\ WF_all(part = "mcp" /\ Mcp!Caller /\ Rests(16) /\ UNCHANGED vars)
  /\ WF_all(part = "server" /\ Server!Task /\ Rests(25) /\ UNCHANGED vars)
  /\ WF_all(part = "server" /\ Server!Loop /\ Rests(25) /\ UNCHANGED vars)
  /\ WF_all(part = "server" /\ Server!Dispose /\ Rests(25) /\ UNCHANGED vars)
  /\ WF_all(part = "server" /\ Server!WorkDone /\ Rests(25) /\ UNCHANGED vars)
  /\ WF_all(part = "server" /\ Server!Timeout(a1) /\ Rests(25) /\ UNCHANGED vars)
  /\ WF_all(part = "server" /\ Server!Use(a1) /\ Rests(25) /\ UNCHANGED vars)
  /\ WF_all(part = "term" /\ Term!Loop /\ Rests(26) /\ UNCHANGED vars)
  /\ WF_all(part = "term" /\ Term!Work /\ Rests(26) /\ UNCHANGED vars)

AnyFairSpec == AnySpec /\ Fairness

(* The turns: of the agent, of the server, and the stopped turn t of the terminal. *)
Begun(t) ==
  \/ part = "agent"
  \/ part = "server" /\ Server!TurnRuns
  \/ part = "term" /\ Term!Told(t)
Over(t) ==
  \/ part = "agent" /\ Agent!Over
  \/ part = "server" /\ ~Server!TurnRuns
  \/ part = "term" /\ Term!Collected(t)

(* What a turn asks for: a request of a scope, a call of an MCP server; and the  *)
(* resources of a connection that is lost.                                       *)
Waiting(x) ==
  \/ part = "requests" /\ Waits(x)
  \/ part = "mcp" /\ ~Mcp!Quiet
  \/ part = "server" /\ Server!Lost
Finished(x) ==
  \/ part = "requests" /\ Idle(x)
  \/ part = "mcp" /\ Mcp!Quiet
  \/ part = "server" /\ Server!Drained

(* A turn of the agent ends, a turn of the server is answered, and a turn of the *)
(* terminal that is told to stop is collected, whoever was waiting for whom.     *)
TurnsEnd == \A t \in 1..2 : Begun(t) ~> Over(t)

(* Whoever waits for the lock of the budget gets an answer or a refusal, a call  *)
(* of an MCP server returns, a lost connection gives its resources back.         *)
WaitsEnd == \A x \in Scopes : Waiting(x) ~> Finished(x)
====================================================================
