------------------------------ MODULE McpClient ------------------------------
(***************************************************************************)
(* One MCP connection of the tool registry (mcp.py): the start of the      *)
(* server and its handshake, the requests of the agent loop, the threads   *)
(* that read the server's answers, the one restart of a server that died,  *)
(* and what the registry records of a call whose answer is lost.  MCP      *)
(* tools are not concurrency safe, so an agent loop makes one call at a    *)
(* time; the registry may be disposed of while a call is under way.  The   *)
(* server itself is external: it may answer, stay silent, act and die.     *)
(***************************************************************************)
EXTENDS Naturals, Sequences, FiniteSets

CONSTANTS MaxCalls,      \* bound: calls of tools
          MaxProcesses   \* bound: processes the client spawns

VARIABLES transport,     \* "stdio" or "http", by the configuration
          connected,     \* the probe found the server's tools
          process,       \* self.process: a generation, 0 for None
          alive,         \* the generations that run
          spawned,       \* how many processes were spawned
          stdin, stdout, \* what is in the pipes of each generation
          thread,        \* self._stdout_thread is set
          readers,       \* the threads that read, by generation of start
          pending,       \* the ids of self._pending
          answer,        \* what was put into the queue of the request under way
          nextId,
          call,          \* the call of the agent loop
          closer,        \* how far each close() is, and of which process
          outcomes,      \* what the registry recorded of each call
          executed       \* how often the server ran each call

vars == <<transport, connected, process, alive, spawned, stdin, stdout, thread, readers,
          pending, answer, nextId, call, closer, outcomes, executed>>
pipes == <<stdin, stdout>>
server == <<alive, spawned, stdin, stdout, executed>>
queues == <<pending, answer, nextId>>
client == <<process, thread, readers, queues, closer>>

Generations == 1 .. MaxProcesses
Numbers == 1 .. MaxCalls
Closers == {"caller", "disposer"}

NoCall == [n |-> 0, pc |-> "idle", writes |-> FALSE, restarted |-> FALSE,
           method |-> "none", id |-> 0]
Closed == [pc |-> "no", of |-> 0]
Nothing == [kind |-> "none", of |-> <<0, "none">>]

(* The registry has begun to probe the server: call 0 is the probe. *)
Init ==
  /\ transport \in {"stdio", "http"}
  /\ connected = FALSE
  /\ process = 0 /\ alive = {} /\ spawned = 0 /\ thread = FALSE
  /\ stdin = [g \in Generations |-> <<>>]
  /\ stdout = [g \in Generations |-> <<>>]
  /\ readers = [g \in Generations |-> [pc |-> "none", on |-> 0]]
  /\ pending = {} /\ nextId = 1
  /\ answer = Nothing
  /\ call = [NoCall EXCEPT !.pc = IF transport = "http" THEN "http" ELSE "spawn"]
  /\ closer = [w \in Closers |-> Closed]
  /\ outcomes = [n \in Numbers |-> "none"]
  /\ executed = [n \in Numbers |-> 0]

(***************************************************************************)
(* What the registry makes of a call: a tool that is not declared read     *)
(* only has the effect "unknown" from before the request until its answer  *)
(* says that it succeeded.                                                 *)
(***************************************************************************)
RecordedByStatus(c, ok, status) ==
  IF ok THEN "completed" ELSE IF status = "unknown" THEN "unknown" ELSE "failed"

Recorded(c, ok, status) ==
  CASE ok -> "completed"
    [] ~ok /\ (c.writes \/ status = "unknown") -> "unknown"
    [] OTHER -> "failed"

End(ok, status) ==
  /\ outcomes' = IF call.n = 0 THEN outcomes
                 ELSE [outcomes EXCEPT ![call.n] = Recorded(call, ok, status)]
  /\ call' = [NoCall EXCEPT !.n = call.n, !.writes = call.writes]

(***************************************************************************)
(* A failure of start() or of the probe closes the client.  A call that    *)
(* failed in a living server is not sent again: the server may have acted. *)
(***************************************************************************)
RaisesReplayed ==
  IF call.method = "tools/call" /\ ~call.restarted
  THEN /\ call' = [call EXCEPT !.pc = "register", !.restarted = TRUE]
       /\ UNCHANGED outcomes
  ELSE /\ call.method = "tools/call"
       /\ End(FALSE, "unknown")

Raises ==
  IF call.method # "tools/call"
  THEN /\ call' = [call EXCEPT !.pc = "closing", !.method = "failed"]
       /\ UNCHANGED outcomes
  ELSE End(FALSE, IF call.restarted THEN "error" ELSE "unknown")

(* The agent loop calls a tool, after the approval of its tool call. *)
Begin(w) ==
  /\ connected /\ call.pc = "idle" /\ call.n < MaxCalls
  /\ call' = [NoCall EXCEPT !.n = call.n + 1, !.writes = w, !.method = "tools/call",
                            !.pc = IF transport = "http" THEN "http" ELSE "check"]
  /\ UNCHANGED <<transport, connected, client, server, outcomes>>

(* A process that is not alive is closed and started again, once. *)
Check ==
  /\ call.pc = "check"
  /\ call' = IF process \in alive
             THEN [call EXCEPT !.pc = "register"]
             ELSE [call EXCEPT !.pc = "closing", !.method = "none", !.restarted = TRUE]
  /\ UNCHANGED <<transport, connected, client, server, outcomes>>

(* The request under way. *)
Request == <<call.n, call.method>>

(* Every waiting request is answered with an error. *)
AnswerAll(error) ==
  /\ answer' = IF call.id \in pending THEN [kind |-> error, of |-> Request] ELSE answer
  /\ pending' = {}

(* close(): first every waiting request is answered ... *)
CloseAnswer(w) ==
  /\ closer[w].pc = "no"
  /\ IF w = "caller" THEN call.pc = "closing" /\ transport = "stdio" ELSE connected
  /\ AnswerAll("closed")
  /\ closer' = [closer EXCEPT ![w] = [pc |-> "stop", of |-> process]]
  /\ UNCHANGED <<transport, connected, process, thread, readers, nextId, server,
                 call, outcomes>>

(* ... then the process is killed ... *)
CloseStop(w) ==
  /\ closer[w].pc = "stop"
  /\ alive' = alive \ {closer[w].of}
  /\ stdin' = [g \in Generations |-> IF g = closer[w].of THEN <<>> ELSE stdin[g]]
  /\ closer' = [closer EXCEPT ![w].pc = "forget"]
  /\ UNCHANGED <<transport, connected, process, thread, readers, queues, spawned, stdout,
                 executed, call, outcomes>>

(* ... and forgotten.  The disposer closes once; a failure ends the call. *)
CloseForget(w) ==
  /\ closer[w].pc = "forget"
  /\ process' = 0 /\ thread' = FALSE
  /\ closer' = [closer EXCEPT ![w] = [pc |-> IF w = "caller" THEN "no" ELSE "done", of |-> 0]]
  /\ IF w = "caller" /\ call.method = "failed" THEN End(FALSE, "error")
     ELSE /\ call' = IF w = "caller" THEN [call EXCEPT !.pc = "spawn"] ELSE call
          /\ UNCHANGED outcomes
  /\ UNCHANGED <<transport, connected, readers, queues, server>>

(* A new process, whose ids go on where those of the last one ended; the *)
(* command may be missing.                                               *)
Spawn ==
  /\ call.pc = "spawn"
  /\ \/ /\ spawned < MaxProcesses
        /\ spawned' = spawned + 1
        /\ process' = spawned + 1
        /\ alive' = alive \cup {spawned + 1}
        /\ pending' = {}
        /\ call' = [call EXCEPT !.pc = "register", !.method = "initialize"]
     \/ /\ call' = [call EXCEPT !.pc = "closing", !.method = "failed"]
        /\ UNCHANGED <<spawned, process, alive, pending>>
  /\ UNCHANGED <<transport, connected, pipes, thread, readers, answer, nextId,
                 closer, outcomes, executed>>

(* request(): the queue of the answer is there before the message is sent. *)
Register ==
  /\ call.pc = "register"
  /\ pending' = pending \cup {nextId}
  /\ answer' = Nothing
  /\ nextId' = nextId + 1
  /\ call' = [call EXCEPT !.pc = "send", !.id = nextId]
  /\ UNCHANGED <<transport, connected, process, thread, readers, closer, server, outcomes>>

(* A message to a process that is gone raises, and leaves the id waiting. *)
Send ==
  /\ call.pc = "send"
  /\ IF process \in alive
     THEN /\ stdin' = [stdin EXCEPT ![process] = Append(@, [id |-> call.id, of |-> Request])]
          /\ thread' = TRUE
          /\ readers' = IF thread THEN readers
                        ELSE [readers EXCEPT ![process] = [pc |-> "look", on |-> 0]]
          /\ call' = [call EXCEPT !.pc = "wait"]
          /\ UNCHANGED outcomes
     ELSE Raises /\ UNCHANGED <<stdin, thread, readers>>
  /\ UNCHANGED <<transport, connected, process, alive, spawned, stdout, queues, closer,
                 executed>>

(* The answer: the handshake goes on to the call, the probe to the list of *)
(* the tools; the result of a call may be that it failed.                  *)
Answered ==
  /\ call.pc = "wait" /\ answer.kind # "none"
  /\ answer' = Nothing
  /\ IF answer.kind # "result"
     THEN Raises /\ UNCHANGED connected
     ELSE CASE call.method = "initialize" ->
                 /\ call' = [call EXCEPT !.pc = "register", !.method =
                                IF call.n = 0 THEN "tools/list" ELSE "tools/call"]
                 /\ UNCHANGED <<connected, outcomes>>
            [] call.method = "tools/list" ->
                 /\ connected' = TRUE
                 /\ End(TRUE, "none")
            [] OTHER -> /\ \E ok \in BOOLEAN : End(ok, "none")
                        /\ UNCHANGED connected
  /\ UNCHANGED <<transport, process, thread, readers, pending, nextId, closer, server>>

GiveUpNever == FALSE /\ UNCHANGED vars

(* A timeout or a stop of the turn: the request is forgotten, a late answer dropped. *)
GiveUp ==
  /\ call.pc = "wait" /\ answer.kind = "none"
  /\ pending' = pending \ {call.id}
  /\ Raises
  /\ UNCHANGED <<transport, connected, process, thread, readers, answer, nextId,
                 closer, server>>

(***************************************************************************)
(* The reader reads self.process anew before every line: after close() it  *)
(* ends silently, after a restart it goes on with the new process.  At the *)
(* end of the stream it answers what waits then.                           *)
(***************************************************************************)
Look(g) ==
  /\ readers[g].pc = "look"
  /\ readers' = [readers EXCEPT ![g] = IF process = 0 THEN [pc |-> "gone", on |-> 0]
                                       ELSE [pc |-> "read", on |-> process]]
  /\ UNCHANGED <<transport, connected, process, thread, queues, call, closer, server,
                 outcomes>>

Deliver(line) ==
  /\ pending' = pending \ {line.id}
  /\ answer' = IF line.id \in pending /\ line.id = call.id
               THEN [kind |-> line.kind, of |-> line.of] ELSE answer

Read(g) ==
  /\ readers[g].pc = "read" /\ stdout[readers[g].on] # <<>>
  /\ Deliver(Head(stdout[readers[g].on]))
  /\ stdout' = [stdout EXCEPT ![readers[g].on] = Tail(@)]
  /\ readers' = [readers EXCEPT ![g].pc = "look"]
  /\ UNCHANGED <<transport, connected, process, thread, nextId, call, closer, alive,
                 spawned, stdin, executed, outcomes>>

EndOfStream(g) ==
  /\ readers[g].pc = "read" /\ stdout[readers[g].on] = <<>> /\ readers[g].on \notin alive
  /\ readers' = [readers EXCEPT ![g].pc = "end"]
  /\ UNCHANGED <<transport, connected, process, thread, queues, call, closer, server,
                 outcomes>>

Exited(g) ==
  /\ readers[g].pc = "end"
  /\ IF process # 0 THEN AnswerAll("exited") ELSE UNCHANGED <<pending, answer>>
  /\ readers' = [readers EXCEPT ![g] = [pc |-> "gone", on |-> 0]]
  /\ UNCHANGED <<transport, connected, process, thread, nextId, call, closer, server,
                 outcomes>>

(***************************************************************************)
(* The server reads its input, acts, and answers or stays silent; it may   *)
(* die at any time.                                                        *)
(***************************************************************************)
Ran(of) == IF of[2] = "tools/call" THEN [executed EXCEPT ![of[1]] = @ + 1] ELSE executed

Serve(g) ==
  /\ g \in alive /\ stdin[g] # <<>>
  /\ LET line == Head(stdin[g]) IN
       /\ stdin' = [stdin EXCEPT ![g] = Tail(@)]
       /\ executed' = Ran(line.of)
       /\ \/ UNCHANGED stdout
          \/ \E kind \in {"result", "error"} :
               stdout' = [stdout EXCEPT ![g] = Append(@, [kind |-> kind, id |-> line.id,
                                                          of |-> line.of])]
  /\ UNCHANGED <<transport, connected, client, alive, spawned, call, outcomes>>

Die(g) ==
  /\ g \in alive
  /\ alive' = alive \ {g}
  /\ stdin' = [stdin EXCEPT ![g] = <<>>]
  /\ UNCHANGED <<transport, connected, client, spawned, stdout, executed, call, outcomes>>

(***************************************************************************)
(* Over HTTP a request is one exchange.  What is not an answer raises, and *)
(* the registry calls a call that raised unknown unless it is read only.   *)
(***************************************************************************)
HttpCall ==
  /\ call.pc = "http"
  /\ \E arrives \in BOOLEAN, reply \in {"result", "refusal", "lost", "stopped"} :
       /\ reply \in {"result", "refusal"} => arrives
       /\ executed' = IF arrives THEN Ran(<<call.n, call.method>>) ELSE executed
       /\ connected' = (connected \/ (call.n = 0 /\ reply = "result"))
       /\ End(reply = "result", IF reply = "lost" /\ call.writes THEN "unknown" ELSE "none")
  /\ UNCHANGED <<transport, client, alive, spawned, pipes>>

Caller == Check \/ CloseAnswer("caller") \/ CloseStop("caller") \/ CloseForget("caller")
          \/ Spawn \/ Register \/ Send \/ Answered \/ GiveUp \/ HttpCall
Disposer == CloseAnswer("disposer") \/ CloseStop("disposer") \/ CloseForget("disposer")
Reader(g) == Look(g) \/ Read(g) \/ EndOfStream(g) \/ Exited(g)

Next == \/ \E w \in BOOLEAN : Begin(w)
        \/ Caller \/ Disposer
        \/ \E g \in Generations : Reader(g) \/ Serve(g) \/ Die(g)

Spec == Init /\ [][Next]_vars

(***************************************************************************)
(* The threads of the client run; its requests have timeouts.              *)
(***************************************************************************)
FairSpec == Spec /\ WF_vars(Caller)

-----------------------------------------------------------------------------
TypeOK ==
  /\ process \in 0 .. spawned /\ alive \subseteq 1 .. spawned
  /\ pending \subseteq 1 .. nextId - 1 /\ nextId \in Nat
  /\ call.pc \in {"idle", "check", "closing", "spawn", "register", "send", "wait", "http"}
  /\ \A n \in Numbers : outcomes[n] \in {"none", "completed", "unknown", "failed"}

(* An answer of the server reaches the request it answers, whatever threads *)
(* of earlier processes still read.                                         *)
OwnAnswers == answer.kind \in {"result", "error"} /\ call.pc \in {"send", "wait"}
                => answer.of = Request

(* A call is never run twice: a lost answer does not send it again. *)
RunsOnce == \A n \in Numbers : executed[n] <= 1

(* A call that may have changed something and is not known to have succeeded *)
(* is recorded as unknown, and one recorded as completed did run.            *)
NothingForgotten ==
  \A n \in Numbers :
    /\ outcomes[n] = "completed" => executed[n] = 1
    /\ outcomes[n] = "failed" /\ call.n = n => ~call.writes

McpSafe == TypeOK /\ OwnAnswers /\ RunsOnce /\ NothingForgotten

(* Every call ends, answered or not. *)
Quiet == call.pc = "idle"
CallsEnd == ~Quiet ~> Quiet
=============================================================================
