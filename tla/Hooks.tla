--------------------------------- MODULE Hooks ---------------------------------
(***************************************************************************)
(* Hooks: which are trusted, which run, what they decide.                  *)
(*                                                                         *)
(*   pepsicode/hooks/engine.py    HookEngine                               *)
(*   pepsicode/hooks/runtime.py   create_hook_engine, reload, trust        *)
(*   pepsicode/hooks/loader.py    load_hooks                               *)
(*   pepsicode/hooks/trust.py     HookTrustStore                           *)
(*                                                                         *)
(* Tool calls fire events at the same time.  Each goes through the hooks   *)
(* it found at first and claims one after the other; the user may switch   *)
(* hooks off, trust or load the files again, and the engine may close,     *)
(* meanwhile.  A load makes new objects, the calls under way keep the old. *)
(***************************************************************************)
EXTENDS Naturals, Sequences, FiniteSets

CONSTANTS
  Callers,     \* tool calls
  Order,       \* the hooks by priority and id
  Before,      \* those of pre_tool_use; the others are of post_tool_use
  Denying,     \* those that deny
  Strict,      \* those of onError = deny
  Once, Background,
  Project,     \* those of the project's file; the user's are always trusted
  Workers,     \* size of the pool of background hooks
  MaxLoads,    \* bound: loads
  MaxVersions, \* bound: versions of the project's file
  MaxTasks     \* bound: background tasks

HookIds == {Order[i] : i \in DOMAIN Order}

HooksAssumption ==
  /\ Denying \subseteq Before /\ Strict \subseteq Before
  /\ Background \cap Before = {} /\ Once \cup Project \subseteq HookIds
BoundsAssumption == MaxLoads \in Nat \ {0} /\ Workers \in Nat \ {0}

VARIABLES
  objects,   \* hooks of each load: [enabled, trusted, executed, version]
  load,      \* the present one
  version,   \* of the project's file
  trusted,   \* the version in the trust store, 0 for none
  onceOnly,  \* the path is trusted for this process
  callers,   \* [at, before, load, left, must]
  tasks,     \* background tasks: [hook, at, told, known]
  closing,   \* "open", "waiting", "told", "closed"
  runs,      \* history: how often a hook was claimed, by load
  accepted   \* history: versions the user accepted

vars == <<objects, load, version, trusted, onceOnly, callers, tasks, closing, runs, accepted>>
trust == <<version, trusted, onceOnly, accepted>>

Idle == [at |-> "idle", before |-> FALSE, load |-> 1, left |-> <<>>, must |-> {}]

(* load_hooks: a hook of a file that is not trusted is loaded switched off.    *)
Trusted(h, t, o) == h \notin Project \/ o \/ t = version
Loaded(t, o) ==
  [h \in HookIds |-> [enabled |-> Trusted(h, t, o), trusted |-> Trusted(h, t, o),
                      executed |-> FALSE, version |-> version]]

(* create_hook_engine: the user is asked about a file that is not trusted.     *)
Init ==
  /\ version = 1
  /\ \/ trusted = 1 /\ onceOnly = FALSE /\ accepted = {1}
     \/ trusted = 0 /\ onceOnly = TRUE /\ accepted = {1}
     \/ trusted = 0 /\ onceOnly = FALSE /\ accepted = {}
  /\ objects = [l \in 1..MaxLoads |-> Loaded(trusted, onceOnly)] /\ load = 1
  /\ callers = [c \in Callers |-> Idle]
  /\ tasks = <<>> /\ closing = "open"
  /\ runs = [l \in 1..MaxLoads |-> [h \in HookIds |-> 0]]

--------------------------------------------------------------------------------
(* An event goes through its hooks.                                            *)

Matches(l, h) ==
  /\ objects[l][h].enabled /\ objects[l][h].trusted
  /\ h \in Once => ~objects[l][h].executed

Standing(h) == h \in Denying \ Once /\ Matches(load, h)

(* find_matching_hooks: what is on when the event is fired.                    *)
Fire(c, before) ==
  /\ callers[c].at = "idle"
  /\ callers' = [callers EXCEPT ![c] =
       [at |-> "firing", before |-> before, load |-> load,
        left |-> SelectSeq(Order, LAMBDA h : (h \in Before) = before /\ Matches(load, h)),
        must |-> IF before THEN {h \in HookIds : Standing(h)} ELSE {}]]
  /\ UNCHANGED <<objects, load, trust, tasks, closing, runs>>

(* Mutant: a hook that runs once is marked only when it has run.               *)
ClaimLate(l, h) == UNCHANGED objects

(* _claim marks a hook that runs once under the lock.                          *)
Claim(l, h) ==
  IF h \in Once THEN objects' = [objects EXCEPT ![l][h].executed = TRUE] ELSE UNCHANGED objects

Count(l, h) == runs' = [runs EXCEPT ![l][h] = IF @ < 2 THEN @ + 1 ELSE @]

Rest(c) == [callers[c] EXCEPT !.left = Tail(@)]

(* The next hook is claimed, if it is still on.  A background one is handed to *)
(* the pool, which refuses once it is shut down: the event ends there.         *)
Next1(c) ==
  LET s == callers[c]  h == Head(s.left)
  IN /\ s.at = "firing" /\ s.left # <<>>
     /\ IF Matches(s.load, h)
          THEN /\ Claim(s.load, h) /\ Count(s.load, h)
               /\ IF h \in Background
                    THEN /\ Len(tasks) < MaxTasks
                         /\ IF closing = "closed"
                              THEN callers' = [callers EXCEPT ![c] = Idle] /\ UNCHANGED tasks
                              ELSE /\ callers' = [callers EXCEPT ![c] = Rest(c)]
                                   /\ tasks' = Append(tasks, [hook |-> h, at |-> "queued", told |-> FALSE,
                                                              known |-> closing = "open"])
                    ELSE callers' = [callers EXCEPT ![c].at = "acting"] /\ UNCHANGED tasks
          ELSE callers' = [callers EXCEPT ![c] = Rest(c)] /\ UNCHANGED <<objects, runs, tasks>>
     /\ UNCHANGED <<load, trust, closing>>

(* evaluate_pre_tool: the first hook that denies, or that must not fail, ends  *)
(* the call.                                                                   *)
Denies(c, h, ok) == callers[c].before /\ (h \in Denying \/ (~ok /\ h \in Strict))

Act(c, ok) ==
  LET h == Head(callers[c].left)
  IN /\ callers[c].at = "acting"
     /\ h \in Denying => ok
     /\ callers' = [callers EXCEPT ![c] = IF Denies(c, h, ok) THEN Idle ELSE [Rest(c) EXCEPT !.at = "firing"]]
     /\ UNCHANGED <<objects, load, trust, tasks, closing, runs>>

Pass(c) ==
  /\ callers[c].at = "firing" /\ callers[c].left = <<>>
  /\ callers' = [callers EXCEPT ![c].at = IF callers[c].before THEN "passed" ELSE "done"]
  /\ UNCHANGED <<objects, load, trust, tasks, closing, runs>>

(* The tool runs and the call ends.                                            *)
Finish(c) ==
  /\ callers[c].at \in {"passed", "done"} /\ callers' = [callers EXCEPT ![c] = Idle]
  /\ UNCHANGED <<objects, load, trust, tasks, closing, runs>>

--------------------------------------------------------------------------------
(* The pool.                                                                   *)

Running == {i \in DOMAIN tasks : tasks[i].at = "running"}

StartTask(i) ==
  /\ tasks[i].at = "queued" /\ Cardinality(Running) < Workers
  /\ \A j \in 1..i - 1 : tasks[j].at # "queued"
  /\ tasks' = [tasks EXCEPT ![i].at = "running"]
  /\ UNCHANGED <<objects, load, trust, callers, closing, runs>>

EndTask(i) ==
  /\ tasks[i].at = "running" /\ tasks' = [tasks EXCEPT ![i].at = "ended"]
  /\ UNCHANGED <<objects, load, trust, callers, closing, runs>>

(* close: it waits for the tasks it knows, tells those that are left to stop,  *)
(* waits again, and shuts the pool down, where nothing that waits starts.      *)
Close ==
  /\ MaxTasks > 0  \* bound: only the background hooks are closed
  /\ closing = "open" /\ closing' = "waiting"
  /\ UNCHANGED <<objects, load, trust, callers, tasks, runs>>

Tell(t) == t.known /\ t.at # "ended"

CloseTells ==
  /\ closing = "waiting" /\ closing' = "told"
  /\ tasks' = [i \in DOMAIN tasks |-> [tasks[i] EXCEPT !.told = @ \/ Tell(tasks[i])]]
  /\ UNCHANGED <<objects, load, trust, callers, runs>>

Shutdown ==
  /\ closing = "told" /\ closing' = "closed"
  /\ tasks' = [i \in DOMAIN tasks |->
       [tasks[i] EXCEPT !.at = IF @ = "queued" THEN "ended" ELSE @]]
  /\ UNCHANGED <<objects, load, trust, callers, runs>>

--------------------------------------------------------------------------------
(* What the user does.                                                         *)

Fewer(hooks) == [c \in Callers |-> [callers[c] EXCEPT !.must = @ \cap hooks]]

(* replace_hooks.                                                              *)
Replace(t, o) ==
  /\ load < MaxLoads /\ load' = load + 1
  /\ objects' = [objects EXCEPT ![load + 1] = Loaded(t, o)]
  /\ callers' = Fewer({h \in HookIds : Loaded(t, o)[h].enabled})
  /\ UNCHANGED <<version, onceOnly, tasks, closing, runs>>

Reload == Replace(trusted, onceOnly) /\ UNCHANGED <<trusted, accepted>>

(* /hooks trust: the version that is there now.                                *)
Trust == trusted' = version /\ accepted' = accepted \cup {version} /\ Replace(version, onceOnly)

Switch(h, on) ==
  /\ objects[load][h].enabled # on /\ (on => objects[load][h].trusted)
  /\ objects' = [objects EXCEPT ![load][h].enabled = on]
  /\ callers' = IF on THEN callers ELSE Fewer(HookIds \ {h})
  /\ UNCHANGED <<load, trust, tasks, closing, runs>>

Edit ==
  /\ version < MaxVersions /\ version' = version + 1
  /\ UNCHANGED <<objects, load, trusted, onceOnly, accepted, callers, tasks, closing, runs>>

Next ==
  \/ \E c \in Callers :
       \/ \E before \in BOOLEAN : Fire(c, before)
       \/ \E ok \in BOOLEAN : Act(c, ok)
       \/ Next1(c) \/ Pass(c) \/ Finish(c)
  \/ \E i \in DOMAIN tasks : StartTask(i) \/ EndTask(i)
  \/ \E h \in HookIds, on \in BOOLEAN : Switch(h, on)
  \/ Close \/ CloseTells \/ Shutdown \/ Reload \/ Trust \/ Edit

Spec == Init /\ [][Next]_vars

--------------------------------------------------------------------------------
TypeOK ==
  /\ load \in 1..MaxLoads /\ version \in 1..MaxVersions /\ trusted \in 0..version
  /\ \A c \in Callers : callers[c].at \in {"idle", "firing", "acting", "passed", "done"}
  /\ \A i \in DOMAIN tasks : tasks[i].at \in {"queued", "running", "ended"}
  /\ Cardinality(Running) <= Workers

(* A hook that runs once is claimed once of every load, however many calls     *)
(* come to it at the same time.                                                *)
OncePerLoad == \A l \in 1..MaxLoads, h \in Once : runs[l][h] <= 1

(* No call passes a hook that denies and that stayed on, through every load,   *)
(* since the event was fired.                                                  *)
DenialsStand == \A c \in Callers : callers[c].at = "passed" => callers[c].must = {}

(* When the engine has closed, every task it knew of has ended or was told to  *)
(* stop.                                                                       *)
ClosedIsTold ==
  closing = "closed" => \A i \in DOMAIN tasks : tasks[i].known => tasks[i].told \/ tasks[i].at = "ended"

HooksSafe == TypeOK /\ OncePerLoad /\ DenialsStand /\ ClosedIsTold

(* What the documentation says: a hook that runs once runs at most once in a   *)
(* process.                                                                    *)
OncePerProcess ==
  \A h \in Once, k, l \in 1..MaxLoads : k # l => runs[k][h] = 0 \/ runs[l][h] = 0

(* What the documentation says: a changed file has to be accepted again        *)
(* before its hooks run.                                                       *)
ChangedIsAsked ==
  \A l \in 1..load, h \in Project : objects[l][h].trusted => objects[l][h].version \in accepted
================================================================================
