------------------------------ MODULE ToolCatalog ------------------------------
(***************************************************************************)
(* The tools a request offers to the model (tooling.py, tools/__init__.py, *)
(* mcp.py): the registry made of the built-in tools and of those of the    *)
(* MCP servers that answered when it was made, the tools of it that are    *)
(* loaded, and the list of them that is saved with the session.  A tool is *)
(* loaded from the start, by a search, or because the messages call it.    *)
(***************************************************************************)
EXTENDS Naturals, Sequences, FiniteSets

CONSTANTS BuiltIn,     \* the names of the built-in tools
          Core,        \* those a registry that loads tools on demand begins with
          Served,      \* the tools of the configured servers, in their order
          Sessions,
          Limit,       \* the tools one search may report
          MaxStarts,   \* bound: registries that are made
          MaxFailures  \* bound: saves that fail

CatalogAssumption ==
  /\ Core \subseteq BuiltIn
  /\ \A i \in DOMAIN Served : DOMAIN Served[i] = {"server", "alias"}
  /\ {Limit, MaxStarts, MaxFailures} \subseteq Nat

VARIABLES mode,     \* "eager"; or on demand, "small" when all fit into the window, "lazy"
          up,       \* the servers that answered when the registry was made
          loaded,   \* the names that are loaded
          model,    \* "mock" before a provider is configured, "real"
          at,       \* the session
          session,  \* what it holds
          disk,     \* what is saved of each session
          offered,  \* the names in the last request
          phase,    \* "off", "idle"; in a turn: "asked", then "works"
          starts, failures

vars == <<mode, up, loaded, model, at, session, disk, offered, phase, starts, failures>>

Servers == {Served[i].server : i \in DOMAIN Served}

(* Names with the same text are numbered among the servers that answered.      *)
NameOf(S, i) ==
  <<Served[i].alias,
    Cardinality({j \in 1..i : Served[j].alias = Served[i].alias /\ Served[j].server \in S})>>

NamesOf(S) == BuiltIn \cup {NameOf(S, i) : i \in {j \in DOMAIN Served : Served[j].server \in S}}
AllNames == BuiltIn \cup {<<Served[i].alias, n>> : i, n \in DOMAIN Served}
Available == NamesOf(up)

Deferred == mode # "eager"
Initial == IF mode = "lazy" THEN Core ELSE Available

(* A session: whether a list of loaded tools is saved with it, and which; the  *)
(* tools its messages call; and as history the tools the model has heard of,    *)
(* those of them that a registry without them made it forget, and those that    *)
(* were there from the start or became known in it.                             *)
Blank == [kept |-> FALSE, loaded |-> {}, used |-> {}, known |-> {}, lost |-> {}, own |-> {}]
IsRecord(r) ==
  r.kept \in BOOLEAN /\ UNION {r.loaded, r.used, r.known, r.lost, r.own} \subseteq AllNames

Init ==
  /\ mode = "lazy" /\ up = {} /\ loaded = {} /\ model = "mock"
  /\ at \in Sessions /\ session = Blank /\ disk = [s \in Sessions |-> Blank]
  /\ offered = {} /\ phase = "off" /\ starts = 0 /\ failures = 0

--------------------------------------------------------------------------------
(* The host.                                                                   *)

(* The servers are asked side by side; one that fails is left out, the others  *)
(* get their names in the order of the configuration.                           *)
MakeRegistry ==
  /\ starts < MaxStarts
  /\ starts' = starts + 1
  /\ up' \in SUBSET Servers
  /\ mode' \in {"eager", "small", "lazy"}

(* restore_loaded_tools: the saved list, as far as the registry has the tools. *)
Open(s, record) ==
  /\ at' = s
  /\ loaded' = IF record.kept THEN record.loaded \cap Available' ELSE Initial'
  /\ session' = [record EXCEPT !.own = @ \cup Initial']
  /\ offered' = {}

(* A process starts, with a session that is new or resumed.                    *)
Start ==
  /\ phase = "off"
  /\ MakeRegistry
  /\ \E s \in Sessions : Open(s, disk[s])
  /\ model' \in {"mock", "real"} /\ phase' = "idle"
  /\ UNCHANGED <<disk, failures>>

(* The server makes the services of a connection anew for each session.        *)
Change ==
  /\ phase = "idle"
  /\ MakeRegistry
  /\ \E s \in Sessions : Open(s, disk[s])
  /\ UNCHANGED <<model, disk, phase, failures>>

(* /resume in the terminal goes on with the registry there is.                 *)
Resume ==
  /\ phase = "idle"
  /\ UNCHANGED <<mode, up, model, disk, phase, starts, failures>>
  /\ \E s \in {t \in Sessions : disk[t].kept} : Open(s, disk[s])

(* Another branch: its messages are some of those of the session.              *)
Checkout ==
  /\ phase = "idle"
  /\ UNCHANGED <<mode, up, model, disk, phase, starts, failures>>
  /\ \E heard \in SUBSET session.known :
       Open(at, [session EXCEPT !.known = heard, !.used = @ \cap heard])

(* The first provider that is configured takes the place of the mock model; its *)
(* registry is new, and the list of the session is not restored into it.       *)
Configure ==
  /\ phase = "idle" /\ model = "mock"
  /\ MakeRegistry
  /\ model' = "real" /\ loaded' = Initial'
  /\ session' = [session EXCEPT !.lost = @ \cup session.known, !.own = @ \cup Initial']
  /\ UNCHANGED <<at, disk, offered, phase, failures>>

Save ==
  /\ phase # "off"
  /\ disk' = [disk EXCEPT ![at] = session]
  /\ UNCHANGED <<mode, up, loaded, model, at, session, offered, phase, starts, failures>>

Crash ==
  /\ phase # "off" /\ phase' = "off"
  /\ UNCHANGED <<mode, up, loaded, model, at, session, disk, offered, starts, failures>>

--------------------------------------------------------------------------------
(* A turn.                                                                     *)

(* model_tools: what the messages call is loaded, and the list is saved with   *)
(* the session before the request that offers it.                               *)
Wanted == loaded \cup (session.used \cap Available)

Listed(names) ==
  [session EXCEPT !.kept = TRUE, !.loaded = names, !.lost = @ \cup (session.known \ Available)]

Request ==
  /\ phase \in {"idle", "works"} /\ model = "real"
  /\ loaded' = Wanted /\ offered' = Wanted
  /\ session' = Listed(Wanted)
  /\ disk' = IF session.kept /\ session.loaded = Wanted THEN disk
             ELSE [disk EXCEPT ![at] = session']
  /\ phase' = "asked"
  /\ UNCHANGED <<mode, up, model, at, starts, failures>>

RequestFails ==
  /\ phase \in {"idle", "works"} /\ model = "real"
  /\ ~(session.kept /\ session.loaded = Wanted)
  /\ failures < MaxFailures /\ failures' = failures + 1
  /\ loaded' = Wanted /\ phase' = "idle"
  /\ UNCHANGED <<mode, up, model, at, session, disk, offered, starts>>

(* A call of any name is in the messages, and runs if the registry has it,     *)
(* loaded or not.                                                               *)
Call ==
  /\ phase \in {"asked", "works"} /\ phase' = "works"
  /\ \E n \in AllNames :
       session' = [session EXCEPT !.used = @ \cup {n}, !.known = @ \cup {n}, !.own = @ \cup {n}]
  /\ UNCHANGED <<mode, up, loaded, model, at, disk, offered, starts, failures>>

(* search_tools: under the lock what it found is loaded and the list is saved; *)
(* the model hears of it when the result is in the messages.                   *)
Found(S) ==
  [session EXCEPT !.kept = TRUE, !.loaded = loaded \cup S, !.lost = @ \ S, !.own = @ \cup S]

Finds(S) ==
  /\ phase \in {"asked", "works"} /\ phase' = "works"
  /\ Deferred
  /\ S \subseteq Available /\ Cardinality(S) <= Limit

Search ==
  /\ \E S \in SUBSET Available :
       /\ Finds(S)
       /\ loaded' = loaded \cup S
       /\ disk' = IF S \subseteq loaded THEN disk ELSE [disk EXCEPT ![at] = Found(S)]
       /\ session' = [Found(S) EXCEPT !.known = @ \cup S]
  /\ UNCHANGED <<mode, up, model, at, offered, starts, failures>>

(* The save fails: what was added is taken out again, and the call has failed. *)
SearchFails ==
  /\ \E S \in SUBSET Available : Finds(S) /\ ~(S \subseteq loaded)
  /\ failures < MaxFailures /\ failures' = failures + 1
  /\ UNCHANGED <<mode, up, loaded, model, at, session, disk, offered, starts>>

(* Compaction drops messages, of those that a request has carried, before the  *)
(* next one; what was loaded stays so.                                         *)
Compact ==
  /\ phase = "asked"
  /\ \E rest \in SUBSET session.used : session' = [session EXCEPT !.used = rest]
  /\ UNCHANGED <<mode, up, loaded, model, at, disk, offered, phase, starts, failures>>

EndTurn ==
  /\ phase \in {"asked", "works"} /\ phase' = "idle"
  /\ UNCHANGED <<mode, up, loaded, model, at, session, disk, offered, starts, failures>>

Next ==
  \/ Start \/ Change \/ Resume \/ Checkout \/ Configure \/ Save \/ Crash
  \/ Request \/ RequestFails \/ Call \/ Search \/ SearchFails \/ Compact \/ EndTurn

Spec == Init /\ [][Next]_vars

--------------------------------------------------------------------------------
(* Properties.                                                                 *)

(* Type invariant of the registry and of the sessions. *)
TypeOK ==
  /\ mode \in {"eager", "small", "lazy"} /\ up \subseteq Servers /\ loaded \subseteq AllNames
  /\ model \in {"mock", "real"} /\ at \in Sessions
  /\ IsRecord(session) /\ DOMAIN disk = Sessions /\ \A s \in Sessions : IsRecord(disk[s])
  /\ offered \subseteq AllNames /\ phase \in {"off", "idle", "asked", "works"}
  /\ starts \in 0..MaxStarts /\ failures \in 0..MaxFailures

(* What a search reported, or a call names, is in the next request and in all
   later ones, through compaction, crashes and failed saves, of whatever process
   resumes the session; only a registry without a tool makes it be forgotten,
   unless the messages still call it.  *)
KnownOffered ==
  phase = "asked" =>
    (session.known \ session.lost) \cup (session.used \cap Available) \subseteq offered

(* What was found in another session is not offered in this one. *)
NothingForeign == phase = "asked" => offered \subseteq session.own

(* A request offers what the session file says, so a process that resumes it
   there offers the same.  *)
SavedIsOffered == phase = "asked" => disk[at].kept /\ disk[at].loaded = offered

(* A name stands for one tool of one server. *)
OneTool ==
  \A i, j \in DOMAIN Served :
    {Served[i].server, Served[j].server} \subseteq up /\ NameOf(up, i) = NameOf(up, j) => i = j

CatalogSafe == TypeOK /\ KnownOffered /\ NothingForeign /\ SavedIsOffered /\ OneTool
================================================================================
