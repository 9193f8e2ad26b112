--------------------------------- MODULE Memory ---------------------------------
(***************************************************************************)
(* What the agents remember across sessions, one scope of it.              *)
(*                                                                         *)
(*   pepsicode/context/memory.py         MemoryFile, MemoryManager         *)
(*   pepsicode/context/memory_store.py   FileMemoryStore,                  *)
(*                                       PostgresMemoryStore               *)
(*   pepsicode/tools/save_memory.py      save_memory, forget_memory        *)
(*                                                                         *)
(* Every session has a manager of its own, which reads the scope when it   *)
(* is made and never again; the managers share memory.json and MEMORY.md,  *)
(* or a table with the two files as its mirror.  A file is published as    *)
(* FileEdits has it, here in one step that compares and replaces; a        *)
(* version stands for the content it is the hash of.                       *)
(***************************************************************************)
EXTENDS Integers, FiniteSets, SequencesExt

CONSTANTS
  Managers,
  Texts,        \* what there is to remember
  Limit,        \* MemoryFile.max_entries
  Database,     \* whether the table is the primary store
  MaxWrites,    \* bound: writes of memory.json or of the table
  MaxClock,     \* bound: seconds
  MaxTroubles   \* bound: refusals, failures and changes by hand

VARIABLES
  json, md,     \* memory.json and MEMORY.md: None, Corrupt or what they hold
  rows,         \* the entries of the table
  known,        \* FileMemoryStore._versions of each manager
  memory,       \* the entries of each manager
  call,         \* the save of each manager
  held,         \* all entries each manager has had in its memory
  fresh,        \* the managers that loaded or wrote the primary store last
  doubtful,     \* managers with a transaction of which nothing is known
  clock, writes, troubles

vars == <<json, md, rows, known, memory, call, held, fresh, doubtful, clock, writes, troubles>>

MemoryAssumption ==
  /\ Limit \in Nat \ {0} /\ Database \in BOOLEAN
  /\ MaxWrites \in Nat /\ MaxClock \in Nat /\ MaxTroubles \in Nat

None == [stamp |-> 0, holds |-> <<>>]
Corrupt == [stamp |-> -1, holds |-> <<>>]
AnyVersion == [stamp |-> -2, holds |-> <<>>]
Closed == [at |-> "closed", before |-> <<>>]
Idle == [at |-> "idle", before |-> <<>>]

TextsOf(entries) == [i \in DOMAIN entries |-> entries[i].text]
Primary == IF Database THEN rows ELSE json.holds

Init ==
  /\ json = None /\ md = None /\ rows = <<>>
  /\ known = [m \in Managers |-> [json |-> AnyVersion, md |-> AnyVersion]]
  /\ memory = [m \in Managers |-> <<>>] /\ call = [m \in Managers |-> Closed]
  /\ held = [m \in Managers |-> {}] /\ fresh = {} /\ doubtful = {}
  /\ clock = 0 /\ writes = 0 /\ troubles = 0

--------------------------------------------------------------------------------
(* Loading.                                                                    *)

(* _parse_memory_md numbers what it finds.                                     *)
Parsed(file) == [i \in DOMAIN file.holds |-> [id |-> <<-1, i>>, text |-> file.holds[i]]]

(* FileMemoryStore.load_scope prefers memory.json, if it can be read.          *)
Loaded == IF json \in {None, Corrupt} THEN Parsed(md) ELSE json.holds

Opened(m, entries) ==
  /\ memory' = [memory EXCEPT ![m] = entries]
  /\ held' = [held EXCEPT ![m] = Range(entries)]
  /\ call' = [call EXCEPT ![m] = Idle]
  /\ doubtful' = doubtful \ {m}

(* MemoryManager: a mirror is not read, so its versions stay unknown.          *)
Open(m) ==
  /\ call[m].at = "closed"
  /\ Opened(m, IF Database THEN rows ELSE Loaded)
  /\ known' = [known EXCEPT ![m] = IF Database THEN [json |-> AnyVersion, md |-> AnyVersion]
                                   ELSE [json |-> json, md |-> md]]
  /\ fresh' = IF Database \/ json # Corrupt THEN fresh \union {m} ELSE fresh \ {m}
  /\ UNCHANGED <<json, md, rows, clock, writes, troubles>>

(* PostgresMemoryStore.load_scope answers nothing when it fails.               *)
OpenWithout(m) ==
  /\ Database /\ call[m].at = "closed" /\ troubles < MaxTroubles
  /\ Opened(m, <<>>)
  /\ known' = [known EXCEPT ![m] = [json |-> AnyVersion, md |-> AnyVersion]]
  /\ fresh' = fresh \ {m} /\ troubles' = troubles + 1
  /\ UNCHANGED <<json, md, rows, clock, writes>>

(* The session ends, wherever its save is.                                     *)
Close(m) ==
  /\ call[m].at # "closed"
  /\ call' = [call EXCEPT ![m] = Closed] /\ memory' = [memory EXCEPT ![m] = <<>>]
  /\ held' = [held EXCEPT ![m] = {}] /\ fresh' = fresh \ {m}
  /\ doubtful' = doubtful \ {m}
  /\ UNCHANGED <<json, md, rows, known, clock, writes, troubles>>

--------------------------------------------------------------------------------
(* Changing.                                                                   *)

(* _change keeps what it was, for a save that does nothing.                    *)
Start(m, entries) ==
  /\ call[m].at = "idle" /\ writes < MaxWrites
  /\ memory' = [memory EXCEPT ![m] = entries]
  /\ held' = [held EXCEPT ![m] = @ \union Range(entries)]
  /\ call' = [call EXCEPT ![m] = [at |-> IF Database THEN "table" ELSE "json",
                                  before |-> memory[m]]]
  /\ UNCHANGED <<json, md, rows, known, fresh, doubtful, clock, writes, troubles>>

(* _enforce_limits.                                                            *)
Limited(entries) ==
  SubSeq(entries, IF Len(entries) > Limit THEN Len(entries) - Limit + 1 ELSE 1, Len(entries))

(* add_entry: the same text again is saved as it is; the identifier is made of *)
(* the second and of the number of entries.                                    *)
Save(m, text) ==
  Start(m, IF text \in Range(TextsOf(memory[m])) THEN memory[m]
           ELSE Limited(Append(memory[m], [id |-> <<clock, Len(memory[m])>>, text |-> text])))

(* The first entry with the identifier is the one that is meant.               *)
First(m, id) == CHOOSE i \in DOMAIN memory[m] :
                  memory[m][i].id = id /\ \A j \in 1..(i - 1) : memory[m][j].id # id

IdsOf(m) == {memory[m][i].id : i \in DOMAIN memory[m]}

Update(m, id, text) == Start(m, [memory[m] EXCEPT ![First(m, id)].text = text])

Forget(m, id) == Start(m, RemoveAt(memory[m], First(m, id)))

Tick ==
  /\ clock < MaxClock /\ clock' = clock + 1
  /\ UNCHANGED <<json, md, rows, known, memory, call, held, fresh, doubtful, writes, troubles>>

--------------------------------------------------------------------------------
(* Saving.                                                                     *)

Expected(m, file, value) == known[m][file] \in {AnyVersion, value}

(* _change puts the entries back when nothing has been done.                   *)
Restored(m) ==
  /\ memory' = [memory EXCEPT ![m] = call[m].before]
  /\ call' = [call EXCEPT ![m] = Idle]

Moved(m, at) == call' = [call EXCEPT ![m].at = at]

(* save_scope, _write of memory.json: the stamp is that of the write.          *)
WriteJson(m) ==
  /\ call[m].at = "json" /\ Expected(m, "json", json)
  /\ writes' = writes + 1
  /\ json' = [stamp |-> writes + 1, holds |-> memory[m]]
  /\ known' = [known EXCEPT ![m].json = json']
  /\ fresh' = IF Database THEN fresh ELSE {m}
  /\ Moved(m, "md")
  /\ UNCHANGED <<md, rows, memory, held, doubtful, clock, troubles>>

(* The mirror of a table has been saved before: its entries stay.              *)
StaleJson(m) ==
  /\ call[m].at = "json" /\ ~Expected(m, "json", json)
  /\ IF Database THEN call' = [call EXCEPT ![m] = Idle] /\ UNCHANGED memory ELSE Restored(m)
  /\ UNCHANGED <<json, md, rows, known, held, fresh, doubtful, clock, writes, troubles>>

(* _write of MEMORY.md, with the minute it was made.                           *)
WriteMd(m) ==
  /\ call[m].at = "md" /\ Expected(m, "md", md)
  /\ md' = [stamp |-> clock + 1, holds |-> TextsOf(memory[m])]
  /\ known' = [known EXCEPT ![m].md = md']
  /\ call' = [call EXCEPT ![m] = Idle]
  /\ UNCHANGED <<json, rows, memory, held, fresh, doubtful, clock, writes, troubles>>

(* What memory.json has is not taken back.                                     *)
StaleMd(m) ==
  /\ call[m].at = "md" /\ ~Expected(m, "md", md)
  /\ call' = [call EXCEPT ![m] = Idle]
  /\ UNCHANGED <<json, md, rows, known, memory, held, fresh, doubtful, clock, writes, troubles>>

(* The write or the transaction is refused, or the turn is cancelled.          *)
Refuse(m) ==
  /\ call[m].at \in {"table", "json", "md"} /\ troubles < MaxTroubles
  /\ troubles' = troubles + 1
  /\ IF call[m].at = "table" \/ (call[m].at = "json" /\ ~Database) THEN Restored(m)
     ELSE call' = [call EXCEPT ![m] = Idle] /\ UNCHANGED memory
  /\ UNCHANGED <<json, md, rows, known, held, fresh, doubtful, clock, writes>>

(* PostgresMemoryStore.save_scope replaces the rows in one transaction; two    *)
(* entries with one identifier break its key.                                  *)
Distinct(entries) == Cardinality({entries[i].id : i \in DOMAIN entries}) = Len(entries)

Commit(m) ==
  /\ call[m].at = "table" /\ Distinct(memory[m])
  /\ rows' = memory[m] /\ fresh' = {m} /\ doubtful' = doubtful \ {m}
  /\ writes' = writes + 1
  /\ Moved(m, "json")
  /\ UNCHANGED <<json, md, known, memory, held, clock, troubles>>

(* Its effect is unknown from then on, so the entries are not put back.        *)
FailTransaction(m) ==
  /\ call[m].at = "table" /\ (Distinct(memory[m]) => troubles < MaxTroubles)
  /\ \/ UNCHANGED <<rows, fresh>>
     \/ Distinct(memory[m]) /\ rows' = memory[m] /\ fresh' = {m}
  /\ doubtful' = doubtful \union {m}
  /\ troubles' = IF Distinct(memory[m]) THEN troubles + 1 ELSE troubles
  /\ writes' = writes + 1
  /\ call' = [call EXCEPT ![m] = Idle]
  /\ UNCHANGED <<json, md, known, memory, held, clock>>

--------------------------------------------------------------------------------
(* Changes by hand, or by a version control that brings another's files.       *)
ByHand ==
  /\ troubles < MaxTroubles /\ troubles' = troubles + 1
  /\ \/ json # None /\ json' \in {None, Corrupt} /\ md' = md
     \/ \E text \in Texts : md' = [stamp |-> 0, holds |-> <<text>>] /\ json' = json
  /\ md' # md \/ json' # json
  /\ fresh' = IF json' # json /\ ~Database THEN {} ELSE fresh
  /\ UNCHANGED <<rows, known, memory, call, held, doubtful, clock, writes>>

Next ==
  \/ Tick \/ ByHand
  \/ \E m \in Managers :
       \/ Open(m) \/ OpenWithout(m) \/ Close(m)
       \/ \E text \in Texts : Save(m, text)
       \/ \E id \in IdsOf(m) : Forget(m, id) \/ \E text \in Texts : Update(m, id, text)
       \/ WriteJson(m) \/ StaleJson(m) \/ WriteMd(m) \/ StaleMd(m)
       \/ Refuse(m) \/ Commit(m) \/ FailTransaction(m)

Spec == Init /\ [][Next]_vars

--------------------------------------------------------------------------------
(* A manager at rest that nobody has written behind has what is stored, unless *)
(* a transaction left it in doubt: neither a save that was refused or came too *)
(* late nor one that failed after memory.json leaves the prompt with other     *)
(* entries than the next session reads (save_memory.py _change, memory.py      *)
(* _save_scope).                                                               *)
RemembersStored ==
  \A m \in fresh \ doubtful : call[m].at = "idle" /\ json # None => memory[m] = Primary

(* MemoryFile._enforce_limits: no store gets more than the limit.              *)
StoresBounded == Len(json.holds) <= Limit /\ Len(rows) <= Limit /\ Len(md.holds) <= Limit

MemorySafe == RemembersStored /\ StoresBounded

(* An entry leaves memory.json only with a write of a manager that had it: a   *)
(* session that read the scope earlier cannot drop what another one saved      *)
(* since (memory_store.py _write, with the version it expects).                *)
ForgetsKnown ==
  /\ writes' # writes /\ ~Database
  => \E m \in Managers : call[m].at = "json" /\ Range(json.holds) \ Range(json'.holds) \subseteq held[m]
================================================================================
