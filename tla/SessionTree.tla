------------------------------ MODULE SessionTree ------------------------------
(***************************************************************************)
(* Sessions, their trees of entries, and what is saved of them.            *)
(*                                                                         *)
(*   pepsicode/core/session_tree.py  record_messages, checkout_entry,      *)
(*                                   prepare_regeneration, copy_session    *)
(*   pepsicode/core/session.py       save_session, load_session            *)
(*                                                                         *)
(* A host (server, terminal or pipe) has one session open.  It keeps a     *)
(* list of messages of its own (shown); the session keeps another (held)   *)
(* and the tree of all entries ever recorded; the worker of a turn goes on *)
(* with a third (work), which it records from time to time.  An entry is a *)
(* number; parent and role belong to the entry, copies included.  The      *)
(* process may crash at any time and falls back to what is on disk.        *)
(***************************************************************************)
EXTENDS Naturals, Sequences, SequencesExt, FiniteSets

CONSTANTS
  Kinds,        \* roles of what a turn appends
  MaxEntries,   \* bound: messages ever made
  MaxSessions,  \* bound: sessions ever made
  MaxFailures   \* bound: saves that fail

KindsAssumption == Kinds \subseteq {"user", "assistant", "thinking", "tool"}
BoundsAssumption ==
  MaxEntries \in Nat \ {0} /\ MaxSessions \in Nat \ {0} /\ MaxFailures \in Nat

VARIABLES
  open,      \* the session of the host, 0 for none
  shown,     \* the messages of the host
  held,      \* session.messages
  work,      \* the messages of the turn that runs
  running,   \* a turn runs
  nodes,     \* the entries of each session's tree, in memory or loaded last
  leaf,      \* the entry it goes on from, 0 for the root
  parent,    \* of an entry, 0 for none
  role,
  made,      \* messages made so far
  sessions,  \* sessions made so far
  disk,      \* what is saved of each session
  failures

memory == <<open, shown, held, work, running>>
vars == <<memory, nodes, leaf, parent, role, made, sessions, disk, failures>>

Entries  == 1..MaxEntries
Sessions == 1..MaxSessions
Roles    == Kinds \cup {"user"}
None     == [saved |-> FALSE, nodes |-> {}, leaf |-> 0, held |-> <<>>]

Init ==
  /\ open = 0 /\ shown = <<>> /\ held = <<>> /\ work = <<>> /\ running = FALSE
  /\ nodes = [s \in Sessions |-> {}] /\ leaf = [s \in Sessions |-> 0]
  /\ parent = [e \in Entries |-> 0] /\ role = [e \in Entries |-> "user"]
  /\ made = 0 /\ sessions = 0
  /\ disk = [s \in Sessions |-> None] /\ failures = 0

Elements(ms) == {ms[i] : i \in DOMAIN ms}

(* branch_path.                                                                *)
Path(e, up) ==
  LET f[n \in 0..MaxEntries] ==
        IF n = 0 \/ up[n] >= n THEN IF n = 0 THEN <<>> ELSE <<n>>
        ELSE Append(f[up[n]], n)
  IN f[e]

(* record_messages: a message that is not in the tree hangs below the one      *)
(* before it in the list, the first of a list below the leaf.                  *)
Parents(s, ms) ==
  [e \in Entries |->
     IF e \in Elements(ms) \ nodes[s]
       THEN LET i == CHOOSE j \in DOMAIN ms : ms[j] = e
            IN IF i = 1 THEN leaf[s] ELSE ms[i - 1]
       ELSE parent[e]]

Leaf(s, ms) == IF ms = <<>> THEN leaf[s] ELSE Last(ms)

Record(s, ms) ==
  /\ parent' = Parents(s, ms)
  /\ nodes' = [nodes EXCEPT ![s] = @ \cup Elements(ms)]
  /\ leaf' = [leaf EXCEPT ![s] = Leaf(s, ms)]

(* Mutant: only the selected branch is saved.                                  *)
ContentBranch(s) ==
  [saved |-> TRUE, nodes |-> Elements(Path(leaf'[s], parent')), leaf |-> leaf'[s], held |-> held']

(* save_session: nothing is written of a session without content that was      *)
(* never saved; a save that fails leaves the file as it was.                   *)
Content(s) == [saved |-> TRUE, nodes |-> nodes'[s], leaf |-> leaf'[s], held |-> held']
Recoverable(s) == \E e \in nodes'[s] : role'[e] \in {"user", "assistant"}

Save(s) ==
  \/ /\ disk' = IF disk[s].saved \/ Recoverable(s)
                  THEN [disk EXCEPT ![s] = Content(s)] ELSE disk
     /\ UNCHANGED failures
  \/ /\ failures < MaxFailures /\ failures' = failures + 1 /\ UNCHANGED disk

--------------------------------------------------------------------------------
(* Sessions are made and resumed.                                              *)

Create ==
  /\ ~running /\ sessions < MaxSessions
  /\ sessions' = sessions + 1 /\ open' = sessions + 1
  /\ shown' = <<>> /\ held' = <<>>
  /\ UNCHANGED <<work, running, nodes, leaf, parent, role, made, disk, failures>>

Resume(s) ==
  /\ ~running /\ disk[s].saved
  /\ open' = s /\ held' = disk[s].held /\ shown' = disk[s].held
  /\ nodes' = [nodes EXCEPT ![s] = disk[s].nodes]
  /\ leaf' = [leaf EXCEPT ![s] = IF disk[s].held = <<>> THEN disk[s].leaf ELSE Last(disk[s].held)]
  /\ UNCHANGED <<work, running, parent, role, made, sessions, disk, failures>>

(* delete_session: an open session that is saved later is there again.         *)
Delete(s) ==
  /\ disk[s].saved /\ disk' = [disk EXCEPT ![s] = None]
  /\ UNCHANGED <<memory, nodes, leaf, parent, role, made, sessions, failures>>

Crash ==
  /\ open # 0 /\ open' = 0
  /\ shown' = <<>> /\ held' = <<>> /\ work' = <<>> /\ running' = FALSE
  /\ UNCHANGED <<nodes, leaf, parent, role, made, sessions, disk, failures>>

--------------------------------------------------------------------------------
(* A turn.                                                                     *)

(* The user's message is recorded before the turn begins.                      *)
Prompted(base) ==
  /\ made < MaxEntries /\ made' = made + 1
  /\ role' = [role EXCEPT ![made + 1] = "user"]
  /\ shown' = Append(base, made + 1) /\ held' = shown' /\ work' = shown'
  /\ running' = TRUE

Say ==
  /\ open # 0 /\ ~running
  /\ Prompted(shown) /\ Record(open, shown')
  /\ UNCHANGED <<open, sessions, disk, failures>>

(* The turn appends what the model says and what its tools return.             *)
Step ==
  /\ running /\ made < MaxEntries /\ made' = made + 1
  /\ \E r \in Kinds : role' = [role EXCEPT ![made + 1] = r]
  /\ work' = Append(work, made + 1)
  /\ UNCHANGED <<open, shown, held, running, nodes, leaf, parent, sessions, disk, failures>>

(* A compaction keeps the newest messages; its summary is not an entry.        *)
Compact ==
  /\ running /\ Len(work) > 1
  /\ work' = Tail(work)
  /\ UNCHANGED <<open, shown, held, running, nodes, leaf, parent, role, made, sessions,
                 disk, failures>>

Checkpoint ==
  /\ running /\ held # work /\ held' = work /\ Record(open, work)
  /\ UNCHANGED <<open, shown, work, running, role, made, sessions, disk, failures>>

(* The journal, the task and the queue save the session in between, with the   *)
(* messages it holds.                                                          *)
Autosave ==
  /\ open # 0 /\ Record(open, held) /\ UNCHANGED <<memory, role, made, sessions>>
  /\ Save(open)

(* session/tree, when the worker has just left and its result has not yet      *)
(* reached the loop, records the messages from before the turn.                *)
ViewTree ==
  /\ open # 0
  /\ held' = shown /\ Record(open, shown)
  /\ UNCHANGED <<open, shown, work, running, role, made, sessions, disk, failures>>

TurnEnds ==
  /\ running /\ running' = FALSE
  /\ shown' = work /\ held' = work /\ Record(open, work)
  /\ UNCHANGED <<open, work, role, made, sessions>>
  /\ Save(open)

(* An exception: the host keeps the messages the turn began with.              *)
TurnRaises ==
  /\ running /\ running' = FALSE
  /\ UNCHANGED <<open, shown, held, work, nodes, leaf, parent, role, made, sessions,
                 disk, failures>>

--------------------------------------------------------------------------------
(* Branches.  Each begins with a snapshot of what the host shows.              *)

Snapshot == Parents(open, shown)
Recorded == nodes[open] \cup Elements(shown)

(* checkout_entry: up to a selected answer, to before a selected message of    *)
(* the user; thinking belongs to a provider and is not replayed.               *)
Selected(e) ==
  LET path == Path(e, Snapshot) IN IF role[e] = "user" THEN Front(path) ELSE path

Replayed(path) == SelectSeq(path, LAMBDA e : role[e] # "thinking")

End(path) == IF path = <<>> THEN 0 ELSE Last(path)

Checkout(e) ==
  /\ open # 0 /\ ~running /\ e \in Recorded /\ role[e] \in {"user", "assistant"}
  /\ parent' = Snapshot
  /\ nodes' = [nodes EXCEPT ![open] = Recorded]
  /\ held' = Replayed(Selected(e)) /\ shown' = held'
  /\ leaf' = [leaf EXCEPT ![open] = IF shown' = <<>> THEN End(Selected(e)) ELSE Last(shown')]
  /\ UNCHANGED <<open, work, running, role, made, sessions>>
  /\ Save(open)

(* prepare_regeneration, then the prompt again as a new entry of a new branch. *)
Retry(e) ==
  /\ open # 0 /\ ~running /\ e \in Recorded /\ role[e] = "user"
  /\ Prompted(Replayed(Selected(e)))
  /\ nodes' = [nodes EXCEPT ![open] = Recorded \cup {made + 1}]
  /\ leaf' = [leaf EXCEPT ![open] = made + 1]
  /\ parent' = [Snapshot EXCEPT ![made + 1] =
                  IF Len(shown') = 1 THEN End(Selected(e)) ELSE shown'[Len(shown') - 1]]
  /\ UNCHANGED <<open, sessions, disk, failures>>

(* Mutant: a copy leaves the thinking out of its tree as well.                 *)
BranchReplayed(path) == Elements(Replayed(path))

(* copy_session: the new session gets the branch that is gone on with.         *)
Branch(path) == Elements(path)

Copy(path, ms) ==
  LET n == sessions + 1 IN
  /\ ~running /\ open # 0 /\ sessions < MaxSessions /\ sessions' = n /\ open' = n
  /\ parent' = Snapshot
  /\ nodes' = [nodes EXCEPT ![open] = Recorded, ![n] = Branch(path)]
  /\ leaf' = [leaf EXCEPT ![open] = Leaf(open, shown), ![n] = IF ms = <<>> THEN End(path) ELSE Last(ms)]
  /\ held' = ms /\ shown' = ms
  /\ UNCHANGED <<work, running, role, made>>
  /\ Save(n)

Fork(e) ==
  /\ open # 0 /\ e \in Recorded /\ role[e] = "user"
  /\ Copy(Selected(e), Replayed(Selected(e)))

Clone ==
  /\ open # 0
  /\ Copy(Path(Leaf(open, shown), Snapshot), shown)

--------------------------------------------------------------------------------
Next ==
  \/ Create \/ Say \/ Step \/ Compact \/ Checkpoint \/ Autosave \/ ViewTree
  \/ TurnEnds \/ TurnRaises \/ Crash \/ Clone
  \/ \E s \in Sessions : Resume(s) \/ Delete(s)
  \/ \E e \in 1..made : Checkout(e) \/ Retry(e) \/ Fork(e)

Spec == Init /\ [][Next]_vars

--------------------------------------------------------------------------------
Snapshots == [saved : BOOLEAN, nodes : SUBSET Entries, leaf : 0..MaxEntries, held : Seq(Entries)]

TypeOK ==
  /\ open \in 0..MaxSessions /\ running \in BOOLEAN
  /\ shown \in Seq(Entries) /\ held \in Seq(Entries) /\ work \in Seq(Entries)
  /\ nodes \in [Sessions -> SUBSET Entries] /\ leaf \in [Sessions -> 0..MaxEntries]
  /\ parent \in [Entries -> 0..MaxEntries] /\ role \in [Entries -> Roles]
  /\ made \in 0..MaxEntries /\ sessions \in 0..MaxSessions
  /\ disk \in [Sessions -> Snapshots] /\ failures \in 0..MaxFailures

Within(ms, path) ==
  /\ Elements(ms) \subseteq Elements(path)
  /\ \A i \in 1..Len(ms) - 1 : ms[i] < ms[i + 1]

Closed(tree, end) ==
  /\ \A e \in tree : parent[e] = 0 \/ parent[e] \in tree
  /\ end = 0 \/ end \in tree

(* What the model is given of a session lies on its selected branch, in        *)
(* order, whatever was compacted, checked out, retried or raised.              *)
OnBranch ==
  open # 0 => Within(held, Path(leaf[open], parent))

(* load_session takes a damaged tree for no session at all: every tree that    *)
(* is saved has its leaf and the parents of its entries.                       *)
Loadable ==
  \A s \in Sessions : disk[s].saved =>
    /\ Closed(disk[s].nodes, disk[s].leaf)
    /\ Within(disk[s].held, Path(disk[s].leaf, parent))

TreeSafe == TypeOK /\ OnBranch /\ Loadable

(* Nothing that was recorded is lost or moved by going on, going back, trying  *)
(* again or copying: neither in the file, until the session is deleted, nor in *)
(* memory, until it is read from the file again.                               *)
KeepsArchive ==
  /\ \A s \in Sessions :
       disk[s].saved /\ disk'[s].saved => disk[s].nodes \subseteq disk'[s].nodes
  /\ open # 0 /\ open' = open =>
       nodes[open] \subseteq nodes'[open] \/ nodes'[open] = disk[open].nodes
  /\ open # 0 => \A e \in nodes[open] : parent'[e] = parent[e]
ArchiveKept == [][KeepsArchive]_vars
===============================================================================
