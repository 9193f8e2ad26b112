------------------------------ MODULE MCToolRecovery ------------------------------
(* What is left behind and found again, for TLC: one file write, one process, one  *)
(* background process and a reconciliation; what tools leave with others: an MCP   *)
(* server, a language server, worktrees; and the tree of a session's messages.     *)
(* The components do not run together here, so all but the recovery of calls      *)
(* share the variables of a state.                                                *)
EXTENDS ToolRecovery, TLC

CONSTANTS write, p, b, r1, f1, f2, c, d

MCCalls == {write, p, b, r1}
MCFile == {write}
MCBackground == {b}
MCStatus == {r1}

(* Two names of a worktree with one slug.                                        *)
SlugOf == [agent |-> "agent", nested |-> "auth", auth |-> "auth"]

(* Those who remove worktrees are alike.                                         *)
Alike == Permutations({c, d})

VARIABLES part,  \* the component this behaviour is about
          v1, v2, v3, v4, v5, v6, v7, v8, v9, v10, v11, v12, v13, v14, v15, v16  \* the variables of every one but ToolRecovery

slots == <<v1, v2, v3, v4, v5, v6, v7, v8, v9, v10, v11, v12, v13, v14, v15, v16>>
all == <<part, slots, vars>>

(* The components with fewer variables leave the others alone. *)
Unused(k) ==
  /\ k = 0 =>
       /\ v1 = 0 /\ v2 = 0 /\ v3 = 0 /\ v4 = 0 /\ v5 = 0 /\ v6 = 0 /\ v7 = 0 /\ v8 = 0
       /\ v9 = 0 /\ v10 = 0
  /\ k < 11 => v11 = 0
  /\ k < 12 => v12 = 0
  /\ k < 13 => v13 = 0
  /\ k < 14 => v14 = 0
  /\ k < 15 => v15 = 0
  /\ k < 16 => v16 = 0
Rests(k) ==
  /\ UNCHANGED part
  /\ k = 0 => UNCHANGED <<v1, v2, v3, v4, v5, v6, v7, v8, v9, v10>>
  /\ k < 11 => v11' = v11
  /\ k < 12 => v12' = v12
  /\ k < 13 => v13' = v13
  /\ k < 14 => v14' = v14
  /\ k < 15 => v15' = v15
  /\ k < 16 => v16' = v16

Mcp == INSTANCE McpClient WITH
  transport <- v1, connected <- v2, process <- v3, alive <- v4, spawned <- v5, stdin
  <- v6, stdout <- v7, thread <- v8, readers <- v9, pending <- v10, answer <- v11,
  nextId <- v12, call <- v13, closer <- v14, outcomes <- v15, executed <- v16,
  MaxCalls <- 2, MaxProcesses <- 2

Lsp == INSTANCE LspClient WITH
  disk <- v1, running <- v2, starts <- v3, edits <- v4, queries <- v5, documents <-
  v6, diagnostics <- v7, view <- v8, stdin <- v9, stdout <- v10, query <- v11, plan
  <- v12, result <- v13, Files <- {f1, f2}, MaxEdits <- 2, MaxQueries <- 2,
  MaxStarts <- 2

Trees == INSTANCE Worktrees WITH
  there <- v1, branch <- v2, dirty <- v3, old <- v4, remote <- v5, pushed <- v6,
  session <- v7, callers <- v8, work <- v9, troubles <- v10, Callers <- {c, d},
  Names <- {"agent", "nested", "auth"}, Slug <- SlugOf, Ephemeral <- {"agent"},
  MaxWork <- 2, MaxTroubles <- 1

Tree == INSTANCE SessionTree WITH
  open <- v1, shown <- v2, held <- v3, work <- v4, running <- v5, nodes <- v6, leaf
  <- v7, parent <- v8, role <- v9, made <- v10, sessions <- v11, disk <- v12,
  failures <- v13, Kinds <- {"assistant", "thinking"}, MaxEntries <- 3, MaxSessions
  <- 2, MaxFailures <- 1

(* What each component assumes of its constants.                                  *)
ASSUME AllAssumptions ==
  /\ Trees!NamesAssumption
  /\ Tree!KindsAssumption
  /\ Tree!BoundsAssumption

AnyInit ==
  /\ Init
  /\ \/ part = "recovery" /\ Unused(0)
     \/ part = "mcp" /\ Mcp!Init /\ Unused(16)
     \/ part = "lsp" /\ Lsp!Init /\ Unused(13)
     \/ part = "trees" /\ Trees!Init /\ Unused(10)
     \/ part = "tree" /\ Tree!Init /\ Unused(13)

AnyNext ==
  \/ part = "recovery" /\ Next /\ Rests(0)
  \/ part = "mcp" /\ Mcp!Next /\ Rests(16) /\ UNCHANGED vars
  \/ part = "lsp" /\ Lsp!Next /\ Rests(13) /\ UNCHANGED vars
  \/ part = "trees" /\ Trees!Next /\ Rests(10) /\ UNCHANGED vars
  \/ part = "tree" /\ Tree!Next /\ Rests(13) /\ UNCHANGED vars

AnySpec == AnyInit /\ [][AnyNext]_all

(* Answers belong to their requests, no call runs twice, nothing that may have run
   is forgotten (mcp.py); diagnostics and renames are of the text (lsp.py); no worktree
   is removed with work that was there when its removal began (worktree/). *)
ToolsSafe ==
  /\ part = "mcp" => Mcp!McpSafe
  /\ part = "lsp" => Lsp!LspSafe
  /\ part = "trees" => Trees!WorktreesSafe

(* What the model is given lies on the selected branch, and what is saved can be
   loaded (core/session_tree.py, core/session.py). *)
TreeSafe == part = "tree" => Tree!TreeSafe

(* Nothing recorded is lost or moved (core/session_tree.py). *)
ArchiveKept == [][part = "tree" => Tree!KeepsArchive]_all
============================================================================
