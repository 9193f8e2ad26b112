----------------------------- MODULE PipeSession -----------------------------
(***************************************************************************)
(* The process of the command line, from its start to its end.             *)
(*                                                                         *)
(*   pepsicode/main.py                       main                          *)
(*   pepsicode/cli/cli_commands.py           try_handle_local_command      *)
(*   pepsicode/cli/model_commands.py         handle_model_command          *)
(*   pepsicode/cli/local_tool_shortcuts.py   parse_local_tool_shortcut     *)
(*   pepsicode/permissions.py                ensure_local_command_allowed  *)
(*                                                                         *)
(* At a terminal the process hands over to the interface (Terminal); from  *)
(* a pipe it reads one line after the other: a command on the tree of the  *)
(* session, /plan, a command of its own, a shortcut for a tool, or a       *)
(* prompt.  A line is its first words and whether it has arguments.  A     *)
(* prompt and its answer are one number; a branch is a sequence of them,   *)
(* and a tree the set of its branches (SessionTree has the entries).       *)
(* Whatever raises or interrupts ends the process by way of its closing.   *)
(***************************************************************************)
EXTENDS Naturals, Sequences, SequencesExt, FiniteSets

CONSTANTS
  Lines,        \* what comes through the pipe
  Modes,        \* what /permissions may choose
  Models,       \* what /model may choose
  Deferred,     \* tools that the model may load
  MaxPrompts,   \* bound: prompts ever given
  MaxSessions   \* bound: sessions ever made

Branching == {"/tree", "/fork", "/clone", "/retry"}
Shows     == {"/help", "/tools", "/config", "/mcp", "/memory", "/context", "/status", "/skills"}
Settings  == {"/model", "/effort", "/provider"}
Worktree  == {"/worktree create", "/worktree enter", "/worktree exit", "/worktree cleanup"}
Writes    == Worktree \cup {"/hooks trust", "/transcript-save"}
Looks     == {"/ls", "/grep", "/read"}
Does      == {"/write", "/modify", "/edit", "/patch", "/cmd", "/skills install"}
Prompts   == {"say", "/custom", "/resume"}
Words     == Branching \cup Shows \cup Settings \cup Writes \cup Looks \cup Does \cup Prompts
               \cup {"/plan", "/permissions"}

LinesAssumption == Lines \subseteq Words \X {"", "one", "many"}
ModesAssumption == Modes \subseteq {"read_only", "auto", "trust_commands", "full_access"}
BoundsAssumption == MaxPrompts \in Nat /\ MaxSessions \in Nat \ {0}

VARIABLES
  at,        \* where the process is
  tty,       \* it is at a terminal
  runtime,   \* a model is configured
  plan,      \* plan mode
  access,    \* the mode without it
  session,   \* the session that is open, and its number
  opened,    \* sessions made
  disk,      \* what is saved of each session
  shown,     \* the branch in the messages of main
  context,   \* the branch of the context manager
  loaded,    \* tools loaded
  model,     \* the model that is asked
  thought,   \* the models whose thinking is in the messages
  line,      \* the line that is handled
  again,     \* the line of the prompt that /retry found, if it did
  said,      \* the lines the prompts came from
  ran,       \* what the line changed that is not of the session, and the modes then
  parts,     \* what is open and has to be closed
  failed     \* what could not be closed

modes == <<plan, access>>
talk  == <<session, opened, disk, shown, context, loaded, model, thought, said>>
mind  == <<model, thought>>
vars  == <<at, tty, runtime, modes, talk, line, again, ran, parts, failed>>

Branches == {<<>>} \cup UNION {[1..n -> 1..MaxPrompts] : n \in 1..MaxPrompts}
Empty    == [n |-> 1, tree |-> {}, path |-> <<>>, loaded |-> {}]
NoRun    == [what |-> "", plan |-> FALSE, access |-> "auto"]
Grown(s, path) == [s EXCEPT !.tree = @ \cup {SubSeq(path, 1, i) : i \in 1..Len(path)}, !.path = path]

(* save_session: a session nothing was said in is not written.                 *)
Saved(s) == IF s.tree = {} /\ s.n \notin DOMAIN disk THEN disk
            ELSE [n \in DOMAIN disk \cup {s.n} |-> IF n = s.n THEN s ELSE disk[n]]

Init ==
  /\ at = "starting" /\ tty \in BOOLEAN /\ runtime = FALSE /\ plan = FALSE /\ access = "auto"
  /\ session = Empty /\ opened = 1 /\ disk = [n \in {} |-> Empty]
  /\ shown = <<>> /\ context = <<>> /\ loaded = {} /\ said = <<>>
  /\ model \in Models /\ thought = {}
  /\ line = <<>> /\ again = <<>> /\ ran = NoRun
  /\ parts = {} /\ failed = {}

--------------------------------------------------------------------------------
(* The start.  What raises here ends the process without its closing.          *)

Starting == {"starting", "configured", "tooled", "hooked"}
Abandon ==
  /\ at \in Starting /\ at' = "gone"
  /\ UNCHANGED <<tty, runtime, modes, talk, line, again, ran, parts, failed>>

(* Without a configuration the process goes on with a model that only answers  *)
(* by rote, and has no context manager.                                        *)
Configure ==
  /\ at = "starting" /\ at' = "configured" /\ runtime' \in BOOLEAN
  /\ UNCHANGED <<tty, modes, talk, line, again, ran, parts, failed>>

(* The mode is the workspace's; at a terminal the session's that is resumed,   *)
(* and plan mode otherwise (_prepare_tty_startup_permissions).                 *)
StartMode == access' \in Modes /\ plan' \in {FALSE, tty}

OpenTools ==
  /\ at = "configured" /\ at' = "tooled" /\ StartMode
  /\ parts' = {"tools", "permissions"}
  /\ UNCHANGED <<tty, runtime, talk, line, again, ran, failed>>

(* The engine of the hooks is told of the start in the mode just chosen.       *)
OpenHooks ==
  /\ at = "tooled" /\ at' = "hooked" /\ parts' = parts \cup {"hooks"}
  /\ UNCHANGED <<tty, runtime, modes, talk, line, again, ran, failed>>

(* The context manager, the memory, the saved worktree and the system prompt.  *)
Enter ==
  /\ at = "hooked" /\ at' = IF tty THEN "app" ELSE "reading"
  /\ UNCHANGED <<tty, runtime, modes, talk, line, again, ran, parts, failed>>

--------------------------------------------------------------------------------
(* Reading, and the commands on the tree.                                      *)

Handled == at' = "reading" /\ line' = <<>> /\ again' = <<>>
Keeps == UNCHANGED <<tty, runtime, parts, failed>>

Read(l) ==
  /\ at = "reading" /\ line' = l /\ again' = <<>>
  /\ at' = IF l[1] \in Branching THEN "branching" ELSE "entering"
  /\ ran' = NoRun /\ UNCHANGED <<modes, talk>> /\ Keeps

(* What was said is recorded and saved before any of these commands.           *)
Snapshot ==
  /\ at = "branching" /\ at' = "selecting"
  /\ session' = Grown(session, shown) /\ disk' = Saved(session')
  /\ UNCHANGED <<modes, opened, shown, context, loaded, mind, line, again, said, ran>> /\ Keeps

(* A wrong use, a listing, an entry that is not there: nothing changes.        *)
Unselected ==
  /\ at = "selecting" /\ Handled
  /\ line # <<"/clone", "">> /\ (line = <<"/retry", "">> => session.path = <<>>)
  /\ UNCHANGED <<modes, talk, ran>> /\ Keeps

(* The messages, the tools and the context become those of what was chosen.    *)
Select(s) ==
  /\ session' = s /\ disk' = Saved(s)
  /\ shown' = s.path /\ loaded' = s.loaded
  /\ context' = IF runtime THEN s.path ELSE context
  /\ UNCHANGED <<modes, model, said, ran>> /\ Keeps

(* Up to an answer, or to before a prompt; thinking stays behind.              *)
Ends == session.tree \cup {Front(p) : p \in session.tree}
Checkout ==
  /\ at = "selecting" /\ line = <<"/tree", "one">> /\ Handled
  /\ \E p \in Ends : Select([session EXCEPT !.path = p])
  /\ thought' = {} /\ UNCHANGED opened

Copy(path) ==
  /\ opened < MaxSessions /\ opened' = opened + 1 /\ Handled
  /\ Select(Grown([Empty EXCEPT !.n = opened + 1, !.loaded = session.loaded], path))

Fork  == at = "selecting" /\ line = <<"/fork", "one">> /\ thought' = {} /\ \E p \in session.tree : Copy(Front(p))
Clone == at = "selecting" /\ line = <<"/clone", "">> /\ UNCHANGED thought /\ Copy(session.path)

(* The last prompt is taken off the branch and goes on as a line of its own.   *)
Retry ==
  /\ at = "selecting" /\ line = <<"/retry", "">> /\ session.path # <<>>
  /\ at' = "entering" /\ line' = said[Last(session.path)] /\ again' = line'
  /\ Select([session EXCEPT !.path = Front(@)]) /\ thought' = {} /\ UNCHANGED opened

--------------------------------------------------------------------------------
(* Every other line.                                                           *)

EnterPlan(task) ==
  /\ at = "entering" /\ line[1] = "/plan" /\ plan' = TRUE
  /\ IF line[2] = "" THEN Handled
     ELSE at' = "checking" /\ line' = task /\ again' = again
  /\ UNCHANGED <<access, talk, ran>> /\ Keeps

Plain ==
  /\ at = "entering" /\ line[1] # "/plan" /\ at' = "checking"
  /\ UNCHANGED <<modes, talk, line, again, ran>> /\ Keeps

(* ensure_local_command_allowed.                                               *)
Allowed(l) ==
  /\ plan => /\ l[1] \notin Writes \cup {"/skills install", "/resume"}
             /\ l[1] \in Settings => l[2] = ""
  /\ ~plan /\ access = "read_only" =>
       l[1] \notin (Worktree \ {"/worktree enter"}) \cup {"/hooks trust", "/skills install"}

Refused ==
  /\ at = "checking" /\ ~Allowed(line) /\ Handled
  /\ UNCHANGED <<modes, talk, ran>> /\ Keeps

Ran == [what |-> line[1], plan |-> plan, access |-> access]

(* try_handle_local_command: no command of these touches the conversation.     *)
(* /permissions default is for sessions to come.                               *)
Local ==
  /\ at = "checking" /\ Allowed(line) /\ Handled
  /\ \/ line = <<"/permissions", "one">> /\ access' \in Modes /\ UNCHANGED ran
     \/ line[1] \in Writes /\ ran' \in {ran, Ran} /\ UNCHANGED access
     \/ line[1] \in Shows \cup Settings \cup {"/permissions"} /\ UNCHANGED <<access, ran>>
  /\ UNCHANGED <<plan, talk>> /\ Keeps

(* handle_model_command: unless nothing is configured, the choice is no good or *)
(* it cannot be saved.  Thinking is taken out of the messages, for another      *)
(* model or provider cannot check its signature (apply_model_settings).         *)
SetModel ==
  /\ at = "checking" /\ Allowed(line) /\ Handled /\ runtime /\ ran' = Ran
  /\ line[1] \in Settings /\ line[2] # ""
  /\ \/ line[1] = "/effort" /\ UNCHANGED mind
     \/ line[1] = "/model" /\ model' \in Models
        /\ thought' = IF model' # model THEN {} ELSE thought
     \/ line[1] = "/provider" /\ model' \in Models /\ thought' = {}
  /\ UNCHANGED <<modes, session, opened, disk, shown, context, loaded, said>> /\ Keeps

(* The registry refuses a tool that changes something in either mode, and the  *)
(* approval nobody is there to give may refuse it too.                         *)
Shortcut ==
  /\ at = "checking" /\ Allowed(line) /\ Handled /\ line[2] = "one"
  /\ \/ line[1] \in Looks /\ UNCHANGED ran
     \/ line[1] \in Does /\ ran' \in {ran, Ran} /\ (plan \/ access = "read_only" => ran' = ran)
  /\ UNCHANGED <<modes, talk>> /\ Keeps

(* A command of the project may not expand; one of a prompt tried again is not *)
(* expanded a second time.                                                     *)
Unexpanded ==
  /\ at = "checking" /\ Allowed(line) /\ line[1] = "/custom" /\ again = <<>> /\ Handled
  /\ UNCHANGED <<modes, talk, ran>> /\ Keeps

(* What is no command here, or an incomplete shortcut, is said to the model;   *)
(* a prompt tried again is said as it was.                                     *)
Prompt ==
  /\ at = "checking" /\ Allowed(line) /\ at' = "turn" /\ Len(said) < MaxPrompts
  /\ \/ line[1] \in Prompts \cup Branching \cup {"/plan"}
     \/ line[1] \in Looks \cup Does /\ line[2] # "one"
  /\ said' = Append(said, IF again = <<>> THEN line ELSE again) /\ shown' = Append(shown, Len(said) + 1)
  /\ UNCHANGED <<modes, session, opened, disk, context, loaded, mind, line, again, ran>> /\ Keeps

--------------------------------------------------------------------------------
(* A turn, which saves its session as it goes (recording_session).             *)

Checkpoint ==
  /\ at = "turn" /\ session' = Grown(session, shown) /\ disk' = Saved(session')
  /\ UNCHANGED <<at, modes, opened, shown, context, loaded, mind, line, again, said, ran>> /\ Keeps

LoadTool(t) ==
  /\ at = "turn" /\ t \notin loaded /\ loaded' = loaded \cup {t}
  /\ session' = [session EXCEPT !.loaded = loaded'] /\ disk' = Saved(session')
  /\ UNCHANGED <<at, modes, opened, shown, context, mind, line, again, said, ran>> /\ Keeps

TurnEnds ==
  /\ at = "turn" /\ Handled
  /\ session' = Grown(session, shown) /\ disk' = Saved(session')
  /\ context' = IF runtime THEN shown ELSE context
  /\ thought' \in {thought, thought \cup {model}}
  /\ UNCHANGED <<modes, opened, shown, loaded, model, said, ran>> /\ Keeps

--------------------------------------------------------------------------------
(* The end: the pipe is empty, /exit, the interface is left, an exception or   *)
(* an interrupt.  What the process had in memory is of no use any more.         *)

Leave ==
  /\ at \in {"reading", "branching", "selecting", "entering", "checking", "turn", "app"}
  /\ at' = "stopping" /\ session' = Empty /\ opened' = 1
  /\ shown' = <<>> /\ context' = <<>> /\ loaded' = {} /\ said' = <<>> /\ thought' = {}
  /\ line' = <<>> /\ again' = <<>> /\ ran' = NoRun
  /\ UNCHANGED <<tty, runtime, modes, model, disk, parts, failed>>

(* What one part raises is logged, and the next is closed.                     *)
Closed(p) == \/ parts' = parts \ {p} /\ UNCHANGED failed
             \/ failed' = failed \cup {p} /\ UNCHANGED parts
CloseHooks ==
  /\ at = "stopping" /\ at' = "disposing" /\ Closed("hooks")
  /\ UNCHANGED <<tty, runtime, modes, talk, line, again, ran>>
DisposeTools ==
  /\ at = "disposing" /\ at' = "closing" /\ Closed("tools")
  /\ UNCHANGED <<tty, runtime, modes, talk, line, again, ran>>
ClosePermissions ==
  /\ at = "closing" /\ at' = "ended" /\ Closed("permissions")
  /\ UNCHANGED <<tty, runtime, modes, talk, line, again, ran>>

Next ==
  \/ Abandon \/ Configure \/ OpenTools \/ OpenHooks \/ Enter
  \/ \E l \in Lines : Read(l) \/ EnterPlan(l)
  \/ Snapshot \/ Unselected \/ Checkout \/ Fork \/ Clone \/ Retry
  \/ Plain \/ Refused \/ Local \/ SetModel \/ Shortcut \/ Unexpanded \/ Prompt
  \/ Checkpoint \/ TurnEnds \/ \E t \in Deferred : LoadTool(t)
  \/ Leave \/ CloseHooks \/ DisposeTools \/ ClosePermissions

Spec == Init /\ [][Next]_vars

--------------------------------------------------------------------------------
Session == [n : 1..MaxSessions, tree : SUBSET Branches, path : Branches, loaded : SUBSET Deferred]

TypeOK ==
  /\ runtime \in BOOLEAN /\ plan \in BOOLEAN /\ access \in Modes \cup {"auto"}
  /\ opened \in 1..MaxSessions /\ session.n = opened
  /\ DOMAIN disk \subseteq 1..MaxSessions /\ shown \in Branches /\ context \in Branches
  /\ loaded \subseteq Deferred /\ model \in Models /\ again \in Lines \cup {<<>>} /\ Len(said) <= MaxPrompts
  /\ failed \cup parts \subseteq {"hooks", "tools", "permissions"}

(* Whenever a line is read, the messages, the context and the loaded tools are *)
(* those of the selected branch, whatever was retried, refused or copied.      *)
OneBranch ==
  at = "reading" =>
    /\ shown = session.path /\ loaded = session.loaded
    /\ runtime => context = session.path

(* And all that was said in the session is in its file: the next command may   *)
(* leave it for another.                                                       *)
SaidIsSaved ==
  at = "reading" /\ session.tree # {} =>
    session.n \in DOMAIN disk /\ disk[session.n] = session

(* No command or tool changes anything in plan mode, nor anything but settings *)
(* and the current worktree in read-only mode: not as the task of /plan, and   *)
(* not as a prompt that is tried again in another mode.                        *)
ModeHolds ==
  /\ ~ran.plan
  /\ ran.access = "read_only" => ran.what \in Settings \cup {"/worktree enter", "/transcript-save"}

(* A model is given no thinking of another one, whatever was chosen, retried or *)
(* copied in between.                                                           *)
OwnThinking == at = "turn" => thought \subseteq {model}

(* A process that came as far as its loop leaves nothing open that could be    *)
(* closed.                                                                     *)
EndsClosed == at = "ended" => parts \subseteq failed

PipeSafe == TypeOK /\ OneBranch /\ SaidIsSaved /\ ModeHolds /\ OwnThinking /\ EndsClosed
===============================================================================
