------------------------------- MODULE Worktrees -------------------------------
(***************************************************************************)
(* Git worktrees made, entered, left and cleaned up.                       *)
(*                                                                         *)
(*   pepsicode/worktree/manager.py   WorktreeManager                       *)
(*   pepsicode/worktree/cleanup.py   cleanup_stale_worktrees               *)
(*   pepsicode/worktree/changes.py   what counts as work                   *)
(*   pepsicode/tools/worktree.py     the tool, and the slash commands      *)
(*                                                                         *)
(* Every call makes a manager of its own, which takes the session file and *)
(* the directories for the truth.  A removal asks git one question after   *)
(* the other and then removes by force; someone who works in the tree, and *)
(* other calls of any process, come in between.  What somebody makes in a  *)
(* worktree is a number; it is first not committed, then on the branch.    *)
(***************************************************************************)
EXTENDS Naturals, FiniteSets

CONSTANTS
  Callers,      \* tool calls and commands, of any process
  Names,        \* names of worktrees
  Slug,         \* the directory of a name
  Ephemeral,    \* directories a cleanup may remove
  MaxWork,      \* bound: pieces of work
  MaxTroubles   \* bound: git commands that fail

Slugs == {Slug[n] : n \in Names}

NamesAssumption == Names = DOMAIN Slug /\ Ephemeral \subseteq Slugs

VARIABLES
  there,     \* worktrees on disk
  branch,    \* what is committed on the branch of a worktree, {0} when there is none
  dirty,     \* what is not committed in it
  old,       \* ephemeral directories not touched for long
  remote,    \* a remote is configured
  pushed,    \* what it has
  session,   \* the name in the session file, "none" for none
  callers,   \* what each caller is about to remove, and why
  work, troubles

vars == <<there, branch, dirty, old, remote, pushed, session, callers, work, troubles>>
tree == <<branch, dirty, old, remote, pushed, work>>

NoBranch == {0}
Idle == [at |-> "idle", why |-> "", slug |-> "", base |-> {}, saw |-> {}, sure |-> TRUE]

Init ==
  /\ there = {} /\ branch = [s \in Slugs |-> NoBranch] /\ dirty = [s \in Slugs |-> {}]
  /\ old = {} /\ remote \in BOOLEAN /\ pushed = {} /\ session = "none"
  /\ callers = [c \in Callers |-> Idle] /\ work = 0 /\ troubles = 0

--------------------------------------------------------------------------------
(* restore_session, at the start of every call: a session whose worktree is    *)
(* gone is forgotten.                                                          *)
Restored == IF session # "none" /\ Slug[session] \in there THEN session ELSE "none"

(* list_worktrees: the session's worktree has its name, any other the name of  *)
(* its directory.                                                              *)
Known == {n \in Names : Slug[n] \in there /\ (n = Restored \/ n = Slug[n])}

(* create: a worktree that is there is taken over, whatever its base; a branch *)
(* of the name is reset.                                                       *)
Create(c, n) ==
  LET s == Slug[n]
  IN /\ callers[c].at = "idle" /\ n \notin Known
     /\ session' = Restored
     /\ IF s \in there THEN UNCHANGED <<there, branch, old>>
        ELSE /\ there' = there \cup {s} /\ branch' = [branch EXCEPT ![s] = {}]
             /\ old' = old \ {s}
     /\ UNCHANGED <<dirty, remote, pushed, callers, work, troubles>>

Enter(c, n) ==
  /\ callers[c].at = "idle" /\ n \in Known /\ session' = n
  /\ UNCHANGED <<there, tree, callers, troubles>>

(* list, status, and every call that is refused.                               *)
Look(c) ==
  /\ callers[c].at = "idle" /\ session # Restored /\ session' = Restored
  /\ UNCHANGED <<there, tree, callers, troubles>>

ExitKeep(c, n) ==
  /\ callers[c].at = "idle" /\ n \in Known /\ session' = "none"
  /\ UNCHANGED <<there, tree, callers, troubles>>

--------------------------------------------------------------------------------
(* Removals.  The head read at the start of a call is what commits are         *)
(* counted from; saw, what was there to be seen then, is history.              *)
Call(why, s, next, seen) ==
  [at |-> next, why |-> why, slug |-> s, base |-> branch[s], saw |-> seen, sure |-> why # "force"]

(* exit with remove; by force it asks nothing, and the session ends first.     *)
ExitRemove(c, n, force) ==
  /\ callers[c].at = "idle" /\ n \in Known
  /\ IF force
       THEN session' = "none" /\ callers' = [callers EXCEPT ![c] = Call("force", Slug[n], "removing", {})]
       ELSE /\ session' = Restored
            /\ callers' = [callers EXCEPT ![c] = Call("exit", Slug[n], "status", dirty[Slug[n]])]
  /\ UNCHANGED <<there, tree, troubles>>

Aged(s) == s \in old

(* cleanup_stale_worktrees, up to the questions for git: an ephemeral directory *)
(* not touched for long that is not the session's.  With a remote its commits  *)
(* are to be kept too.                                                         *)
Cleanup(c, s) ==
  /\ callers[c].at = "idle" /\ s \in there \cap Ephemeral /\ Aged(s) /\ Restored # s
  /\ session' = Restored
  /\ callers' = [callers EXCEPT ![c] =
       Call("cleanup", s, "status", dirty[s] \cup IF remote THEN branch[s] ELSE {})]
  /\ UNCHANGED <<there, tree, troubles>>

(* An answer that lets the removal go on; the session of an exit ends when no  *)
(* question is left.  A command that fails is an answer too, and not a sure one.*)
Passes(c, next, sure) ==
  /\ callers' = [callers EXCEPT ![c].at = next, ![c].sure = @ /\ sure]
  /\ session' = IF next = "removing" /\ callers[c].why = "exit" THEN "none" ELSE session

(* The worktree is kept.                                                       *)
Kept(c) == callers' = [callers EXCEPT ![c] = Idle] /\ UNCHANGED session

Fails == troubles < MaxTroubles /\ troubles' = troubles + 1

(* One question: no to it passes.  git that answers with an error may count as *)
(* no; git that cannot be run, or not in time, counts as yes.                  *)
Asks(c, yes, next) ==
  /\ \/ yes /\ Kept(c) /\ UNCHANGED troubles
     \/ ~yes /\ Passes(c, next, TRUE) /\ UNCHANGED troubles
     \/ Fails /\ (Kept(c) \/ Passes(c, next, FALSE))
  /\ UNCHANGED <<there, tree>>

Gone(c) == callers[c].slug \notin there

(* count_worktree_changes: git status, then git rev-list base..HEAD.           *)
Uncommitted(c) ==
  /\ callers[c].at = "status"
  /\ Asks(c, Gone(c) \/ dirty[callers[c].slug] # {}, "count")

(* Mutant: commits are counted from a head that is read when they are counted. *)
NewCommitsNone(c) == {}

NewCommits(c) == branch[callers[c].slug] \ callers[c].base

Count(c) ==
  /\ callers[c].at = "count"
  /\ Asks(c, Gone(c) \/ NewCommits(c) # {},
          IF callers[c].why = "cleanup" THEN "unpushed" ELSE "removing")

(* has_unpushed_commits: git remote, where an error counts as no remote, then  *)
(* git rev-list HEAD --not --remotes, where it counts as unpushed.             *)
Unpushed(c) ==
  /\ callers[c].at = "unpushed"
  /\ Asks(c, Gone(c) \/ (remote /\ ~(branch[callers[c].slug] \subseteq pushed)), "removing")

(* git worktree remove --force, then git branch -D.  An exit goes on to the    *)
(* branch when the worktree could not be removed, where git refuses.           *)
Removed(s) ==
  /\ there' = there \ {s} /\ dirty' = [dirty EXCEPT ![s] = {}]
  /\ branch' = [branch EXCEPT ![s] = NoBranch]

Remove(c) ==
  /\ callers[c].at = "removing"
  /\ callers' = [callers EXCEPT ![c] = Idle]
  /\ \/ Removed(callers[c].slug) /\ UNCHANGED troubles
     \/ Fails /\ UNCHANGED <<there, dirty, branch>>
  /\ UNCHANGED <<old, remote, pushed, session, work>>

--------------------------------------------------------------------------------
(* Whoever works in a worktree.                                                *)

Edit(s) ==
  /\ s \in there /\ work < MaxWork /\ work' = work + 1
  /\ dirty' = [dirty EXCEPT ![s] = @ \cup {work + 1}] /\ old' = old \ {s}
  /\ UNCHANGED <<there, branch, remote, pushed, session, callers, troubles>>

Commit(s) ==
  /\ s \in there /\ dirty[s] # {}
  /\ branch' = [branch EXCEPT ![s] = @ \cup dirty[s]] /\ dirty' = [dirty EXCEPT ![s] = {}]
  /\ UNCHANGED <<there, old, remote, pushed, session, callers, work, troubles>>

Push(s) ==
  /\ s \in there /\ remote /\ pushed' = pushed \cup branch[s]
  /\ UNCHANGED <<there, branch, dirty, old, remote, session, callers, work, troubles>>

Age(s) ==
  /\ s \in there \cap Ephemeral /\ old' = old \cup {s}
  /\ UNCHANGED <<there, branch, dirty, remote, pushed, session, callers, work, troubles>>

Next ==
  \/ \E c \in Callers :
       \/ \E n \in Names : Create(c, n) \/ Enter(c, n) \/ ExitKeep(c, n)
       \/ \E n \in Names, force \in BOOLEAN : ExitRemove(c, n, force)
       \/ \E s \in Slugs : Cleanup(c, s)
       \/ Look(c) \/ Uncommitted(c) \/ Count(c) \/ Unpushed(c) \/ Remove(c)
  \/ \E s \in Slugs : Edit(s) \/ Commit(s) \/ Push(s) \/ Age(s)

Spec == Init /\ [][Next]_vars

--------------------------------------------------------------------------------
TypeOK ==
  /\ there \subseteq Slugs /\ old \subseteq Ephemeral /\ session \in Names \cup {"none"}
  /\ branch \in [Slugs -> SUBSET (0..MaxWork)] /\ dirty \in [Slugs -> SUBSET (1..MaxWork)]
  /\ pushed \subseteq 0..MaxWork
  /\ \A c \in Callers : callers[c].at \in {"idle", "status", "count", "unpushed", "removing"}

(* A worktree is never removed with work that was there when the call began,   *)
(* whatever somebody edits, commits or pushes between its questions: an exit   *)
(* that is not forced loses no change that was not committed then, a cleanup   *)
(* none of these and, with a remote, no commit that is not pushed.  This holds *)
(* as far as git has answered every question, and not of what is made later.   *)
KeepsWhatWasThere ==
  \A c \in Callers :
    LET k == callers[c]
    IN k.at = "removing" /\ k.sure =>
         k.saw \cap (dirty[k.slug] \cup branch[k.slug])
           \subseteq (IF k.why = "cleanup" /\ remote THEN pushed ELSE {})

WorktreesSafe == TypeOK /\ KeepsWhatWasThere

(* What the documentation of exit says: without force, a worktree that has     *)
(* commits of its own is not removed.                                          *)
ExitKeepsCommits ==
  [][\A c \in Callers :
       /\ callers[c].at # "removing" /\ callers'[c].at = "removing"
       /\ callers'[c].why = "exit" /\ callers'[c].sure
       => branch[callers[c].slug] = {}]_vars
================================================================================
