------------------------------- MODULE FileEdits -------------------------------
(***************************************************************************)
(* How the editing tools publish files.                                    *)
(*                                                                         *)
(*   pepsicode/execution/filesystem.py     FileSystemService               *)
(*   pepsicode/tools/{read_file,write_file,edit_file,patch_file,           *)
(*     modify_file,multi_edit,notebook_edit,grep_files}.py                 *)
(*   pepsicode/tools/code_intelligence.py  _apply_rename                   *)
(*                                                                         *)
(* An agent is a session or a child of one, each with the versions it has  *)
(* observed.  Agents of several processes share the files and the lock of  *)
(* each; a user's editor or a command uses no lock.  A file holds the set  *)
(* of the changes made to it, so a change that gets lost can be seen; a    *)
(* version stands for the content it is the hash of.                       *)
(***************************************************************************)
EXTENDS Integers, FiniteSets, SequencesExt

CONSTANTS
  Agents, Files,
  Orders,       \* pairs of files, as a call lists them
  MaxMarks,     \* bound: changes
  MaxOutside    \* bound: changes made without the lock

FilesAssumption ==
  /\ Orders \subseteq {<<f, g>> : f, g \in Files} /\ "nobody" \notin Agents
  /\ MaxMarks \in Nat /\ MaxOutside \in Nat

VARIABLES
  file,      \* contents, Missing for none
  seen,      \* FileSystemService._observed of each agent
  shown,     \* what the agent was last shown of a file, or has written
  call,      \* the call of each agent
  holder,    \* the agent with the lock of a file
  late,      \* changes from outside made when nothing looks any more
  marks, outside

vars == <<file, seen, shown, call, holder, late, marks, outside>>

Missing == {0}
Unseen == {-1}
Nobody == "nobody"
Fresh == {marks + 1}

(* A call: where it is, the steps that are left, what the first expects and    *)
(* writes once its edit is made, and the steps that are done.                  *)
Doing(at, kind, rest, done) ==
  [at |-> at, kind |-> kind, rest |-> rest, expected |-> Missing, content |-> Missing, done |-> done]
Idle == Doing("idle", "", <<>>, <<>>)
Target(a) == Head(call[a].rest).file

Init ==
  /\ file \in [Files -> {Missing, {}}] /\ {} \in {file[f] : f \in Files}
  /\ seen = [a \in Agents |-> [f \in Files |-> Unseen]] /\ shown = seen
  /\ call = [a \in Agents |-> Idle] /\ holder = [f \in Files |-> Nobody]
  /\ late = {} /\ marks = 0 /\ outside = 0

--------------------------------------------------------------------------------
(* snapshot.                                                                   *)

Observe(a, f) == seen' = [seen EXCEPT ![a][f] = file[f]]

(* read_file shows the model the file it observes, or that there is none.      *)
Read(a, f) ==
  /\ call[a].at = "idle" /\ (seen[a][f] # file[f] \/ shown[a][f] # file[f])
  /\ Observe(a, f) /\ shown' = [shown EXCEPT ![a][f] = file[f]]
  /\ UNCHANGED <<file, call, holder, late, marks, outside>>

(* grep_files and the other tools that go through a tree read with read_text,  *)
(* which observes every file, and show the lines that match, if any does.      *)
Search(a, f) ==
  /\ call[a].at = "idle" /\ file[f] # Missing /\ seen[a][f] # file[f]
  /\ Observe(a, f)
  /\ UNCHANGED <<file, shown, call, holder, late, marks, outside>>

(* snapshot(for_edit): what was observed must still be there.                  *)
Current(a, f) == seen[a][f] \in {Unseen, file[f]}

(* A step of a call: a file, the version the write expects, what it writes.    *)
Step(f, from, to) == [file |-> f, expected |-> from, content |-> to]

Start(a, kind, steps) ==
  /\ call[a].at = "idle"
  /\ call' = [call EXCEPT ![a] = Doing("asking", kind, steps, <<>>)]

Marked == marks < MaxMarks /\ marks' = marks + 1

(* edit_file, patch_file: the change is made to the snapshot, in which every   *)
(* text that is replaced must be found.                                        *)
Edit(a, f) ==
  /\ file[f] # Missing /\ Current(a, f) /\ Marked
  /\ Start(a, "edit", <<Step(f, file[f], file[f] \cup Fresh)>>)
  /\ UNCHANGED <<file, seen, shown, holder, late, outside>>

(* notebook_edit: cells that are not named stay; there need be no notebook.    *)
Notebook(a, f) ==
  /\ Current(a, f) /\ Marked
  /\ Start(a, "edit", <<Step(f, file[f], (file[f] \ Missing) \cup Fresh)>>)
  /\ UNCHANGED <<file, seen, shown, holder, late, outside>>

(* write_file, modify_file: the whole file, as the model knows it.  With no    *)
(* observation the file is taken as it is now.                                 *)
Write(a, f) ==
  /\ Current(a, f) /\ Marked
  /\ Start(a, "write", <<Step(f, file[f],
       (IF shown[a][f] \in {Unseen, Missing} THEN {} ELSE shown[a][f]) \cup Fresh)>>)
  /\ UNCHANGED <<file, seen, shown, holder, late, outside>>

(* multi_edit: one file after the other, each from a snapshot of its own; a    *)
(* file that fails does not stop the rest.                                     *)
MultiEdit(a, order) ==
  /\ Start(a, "multi", [i \in DOMAIN order |-> Step(order[i], Unseen, Unseen)])
  /\ UNCHANGED <<file, seen, shown, holder, late, marks, outside>>

(* rename_symbol: every file is planned from a snapshot, its edit put up for   *)
(* approval.                                                                   *)
Rename(a, order) ==
  /\ \A f \in Range(order) : file[f] # Missing /\ Current(a, f)
  /\ Marked
  /\ call[a].at = "idle"
  /\ call' = [call EXCEPT ![a] = Doing("planned", "rename", [i \in DOMAIN order |->
                 Step(order[i], file[order[i]], file[order[i]] \cup Fresh)], <<>>)]
  /\ UNCHANGED <<file, seen, shown, holder, late, outside>>

(* All of them are read, and so observed, once more before any is written.     *)
Planned(a) ==
  LET same(i) == file[call[a].rest[i].file] = call[a].rest[i].expected
      read == {call[a].rest[j].file : j \in {j \in DOMAIN call[a].rest : \A i \in 1 .. j - 1 : same(i)}}
  IN /\ call[a].at = "planned"
     /\ seen' = [seen EXCEPT ![a] = [f \in Files |-> IF f \in read THEN file[f] ELSE @[f]]]
     /\ call' = [call EXCEPT ![a] = IF \A i \in DOMAIN @.rest : same(i)
                                    THEN Doing("asking", @.kind, @.rest, @.done) ELSE Idle]
     /\ UNCHANGED <<file, shown, holder, late, marks, outside>>

--------------------------------------------------------------------------------
(* write.                                                                      *)

Release(a) == holder' = [f \in Files |-> IF holder[f] = a THEN Nobody ELSE holder[f]]

(* The end of a step: the next one, or the end of the call.                    *)
Onward(a, written) ==
  LET rest == Tail(call[a].rest)
      done == IF written THEN Append(call[a].done, Head(call[a].rest)) ELSE call[a].done
  IN call' = [call EXCEPT ![a] =
       IF rest = <<>> THEN Idle
       ELSE Doing("asking", call[a].kind, rest, done)]

(* The files a rename has written, last first, back to what they were.         *)
Undo(done) == [i \in DOMAIN done |->
  LET s == Reverse(done)[i] IN Step(s.file, s.content, s.expected)]

(* What an OSError or a ValueError in a step, which is refused or out of date, *)
(* does to the call.                                                           *)
Failed(a) ==
  /\ Release(a)
  /\ \/ call[a].kind = "multi" /\ Onward(a, FALSE)
     \/ /\ call[a].kind = "rename" /\ call[a].done # <<>>
        /\ call' = [call EXCEPT ![a] = Doing("asking", "undo", Undo(call[a].done), <<>>)]
     \/ /\ call[a].kind # "multi" /\ ~(call[a].kind = "rename" /\ call[a].done # <<>>)
        /\ call' = [call EXCEPT ![a] = Idle]

(* What the step expects, or for multi_edit a file that may be edited.         *)
Fits(a, f, from) ==
  IF call[a].kind = "multi" THEN file[f] # Missing /\ Current(a, f) ELSE file[f] = from

(* A step begins: multi_edit takes its snapshot, the rollback passes over what *)
(* is not as the rename wrote it, a write compares.  Then the edit is put up   *)
(* for approval.                                                               *)
Ask(a) ==
  LET f == Target(a)
      s == Head(call[a].rest)
      from == IF call[a].kind = "multi" THEN file[f] ELSE s.expected
      to == IF call[a].kind = "multi" THEN file[f] \cup Fresh ELSE s.content
  IN /\ call[a].at = "asking"
     /\ IF call[a].kind = "multi" THEN Marked ELSE UNCHANGED marks
     /\ IF call[a].kind \in {"rename", "undo"} THEN Observe(a, f) ELSE UNCHANGED seen
     /\ \/ ~Fits(a, f, from) /\ call[a].kind = "undo" /\ Onward(a, FALSE) /\ UNCHANGED holder
        \/ ~Fits(a, f, from) /\ call[a].kind # "undo" /\ Failed(a)
        \/ /\ Fits(a, f, from)
           /\ call' = [call EXCEPT ![a] =
                [at |-> "waiting", kind |-> @.kind, rest |-> <<Step(f, from, to)>> \o Tail(@.rest),
                 expected |-> from, content |-> to, done |-> @.done]]
           /\ UNCHANGED holder
     /\ UNCHANGED <<file, shown, late, outside>>

(* Denied, or the mode was changed while the edit waited.                      *)
Refuse(a) ==
  /\ call[a].at \in {"planned", "waiting", "locked"} /\ Failed(a)
  /\ UNCHANGED <<file, seen, shown, late, marks, outside>>

(* TurnCancelledError ends a call wherever it is; nothing is rolled back.      *)
Cancel(a) ==
  /\ call[a].at \in {"planned", "asking", "waiting", "locked"}
  /\ Release(a) /\ call' = [call EXCEPT ![a] = Idle]
  /\ UNCHANGED <<file, seen, shown, late, marks, outside>>

(* Mutant: the lock is one of the process.                                     *)
FreeInProcess(a, f) == TRUE

(* _exclusive: a lock of the operating system, tried until it is free.         *)
Free(a, f) == holder[f] = Nobody

Same(a) == file[Target(a)] = call[a].expected

(* Approved, and the lock taken: the file is compared and the new content goes *)
(* to a temporary file.                                                        *)
Lock(a) ==
  LET f == Target(a)
  IN /\ call[a].at = "waiting" /\ Free(a, f)
     /\ IF Same(a)
          THEN /\ holder' = [holder EXCEPT ![f] = a]
               /\ call' = [call EXCEPT ![a].at = "locked"]
          ELSE Failed(a)
     /\ UNCHANGED <<file, seen, shown, late, marks, outside>>

(* Mutant: nothing is compared after the temporary file is written.            *)
StillUnasked(a) == TRUE

Still(a) == Same(a)

(* The last comparison, and the replacement.                                   *)
Compare(a) ==
  /\ call[a].at = "locked"
  /\ IF Still(a) THEN call' = [call EXCEPT ![a].at = "replacing"] /\ UNCHANGED holder
     ELSE Failed(a)
  /\ UNCHANGED <<file, seen, shown, late, marks, outside>>

(* The model knows what it wrote, but of a change only the change.             *)
Learned(a, known) ==
  LET from == call[a].expected to == call[a].content
  IN IF call[a].kind = "write" THEN to
     ELSE IF known = Unseen THEN Unseen
     ELSE ((known \ (from \ to)) \cup (to \ from)) \ Missing

Replace(a) ==
  LET f == Target(a)
  IN /\ call[a].at = "replacing"
     /\ file' = [file EXCEPT ![f] = call[a].content]
     /\ seen' = [seen EXCEPT ![a][f] = call[a].content]
     /\ shown' = [shown EXCEPT ![a][f] = Learned(a, @)]
     /\ Release(a) /\ Onward(a, TRUE)
     /\ UNCHANGED <<late, marks, outside>>

(* An editor, a command: no lock, any time.                                    *)
Outside(f, to) ==
  /\ outside < MaxOutside /\ outside' = outside + 1
  /\ marks < MaxMarks /\ marks' = marks + 1
  /\ file' = [file EXCEPT ![f] = to]
  /\ late' = IF \E a \in Agents : call[a].at = "replacing" /\ Target(a) = f
             THEN late \cup Fresh ELSE late
  /\ UNCHANGED <<seen, shown, call, holder>>

Changed(f) == (IF file[f] = Missing THEN {} ELSE file[f]) \cup Fresh

Next ==
  \/ \E a \in Agents :
       \/ Planned(a) \/ Ask(a) \/ Refuse(a) \/ Cancel(a) \/ Lock(a) \/ Compare(a) \/ Replace(a)
       \/ \E f \in Files :
            Read(a, f) \/ Search(a, f) \/ Edit(a, f) \/ Notebook(a, f) \/ Write(a, f)
       \/ \E o \in Orders : MultiEdit(a, o) \/ Rename(a, o)
  \/ \E f \in Files : Outside(f, Changed(f))

Spec == Init /\ [][Next]_vars

--------------------------------------------------------------------------------
Contents == {Missing} \cup SUBSET (1 .. MaxMarks)
Ats == {"idle", "planned", "asking", "waiting", "locked", "replacing"}
Kinds == {"", "edit", "write", "multi", "rename", "undo"}

TypeOK ==
  /\ file \in [Files -> Contents]
  /\ seen \in [Agents -> [Files -> Contents \cup {Unseen}]]
  /\ shown \in [Agents -> [Files -> Contents \cup {Unseen}]]
  /\ \A a \in Agents : call[a].at \in Ats /\ call[a].kind \in Kinds /\ Len(call[a].rest) < 3
  /\ holder \in [Files -> Agents \cup {Nobody}]

(* A lock is held by the one whose write of the file is under way, and by      *)
(* nobody when that has ended in whichever way.                                *)
LocksHeld == \A f \in Files, a \in Agents :
  holder[f] = a <=> call[a].at \in {"locked", "replacing"} /\ Target(a) = f

FilesSafe == TypeOK /\ LocksHeld

(* Replacing a file drops no change that was not in the version the edit was   *)
(* made from and put up for approval (FileSystemService.write), except what    *)
(* came from outside after the last comparison.                                *)
Replaces(a) == call[a].at = "replacing" /\ call'[a] # call[a]
Lost(a) == file[Target(a)] \ (call[a].content \cup Missing)
DropsWhatItKnew(a) == Replaces(a) => Lost(a) \subseteq call[a].expected \cup late
DropsKnown == \A a \in Agents : DropsWhatItKnew(a)
NothingLost == [][DropsKnown]_vars

(* A rename that fails leaves none of its files renamed (_apply_rename), but   *)
(* for those that somebody has changed since, and unless the turn is cancelled *)
(* or the restoring refused.                                                   *)
RenameMark(a) ==
  LET s == Head(call[a].rest)
  IN IF call[a].kind = "undo" THEN s.expected \ s.content ELSE s.content \ s.expected
Fails(a) ==
  /\ call[a].kind \in {"rename", "undo"} /\ call'[a] = Idle
  /\ ~(call[a].kind = "rename" /\ call[a].at = "replacing")
FailsWhole(a) ==
  Fails(a) /\ ~Cancel(a) /\ ~(Refuse(a) /\ call[a].kind = "undo") =>
    \A f \in Files, m \in RenameMark(a) : m \in file'[f] => \E n \in file'[f] : n > m
AllFailWhole == \A a \in Agents : FailsWhole(a)
RenameWhole == [][AllFailWhole]_vars

(* docs/harness-boundaries.md:52: reads inside the tools do not wipe out the   *)
(* older version the session has read, and line 54: so an overwrite of what    *)
(* somebody changed after the reading is refused.  Not so: a search does.      *)
DropsWhatItRead(a) ==
  Replaces(a) /\ call[a].kind = "write" /\ shown[a][Target(a)] # Unseen =>
    Lost(a) \subseteq shown[a][Target(a)] \cup late
ReadBeforeOverwritten == [][\A a \in Agents : DropsWhatItRead(a)]_vars

================================================================================
