---------------------------- MODULE FileEditsProofs ----------------------------
(***************************************************************************)
(* Proofs about FileEdits: for any agents, files, changes and orders of    *)
(* the files of a call.  The assumptions stand in the theorems.            *)
(***************************************************************************)
EXTENDS FileEdits, SequenceTheorems, TLAPS

(* What a call may hold: its steps, and once the edit of the first is made what *)
(* that expects and writes.                                                     *)
Versions == Contents \cup {Unseen}
Steps(S) == [file : Files, expected : S, content : S]
Calls == [at : Ats, kind : Kinds, rest : Seq(Steps(Versions)), expected : Contents,
          content : Contents, done : Seq(Steps(Contents))]
Made == {"waiting", "locked", "replacing"}

CallOK(c) ==
  /\ c \in Calls
  /\ Len(c.rest) + Len(c.done) <= 2
  /\ c.kind # "multi" => c.rest \in Seq(Steps(Contents))
  /\ c.at # "idle" => c.rest # <<>>
  /\ c.at \in Made => Head(c.rest) \in Steps(Contents)

EditsTyped ==
  /\ file \in [Files -> Contents]
  /\ seen \in [Agents -> [Files -> Versions]] /\ shown \in [Agents -> [Files -> Versions]]
  /\ call \in [Agents -> Calls] /\ \A a \in Agents : CallOK(call[a])
  /\ holder \in [Files -> Agents \cup {Nobody}]
  /\ marks \in 0 .. MaxMarks

(* Until it is replaced, a file that was compared holds what was compared and *)
(* what came from outside.                                                    *)
StillThere == \A a \in Agents :
  call[a].at = "replacing" => file[Target(a)] \subseteq call[a].expected \cup late \cup Missing

EditsInv == EditsTyped /\ LocksHeld /\ StillThere

--------------------------------------------------------------------------------
(* Sequences.                                                                  *)

LEMMA Rest ==
  ASSUME NEW S, NEW s \in Seq(S), s # <<>>
  PROVE  /\ Head(s) \in S /\ Tail(s) \in Seq(S)
         /\ Len(s) \in Nat /\ Len(Tail(s)) = Len(s) - 1
OBVIOUS

LEMMA Firm == \A s \in Seq(Steps(Contents)) : s \in Seq(Steps(Versions))
BY SeqMonotonic DEF Steps, Versions

LEMMA HeadReplaced ==
  ASSUME NEW S, NEW s \in Seq(S), s # <<>>, NEW T, NEW x \in T
  PROVE  /\ <<x>> \o Tail(s) # <<>> /\ Head(<<x>> \o Tail(s)) = x
         /\ Len(<<x>> \o Tail(s)) = Len(s)
         /\ S \subseteq T => <<x>> \o Tail(s) \in Seq(T)
         /\ x \in S => <<x>> \o Tail(s) \in Seq(S)
OBVIOUS

LEMMA UndoSteps ==
  ASSUME NEW S, NEW done \in Seq(Steps(S))
  PROVE  Undo(done) \in Seq(Steps(S)) /\ Len(Undo(done)) = Len(done)
<1>1. DOMAIN done = 1 .. Len(done) /\ Len(done) \in Nat
  OBVIOUS
<1>2. \A i \in 1 .. Len(done) : Reverse(done)[i] = done[(Len(done) - i) + 1]
                                /\ done[(Len(done) - i) + 1] \in Steps(S)
  BY <1>1 DEF Reverse
<1>3. Undo(done) \in [1 .. Len(done) -> Steps(S)]
  BY <1>1, <1>2 DEF Undo, Step, Steps
<1> QED BY <1>1, <1>3

--------------------------------------------------------------------------------
(* What becomes of a call.                                                     *)

LEMMA CallChanged ==
  ASSUME EditsTyped, NEW a \in Agents, NEW c, CallOK(c), call' = [call EXCEPT ![a] = c]
  PROVE  /\ call' \in [Agents -> Calls] /\ \A b \in Agents : CallOK(call'[b])
         /\ call'[a] = c /\ \A b \in Agents \ {a} : call'[b] = call[b]
BY DEF EditsTyped, CallOK

LEMMA IdleOK == CallOK(Idle) /\ Idle.at = "idle"
BY DEF CallOK, Calls, Idle, Doing, Ats, Kinds, Made, Contents

(* A call that is not made yet, or goes back to the files that are left. *)
LEMMA Asking ==
  ASSUME NEW kind \in Kinds, NEW at \in Ats \ Made,
         NEW rest \in Seq(Steps(Versions)), NEW done \in Seq(Steps(Contents)),
         rest # <<>>, Len(rest) + Len(done) <= 2, kind # "multi" => rest \in Seq(Steps(Contents))
  PROVE  CallOK(Doing(at, kind, rest, done)) /\ Doing(at, kind, rest, done).at = at
BY DEF CallOK, Calls, Doing, Made, Contents

LEMMA Shorter ==
  ASSUME NEW m \in Nat, NEW n \in Nat, m + n <= 2
  PROVE  m <= 2 /\ n <= 2 /\ m < 3 /\ \A k \in Nat : k <= n + 1 => (m - 1) + k <= 2
OBVIOUS

LEMMA Lengths ==
  ASSUME NEW c, CallOK(c)
  PROVE  /\ Len(c.rest) \in Nat /\ Len(c.done) \in Nat /\ Len(c.rest) + Len(c.done) <= 2
         /\ Len(c.rest) < 3 /\ Len(c.done) <= 2 /\ c.kind \in Kinds /\ c.rest \in Seq(Steps(Versions)) /\ c.done \in Seq(Steps(Contents))
<1>1. c.rest \in Seq(Steps(Versions)) /\ c.done \in Seq(Steps(Contents)) /\ c.kind \in Kinds
  BY DEF CallOK, Calls
<1>2. Len(c.rest) \in Nat /\ Len(c.done) \in Nat
  BY <1>1
<1>3. Len(c.rest) + Len(c.done) <= 2
  BY DEF CallOK
<1>4. Len(c.done) <= 2 /\ Len(c.rest) < 3
  BY <1>2, <1>3, Shorter
<1> QED BY <1>1, <1>2, <1>3, <1>4

LEMMA OnwardOK ==
  ASSUME EditsTyped, NEW a \in Agents, call[a].at # "idle", NEW written \in BOOLEAN,
         written => call[a].at \in Made, Onward(a, written)
  PROVE  /\ call' \in [Agents -> Calls] /\ \A b \in Agents : CallOK(call'[b])
         /\ call'[a].at \in {"idle", "asking"} /\ \A b \in Agents \ {a} : call'[b] = call[b]
<1> DEFINE c == call[a]
           rest == Tail(c.rest)
           done == IF written THEN Append(c.done, Head(c.rest)) ELSE c.done
           next == Doing("asking", c.kind, rest, done)
<1>1. CallOK(c)
  BY DEF EditsTyped
<1>2. /\ c.kind \in Kinds /\ c.rest \in Seq(Steps(Versions)) /\ c.rest # <<>>
      /\ c.done \in Seq(Steps(Contents)) /\ Len(c.rest) + Len(c.done) <= 2
      /\ c.kind # "multi" => c.rest \in Seq(Steps(Contents))
      /\ written => Head(c.rest) \in Steps(Contents)
  BY <1>1 DEF CallOK, Calls
<1>3. /\ rest \in Seq(Steps(Versions)) /\ Len(rest) = Len(c.rest) - 1
      /\ c.kind # "multi" => rest \in Seq(Steps(Contents))
  BY <1>2, Rest
<1>4. done \in Seq(Steps(Contents)) /\ Len(done) <= Len(c.done) + 1
  BY <1>2
<1>5. CASE rest = <<>>
  <2>1. call' = [call EXCEPT ![a] = Idle]
    BY <1>5 DEF Onward
  <2> QED BY <2>1, IdleOK, CallChanged
<1>6. CASE rest # <<>>
  <2>1. call' = [call EXCEPT ![a] = next]
    BY <1>6 DEF Onward
  <2> HIDE DEF rest, done
  <2>2. Len(rest) + Len(done) <= 2
    <3>1. Len(c.rest) \in Nat /\ Len(c.done) \in Nat /\ Len(done) \in Nat
      BY <1>2, <1>4
    <3>2. Len(c.rest) + Len(c.done) <= 2 /\ Len(rest) = Len(c.rest) - 1 /\ Len(done) <= Len(c.done) + 1
      BY <1>2, <1>3, <1>4
    <3> HIDE DEF c
    <3> QED BY <3>1, <3>2, Shorter
  <2>3. CallOK(next) /\ next.at = "asking"
    <3>1. "asking" \in Ats \ Made
      BY DEF Ats, Made
    <3>2. rest \in Seq(Steps(Versions)) /\ done \in Seq(Steps(Contents)) /\ rest # <<>>
      BY <1>3, <1>4, <1>6
    <3>3. c.kind \in Kinds /\ (c.kind # "multi" => rest \in Seq(Steps(Contents)))
      BY <1>2, <1>3
    <3> HIDE DEF c
    <3> QED BY <2>2, <3>1, <3>2, <3>3, Asking
  <2> HIDE DEF next
  <2> QED BY <2>1, <2>3, CallChanged
<1> QED BY <1>5, <1>6

LEMMA FailedOK ==
  ASSUME EditsTyped, NEW a \in Agents, call[a].at # "idle", Failed(a)
  PROVE  /\ call' \in [Agents -> Calls] /\ \A b \in Agents : CallOK(call'[b])
         /\ call'[a].at \in {"idle", "asking"} /\ \A b \in Agents \ {a} : call'[b] = call[b]
<1> DEFINE c == call[a]
           next == Doing("asking", "undo", Undo(c.done), <<>>)
<1>1. CASE c.kind = "multi"
  BY <1>1, OnwardOK DEF Failed
<1>2. CASE c.kind # "multi" /\ c.kind = "rename" /\ c.done # <<>>
  <2>1. call' = [call EXCEPT ![a] = next]
    BY <1>2 DEF Failed
  <2>2. /\ c.done \in Seq(Steps(Contents)) /\ Len(c.done) \in Nat /\ Len(c.done) <= 2
    <3>1. CallOK(c)
      BY DEF EditsTyped
    <3> QED BY <3>1, Lengths
  <2> DEFINE undo == Undo(c.done)
  <2>3. undo \in Seq(Steps(Contents)) /\ Len(undo) = Len(c.done)
    BY <2>2, UndoSteps
  <2>4. undo \in Seq(Steps(Versions)) /\ undo # <<>>
    BY <1>2, <2>2, <2>3, Firm
  <2>5. CallOK(next) /\ next.at = "asking"
    <3>1. <<>> \in Seq(Steps(Contents)) /\ Len(<<>>) = 0
      OBVIOUS
    <3>2. Len(undo) + Len(<<>>) <= 2
      BY <2>2, <2>3, <3>1
    <3> HIDE DEF undo
    <3> QED BY <2>3, <2>4, <3>1, <3>2, Asking DEF Ats, Made, Kinds, undo
  <2> HIDE DEF next
  <2> QED BY <2>1, <2>5, CallChanged
<1>3. CASE c.kind # "multi" /\ ~(c.kind = "rename" /\ c.done # <<>>)
  <2>1. call' = [call EXCEPT ![a] = Idle]
    BY <1>3 DEF Failed
  <2> QED BY <2>1, IdleOK, CallChanged
<1> QED BY <1>1, <1>2, <1>3

--------------------------------------------------------------------------------
(* Types.                                                                      *)

LEMMA FreshContents ==
  ASSUME FilesAssumption, EditsTyped, Marked, NEW S \in SUBSET (1 .. MaxMarks)
  PROVE  S \cup Fresh \in Contents /\ marks' \in 0 .. MaxMarks
BY DEF FilesAssumption, EditsTyped, Marked, Fresh, Contents

LEMMA StartOK ==
  ASSUME EditsTyped, NEW a \in Agents, NEW kind \in Kinds, NEW s \in Seq(Steps(Versions)),
         s # <<>>, Len(s) <= 2, kind # "multi" => s \in Seq(Steps(Contents)),
         NEW at \in Ats \ Made, call' = [call EXCEPT ![a] = Doing(at, kind, s, <<>>)]
  PROVE  /\ call' \in [Agents -> Calls] /\ \A b \in Agents : CallOK(call'[b])
         /\ call'[a].at = at /\ \A b \in Agents \ {a} : call'[b] = call[b]
<1>1. <<>> \in Seq(Steps(Contents)) /\ Len(<<>>) = 0 /\ Len(s) \in Nat
  OBVIOUS
<1>2. Len(s) + Len(<<>>) <= 2
  BY <1>1
<1>3. CallOK(Doing(at, kind, s, <<>>)) /\ Doing(at, kind, s, <<>>).at = at
  BY <1>1, <1>2, Asking
<1> QED BY <1>3, CallChanged

LEMMA OneStep ==
  ASSUME NEW f \in Files, NEW from \in Contents, NEW to \in Contents
  PROVE  LET s == <<Step(f, from, to)>>
         IN  s \in Seq(Steps(Contents)) /\ s \in Seq(Steps(Versions)) /\ s # <<>> /\ Len(s) <= 2
<1>1. Step(f, from, to) \in Steps(Contents)
  BY DEF Step, Steps
<1>2. <<Step(f, from, to)>> \in Seq(Steps(Contents))
  BY <1>1
<1>3. Len(<<Step(f, from, to)>>) = 1 /\ <<Step(f, from, to)>> # <<>>
  OBVIOUS
<1>4. <<Step(f, from, to)>> \in Seq(Steps(Versions))
  BY <1>2, Firm
<1> HIDE DEF Step
<1> QED BY <1>2, <1>3, <1>4

(* The calls that begin: none of them has a lock. *)
Begins(a) ==
  \/ \E f \in Files : Edit(a, f) \/ Notebook(a, f) \/ Write(a, f)
  \/ \E o \in Orders : MultiEdit(a, o) \/ Rename(a, o)

LEMMA BeginsOK ==
  ASSUME FilesAssumption, EditsTyped, NEW a \in Agents, Begins(a)
  PROVE  /\ call' \in [Agents -> Calls] /\ \A b \in Agents : CallOK(call'[b])
         /\ call[a].at = "idle" /\ call'[a].at \in {"planned", "asking"}
         /\ \A b \in Agents \ {a} : call'[b] = call[b]
         /\ marks' \in 0 .. MaxMarks /\ UNCHANGED <<file, seen, shown, holder, late, outside>>
<1>k. {"planned", "asking"} \subseteq Ats \ Made /\ {"edit", "write", "multi", "rename"} \subseteq Kinds
  BY DEF Ats, Made, Kinds
<1>f. \A f \in Files : file[f] \in Contents /\ (file[f] # Missing => file[f] \in SUBSET (1 .. MaxMarks))
  BY DEF EditsTyped, Contents
<1>1. ASSUME NEW f \in Files, Edit(a, f) \/ Notebook(a, f) \/ Write(a, f)
      PROVE  \E kind \in {"edit", "write"}, from \in Contents, to \in Contents :
               /\ Start(a, kind, <<Step(f, from, to)>>) /\ marks' \in 0 .. MaxMarks
               /\ UNCHANGED <<file, seen, shown, holder, late, outside>>
  <2>1. CASE Edit(a, f)
    <3>1. file[f] \cup Fresh \in Contents /\ marks' \in 0 .. MaxMarks
      BY <1>f, <2>1, FreshContents DEF Edit
    <3> QED BY <1>f, <2>1, <3>1 DEF Edit
  <2>2. CASE Notebook(a, f)
    <3>1. file[f] \ Missing \in SUBSET (1 .. MaxMarks)
      BY <1>f
    <3>2. (file[f] \ Missing) \cup Fresh \in Contents /\ marks' \in 0 .. MaxMarks
      BY <2>2, <3>1, FreshContents DEF Notebook
    <3> QED BY <1>f, <2>2, <3>2 DEF Notebook
  <2>3. CASE Write(a, f)
    <3> DEFINE known == IF shown[a][f] \in {Unseen, Missing} THEN {} ELSE shown[a][f]
    <3>1. known \in SUBSET (1 .. MaxMarks)
      BY DEF EditsTyped, Versions, Contents
    <3>2. known \cup Fresh \in Contents /\ marks' \in 0 .. MaxMarks
      BY <2>3, <3>1, FreshContents DEF Write
    <3> QED BY <1>f, <2>3, <3>2 DEF Write
  <2> QED BY <1>1, <2>1, <2>2, <2>3
<1>2. ASSUME NEW f \in Files, Edit(a, f) \/ Notebook(a, f) \/ Write(a, f)
      PROVE  /\ call' \in [Agents -> Calls] /\ \A b \in Agents : CallOK(call'[b])
             /\ call[a].at = "idle" /\ call'[a].at \in {"planned", "asking"}
             /\ \A b \in Agents \ {a} : call'[b] = call[b]
             /\ marks' \in 0 .. MaxMarks /\ UNCHANGED <<file, seen, shown, holder, late, outside>>
  <2>1. PICK kind \in {"edit", "write"}, from \in Contents, to \in Contents :
          /\ Start(a, kind, <<Step(f, from, to)>>) /\ marks' \in 0 .. MaxMarks
          /\ UNCHANGED <<file, seen, shown, holder, late, outside>>
    BY <1>1, <1>2
  <2> DEFINE s == <<Step(f, from, to)>>
  <2>2. s \in Seq(Steps(Contents)) /\ s \in Seq(Steps(Versions)) /\ s # <<>> /\ Len(s) <= 2
    BY OneStep
  <2>3. call[a].at = "idle" /\ call' = [call EXCEPT ![a] = Doing("asking", kind, s, <<>>)]
    BY <2>1 DEF Start
  <2> HIDE DEF s
  <2>4. kind \in Kinds /\ "asking" \in Ats \ Made
    BY <1>k
  <2>5. /\ call' \in [Agents -> Calls] /\ \A b \in Agents : CallOK(call'[b])
        /\ call'[a].at = "asking" /\ \A b \in Agents \ {a} : call'[b] = call[b]
    BY <2>2, <2>3, <2>4, StartOK
  <2> QED BY <2>1, <2>3, <2>5
<1>3. ASSUME NEW o \in Orders, MultiEdit(a, o) \/ Rename(a, o)
      PROVE  /\ call' \in [Agents -> Calls] /\ \A b \in Agents : CallOK(call'[b])
             /\ call[a].at = "idle" /\ call'[a].at \in {"planned", "asking"}
             /\ \A b \in Agents \ {a} : call'[b] = call[b]
             /\ marks' \in 0 .. MaxMarks /\ UNCHANGED <<file, seen, shown, holder, late, outside>>
  <2>1. PICK f, g \in Files : o = <<f, g>>
    BY DEF FilesAssumption
  <2>2. DOMAIN o = 1 .. 2 /\ \A i \in 1 .. 2 : o[i] \in Files
    BY <2>1
  <2>3. CASE MultiEdit(a, o)
    <3> DEFINE s == [i \in DOMAIN o |-> Step(o[i], Unseen, Unseen)]
    <3>1. s \in [1 .. 2 -> Steps(Versions)]
      BY <2>2 DEF Step, Steps, Versions
    <3>2. s \in Seq(Steps(Versions)) /\ Len(s) = 2 /\ s # <<>>
      BY <3>1
    <3>3. call[a].at = "idle" /\ call' = [call EXCEPT ![a] = Doing("asking", "multi", s, <<>>)]
      BY <2>3 DEF MultiEdit, Start
    <3> HIDE DEF s
    <3>4. marks' \in 0 .. MaxMarks /\ UNCHANGED <<file, seen, shown, holder, late, outside>>
      BY <2>3 DEF MultiEdit, EditsTyped
    <3>5. "multi" \in Kinds /\ "asking" \in Ats \ Made /\ Len(s) <= 2
      BY <1>k, <3>2
    <3>6. /\ call' \in [Agents -> Calls] /\ \A b \in Agents : CallOK(call'[b])
          /\ call'[a].at = "asking" /\ \A b \in Agents \ {a} : call'[b] = call[b]
      BY <3>2, <3>3, <3>5, StartOK
    <3> QED BY <3>3, <3>4, <3>6
  <2>4. CASE Rename(a, o)
    <3> DEFINE s == [i \in DOMAIN o |-> Step(o[i], file[o[i]], file[o[i]] \cup Fresh)]
    <3>1. \A i \in 1 .. 2 : file[o[i]] \in SUBSET (1 .. MaxMarks) /\ file[o[i]] \in Contents
      BY <1>f, <2>2, <2>4 DEF Rename, Range
    <3>2. \A i \in 1 .. 2 : file[o[i]] \cup Fresh \in Contents
      BY <2>4, <3>1, FreshContents DEF Rename
    <3>3. s \in [1 .. 2 -> Steps(Contents)]
      BY <2>2, <3>1, <3>2 DEF Step, Steps
    <3>4. s \in Seq(Steps(Contents)) /\ Len(s) = 2 /\ s # <<>>
      BY <3>3
    <3>5. s \in Seq(Steps(Versions))
      BY <3>4, Firm
    <3>6. call[a].at = "idle" /\ call' = [call EXCEPT ![a] = Doing("planned", "rename", s, <<>>)]
      BY <2>4 DEF Rename
    <3>7. marks' \in 0 .. MaxMarks /\ UNCHANGED <<file, seen, shown, holder, late, outside>>
      BY <2>4, FreshContents DEF Rename
    <3> HIDE DEF s
    <3>8. "rename" \in Kinds /\ "planned" \in Ats \ Made /\ Len(s) <= 2
      BY <1>k, <3>4
    <3>9. /\ call' \in [Agents -> Calls] /\ \A b \in Agents : CallOK(call'[b])
          /\ call'[a].at = "planned" /\ \A b \in Agents \ {a} : call'[b] = call[b]
      BY <3>4, <3>5, <3>6, <3>8, StartOK
    <3> QED BY <3>6, <3>7, <3>9
  <2> QED BY <1>3, <2>3, <2>4
<1> QED BY <1>2, <1>3 DEF Begins

--------------------------------------------------------------------------------
(* The steps of a call that is under way, but for those that take a lock or    *)
(* replace a file: whatever becomes of the call, it has no lock after them.    *)

Holds(c) == c.at \in {"locked", "replacing"}
LeavesLock(a) == Release(a) \/ (~Holds(call[a]) /\ holder' = holder)

LEMMA MarkedOK ==
  ASSUME FilesAssumption, EditsTyped, Marked \/ UNCHANGED marks
  PROVE  marks' \in 0 .. MaxMarks
BY DEF FilesAssumption, EditsTyped, Marked

LEMMA ObserveOK ==
  ASSUME EditsTyped, NEW a \in Agents, NEW f \in Files, Observe(a, f) \/ UNCHANGED seen
  PROVE  seen' \in [Agents -> [Files -> Versions]]
<1>1. /\ file[f] \in Versions /\ seen \in [Agents -> [Files -> Versions]]
      /\ seen' = [seen EXCEPT ![a] = [seen[a] EXCEPT ![f] = file[f]]] \/ seen' = seen
  BY DEF EditsTyped, Observe, Versions
<1>2. [seen[a] EXCEPT ![f] = file[f]] \in [Files -> Versions]
  BY <1>1
<1> QED BY <1>1, <1>2

LEMMA TargetFile ==
  ASSUME EditsTyped, NEW a \in Agents, call[a].at # "idle"
  PROVE  Target(a) \in Files /\ Head(call[a].rest) \in Steps(Versions)
         /\ (call[a].kind # "multi" => Head(call[a].rest) \in Steps(Contents))
<1>1. call[a].rest \in Seq(Steps(Versions)) /\ call[a].rest # <<>>
      /\ (call[a].kind # "multi" => call[a].rest \in Seq(Steps(Contents)))
  BY DEF EditsTyped, CallOK, Calls
<1>2. Head(call[a].rest) \in Steps(Versions)
      /\ (call[a].kind # "multi" => Head(call[a].rest) \in Steps(Contents))
  BY <1>1, Rest
<1> QED BY <1>2 DEF Target, Steps

LEMMA PlannedOK ==
  ASSUME EditsTyped, NEW a \in Agents, Planned(a)
  PROVE  /\ call' \in [Agents -> Calls] /\ \A b \in Agents : CallOK(call'[b])
         /\ call'[a].at \in {"idle", "asking"} /\ \A b \in Agents \ {a} : call'[b] = call[b]
         /\ seen' \in [Agents -> [Files -> Versions]]
<1> DEFINE c == call[a]
           next == Doing("asking", c.kind, c.rest, c.done)
<1>1. call[a].at = "planned" /\ (call' = [call EXCEPT ![a] = next] \/ call' = [call EXCEPT ![a] = Idle])
  BY DEF Planned
<1>2. seen' \in [Agents -> [Files -> Versions]]
  BY DEF Planned, EditsTyped, Versions
<1>3. CallOK(next) /\ next.at = "asking"
  <2>1. CallOK(c) /\ c.at # "idle"
    BY <1>1 DEF EditsTyped
  <2>2. c.rest # <<>> /\ (c.kind # "multi" => c.rest \in Seq(Steps(Contents)))
    BY <2>1 DEF CallOK
  <2>3. "asking" \in Ats \ Made
    BY DEF Ats, Made
  <2>4. /\ c.kind \in Kinds /\ c.rest \in Seq(Steps(Versions)) /\ c.done \in Seq(Steps(Contents))
        /\ Len(c.rest) + Len(c.done) <= 2
    BY <2>1, Lengths
  <2> HIDE DEF c
  <2> QED BY <2>2, <2>3, <2>4, Asking
<1> HIDE DEF next
<1> QED BY <1>1, <1>2, <1>3, IdleOK, CallChanged

LEMMA AskOK ==
  ASSUME FilesAssumption, EditsTyped, NEW a \in Agents, Ask(a)
  PROVE  /\ call' \in [Agents -> Calls] /\ \A b \in Agents : CallOK(call'[b])
         /\ call'[a].at \in {"idle", "asking", "waiting"} /\ \A b \in Agents \ {a} : call'[b] = call[b]
         /\ seen' \in [Agents -> [Files -> Versions]] /\ marks' \in 0 .. MaxMarks
         /\ LeavesLock(a)
<1> DEFINE c == call[a]
           f == Target(a)
           from == IF c.kind = "multi" THEN file[f] ELSE Head(c.rest).expected
           to == IF c.kind = "multi" THEN file[f] \cup Fresh ELSE Head(c.rest).content
           next == [at |-> "waiting", kind |-> c.kind, rest |-> <<Step(f, from, to)>> \o Tail(c.rest),
                    expected |-> from, content |-> to, done |-> c.done]
<1>1. c.at = "asking" /\ CallOK(c) /\ c.at # "idle"
  BY DEF Ask, EditsTyped
<1>2. seen' \in [Agents -> [Files -> Versions]] /\ marks' \in 0 .. MaxMarks
  BY <1>1, MarkedOK, ObserveOK, TargetFile DEF Ask
<1>3. CASE Onward(a, FALSE) /\ UNCHANGED holder
  BY <1>1, <1>2, <1>3, OnwardOK DEF LeavesLock, Holds
<1>4. CASE Failed(a)
  BY <1>1, <1>2, <1>4, FailedOK DEF LeavesLock, Failed
<1>5. CASE Fits(a, f, from) /\ call' = [call EXCEPT ![a] = next] /\ UNCHANGED holder
  <2>1. f \in Files /\ (c.kind # "multi" => Head(c.rest) \in Steps(Contents))
    BY <1>1, TargetFile
  <2>2. from \in Contents /\ to \in Contents
    <3>1. CASE c.kind = "multi"
      <4>1. file[f] \in SUBSET (1 .. MaxMarks) /\ file[f] \in Contents
        BY <1>5, <2>1, <3>1 DEF Fits, EditsTyped, Contents
      <4>2. Marked
        BY <3>1 DEF Ask
      <4>3. file[f] \cup Fresh \in Contents
        BY <4>1, <4>2, FreshContents
      <4> QED BY <3>1, <4>1, <4>3
    <3>2. CASE c.kind # "multi"
      BY <2>1, <3>2 DEF Steps
    <3> QED BY <3>1, <3>2
  <2> HIDE DEF f, from, to
  <2> DEFINE first == Step(f, from, to)
             rest == <<first>> \o Tail(c.rest)
  <2>3. first \in Steps(Contents) /\ first \in Steps(Versions)
    BY <2>1, <2>2 DEF Step, Steps, Versions
  <2>4. c.rest \in Seq(Steps(Versions)) /\ c.rest # <<>>
        /\ (c.kind # "multi" => c.rest \in Seq(Steps(Contents)))
    BY <1>1, Lengths DEF CallOK
  <2> HIDE DEF first
  <2>5. rest # <<>> /\ Head(rest) = first /\ Len(rest) = Len(c.rest) /\ rest \in Seq(Steps(Versions))
        /\ (c.kind # "multi" => rest \in Seq(Steps(Contents)))
    BY <2>3, <2>4, HeadReplaced
  <2>6. next.rest = rest /\ next.done = c.done /\ next.kind = c.kind /\ next.at = "waiting"
    BY DEF first
  <2>7. Len(c.rest) + Len(c.done) <= 2 /\ c.done \in Seq(Steps(Contents)) /\ c.kind \in Kinds
    BY <1>1, Lengths
  <2> HIDE DEF rest, c
  <2>8. next \in Calls
    BY <2>2, <2>5, <2>7 DEF Calls, Ats, rest, first
  <2>9. CallOK(next)
    BY <2>3, <2>5, <2>6, <2>7, <2>8 DEF CallOK
  <2>10. call[a].at = "asking"
    BY <1>1 DEF c
  <2> HIDE DEF next
  <2> QED BY <1>2, <1>5, <2>6, <2>9, <2>10, CallChanged DEF LeavesLock, Holds
<1> QED BY <1>3, <1>4, <1>5 DEF Ask

LEMMA EndsOK ==
  ASSUME EditsTyped, NEW a \in Agents, Refuse(a) \/ Cancel(a)
  PROVE  /\ call' \in [Agents -> Calls] /\ \A b \in Agents : CallOK(call'[b])
         /\ call'[a].at \in {"idle", "asking"} /\ \A b \in Agents \ {a} : call'[b] = call[b]
         /\ Release(a)
<1>1. CASE Refuse(a)
  BY <1>1, FailedOK DEF Refuse, Failed
<1>2. CASE Cancel(a)
  BY <1>2, IdleOK, CallChanged DEF Cancel
<1> QED BY <1>1, <1>2

--------------------------------------------------------------------------------
(* The lock, the last comparison and the replacement.                          *)

LEMMA Moved ==
  ASSUME EditsTyped, NEW a \in Agents, call[a].at \in Made, NEW at \in Made,
         call' = [call EXCEPT ![a].at = at]
  PROVE  /\ call' \in [Agents -> Calls] /\ \A b \in Agents : CallOK(call'[b])
         /\ call'[a].at = at /\ call'[a].rest = call[a].rest /\ call'[a].expected = call[a].expected
         /\ \A b \in Agents \ {a} : call'[b] = call[b]
<1> DEFINE c == call[a]
           next == [c EXCEPT !.at = at]
<1>1. call' = [call EXCEPT ![a] = next]
  OBVIOUS
<1>2. CallOK(c) /\ c \in Calls /\ c.rest # <<>> /\ Head(c.rest) \in Steps(Contents)
  BY DEF EditsTyped, CallOK, Made
<1>3. /\ next \in Calls /\ next.at = at /\ next.rest = c.rest /\ next.expected = c.expected
      /\ next.done = c.done /\ next.kind = c.kind
  BY <1>2 DEF Calls, Made, Ats
<1>4. CallOK(next)
  BY <1>2, <1>3 DEF CallOK
<1> HIDE DEF next
<1> QED BY <1>1, <1>3, <1>4, CallChanged

LEMMA LocksReleased ==
  ASSUME FilesAssumption, EditsTyped, LocksHeld, NEW a \in Agents, LeavesLock(a), ~Holds(call'[a]),
         \A b \in Agents \ {a} : call'[b] = call[b]
  PROVE  LocksHeld' /\ holder' \in [Files -> Agents \cup {Nobody}]
<1>1. holder \in [Files -> Agents \cup {Nobody}] /\ Nobody \notin Agents
  BY DEF EditsTyped, FilesAssumption, Nobody
<1>2. \A f \in Files : holder'[f] = IF holder[f] = a THEN Nobody ELSE holder[f]
  BY <1>1 DEF LeavesLock, Release, LocksHeld, Holds
<1>3. holder' \in [Files -> Agents \cup {Nobody}]
  BY <1>1 DEF LeavesLock, Release
<1>4. ASSUME NEW f \in Files, NEW b \in Agents
      PROVE  holder'[f] = b <=> Holds(call'[b]) /\ Head(call'[b].rest).file = f
  <2>1. CASE b = a
    BY <1>1, <1>2, <2>1
  <2>2. CASE b # a
    BY <1>1, <1>2, <2>2 DEF LocksHeld, Holds, Target
  <2> QED BY <2>1, <2>2
<1> QED BY <1>3, <1>4 DEF LocksHeld, Holds, Target

LEMMA StillKept ==
  ASSUME StillThere, NEW a \in Agents, call'[a].at # "replacing", UNCHANGED <<file, late>>,
         \A b \in Agents \ {a} : call'[b] = call[b]
  PROVE  StillThere'
BY DEF StillThere, Target

(* Two agents do not replace one file. *)
LEMMA LockExcludes ==
  ASSUME LocksHeld, NEW a \in Agents, NEW b \in Agents \ {a}, Holds(call[a]), Holds(call[b]),
         Target(a) \in Files
  PROVE  Target(a) # Target(b)
BY DEF LocksHeld, Holds

LEMMA LockOK ==
  ASSUME FilesAssumption, EditsInv, NEW a \in Agents, Lock(a)
  PROVE  EditsInv'
<1>t. EditsTyped /\ LocksHeld /\ StillThere /\ call[a].at = "waiting" /\ Target(a) \in Files
      /\ ~Holds(call[a])
  BY TargetFile DEF EditsInv, Lock, Holds
<1>1. UNCHANGED <<file, seen, shown, late, marks>>
  BY DEF Lock
<1>2. CASE Failed(a)
  <2>1. /\ call' \in [Agents -> Calls] /\ \A b \in Agents : CallOK(call'[b])
        /\ call'[a].at \in {"idle", "asking"} /\ \A b \in Agents \ {a} : call'[b] = call[b]
    BY <1>t, <1>2, FailedOK
  <2>2. LocksHeld' /\ holder' \in [Files -> Agents \cup {Nobody}]
    BY <1>t, <1>2, <2>1, LocksReleased DEF LeavesLock, Holds, Failed
  <2>3. StillThere'
    BY <1>t, <1>1, <2>1, StillKept
  <2> QED BY <1>t, <1>1, <2>1, <2>2, <2>3 DEF EditsInv, EditsTyped
<1>3. CASE holder' = [holder EXCEPT ![Target(a)] = a] /\ call' = [call EXCEPT ![a].at = "locked"]
  <2>1. /\ call' \in [Agents -> Calls] /\ \A b \in Agents : CallOK(call'[b])
        /\ call'[a].at = "locked" /\ call'[a].rest = call[a].rest
        /\ \A b \in Agents \ {a} : call'[b] = call[b]
    BY <1>t, <1>3, Moved DEF Made
  <2>2. holder \in [Files -> Agents \cup {Nobody}] /\ holder[Target(a)] = Nobody /\ Nobody \notin Agents
    BY <1>t DEF EditsTyped, FilesAssumption, Nobody, Lock, Free
  <2>3. holder' \in [Files -> Agents \cup {Nobody}]
    BY <1>3, <2>2
  <2>4. ASSUME NEW f \in Files, NEW b \in Agents
        PROVE  holder'[f] = b <=> Holds(call'[b]) /\ Head(call'[b].rest).file = f
    <3>1. CASE b = a
      BY <1>t, <1>3, <2>1, <2>2, <3>1 DEF LocksHeld, Holds, Target
    <3>2. CASE b # a
      BY <1>t, <1>3, <2>1, <2>2, <3>2 DEF LocksHeld, Holds, Target
    <3> QED BY <3>1, <3>2
  <2>5. LocksHeld'
    BY <2>4 DEF LocksHeld, Holds, Target
  <2>6. StillThere'
    BY <1>t, <1>1, <2>1, StillKept
  <2> QED BY <1>t, <1>1, <2>1, <2>3, <2>5, <2>6 DEF EditsInv, EditsTyped
<1> QED BY <1>2, <1>3 DEF Lock

LEMMA CompareOK ==
  ASSUME FilesAssumption, EditsInv, NEW a \in Agents, Compare(a)
  PROVE  EditsInv'
<1>t. EditsTyped /\ LocksHeld /\ StillThere /\ call[a].at = "locked"
  BY DEF EditsInv, Compare
<1>1. UNCHANGED <<file, seen, shown, late, marks>>
  BY DEF Compare
<1>2. CASE Failed(a)
  <2>1. /\ call' \in [Agents -> Calls] /\ \A b \in Agents : CallOK(call'[b])
        /\ call'[a].at \in {"idle", "asking"} /\ \A b \in Agents \ {a} : call'[b] = call[b]
    BY <1>t, <1>2, FailedOK
  <2>2. LocksHeld' /\ holder' \in [Files -> Agents \cup {Nobody}]
    BY <1>t, <1>2, <2>1, LocksReleased DEF LeavesLock, Holds, Failed
  <2>3. StillThere'
    BY <1>t, <1>1, <2>1, StillKept
  <2> QED BY <1>t, <1>1, <2>1, <2>2, <2>3 DEF EditsInv, EditsTyped
<1>3. CASE Still(a) /\ call' = [call EXCEPT ![a].at = "replacing"] /\ UNCHANGED holder
  <2>1. /\ call' \in [Agents -> Calls] /\ \A b \in Agents : CallOK(call'[b])
        /\ call'[a].at = "replacing" /\ call'[a].rest = call[a].rest
        /\ call'[a].expected = call[a].expected /\ \A b \in Agents \ {a} : call'[b] = call[b]
    BY <1>t, <1>3, Moved DEF Made
  <2>2. LocksHeld'
    BY <1>t, <1>3, <2>1 DEF LocksHeld, Target
  <2>3. StillThere'
    BY <1>t, <1>1, <1>3, <2>1 DEF StillThere, Target, Still, Same
  <2> QED BY <1>t, <1>1, <1>3, <2>1, <2>2, <2>3 DEF EditsInv, EditsTyped
<1> QED BY <1>2, <1>3 DEF Compare

LEMMA LearnedOK ==
  ASSUME EditsTyped, NEW a \in Agents, NEW known \in Versions
  PROVE  Learned(a, known) \in Versions
<1>1. call[a].expected \in Contents /\ call[a].content \in Contents
  BY DEF EditsTyped, Calls
<1>2. CASE call[a].kind = "write"
  BY <1>1, <1>2 DEF Learned, Versions
<1>3. CASE call[a].kind # "write" /\ known = Unseen
  BY <1>3 DEF Learned, Versions
<1>4. CASE call[a].kind # "write" /\ known # Unseen
  <2> DEFINE from == call[a].expected
             to == call[a].content
  <2>1. known \in Contents /\ from \in Contents /\ to \in Contents
    BY <1>1, <1>4 DEF Versions
  <2>2. ((known \ (from \ to)) \cup (to \ from)) \ Missing \in SUBSET (1 .. MaxMarks)
    BY <2>1 DEF Contents, Missing
  <2>3. Learned(a, known) = ((known \ (from \ to)) \cup (to \ from)) \ Missing
    BY <1>4 DEF Learned
  <2> HIDE DEF from, to
  <2> QED BY <2>2, <2>3 DEF Versions, Contents
<1> QED BY <1>2, <1>3, <1>4

LEMMA ReplaceOK ==
  ASSUME FilesAssumption, EditsInv, NEW a \in Agents, Replace(a)
  PROVE  EditsInv'
<1> DEFINE f == Target(a)
<1>t. /\ EditsTyped /\ LocksHeld /\ StillThere /\ call[a].at = "replacing" /\ f \in Files
      /\ call[a].content \in Contents
  BY TargetFile DEF EditsInv, Replace, EditsTyped, Calls
<1>1. /\ call' \in [Agents -> Calls] /\ \A b \in Agents : CallOK(call'[b])
      /\ call'[a].at \in {"idle", "asking"} /\ \A b \in Agents \ {a} : call'[b] = call[b]
  BY <1>t, OnwardOK DEF Replace, Made
<1>2. LocksHeld' /\ holder' \in [Files -> Agents \cup {Nobody}]
  BY <1>t, <1>1, LocksReleased DEF Replace, LeavesLock, Holds
<1>3. file' = [file EXCEPT ![f] = call[a].content] /\ UNCHANGED <<late, marks>>
  BY DEF Replace
<1>4. file' \in [Files -> Contents]
  BY <1>t, <1>3 DEF EditsTyped
<1>5. seen' \in [Agents -> [Files -> Versions]] /\ shown' \in [Agents -> [Files -> Versions]]
  <2>1. /\ seen' = [seen EXCEPT ![a] = [seen[a] EXCEPT ![f] = call[a].content]]
        /\ shown' = [shown EXCEPT ![a] = [shown[a] EXCEPT ![f] = Learned(a, shown[a][f])]]
    BY DEF Replace
  <2>2. /\ seen \in [Agents -> [Files -> Versions]] /\ shown \in [Agents -> [Files -> Versions]]
        /\ call[a].content \in Versions /\ Learned(a, shown[a][f]) \in Versions
    BY <1>t, LearnedOK DEF EditsTyped, Versions
  <2> HIDE DEF f
  <2>3. /\ [seen[a] EXCEPT ![f] = call[a].content] \in [Files -> Versions]
        /\ [shown[a] EXCEPT ![f] = Learned(a, shown[a][f])] \in [Files -> Versions]
    BY <2>2
  <2> QED BY <2>1, <2>2, <2>3
<1>6. StillThere'
  <2> SUFFICES ASSUME NEW b \in Agents, call'[b].at = "replacing"
               PROVE  file'[Head(call'[b].rest).file] \subseteq call'[b].expected \cup late' \cup Missing
    BY DEF StillThere, Target
  <2>1. b # a /\ call'[b] = call[b] /\ call[b].at = "replacing"
    BY <1>1
  <2>2. Target(b) # f
    BY <1>t, <2>1, LockExcludes DEF Holds
  <2>3. file'[Target(b)] = file[Target(b)]
    BY <1>t, <1>3, <2>2, <2>1, TargetFile DEF EditsTyped
  <2> QED BY <1>t, <1>3, <2>1, <2>3 DEF StillThere, Target
<1> QED BY <1>t, <1>1, <1>2, <1>3, <1>4, <1>5, <1>6 DEF EditsInv, EditsTyped

LEMMA OutsideOK ==
  ASSUME FilesAssumption, EditsInv, NEW f \in Files, Outside(f, Changed(f))
  PROVE  EditsInv'
<1>t. EditsTyped /\ LocksHeld /\ StillThere /\ file[f] \in Contents
  BY DEF EditsInv, EditsTyped
<1>1. Marked /\ UNCHANGED <<seen, shown, call, holder>> /\ file' = [file EXCEPT ![f] = Changed(f)]
      /\ late' = IF \E a \in Agents : call[a].at = "replacing" /\ Target(a) = f
                 THEN late \cup Fresh ELSE late
  BY DEF Outside, Marked
<1> DEFINE old == IF file[f] = Missing THEN {} ELSE file[f]
<1>2. old \in SUBSET (1 .. MaxMarks) /\ old \subseteq file[f]
  BY <1>t DEF Contents
<1>3. old \cup Fresh \in Contents /\ marks' \in 0 .. MaxMarks
  BY <1>t, <1>1, <1>2, FreshContents
<1>4. EditsTyped'
  BY <1>t, <1>1, <1>3 DEF EditsTyped, Changed
<1>5. LocksHeld'
  BY <1>t, <1>1 DEF LocksHeld, Target
<1>6. ASSUME NEW a \in Agents, call[a].at = "replacing"
      PROVE  file'[Target(a)] \subseteq call[a].expected \cup late' \cup Missing
  <2>1. Target(a) \in Files /\ file[Target(a)] \subseteq call[a].expected \cup late \cup Missing
    BY <1>t, <1>6, TargetFile DEF StillThere
  <2>2. late \subseteq late'
    BY <1>1
  <2>3. CASE Target(a) = f
    <3>1. Fresh \subseteq late'
      BY <1>1, <1>6, <2>3
    <3>2. file'[f] = old \cup Fresh
      BY <1>t, <1>1 DEF EditsTyped, Changed
    <3> HIDE DEF old
    <3> QED BY <1>2, <2>1, <2>2, <2>3, <3>1, <3>2
  <2>4. CASE Target(a) # f
    <3>1. file'[Target(a)] = file[Target(a)]
      BY <1>t, <1>1, <2>1, <2>4 DEF EditsTyped
    <3> QED BY <2>1, <2>2, <3>1
  <2> QED BY <2>3, <2>4
<1>7. StillThere'
  BY <1>1, <1>6 DEF StillThere, Target
<1> QED BY <1>4, <1>5, <1>7 DEF EditsInv

--------------------------------------------------------------------------------
(* The invariant.                                                              *)

LEMMA InitEdits == FilesAssumption /\ Init => EditsInv
<1> SUFFICES ASSUME FilesAssumption, Init PROVE EditsInv
  OBVIOUS
<1>1. CallOK(Idle) /\ Idle.at = "idle" /\ Idle \in Calls
  BY IdleOK DEF CallOK
<1>2. EditsTyped
  BY <1>1 DEF Init, EditsTyped, Contents, Versions, FilesAssumption
<1>3. LocksHeld /\ StillThere
  BY <1>1 DEF Init, LocksHeld, StillThere, FilesAssumption, Nobody
<1> QED BY <1>2, <1>3 DEF EditsInv

LEMMA NextEdits == FilesAssumption /\ EditsInv /\ [Next]_vars => EditsInv'
<1> SUFFICES ASSUME FilesAssumption, EditsInv, [Next]_vars PROVE EditsInv'
  OBVIOUS
<1>t. EditsTyped /\ LocksHeld /\ StillThere
  BY DEF EditsInv
<1>1. ASSUME NEW a \in Agents, Begins(a) \/ Planned(a) \/ Ask(a) \/ Refuse(a) \/ Cancel(a)
      PROVE  EditsInv'
  <2>1. /\ call' \in [Agents -> Calls] /\ \A b \in Agents : CallOK(call'[b])
        /\ ~Holds(call'[a]) /\ call'[a].at # "replacing" /\ \A b \in Agents \ {a} : call'[b] = call[b]
        /\ LeavesLock(a)
    BY <1>t, <1>1, BeginsOK, PlannedOK, AskOK, EndsOK DEF Holds, LeavesLock, Planned
  <2>2. seen' \in [Agents -> [Files -> Versions]] /\ marks' \in 0 .. MaxMarks
    BY <1>t, <1>1, BeginsOK, PlannedOK, AskOK DEF Planned, Refuse, Cancel, EditsTyped
  <2>3. UNCHANGED <<file, shown, late>>
    BY <1>t, <1>1, BeginsOK DEF Planned, Ask, Refuse, Cancel
  <2>4. LocksHeld' /\ holder' \in [Files -> Agents \cup {Nobody}]
    BY <1>t, <2>1, LocksReleased
  <2>5. StillThere'
    BY <1>t, <2>1, <2>3, StillKept
  <2> QED BY <1>t, <2>1, <2>2, <2>3, <2>4, <2>5 DEF EditsInv, EditsTyped
<1>2. ASSUME NEW a \in Agents, Lock(a) \/ Compare(a) \/ Replace(a) PROVE EditsInv'
  BY <1>2, LockOK, CompareOK, ReplaceOK
<1>3. ASSUME NEW a \in Agents, NEW f \in Files, Read(a, f) \/ Search(a, f) PROVE EditsInv'
  <2>1. seen' \in [Agents -> [Files -> Versions]] /\ UNCHANGED <<file, call, holder, late, marks>>
    BY <1>t, <1>3, ObserveOK DEF Read, Search
  <2>2. shown' \in [Agents -> [Files -> Versions]]
    <3>1. shown' = [shown EXCEPT ![a] = [shown[a] EXCEPT ![f] = file[f]]] \/ shown' = shown
      BY <1>3 DEF Read, Search
    <3>2. shown \in [Agents -> [Files -> Versions]] /\ file[f] \in Versions
      BY <1>t DEF EditsTyped, Versions
    <3>3. [shown[a] EXCEPT ![f] = file[f]] \in [Files -> Versions]
      BY <3>2
    <3> QED BY <3>1, <3>2, <3>3
  <2> QED BY <1>t, <2>1, <2>2 DEF EditsInv, EditsTyped, LocksHeld, StillThere, Target
<1>4. ASSUME NEW f \in Files, Outside(f, Changed(f)) PROVE EditsInv'
  BY <1>4, OutsideOK
<1>5. CASE UNCHANGED vars
  BY <1>t, <1>5 DEF vars, EditsInv, EditsTyped, LocksHeld, StillThere, Target
<1> QED BY <1>1, <1>2, <1>3, <1>4, <1>5 DEF Next, Begins

LEMMA EditsAlways == ASSUME FilesAssumption PROVE Spec => []EditsInv
<1> QED BY InitEdits, NextEdits, PTL DEF Spec

(* The lock of a file is held by the one whose write of it is under way, and by
   nobody when that has ended in whichever way: replaced, refused, out of date or
   cancelled; of any agents, files and calls.  *)
THEOREM LocksAreHeld == ASSUME FilesAssumption PROVE Spec => []FilesSafe
<1>1. EditsInv => FilesSafe
  <2> SUFFICES ASSUME EditsInv PROVE TypeOK /\ LocksHeld
    BY DEF FilesSafe
  <2>1. ASSUME NEW a \in Agents
        PROVE  call[a].at \in Ats /\ call[a].kind \in Kinds /\ Len(call[a].rest) < 3
    <3>1. CallOK(call[a])
      BY DEF EditsInv, EditsTyped
    <3>2. call[a].at \in Ats /\ call[a].kind \in Kinds
      BY <3>1 DEF CallOK, Calls
    <3>3. Len(call[a].rest) < 3
      BY <3>1, Lengths
    <3> QED BY <3>2, <3>3
  <2> QED BY <2>1 DEF EditsInv, EditsTyped, TypeOK, Versions
<1> QED BY <1>1, EditsAlways, PTL

(* What a replacement drops from a file was in the version that its edit was made
   from and put up for approval, or came from outside after the last comparison:
   of any agents of any processes, which read, search, edit and rename at once.  *)
THEOREM EditsLoseNothing == ASSUME FilesAssumption PROVE Spec => NothingLost
<1>1. EditsInv /\ [Next]_vars => DropsKnown
  <2> SUFFICES ASSUME EditsInv, NEW a \in Agents, Replaces(a)
               PROVE  Lost(a) \subseteq call[a].expected \cup late
    BY DEF DropsKnown, DropsWhatItKnew
  <2>1. file[Target(a)] \subseteq call[a].expected \cup late \cup Missing
    BY DEF EditsInv, StillThere, Replaces
  <2> QED BY <2>1 DEF Lost
<1> QED BY <1>1, EditsAlways, PTL DEF Spec, NothingLost
================================================================================
