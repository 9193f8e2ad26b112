--------------------------- MODULE ToolRecoveryProofs ---------------------------
(***************************************************************************)
(* Proofs about ToolRecovery for any calls and any bounds: what a journal  *)
(* tells the turn that recovers from it, and that no call has an effect    *)
(* while an earlier turn left an outcome unknown, or while the harness     *)
(* can know of a missing one.                                              *)
(***************************************************************************)
EXTENDS ToolRecovery, TLAPS

InTurn   == {"ready", "asked", "prepared", "looked", "running", "returned", "citing", "commit"}
Handling == InTurn \ {"ready"}

(* Where the turn is, which journal the session points to, which call it has. *)
Control ==
  /\ saved <= pointer
  /\ pc # "idle" => turn \in Turns
  /\ pc \in InTurn => pointer = turn /\ saved = turn
  /\ pc \in {"recover", "checkpoint"} => pointer < turn
  /\ pc \in Handling => call \in started /\ since[call] = turn

(* Calls start in a turn whose journal the session file points to. *)
Born ==
  /\ \A c \in started : since[c] \in Turns /\ since[c] <= saved
  /\ \A c \in Calls : watched[c] # "no" => c \in started

(* The journal of a turn that has not recovered is empty. *)
Fresh == \A t \in Turns : t > turn \/ (t = turn /\ pc = "recover") => journal[t] = Blank

(* Known outcomes. *)
Known ==
  /\ pc = "returned" /\ outcome = "definite" => call \in closed
  /\ \A t \in Turns : journal[t].finished \subseteq closed

Old == {c \in Dangling : since[c] < turn}

(* During a turn the old unknown calls are among the unresolved ones; a call
   waits for its approval, and a file for its replacement, only when there are
   none.  *)
OldBlocked ==
  /\ pc # "idle" => Old \subseteq Covered(unresolved)
  /\ pc = "checkpoint" => Dangling \subseteq Told(turn)
  /\ pc \in {"asked", "prepared", "looked"} => Old = {}

(* The inductive invariant. *)
RecoveryInv ==
  TypeOK /\ Control /\ Born /\ Fresh /\ Known /\ RecoveryKnows /\ OldBlocked

--------------------------------------------------------------------------------
(* The records of a journal are journals. *)

LEMMA RecordsTyped ==
  ASSUME NEW j \in Journals
  PROVE  /\ \A S \in SUBSET Ops : Pending(j, S) \in Journals
         /\ \A c \in Ops : Started(j, c) \in Journals /\ Reconciled(j, c) \in Journals
         /\ \A c \in Calls : Completed(j, c) \in Journals
         /\ \A c \in Ops : \A how : Settled(j, c, how) \in Journals
<1>1. ASSUME NEW S \in SUBSET Ops PROVE Pending(j, S) \in Journals
  BY DEF Journals, Pending
<1>2. ASSUME NEW c \in Ops PROVE Started(j, c) \in Journals /\ Reconciled(j, c) \in Journals
  BY DEF Journals, Started, Reconciled
<1>3. ASSUME NEW c \in Calls PROVE Completed(j, c) \in Journals
  BY DEF Journals, Completed, Ops
<1>4. ASSUME NEW c \in Ops, NEW how PROVE Settled(j, c, how) \in Journals
  BY DEF Journals, Settled
<1> QED BY <1>1, <1>2, <1>3, <1>4

LEMMA LineTyped ==
  ASSUME NEW j \in Journals, NEW new \in Journals
  PROVE  Line(j, new) \in Journals /\ Tear(j) \in Journals
BY DEF Journals, Line, Tear

(* An append leaves journals, and only the one appended to changes. *)
LEMMA AppendTyped ==
  ASSUME journal \in [Turns -> Journals], NEW t \in Turns, NEW new \in Journals,
         Append(t, new) \/ AppendFails(t, new), failures \in Nat
  PROVE  journal' \in [Turns -> Journals] /\ failures' \in Nat
<1>1. /\ Line(journal[t], new) \in Journals /\ Tear(journal[t]) \in Journals
      /\ Tear(Line(journal[t], new)) \in Journals
  BY LineTyped
<1> HIDE DEF Journals
<1> QED BY <1>1 DEF Append, AppendFails

LEMMA InitRecovery == Init => RecoveryInv
<1> SUFFICES ASSUME Init PROVE RecoveryInv
  OBVIOUS
<1>1. Blank \in Journals
  BY DEF Blank, Journals
<1>2. TypeOK
  <2>1. claim \in Observations
    BY DEF Init, None, Observations
  <2>2. journal \in [Turns -> Journals]
    BY <1>1 DEF Init
  <2> QED BY <2>1, <2>2, LimitsAssumption DEF Init, TypeOK, PCs, Ops
<1>3. Control /\ Born /\ Fresh /\ Known /\ RecoveryKnows /\ OldBlocked
  BY DEF Init, Control, Born, Fresh, Known, RecoveryKnows, OldBlocked, Dangling, InTurn, Handling, Blank
<1> QED BY <1>2, <1>3 DEF RecoveryInv

--------------------------------------------------------------------------------
(* Types. *)

(* The record a step appends is a journal, whatever the step. *)
LEMMA JournalsStay ==
  ASSUME TypeOK, Control, Born, [Next]_vars
  PROVE  journal' \in [Turns -> Journals] /\ failures' \in Nat
<1> USE DEF TypeOK
<1>t. /\ unresolved \in SUBSET Ops
      /\ \A c \in Calls : c \in Ops
      /\ pc \in Handling => call \in Calls
      /\ \A t \in Turns : journal[t] \in Journals
  BY DEF Ops, Control
<1>p. pc # "idle" => turn \in Turns
  BY DEF Control
<1> HIDE DEF TypeOK
<1>j. journal \in [Turns -> Journals] /\ failures \in Nat
  BY DEF TypeOK
<1>1. CASE Recover
  BY <1>1, <1>t, <1>p, <1>j, AppendTyped, RecordsTyped DEF Recover
<1>2. ASSUME NEW c \in Calls, Dispatch(c) \/ Refuse(c)
      PROVE  journal' \in [Turns -> Journals] /\ failures' \in Nat
  BY <1>2, <1>t, <1>p, <1>j, AppendTyped, RecordsTyped DEF Dispatch, Refuse
<1>3. CASE Settle
  BY <1>3, <1>t, <1>p, <1>j, AppendTyped, RecordsTyped DEF Settle, Handling, InTurn
<1>4. ASSUME NEW c \in Calls, Exit(c)
      PROVE  journal' \in [Turns -> Journals] /\ failures' \in Nat
  <2>1. since[c] \in Turns
    BY <1>4 DEF Exit, Born
  <2> QED BY <1>4, <2>1, <1>t, <1>j, AppendTyped, RecordsTyped DEF Exit
<1>5. CASE Observe \/ Act \/ Finish
  <2>1. turn \in Turns /\ journal[turn] \in Journals
    BY <1>5, <1>t, <1>p DEF Observe, Act, Finish
  <2> QED BY <1>5, <2>1, <1>j, AppendTyped DEF Observe, Act, Finish
<1>6. ASSUME NEW d \in Status, NEW c \in unresolved, NEW o \in observed, Cite(d, c, o)
      PROVE  journal' \in [Turns -> Journals] /\ failures' \in Nat
  BY <1>6, <1>t, <1>p, <1>j, AppendTyped, RecordsTyped, CallsAssumption DEF Cite
<1>7. CASE Reconcile \/ ReconcileFails
  BY <1>7, <1>t, <1>p, <1>j, AppendTyped, RecordsTyped DEF Reconcile, ReconcileFails
<1>8. CASE Checkpoint
  BY <1>8, <1>j DEF Checkpoint
<1>9. CASE \/ StartTurn \/ EndTurn \/ Abandon \/ Denied \/ Look \/ Replace \/ Answer \/ Superseded
           \/ Crash \/ UNCHANGED vars
           \/ \E c \in Calls : Report(c)
  BY <1>9, <1>j
  DEF StartTurn, EndTurn, Abandon, Denied, Look, Replace, Answer, Superseded, Crash, Report, vars, disk, bounds
<1> QED
  BY <1>1, <1>2, <1>3, <1>4, <1>5, <1>6, <1>7, <1>8, <1>9 DEF Next, Turn, StatusTool

LEMMA ScopeStays ==
  ASSUME TypeOK, Control, [Next]_vars
  PROVE  /\ unresolved' \subseteq Ops /\ revision' \in Nat /\ observed' \subseteq Observations
         /\ claim' \in Observations /\ target' \in Ops \cup {NoCall}
<1> USE DEF TypeOK
<1>1. CASE StartTurn
  <2>1. pointer # 0 => pointer \in Turns
    BY <1>1, LimitsAssumption DEF StartTurn, Turns
  <2>2. Interrupted(pointer) \subseteq Ops
    <3>1. CASE pointer = 0
      BY <3>1 DEF Interrupted
    <3>2. CASE pointer # 0
      <4>1. journal[pointer].pending \subseteq Ops /\ {pointer} \subseteq Ops
        BY <2>1, <3>2 DEF Journals, Ops
      <4> QED BY <3>2, <4>1 DEF Interrupted
    <3> QED BY <3>1, <3>2
  <2> QED BY <1>1, <2>2 DEF StartTurn, cited
<1>2. CASE Settle
  <2>1. call \in Ops
    BY <1>2 DEF Settle, Control, Handling, InTurn, Ops
  <2> QED BY <1>2, <2>1 DEF Settle, MarkUnknown, cited
<1>3. ASSUME NEW c \in Calls, Report(c) \/ Refuse(c)
      PROVE  /\ unresolved' \subseteq Ops /\ revision' \in Nat /\ observed' \subseteq Observations
             /\ claim' \in Observations /\ target' \in Ops \cup {NoCall}
  BY <1>3 DEF Report, Refuse, MarkUnknown, cited, Ops
<1>4. CASE Observe
  <2>1. [revision |-> revision, known |-> unresolved] \in Observations
    BY DEF Observations
  <2> QED BY <1>4, <2>1 DEF Observe, cited
<1>5. CASE Reconcile
  BY <1>5 DEF Reconcile, cited
<1>6. ASSUME NEW d \in Status, NEW c \in unresolved, NEW o \in observed, Cite(d, c, o)
      PROVE  /\ unresolved' \subseteq Ops /\ revision' \in Nat /\ observed' \subseteq Observations
             /\ claim' \in Observations /\ target' \in Ops \cup {NoCall}
  BY <1>6 DEF Cite, scope
<1>7. CASE Crash
  BY <1>7 DEF Crash, cited
<1>8. CASE \/ Recover \/ Checkpoint \/ EndTurn \/ Abandon \/ Denied \/ Act \/ Look \/ Replace \/ Finish
           \/ Answer \/ Superseded \/ ReconcileFails \/ UNCHANGED vars
           \/ \E c \in Calls : Dispatch(c) \/ Exit(c)
  BY <1>8
  DEF Recover, Checkpoint, EndTurn, Abandon, Denied, Act, Look, Replace, Finish, Answer, Superseded, ReconcileFails,
      vars, Dispatch, Exit, scope, cited
<1> QED
  BY <1>1, <1>2, <1>3, <1>4, <1>5, <1>6, <1>7, <1>8 DEF Next, Turn, StatusTool

(* The calls: their history, their watchers, and the thread that executes one. *)
LEMMA CallsStay ==
  ASSUME TypeOK, Control, [Next]_vars
  PROVE  /\ pc' \in PCs /\ call' \in Calls \cup {NoCall} /\ outcome' \in {"definite", "unknown", "running"}
         /\ watched' \in [Calls -> {"no", "running", "failed"}]
         /\ started' \subseteq Calls /\ since' \in [Calls -> 0..turn']
         /\ acted' \subseteq Calls /\ closed' \subseteq Calls /\ agreed' \subseteq Calls
         /\ turn' \in 0..MaxTurns /\ pointer' \in 0..turn' /\ saved' \in 0..turn' /\ crashes' \in Nat
<1> USE DEF TypeOK
<1>c. pc \in Handling => call \in Calls
  BY DEF Control
<1>s. \A c \in Calls : c \in Ops
  BY DEF Ops
<1>n. turn \in Nat /\ MaxTurns \in Nat
  BY LimitsAssumption
<1>1. CASE StartTurn
  BY <1>1, <1>n DEF StartTurn, PCs, disk, bounds, history, cited
<1>2. CASE Recover \/ Checkpoint \/ EndTurn \/ Abandon \/ Crash
  BY <1>2, <1>n DEF Recover, Checkpoint, EndTurn, Abandon, Crash, PCs, disk, bounds, history, scope, cited
<1>3. ASSUME NEW c \in Calls, Dispatch(c)
      PROVE  /\ pc' \in PCs /\ call' \in Calls \cup {NoCall} /\ outcome' \in {"definite", "unknown", "running"}
             /\ watched' \in [Calls -> {"no", "running", "failed"}]
             /\ started' \subseteq Calls /\ since' \in [Calls -> 0..turn']
             /\ acted' \subseteq Calls /\ closed' \subseteq Calls /\ agreed' \subseteq Calls
             /\ turn' \in 0..MaxTurns /\ pointer' \in 0..turn' /\ saved' \in 0..turn' /\ crashes' \in Nat
  BY <1>3, <1>n, <1>s DEF Dispatch, Begin, PCs, scope, cited
<1>4. ASSUME NEW d \in Status, NEW c \in unresolved, NEW o \in observed, Cite(d, c, o)
      PROVE  /\ pc' \in PCs /\ call' \in Calls \cup {NoCall} /\ outcome' \in {"definite", "unknown", "running"}
             /\ watched' \in [Calls -> {"no", "running", "failed"}]
             /\ started' \subseteq Calls /\ since' \in [Calls -> 0..turn']
             /\ acted' \subseteq Calls /\ closed' \subseteq Calls /\ agreed' \subseteq Calls
             /\ turn' \in 0..MaxTurns /\ pointer' \in 0..turn' /\ saved' \in 0..turn' /\ crashes' \in Nat
  BY <1>4, <1>n, <1>s, CallsAssumption DEF Cite, Begin, PCs, scope
<1>5. CASE Denied \/ Act \/ Look \/ Replace \/ Superseded \/ Answer
  <2>1. call \in Calls
    BY <1>5, <1>c DEF Denied, Act, Look, Replace, Superseded, Answer, Handling, InTurn
  <2> QED BY <1>5, <2>1, <1>n
      DEF Denied, Act, Look, Replace, Superseded, Answer, Return, PCs, disk, bounds, scope, cited
<1>6. CASE Finish
  <2>1. call \in Calls
    BY <1>6, <1>c DEF Finish, Handling, InTurn
  <2> QED BY <1>6, <2>1, <1>n DEF Finish, Return, PCs, disk, bounds, scope, cited
<1>7. CASE Reconcile \/ ReconcileFails
  <2>1. call \in Calls /\ Covered({target}) \subseteq Calls
    BY <1>7, <1>c DEF Reconcile, ReconcileFails, Handling, InTurn, Covered
  <2>2. CASE Reconcile
    BY <2>1, <2>2, <1>n DEF Reconcile, Agree, PCs, cited
  <2>3. CASE ReconcileFails
    BY <2>1, <2>3, <1>n DEF ReconcileFails, PCs, scope, cited
  <2> QED BY <1>7, <2>2, <2>3
<1>8. ASSUME NEW c \in Calls, Exit(c) \/ Report(c)
      PROVE  /\ pc' \in PCs /\ call' \in Calls \cup {NoCall} /\ outcome' \in {"definite", "unknown", "running"}
             /\ watched' \in [Calls -> {"no", "running", "failed"}]
             /\ started' \subseteq Calls /\ since' \in [Calls -> 0..turn']
             /\ acted' \subseteq Calls /\ closed' \subseteq Calls /\ agreed' \subseteq Calls
             /\ turn' \in 0..MaxTurns /\ pointer' \in 0..turn' /\ saved' \in 0..turn' /\ crashes' \in Nat
  BY <1>8, <1>n DEF Exit, Report, thread, scope, cited, disk, bounds, history
<1>9. CASE Settle \/ Observe \/ UNCHANGED vars \/ \E c \in Calls : Refuse(c)
  BY <1>9, <1>n DEF Settle, Observe, Refuse, PCs, vars, thread, scope, cited, disk, bounds, history
<1> QED
  BY <1>1, <1>2, <1>3, <1>4, <1>5, <1>6, <1>7, <1>8, <1>9 DEF Next, Turn, StatusTool

LEMMA NextTyped == RecoveryInv /\ [Next]_vars => TypeOK'
BY JournalsStay, ScopeStays, CallsStay DEF RecoveryInv, TypeOK

--------------------------------------------------------------------------------
(* The course of a turn. *)

LEMMA NextControl == RecoveryInv /\ [Next]_vars => Control' /\ Born'
<1> SUFFICES ASSUME RecoveryInv, [Next]_vars PROVE Control' /\ Born'
  OBVIOUS
<1> USE DEF RecoveryInv, Control, Born, InTurn, Handling
<1>t. /\ turn \in Nat /\ MaxTurns \in Nat /\ Turns = 1..MaxTurns
      /\ pointer \in Nat /\ saved \in Nat /\ pointer <= turn
      /\ since \in [Calls -> 0..turn] /\ watched \in [Calls -> {"no", "running", "failed"}]
      /\ started \subseteq Calls
  BY LimitsAssumption DEF TypeOK, Turns
<1>1. CASE StartTurn
  BY <1>1, <1>t DEF StartTurn, disk, history
<1>2. CASE Recover \/ Checkpoint \/ EndTurn \/ Abandon \/ Crash
  BY <1>2, <1>t DEF Recover, Checkpoint, EndTurn, Abandon, Crash, disk, history
<1>3. ASSUME NEW c \in Calls, Dispatch(c) PROVE Control' /\ Born'
  BY <1>3, <1>t DEF Dispatch, Begin
<1>4. ASSUME NEW d \in Status, NEW c \in unresolved, NEW o \in observed, Cite(d, c, o)
      PROVE  Control' /\ Born'
  BY <1>4, <1>t, CallsAssumption DEF Cite, Begin
<1>5. CASE Denied \/ Act \/ Look \/ Replace \/ Superseded \/ Answer \/ Reconcile \/ ReconcileFails \/ Settle \/ Observe
  BY <1>5, <1>t
  DEF Denied, Act, Look, Replace, Superseded, Answer, Reconcile, ReconcileFails, Settle, Observe, Return, disk, thread,
      history
<1>6. CASE Finish
  BY <1>6, <1>t DEF Finish, Return, disk
<1>7. ASSUME NEW c \in Calls, Exit(c) \/ Report(c) \/ Refuse(c) PROVE Control' /\ Born'
  BY <1>7, <1>t DEF Exit, Report, Refuse, thread, disk, history
<1>8. CASE UNCHANGED vars
  BY <1>8 DEF vars, thread, disk, history
<1> QED
  BY <1>1, <1>2, <1>3, <1>4, <1>5, <1>6, <1>7, <1>8 DEF Next, Turn, StatusTool

(* An append touches the journal of one turn; every other stays. *)
LEMMA OthersStay ==
  ASSUME NEW t \in Turns, NEW new, Append(t, new) \/ AppendFails(t, new),
         journal \in [Turns -> Journals]
  PROVE  \A p \in Turns \ {t} : journal'[p] = journal[p]
BY DEF Append, AppendFails

(* The journal appended to: as it was, or with the record, or damaged. *)
LEMMA Appended ==
  ASSUME NEW t \in Turns, NEW new \in Journals, Append(t, new) \/ AppendFails(t, new),
         journal \in [Turns -> Journals], new.tail = journal[t].tail
  PROVE  /\ \/ /\ journal'[t].pending = journal[t].pending
               /\ journal'[t].finished = journal[t].finished
            \/ /\ journal'[t].pending = new.pending
               /\ journal'[t].finished = new.finished
         /\ journal[t].tail = "corrupt" => journal'[t].tail = "corrupt"
<1> DEFINE j == journal[t]
<1>1. j \in Journals
  OBVIOUS
<1>2. \A k \in {j, new} : /\ Tear(k).pending = k.pending /\ Tear(k).finished = k.finished
                          /\ k.tail = "corrupt" => Tear(k).tail = "corrupt"
  BY <1>1 DEF Tear, Journals
<1>3. \/ Line(j, new) = new
      \/ /\ Line(j, new).pending = j.pending /\ Line(j, new).finished = j.finished
         /\ Line(j, new).tail = "corrupt" /\ Line(j, new) \in Journals
  BY <1>1 DEF Line, Journals
<1>4. /\ \/ Tear(Line(j, new)).pending = j.pending /\ Tear(Line(j, new)).finished = j.finished
         \/ Tear(Line(j, new)).pending = new.pending /\ Tear(Line(j, new)).finished = new.finished
      /\ j.tail = "corrupt" => Tear(Line(j, new)).tail = "corrupt"
  <2>1. CASE Line(j, new) = new
    BY <1>2, <2>1
  <2>2. CASE /\ Line(j, new).pending = j.pending /\ Line(j, new).finished = j.finished
             /\ Line(j, new).tail = "corrupt" /\ Line(j, new) \in Journals
    <3> DEFINE k == Line(j, new)
    <3>1. Tear(k).pending = k.pending /\ Tear(k).finished = k.finished /\ Tear(k).tail = "corrupt"
      BY <2>2 DEF Tear, Journals
    <3> QED BY <2>2, <3>1
  <2> QED BY <1>3, <2>1, <2>2
<1>5. journal'[t] \in {j, Tear(j), Line(j, new), Tear(Line(j, new))}
  BY DEF Append, AppendFails
<1> QED BY <1>2, <1>3, <1>4, <1>5

(* What each record says to interrupted_calls. *)
LEMMA RecordsSay ==
  ASSUME NEW j \in Journals
  PROVE  /\ \A S \in SUBSET Ops : /\ Pending(j, S).pending = j.pending \cup S
                                /\ Pending(j, S).finished = j.finished /\ Pending(j, S).tail = j.tail
         /\ \A c \in Ops : /\ Started(j, c).pending = j.pending \cup {c}
                          /\ Started(j, c).finished = j.finished /\ Started(j, c).tail = j.tail
                          /\ Reconciled(j, c).pending = j.pending \ {c}
                          /\ Reconciled(j, c).finished = j.finished /\ Reconciled(j, c).tail = j.tail
         /\ \A c \in Calls : /\ Completed(j, c).pending = j.pending \ {c}
                            /\ Completed(j, c).finished = j.finished \cup {c}
                            /\ Completed(j, c).tail = j.tail
         /\ \A c \in Ops : \A how :
              /\ Settled(j, c, how).finished = j.finished /\ Settled(j, c, how).tail = j.tail
              /\ j.pending \ {c} \subseteq Settled(j, c, how).pending
              /\ ~(how = "definite" \/ (how = "running" /\ c \in j.finished))
                   => Settled(j, c, how).pending = j.pending
BY DEF Journals, Pending, Started, Reconciled, Completed, Settled

(* What every append keeps: the other journals, corruption, and no more is
   finished than the record says.  *)
LEMMA Kept ==
  ASSUME TypeOK, NEW t \in Turns, NEW new \in Journals, new.tail = journal[t].tail,
         Append(t, new) \/ AppendFails(t, new)
  PROVE  /\ \A q \in Turns \ {t} : journal'[q] = journal[q]
         /\ journal[t].tail = "corrupt" => journal'[t].tail = "corrupt"
         /\ \/ journal'[t].pending = journal[t].pending /\ journal'[t].finished = journal[t].finished
            \/ journal'[t].pending = new.pending /\ journal'[t].finished = new.finished
<1>1. journal \in [Turns -> Journals]
  BY DEF TypeOK
<1> QED BY <1>1, OthersStay, Appended

(* A journal that still has pending what it had tells as much as before. *)
LEMMA ToldKept ==
  ASSUME TypeOK, NEW t \in Turns, NEW p \in Turns, NEW D \in SUBSET Calls,
         \A q \in Turns \ {t} : journal'[q] = journal[q],
         journal[t].tail = "corrupt" => journal'[t].tail = "corrupt",
         D \subseteq Told(p), D \subseteq started',
         \A d \in D : since'[d] = since[d] /\ since[d] <= p,
         D \cap Covered(journal[t].pending) \subseteq Covered(journal[t].pending)'
  PROVE  D \subseteq Told(p)'
<1>0. p # 0
  BY LimitsAssumption DEF Turns
<1>1. SUFFICES ASSUME NEW d \in D PROVE d \in Told(p)'
  OBVIOUS
<1>2. CASE journal'[p].tail = "corrupt"
  BY <1>0, <1>2 DEF Told, Interrupted, Covered
<1>3. CASE journal'[p].tail # "corrupt"
  <2>1. journal[p].tail # "corrupt"
    BY <1>3
  <2>2. d \in Covered(journal[p].pending)
    BY <1>0, <2>1 DEF Told, Interrupted
  <2>3. d \in Covered(journal[p].pending)'
    <3>1. CASE p = t
      BY <2>2, <3>1
    <3>2. CASE p # t
      BY <2>2, <3>2 DEF Covered
    <3> QED BY <3>1, <3>2
  <2> QED BY <1>0, <1>3, <2>3 DEF Told, Interrupted
<1> QED BY <1>2, <1>3

(* The same for both pointers of the session. *)
LEMMA KnowsKept ==
  ASSUME RecoveryInv, NEW t \in Turns,
         \A q \in Turns \ {t} : journal'[q] = journal[q],
         journal[t].tail = "corrupt" => journal'[t].tail = "corrupt",
         UNCHANGED <<pointer, saved, started, since>>, closed \subseteq closed',
         Dangling' \cap Covered(journal[t].pending) \subseteq Covered(journal[t].pending)'
  PROVE  RecoveryKnows'
<1>1. Dangling' \subseteq Dangling /\ Dangling' \in SUBSET Calls /\ Dangling' \subseteq started'
  BY DEF Dangling, RecoveryInv, TypeOK
<1>2. \A d \in Dangling' : since'[d] = since[d] /\ since[d] <= saved /\ since[d] <= pointer
  BY <1>1, LimitsAssumption DEF RecoveryInv, Born, Control, Dangling, TypeOK
<1>3. CASE Dangling' = {}
  BY <1>3 DEF RecoveryKnows
<1>4. CASE Dangling' # {}
  <2>1. saved \in Turns /\ pointer \in Turns
    BY <1>1, <1>4, LimitsAssumption DEF RecoveryInv, Born, Control, Dangling, TypeOK, Turns
  <2>2. Dangling' \subseteq Told(saved) /\ Dangling' \subseteq Told(pointer) /\ TypeOK
    BY <1>1 DEF RecoveryInv, RecoveryKnows
  <2>3. \A p \in {saved, pointer} : Dangling' \subseteq Told(p)'
    BY <1>1, <1>2, <2>1, <2>2, ToldKept
  <2>4. saved' = saved /\ pointer' = pointer
    OBVIOUS
  <2> QED BY <2>3, <2>4 DEF RecoveryKnows
<1> QED BY <1>3, <1>4

--------------------------------------------------------------------------------
(* The journals: a turn appends to its own, a watcher to the one its process
   was started under.  *)

LEMMA TurnAppends ==
  ASSUME RecoveryInv, NEW t \in Turns, NEW new \in Journals, new.tail = journal[t].tail,
         Append(t, new) \/ AppendFails(t, new),
         new.finished = journal[t].finished, closed \subseteq closed'
  PROVE  \A q \in Turns : journal'[q].finished \subseteq closed'
<1>1. TypeOK /\ \A q \in Turns : journal[q].finished \subseteq closed
  BY DEF RecoveryInv, Known
<1>2. \A q \in Turns : journal'[q].finished = journal[q].finished
  BY <1>1, Kept
<1> QED BY <1>1, <1>2

LEMMA ClosedGrows ==
  ASSUME RecoveryInv, [Next]_vars
  PROVE  closed \subseteq closed'
BY DEF Next, Turn, StatusTool, StartTurn, Recover, Checkpoint, EndTurn, Abandon, Denied, Act, Look,
      Replace, Finish,
  Settle, Dispatch, Refuse, Observe, Answer, Reconcile, Superseded, ReconcileFails, Cite, Exit, Report,
  Crash, Return, Agree, vars, history

(* What the watcher of a process appends is finished only when it is closed. *)
LEMMA ExitAppends ==
  ASSUME RecoveryInv, NEW c \in Calls, Exit(c)
  PROVE  /\ since[c] \in Turns /\ since[c] <= saved /\ c \in started
         /\ \E new \in {journal[since[c]], Completed(journal[since[c]], c)} :
              /\ new \in Journals /\ new.tail = journal[since[c]].tail
              /\ Append(since[c], new) \/ AppendFails(since[c], new)
         /\ c \in journal'[since[c]].finished => c \in closed'
         /\ c \in closed' => closed' = closed \cup {c}
         /\ c \notin closed' => closed' = closed
<1>1. c \in started /\ since[c] \in Turns /\ since[c] <= saved
  BY DEF Exit, RecoveryInv, Born
<1>2. journal[since[c]] \in Journals
  BY <1>1 DEF RecoveryInv, TypeOK
<1>3. Completed(journal[since[c]], c) \in Journals
  BY <1>2, RecordsTyped
<1>4. Completed(journal[since[c]], c).tail = journal[since[c]].tail
  BY <1>2, RecordsSay
<1> QED BY <1>1, <1>2, <1>3, <1>4 DEF Exit

LEMMA NextKnown == RecoveryInv /\ [Next]_vars => Known'
<1> SUFFICES ASSUME RecoveryInv, [Next]_vars PROVE Known'
  OBVIOUS
<1>k. closed \subseteq closed' /\ Known /\ TypeOK /\ Control
  BY ClosedGrows DEF RecoveryInv
<1>1. pc' = "returned" /\ outcome' = "definite" => call' \in closed'
  BY <1>k DEF Known, Next, Turn, StatusTool, StartTurn, Recover, Checkpoint, EndTurn, Abandon, Denied,
    Act, Look, Replace, Finish, Settle, Dispatch, Begin, Refuse, Observe, Answer, Reconcile, Superseded, ReconcileFails,
    Cite, Exit, Report, Crash, Return, Agree, vars, history, thread
<1>2. \A q \in Turns : journal'[q].finished \subseteq closed'
  <2>t. /\ unresolved \in SUBSET Ops
        /\ \A c \in Calls : c \in Ops
        /\ pc \in Handling => call \in Ops
        /\ pc # "idle" => turn \in Turns /\ journal[turn] \in Journals
    BY <1>k DEF TypeOK, Control, Ops
  <2>r. ASSUME pc # "idle",
               NEW new \in {journal[turn], Pending(journal[turn], unresolved)}
                    \cup {Started(journal[turn], c) : c \in Calls}
                    \cup {Settled(journal[turn], c, how) :
                             c \in Ops, how \in {"definite", "unknown", "running"}}
                    \cup {Reconciled(journal[turn], o) : o \in Ops},
               Append(turn, new) \/ AppendFails(turn, new)
        PROVE  \A q \in Turns : journal'[q].finished \subseteq closed'
    <3>1. new \in Journals
      BY <2>r, <2>t, RecordsTyped
    <3>2. new.tail = journal[turn].tail /\ new.finished = journal[turn].finished
      BY <2>r, <2>t, RecordsSay
    <3> QED BY <2>r, <2>t, <3>1, <3>2, <1>k, TurnAppends
  <2>1. CASE Recover
    BY <2>1, <2>r DEF Recover
  <2>2. ASSUME NEW c \in Calls, Dispatch(c) \/ Refuse(c)
        PROVE  \A q \in Turns : journal'[q].finished \subseteq closed'
    BY <2>2, <2>r, <2>t DEF Dispatch, Refuse
  <2>3. CASE Settle
    BY <2>3, <2>r, <2>t, <1>k DEF Settle, TypeOK, Handling, InTurn
  <2>4. CASE Observe \/ Act
    <3>1. CASE UNCHANGED journal
      BY <3>1, <1>k DEF Known
    <3>2. CASE Append(turn, journal[turn]) \/ AppendFails(turn, journal[turn])
      BY <2>4, <3>2, <2>r DEF Observe, Act
    <3> QED BY <2>4, <3>1, <3>2 DEF Observe, Act
  <2>9. CASE Finish
    <3>1. CASE UNCHANGED journal
      BY <3>1, <1>k DEF Known
    <3>2. CASE Append(turn, journal[turn]) \/ AppendFails(turn, journal[turn])
      BY <2>9, <3>2, <2>r DEF Finish
    <3> QED BY <2>9, <3>1, <3>2 DEF Finish
  <2>5. ASSUME NEW d \in Status, NEW c \in unresolved, NEW o \in observed, Cite(d, c, o)
        PROVE  \A q \in Turns : journal'[q].finished \subseteq closed'
    BY <2>5, <2>r, CallsAssumption DEF Cite
  <2>6. CASE Reconcile \/ ReconcileFails
    BY <2>6, <2>r, <2>t DEF Reconcile, ReconcileFails
  <2>7. ASSUME NEW c \in Calls, Exit(c)
        PROVE  \A q \in Turns : journal'[q].finished \subseteq closed'
    <3>1. PICK new \in {journal[since[c]], Completed(journal[since[c]], c)} :
              /\ new \in Journals /\ new.tail = journal[since[c]].tail
              /\ Append(since[c], new) \/ AppendFails(since[c], new)
      BY <2>7, ExitAppends
    <3>2. since[c] \in Turns /\ (c \in journal'[since[c]].finished => c \in closed')
      BY <2>7, ExitAppends
    <3>3. journal[since[c]] \in Journals
      BY <3>2, <1>k DEF TypeOK
    <3>4. new.finished \subseteq journal[since[c]].finished \cup {c}
      BY <3>1, <3>3, RecordsSay
    <3> DEFINE t == since[c]
    <3>k. /\ \A q \in Turns \ {t} : journal'[q] = journal[q]
          /\ journal'[t].finished = journal[t].finished \/ journal'[t].finished = new.finished
      <4> t \in Turns
        BY <3>2
      <4> HIDE DEF t
      <4> QED BY <3>1, <1>k, Kept DEF t
    <3>5. journal'[t].finished \subseteq closed'
      BY <3>2, <3>4, <3>k, <1>k DEF Known
    <3>6. \A q \in Turns \ {t} : journal'[q].finished \subseteq closed'
      BY <3>k, <1>k DEF Known
    <3> HIDE DEF t
    <3> QED BY <3>5, <3>6
  <2>8. CASE \/ StartTurn \/ EndTurn \/ Abandon \/ Denied \/ Look \/ Replace \/ Answer \/ Superseded
             \/ Crash \/ Checkpoint \/ UNCHANGED vars
             \/ \E c \in Calls : Report(c)
    BY <2>8, <1>k
    DEF Known, StartTurn, EndTurn, Abandon, Denied, Look, Replace, Answer, Superseded, Crash, Checkpoint,
        Report, vars, disk
  <2> QED
    BY <2>1, <2>2, <2>3, <2>4, <2>5, <2>6, <2>7, <2>8, <2>9 DEF Next, Turn, StatusTool
<1> QED BY <1>1, <1>2 DEF Known

LEMMA NextFresh == RecoveryInv /\ [Next]_vars => Fresh'
<1> SUFFICES ASSUME RecoveryInv, [Next]_vars,
                    NEW t \in Turns, t > turn' \/ (t = turn' /\ pc' = "recover")
             PROVE  journal'[t] = Blank
  BY DEF Fresh
<1>t. /\ turn \in Nat /\ Turns = 1..MaxTurns /\ MaxTurns \in Nat /\ saved \in Nat /\ pointer \in Nat
      /\ journal \in [Turns -> Journals]
  BY LimitsAssumption DEF RecoveryInv, TypeOK, Turns
<1>f. t > turn \/ (t = turn /\ pc = "recover") => journal[t] = Blank
  BY DEF RecoveryInv, Fresh
<1>1. CASE StartTurn
  BY <1>1, <1>t, <1>f DEF StartTurn, disk
<1>2. ASSUME NEW new, Append(turn, new) \/ AppendFails(turn, new), pc # "recover" \/ pc' # "recover",
             turn' = turn, pc # "idle"
      PROVE  journal'[t] = Blank
  <2>1. t > turn \/ pc' = "recover"
    BY <1>2, <1>t
  <2>2. pc' = "recover" => pc = "recover"
    BY <1>2 DEF Next, Turn, StatusTool, StartTurn, Recover, Checkpoint, EndTurn, Abandon, Denied,
      Act, Look, Replace, Finish, Settle, Dispatch, Refuse, Observe, Answer, Reconcile, Superseded, ReconcileFails,
      Cite, Exit, Report, Crash, Return, vars, thread
  <2> QED BY <1>2, <1>t, <1>f, <2>1, <2>2 DEF Append, AppendFails
<1>3. CASE \/ Recover \/ Settle \/ Observe \/ Reconcile \/ ReconcileFails \/ Act \/ Finish
           \/ \E c \in Calls : Dispatch(c) \/ Refuse(c)
           \/ \E d \in Status, c \in unresolved, o \in observed : Cite(d, c, o)
  <2>2. CASE ~UNCHANGED journal
    BY <1>3, <2>2, <1>2 DEF Recover, Settle, Observe, Reconcile, ReconcileFails, Act, Finish, Dispatch,
      Refuse, Cite
  <2>3. CASE UNCHANGED journal
    BY <1>3, <2>3, <1>f DEF Recover, Settle, Observe, Reconcile, ReconcileFails, Act, Finish, Return,
      Dispatch, Refuse, Cite, thread
  <2> QED BY <2>2, <2>3
<1>4. ASSUME NEW c \in Calls, Exit(c) PROVE journal'[t] = Blank
  <2>1. since[c] \in Turns /\ since[c] <= saved
    BY <1>4, ExitAppends
  <2>2. turn' = turn /\ pc' = pc
    BY <1>4 DEF Exit, thread
  <2>3. t # since[c]
    BY <2>1, <2>2, <1>t DEF RecoveryInv, Control, TypeOK
  <2>4. journal'[t] = journal[t]
    BY <2>1, <2>3, <1>4, <1>t DEF Exit, Append, AppendFails
  <2> QED BY <2>2, <2>4, <1>f
<1>5. CASE \/ EndTurn \/ Abandon \/ Denied \/ Look \/ Replace \/ Answer \/ Superseded
           \/ Crash \/ Checkpoint \/ UNCHANGED vars
           \/ \E c \in Calls : Report(c)
  BY <1>5, <1>f
  DEF EndTurn, Abandon, Denied, Look, Replace, Answer, Superseded, Crash, Checkpoint, Report, Return, vars, disk, thread
<1> QED BY <1>1, <1>3, <1>4, <1>5 DEF Next, Turn, StatusTool

--------------------------------------------------------------------------------
(* What the journals tell stays enough. *)

(* A record that pops nothing but calls whose outcome is known. *)
LEMMA RecordKeeps ==
  ASSUME RecoveryInv, NEW t \in Turns, NEW new \in Journals, new.tail = journal[t].tail,
         Append(t, new) \/ AppendFails(t, new),
         UNCHANGED <<pointer, saved, started, since>>, closed \subseteq closed',
         Dangling' \cap Covered(journal[t].pending) \subseteq Covered(new.pending)
  PROVE  RecoveryKnows'
<1>1. TypeOK
  BY DEF RecoveryInv
<1>2. /\ \A q \in Turns \ {t} : journal'[q] = journal[q]
      /\ journal[t].tail = "corrupt" => journal'[t].tail = "corrupt"
      /\ journal'[t].pending = journal[t].pending \/ journal'[t].pending = new.pending
  BY <1>1, Kept
<1>3. Dangling' \cap Covered(journal[t].pending) \subseteq Covered(journal[t].pending)'
  BY <1>2 DEF Covered
<1> QED BY <1>2, <1>3, KnowsKept

(* Nothing is appended, and nothing begins. *)
LEMMA StillKnows ==
  ASSUME RecoveryInv, UNCHANGED <<journal, pointer, saved, started, since>>, closed \subseteq closed'
  PROVE  RecoveryKnows'
BY DEF RecoveryInv, RecoveryKnows, Told, Interrupted, Covered, Dangling

(* A call that begins is in the journal the session points to, or known not to run. *)
LEMMA BeginKnown ==
  ASSUME RecoveryInv, NEW c \in Calls, c \notin started, pc = "ready", Begin(c),
         \/ Append(turn, Started(journal[turn], c))
         \/ AppendFails(turn, Started(journal[turn], c)) /\ c \in closed',
         closed \subseteq closed', UNCHANGED <<turn, pointer, saved>>
  PROVE  RecoveryKnows'
<1> DEFINE new == Started(journal[turn], c)
<1>t. TypeOK /\ turn \in Turns /\ pointer = turn /\ saved = turn /\ turn # 0 /\ turn \in Nat
  BY LimitsAssumption DEF RecoveryInv, Control, InTurn, Turns
<1>1. journal[turn] \in Journals /\ c \in Ops
  BY <1>t DEF TypeOK, Ops
<1>2. /\ new \in Journals /\ new.tail = journal[turn].tail
      /\ new.pending = journal[turn].pending \cup {c}
  BY <1>1, RecordsTyped, RecordsSay
<1> HIDE DEF new
<1>k. /\ \A q \in Turns \ {turn} : journal'[q] = journal[q]
      /\ journal[turn].tail = "corrupt" => journal'[turn].tail = "corrupt"
      /\ journal'[turn].pending = journal[turn].pending \/ journal'[turn].pending = new.pending
  <2>1. Append(turn, new) \/ AppendFails(turn, new)
    BY DEF new
  <2> QED BY <1>t, <1>2, <2>1, Kept
<1>d. \A d \in Dangling : since'[d] = since[d] /\ since[d] <= turn /\ d \in started'
  BY <1>t DEF Dangling, Begin, RecoveryInv, Born, TypeOK
<1>3. Dangling \subseteq Told(turn)'
  <2>1. Dangling \in SUBSET Calls /\ Dangling \subseteq started' /\ Dangling \subseteq Told(turn)
    BY <1>t, <1>d DEF Dangling, TypeOK, RecoveryInv, RecoveryKnows
  <2>2. Dangling \cap Covered(journal[turn].pending) \subseteq Covered(journal[turn].pending)'
    BY <1>k, <1>2, <1>d DEF Covered, Dangling
  <2>3. Dangling \subseteq started' /\ \A d \in Dangling : since'[d] = since[d] /\ since[d] <= turn
    BY <1>d
  <2> DEFINE D == Dangling
  <2> HIDE DEF D
  <2>4. D \subseteq Told(turn)'
    BY <1>t, <1>k, <2>1, <2>2, <2>3, ToldKept DEF D
  <2> QED BY <2>4 DEF D
<1>4. c \in Told(turn)' \/ c \in closed'
  <2>1. CASE c \in closed'
    BY <2>1
  <2>2. CASE Append(turn, new)
    <3>1. journal'[turn] = Line(journal[turn], new)
      BY <2>2, <1>t DEF Append, TypeOK
    <3>2. journal'[turn].tail = "corrupt" \/ c \in journal'[turn].pending
      BY <3>1, <1>1, <1>2 DEF Line, Journals
    <3>3. c \in started' /\ since'[c] = turn
      BY <1>t DEF Begin, TypeOK
    <3> QED BY <3>2, <3>3, <1>t DEF Told, Interrupted, Covered
  <2> QED BY <2>1, <2>2 DEF new
<1>5. Dangling' \subseteq Dangling \cup {c}
  BY DEF Dangling, Begin
<1>6. Dangling' \subseteq Told(turn)'
  BY <1>3, <1>4, <1>5 DEF Dangling
<1> QED BY <1>6, <1>t DEF RecoveryKnows

LEMMA NextKnows == RecoveryInv /\ [Next]_vars => RecoveryKnows'
<1> SUFFICES ASSUME RecoveryInv, [Next]_vars PROVE RecoveryKnows'
  OBVIOUS
<1>k. closed \subseteq closed' /\ TypeOK
  BY ClosedGrows DEF RecoveryInv
<1>t. /\ unresolved \in SUBSET Ops /\ turn \in Nat
      /\ \A c \in Calls : c \in Ops /\ c \notin Turns
      /\ pc # "idle" => turn \in Turns /\ journal[turn] \in Journals
      /\ Dangling \subseteq started /\ Dangling \cap closed = {} /\ started \subseteq Calls
  BY <1>k, CallsAssumption, LimitsAssumption DEF TypeOK, RecoveryInv, Control, Ops, Dangling, Turns
<1>1. CASE Recover
  <2> DEFINE new == Pending(journal[turn], unresolved)
  <2>1. /\ new \in Journals /\ new.tail = journal[turn].tail
        /\ journal[turn].pending \subseteq new.pending
    <3>1. unresolved \in SUBSET Ops /\ journal[turn] \in Journals
      BY <1>1, <1>t DEF Recover
    <3> QED BY <3>1, RecordsTyped, RecordsSay
  <2>2. Append(turn, new) \/ AppendFails(turn, new)
    BY <1>1 DEF Recover
  <2>3. UNCHANGED <<pointer, saved, started, since>>
    BY <1>1 DEF Recover, history
  <2> HIDE DEF new
  <2>4. turn \in Turns
    BY <1>1, <1>t DEF Recover
  <2>5. Covered(journal[turn].pending) \subseteq Covered(new.pending)
    BY <2>1 DEF Covered
  <2> QED BY <2>1, <2>2, <2>3, <2>4, <2>5, <1>k, RecordKeeps
<1>2. CASE Checkpoint
  <2>1. Dangling \subseteq Told(turn) /\ UNCHANGED <<journal, started, since, closed>>
    BY <1>2 DEF Checkpoint, RecoveryInv, OldBlocked, history
  <2>2. pointer' = turn /\ (saved' = turn \/ saved' = saved)
    BY <1>2 DEF Checkpoint
  <2> QED BY <2>1, <2>2 DEF RecoveryInv, RecoveryKnows, Told, Interrupted, Covered, Dangling
<1>3. ASSUME NEW c \in Calls, Dispatch(c) PROVE RecoveryKnows'
  BY <1>3, <1>k, BeginKnown DEF Dispatch
<1>4. ASSUME NEW d \in Status, NEW c \in unresolved, NEW o \in observed, Cite(d, c, o)
      PROVE  RecoveryKnows'
  BY <1>4, <1>k, BeginKnown, CallsAssumption DEF Cite
<1>5. ASSUME NEW c \in Calls, Refuse(c) PROVE RecoveryKnows'
  <2> DEFINE new == Settled(journal[turn], c, "definite")
  <2>1. /\ turn \in Turns /\ c \notin started
        /\ Append(turn, new) \/ AppendFails(turn, new)
        /\ UNCHANGED <<pointer, saved, started, since, closed>>
    BY <1>5, <1>t DEF Refuse, history
  <2>2. /\ new \in Journals /\ new.tail = journal[turn].tail
        /\ journal[turn].pending \ {c} \subseteq new.pending
    <3>1. c \in Ops /\ journal[turn] \in Journals
      BY <1>5, <1>t DEF Refuse
    <3>2. new \in Journals
      BY <3>1, RecordsTyped
    <3> QED BY <3>1, <3>2, RecordsSay
  <2>3. \A d \in Dangling' : d # c
    BY <2>1, <1>t DEF Dangling
  <2> HIDE DEF new
  <2>4. Dangling' \cap Covered(journal[turn].pending) \subseteq Covered(new.pending)
    BY <2>2, <2>3, <1>t DEF Covered
  <2> QED BY <2>1, <2>2, <2>4, <1>k, RecordKeeps
<1>6. CASE Settle
  <2> DEFINE new == Settled(journal[turn], call, outcome)
  <2>1. /\ turn \in Turns /\ call \in started /\ pc = "returned"
        /\ Append(turn, new) \/ AppendFails(turn, new)
        /\ UNCHANGED <<pointer, saved, started, since, closed>>
    BY <1>6, <1>t DEF Settle, history, RecoveryInv, Control, Handling, InTurn
  <2>2. /\ new \in Journals /\ new.tail = journal[turn].tail
        /\ journal[turn].pending \ {call} \subseteq new.pending
        /\ ~(outcome = "definite" \/ (outcome = "running" /\ call \in journal[turn].finished))
             => new.pending = journal[turn].pending
    <3>1. call \in Ops /\ journal[turn] \in Journals
      BY <1>t, <2>1
    <3>2. new \in Journals
      BY <3>1, RecordsTyped
    <3> QED BY <3>1, <3>2, RecordsSay
  <2>3. outcome = "definite" \/ call \in journal[turn].finished => call \in closed
    BY <2>1 DEF RecoveryInv, Known
  <2> HIDE DEF new
  <2>4. \A d \in Dangling' : d \in journal[turn].pending => d \in new.pending
    BY <2>1, <2>2, <2>3 DEF Dangling
  <2>5. \A o \in journal[turn].pending \cap Turns : o \in new.pending
    BY <2>1, <2>2, <1>t
  <2>6. Dangling' \cap Covered(journal[turn].pending) \subseteq Covered(new.pending)
    BY <2>4, <2>5 DEF Covered
  <2> QED BY <2>1, <2>2, <2>6, <1>k, RecordKeeps
<1>7. CASE Observe \/ Act \/ Finish
  <2>1. turn \in Turns /\ journal[turn] \in Journals /\ UNCHANGED <<pointer, saved, started, since>>
    BY <1>7, <1>t DEF Observe, Act, Finish, history
  <2>2. CASE UNCHANGED journal
    BY <2>1, <2>2, <1>k, StillKnows
  <2>3. CASE Append(turn, journal[turn]) \/ AppendFails(turn, journal[turn])
    BY <2>1, <2>3, <1>k, RecordKeeps
  <2> QED BY <1>7, <2>2, <2>3 DEF Observe, Act, Finish
<1>8. ASSUME NEW c \in Calls, Exit(c) PROVE RecoveryKnows'
  <2>t. PICK t \in Turns : t = since[c]
    BY <1>8, ExitAppends
  <2>1. PICK new \in {journal[t], Completed(journal[t], c)} :
              /\ new \in Journals /\ new.tail = journal[t].tail
              /\ Append(t, new) \/ AppendFails(t, new)
    BY <1>8, <2>t, ExitAppends
  <2>2. /\ c \in journal'[t].finished => c \in closed'
        /\ UNCHANGED <<pointer, saved, started, since>>
    BY <1>8, <2>t, ExitAppends DEF Exit
  <2>3. journal[t] \in Journals
    BY <2>2, <1>k DEF TypeOK
  <2>4. new = journal[t] \/ (c \in new.finished /\ new.pending = journal[t].pending \ {c})
    BY <2>1, <2>3, RecordsSay
  <2>5. /\ \A q \in Turns \ {t} : journal'[q] = journal[q]
        /\ journal[t].tail = "corrupt" => journal'[t].tail = "corrupt"
        /\ \/ journal'[t].pending = journal[t].pending
           \/ journal'[t].pending = new.pending /\ journal'[t].finished = new.finished
    BY <2>1, <2>2, <1>k, Kept
  <2>6. journal'[t].pending = journal[t].pending \/
          (c \in closed' /\ journal'[t].pending = journal[t].pending \ {c})
    BY <2>2, <2>4, <2>5
  <2>7. Dangling' \cap Covered(journal[t].pending) \subseteq Covered(journal[t].pending)'
    BY <2>2, <2>6, <1>t DEF Dangling, Covered
  <2> QED BY <2>2, <2>5, <2>7, <1>k, KnowsKept
<1>9. CASE Reconcile \/ ReconcileFails
  <2> DEFINE new == Reconciled(journal[turn], target)
  <2>1. /\ turn \in Turns
        /\ Append(turn, new) \/ AppendFails(turn, new)
        /\ UNCHANGED <<pointer, saved, started, since, turn>>
    BY <1>9, <1>t DEF Reconcile, ReconcileFails
  <2>2. /\ new \in Journals /\ new.tail = journal[turn].tail
        /\ new.pending = journal[turn].pending \ {target}
    <3>1. target \in Ops /\ journal[turn] \in Journals
      BY <1>t, <1>9 DEF Reconcile, ReconcileFails
    <3>2. new \in Journals
      BY <3>1, RecordsTyped
    <3> QED BY <3>1, <3>2, RecordsSay
  <2>3. target \in journal'[turn].pending \/ Covered({target}) \subseteq closed'
    BY <1>9 DEF Reconcile, ReconcileFails, Agree
  <2> HIDE DEF new
  <2>4. /\ \A q \in Turns \ {turn} : journal'[q] = journal[q]
        /\ journal[turn].tail = "corrupt" => journal'[turn].tail = "corrupt"
        /\ journal'[turn].pending = journal[turn].pending \/ journal'[turn].pending = new.pending
    BY <2>1, <2>2, <1>k, Kept
  <2>5. journal[turn].pending \subseteq journal'[turn].pending \cup {target}
    BY <2>2, <2>4
  <2>6. journal[turn].pending \subseteq journal'[turn].pending \/ Covered({target}) \subseteq closed'
    BY <2>3, <2>5
  <2>7. Dangling' \cap Covered(journal[turn].pending) \subseteq Covered(journal[turn].pending)'
    BY <2>1, <2>5, <2>6 DEF Covered, Dangling
  <2> QED BY <2>1, <2>4, <2>7, <1>k, KnowsKept
<1>10. CASE Crash
  BY <1>10 DEF Crash, disk, history, RecoveryInv, RecoveryKnows, Told, Interrupted, Covered, Dangling
<1>11. CASE \/ StartTurn \/ EndTurn \/ Abandon \/ Denied \/ Look \/ Replace \/ Answer \/ Superseded
            \/ UNCHANGED vars \/ \E c \in Calls : Report(c)
  <2>1. UNCHANGED <<journal, pointer, saved, started, since>>
    BY <1>11
    DEF StartTurn, EndTurn, Abandon, Denied, Look, Replace, Answer, Superseded, Report, vars, disk, history
  <2> QED BY <2>1, <1>k, StillKnows
<1> QED
  BY <1>1, <1>2, <1>3, <1>4, <1>5, <1>6, <1>7, <1>8, <1>9, <1>10, <1>11 DEF Next, Turn, StatusTool

--------------------------------------------------------------------------------
(* A turn is blocked for the unknown calls of earlier turns. *)

(* A journal read when a turn begins blocks it for what the journal tells. *)
LEMMA ToldBlocks ==
  ASSUME RecoveryInv, StartTurn
  PROVE  OldBlocked'
<1>t. /\ turn \in Nat /\ pointer \in 0..turn /\ since \in [Calls -> 0..turn] /\ started \subseteq Calls
      /\ turn' = turn + 1 /\ pc' = "recover" /\ UNCHANGED <<started, since, closed>>
  BY DEF StartTurn, history, RecoveryInv, TypeOK
<1>1. \A d \in Dangling : d \in Told(pointer) /\ d \in started /\ since[d] < turn'
  BY <1>t DEF Dangling, RecoveryInv, RecoveryKnows
<1>2. \A d \in Dangling : d \in Covered(unresolved)'
  BY <1>t, <1>1 DEF StartTurn, Told, Covered
<1> QED BY <1>t, <1>2 DEF OldBlocked, Old, Dangling

(* A turn records what it recovered before the session points to its journal. *)
LEMMA RecoverTells ==
  ASSUME RecoveryInv, Recover
  PROVE  OldBlocked'
<1>t. /\ turn \in Turns /\ turn # 0 /\ turn \in Nat /\ since \in [Calls -> 0..turn] /\ started \subseteq Calls
      /\ journal[turn] = Blank /\ journal \in [Turns -> Journals] /\ unresolved \subseteq Ops
      /\ Dangling' = Dangling /\ UNCHANGED <<turn, unresolved, started, since>>
      /\ pc' \notin {"asked", "prepared", "looked"}
      /\ pc = "recover"
  BY LimitsAssumption DEF Recover, RecoveryInv, Control, Fresh, TypeOK, Turns, history, scope, Dangling
<1>1. Old' = Old /\ Covered(unresolved)' = Covered(unresolved) /\ Old \subseteq Covered(unresolved)
  BY <1>t DEF Old, Covered, RecoveryInv, OldBlocked
<1>2. pc' = "checkpoint" => Dangling' \subseteq Told(turn)'
  <2> SUFFICES ASSUME pc' = "checkpoint", NEW d \in Dangling PROVE d \in Told(turn)'
    BY <1>t
  <2>1. journal'[turn].pending = unresolved /\ journal'[turn].tail = "whole"
    BY <1>t DEF Recover, Append, Line, Pending, Blank
  <2>2. since[d] < turn /\ d \in started
    BY <1>t, LimitsAssumption DEF Dangling, RecoveryInv, Born, Control, TypeOK, Turns
  <2>3. d \in Covered(unresolved)
    BY <1>1, <2>2 DEF Old
  <2> QED BY <1>t, <2>1, <2>2, <2>3 DEF Covered, Told, Interrupted
<1> QED BY <1>t, <1>1, <1>2 DEF OldBlocked

(* A decision removes from the unresolved calls only those it closes. *)
LEMMA ReconcileBlocks ==
  ASSUME RecoveryInv, Reconcile
  PROVE  OldBlocked'
<1>t. /\ since \in [Calls -> 0..turn] /\ started \subseteq Calls /\ pc = "commit" /\ pc' = "returned"
      /\ UNCHANGED <<turn, started, since>> /\ unresolved' = unresolved \ {target}
      /\ closed \subseteq closed' /\ Covered({target}) \subseteq closed'
  BY DEF Reconcile, Agree, RecoveryInv, TypeOK
<1> SUFFICES ASSUME NEW d \in Old' PROVE d \in Covered(unresolved)'
  BY <1>t DEF OldBlocked
<1>1. d \in Old /\ d \notin Covered({target}) /\ d \in started
  BY <1>t DEF Old, Dangling
<1>2. d \in Covered(unresolved)
  BY <1>1, <1>t DEF RecoveryInv, OldBlocked
<1> QED BY <1>t, <1>1, <1>2 DEF Covered

(* A call is dispatched only when nothing blocks the turn. *)
LEMMA DispatchClear ==
  ASSUME RecoveryInv, NEW c \in Calls, Dispatch(c)
  PROVE  OldBlocked'
<1>t. /\ turn \in Nat /\ since \in [Calls -> 0..turn] /\ started \subseteq Calls /\ pc = "ready"
      /\ unresolved = {} /\ pc' \in {"asked", "returned"} /\ closed \subseteq closed'
      /\ started' = started \cup {c} /\ since' = [since EXCEPT ![c] = turn] /\ UNCHANGED turn
  BY DEF Dispatch, Begin, RecoveryInv, TypeOK
<1>1. Old = {}
  BY <1>t DEF RecoveryInv, OldBlocked, Covered
<1>2. \A d \in Old' : d \in Old
  BY <1>t DEF Old, Dangling
<1> QED BY <1>t, <1>1, <1>2 DEF OldBlocked

LEMMA NextBlocked == RecoveryInv /\ [Next]_vars => OldBlocked'
<1> SUFFICES ASSUME RecoveryInv, [Next]_vars PROVE OldBlocked'
  OBVIOUS
<1>k. closed \subseteq closed' /\ TypeOK
  BY ClosedGrows DEF RecoveryInv
<1>r. ASSUME UNCHANGED <<turn, started, since>>, unresolved \subseteq unresolved',
             pc # "idle", pc' # "checkpoint",
             pc' \in {"asked", "prepared", "looked"} => pc \in {"asked", "prepared", "looked"}
      PROVE  OldBlocked'
  BY <1>k, <1>r DEF OldBlocked, Old, Dangling, Covered, RecoveryInv
<1>1. CASE Settle
  BY <1>1, <1>r DEF Settle, MarkUnknown, history
<1>2. CASE Observe \/ ReconcileFails \/ Denied \/ Act \/ Look \/ Replace \/ Finish \/ Answer \/ Superseded \/ Checkpoint
  BY <1>2, <1>r
  DEF Observe, ReconcileFails, Denied, Act, Look, Replace, Finish, Answer, Superseded, Checkpoint, Return, history, scope,
      thread
<1>3. ASSUME NEW c \in Calls, Refuse(c) PROVE OldBlocked'
  BY <1>3, <1>r DEF Refuse, MarkUnknown, history, thread
<1>4. ASSUME NEW d \in Status, NEW c \in unresolved, NEW o \in observed, Cite(d, c, o)
      PROVE  OldBlocked'
  <2>1. /\ turn \in Nat /\ since \in [Calls -> 0..turn] /\ started \subseteq Calls /\ pc = "ready"
        /\ pc' \in {"citing", "returned"} /\ d \in Calls /\ UNCHANGED <<turn, unresolved>>
        /\ closed' \in {closed, closed \cup {d}}
        /\ started' = started \cup {d} /\ since' = [since EXCEPT ![d] = turn] /\ d \notin started
    BY <1>4, <1>k, CallsAssumption DEF Cite, Begin, TypeOK, scope
  <2>2. Old' = Old
    BY <2>1 DEF Old, Dangling
  <2>3. Covered(unresolved) \subseteq Covered(unresolved)'
    BY <2>1 DEF Covered
  <2> QED BY <2>1, <2>2, <2>3 DEF OldBlocked, RecoveryInv
<1>5. ASSUME NEW c \in Calls, Exit(c) \/ Report(c) PROVE OldBlocked'
  <2>1. /\ UNCHANGED <<turn, started, since, pc>> /\ unresolved \subseteq unresolved'
        /\ pc = "checkpoint" => journal' = journal \/ \E q \in Turns : q # turn
                                  /\ \A t \in Turns \ {q} : journal'[t] = journal[t]
    <3>1. CASE Report(c)
      BY <3>1 DEF Report, MarkUnknown, history, thread, disk
    <3>2. CASE Exit(c)
      <4>1. since[c] \in Turns /\ since[c] <= saved /\ (pc = "checkpoint" => since[c] # turn)
        BY <3>2, <1>k, ExitAppends DEF RecoveryInv, Control, TypeOK
      <4>2. \A t \in Turns \ {since[c]} : journal'[t] = journal[t]
        BY <3>2, <4>1, <1>k DEF Exit, Append, AppendFails, TypeOK
      <4> QED BY <3>2, <4>1, <4>2 DEF Exit, thread, scope
    <3> QED BY <1>5, <3>1, <3>2
  <2>2. pc = "checkpoint" => Dangling' \subseteq Told(turn)'
    <3> SUFFICES ASSUME pc = "checkpoint" PROVE Dangling' \subseteq Told(turn)'
      OBVIOUS
    <3>1. turn \in Turns /\ journal'[turn] = journal[turn] /\ Dangling \subseteq Told(turn)
      BY <2>1 DEF RecoveryInv, Control, OldBlocked
    <3>2. Dangling' \subseteq Dangling /\ Told(turn)' = Told(turn)
      BY <2>1, <3>1, <1>k DEF Told, Interrupted, Covered, Dangling
    <3> QED BY <3>1, <3>2
  <2> QED BY <2>1, <2>2, <1>k DEF OldBlocked, Old, Dangling, Covered, RecoveryInv
<1>6. CASE EndTurn \/ Abandon \/ Crash
  BY <1>6 DEF EndTurn, Abandon, Crash, OldBlocked
<1>7. CASE UNCHANGED vars
  BY <1>7 DEF vars, disk, thread, scope, history, OldBlocked, Old, Dangling, Covered, Told, Interrupted, RecoveryInv
<1> QED
  BY <1>1, <1>2, <1>3, <1>4, <1>5, <1>6, <1>7, ToldBlocks, RecoverTells, ReconcileBlocks, DispatchClear
  DEF Next, Turn, StatusTool

--------------------------------------------------------------------------------

(* The inductive invariant holds throughout. *)
THEOREM RecoveryInvariant == Spec => []RecoveryInv
<1>1. RecoveryInv /\ [Next]_vars => RecoveryInv'
  BY NextTyped, NextControl, NextFresh, NextKnown, NextKnows, NextBlocked DEF RecoveryInv
<1> QED BY InitRecovery, <1>1, PTL DEF Spec

(* Append before dispatch: for any calls and any number of turns, crashes and
   failures, the journal that a later turn recovers from names every call whose
   outcome is not known, under the pointer in memory and the one on disk.  *)
THEOREM RecoverySafe == Spec => [](TypeOK /\ RecoveryKnows)
<1>1. RecoveryInv => TypeOK /\ RecoveryKnows
  BY DEF RecoveryInv
<1> QED BY <1>1, RecoveryInvariant, PTL

(* Journals, pointers and calls keep their types: a journal holds records of calls
   only, and no pointer is ahead of the turns that have begun.  *)
THEOREM RecoveryTyped == Spec => []TypeOK
<1> QED BY RecoverySafe, PTL

(* No tool has an effect while the outcome of a call of an earlier turn is unknown. *)
THEOREM EffectsSafe == Spec => NothingOverUnknown
<1>1. RecoveryInv /\ [Next]_vars
        => (acted' # acted => \A c \in started : since[c] < turn => c \in closed)
  <2> SUFFICES ASSUME RecoveryInv, [Next]_vars, acted' # acted
               PROVE  \A c \in started : since[c] < turn => c \in closed
    OBVIOUS
  <2>1. Act \/ Replace
    BY DEF Next, Turn, StatusTool, StartTurn, Recover, Checkpoint, EndTurn, Abandon, Denied, Act, Look,
      Replace, Finish,
      Settle, Dispatch, Refuse, Observe, Answer, Reconcile, Superseded, ReconcileFails, Cite, Exit, Report,
      Crash, vars, history
  <2> QED BY <2>1 DEF Act, Replace, RecoveryInv, OldBlocked, Old, Dangling
<1> QED BY <1>1, RecoveryInvariant, PTL DEF Spec, NothingOverUnknown

--------------------------------------------------------------------------------

(* What is cited was observed at this revision, when the same was unknown, or is
   of an earlier revision.  *)
Fits(o, n, U) == o.revision <= n /\ (o.revision = n => o.known = U)

Evidence ==
  /\ \A o \in observed : Fits(o, revision, unresolved)
  /\ pc \in {"citing", "commit"} => Fits(claim, revision, unresolved)

LEMMA NextEvidence == RecoveryInv /\ Evidence /\ [Next]_vars => Evidence'
<1> SUFFICES ASSUME RecoveryInv, Evidence, [Next]_vars PROVE Evidence'
  OBVIOUS
<1>t. /\ revision \in Nat /\ observed \subseteq Observations /\ claim \in Observations
      /\ \A o \in Observations : o.revision \in Nat
  BY DEF RecoveryInv, TypeOK, Observations
<1>s. ASSUME UNCHANGED <<observed, claim, revision, unresolved>>,
             pc' \notin {"citing", "commit"} \/ pc \in {"citing", "commit"}
      PROVE  Evidence'
  BY <1>s DEF Evidence
<1>m. ASSUME UNCHANGED <<observed, claim>>, revision' = revision + 1,
             pc' \notin {"citing", "commit"} \/ pc \in {"citing", "commit"}
      PROVE  Evidence'
  BY <1>m, <1>t DEF Evidence, Fits
<1>1. CASE StartTurn \/ Crash
  BY <1>1 DEF StartTurn, Crash, Evidence
<1>2. CASE Settle
  BY <1>2, <1>s, <1>m DEF Settle, MarkUnknown, cited
<1>3. ASSUME NEW c \in Calls, Report(c) \/ Refuse(c) PROVE Evidence'
  BY <1>3, <1>s, <1>m DEF Report, Refuse, MarkUnknown, cited, thread
<1>4. CASE Reconcile
  BY <1>4, <1>m DEF Reconcile, cited
<1>5. CASE Observe
  <2>1. \A o \in observed' : Fits(o, revision, unresolved)
    BY <1>5, <1>t DEF Observe, Evidence, Fits
  <2> QED BY <1>5, <2>1 DEF Observe, Evidence, thread, cited
<1>6. ASSUME NEW d \in Status, NEW c \in unresolved, NEW o \in observed, Cite(d, c, o)
      PROVE  Evidence'
  BY <1>6 DEF Cite, Evidence, scope
<1>7. CASE \/ Recover \/ Checkpoint \/ EndTurn \/ Abandon \/ Denied \/ Act \/ Look \/ Replace \/ Finish
           \/ Answer \/ Superseded \/ ReconcileFails \/ UNCHANGED vars
           \/ \E c \in Calls : Dispatch(c) \/ Exit(c)
  BY <1>7, <1>s
  DEF Recover, Checkpoint, EndTurn, Abandon, Denied, Act, Look, Replace, Finish, Answer, Superseded, ReconcileFails,
      vars, Dispatch, Exit, Return, scope, cited, thread
<1> QED
  BY <1>1, <1>2, <1>3, <1>4, <1>5, <1>6, <1>7 DEF Next, Turn, StatusTool

(* A decision is committed only on evidence that was observed while the very same
   operations were unknown.  *)
THEOREM EvidenceSafe == Spec => EvidenceIsCurrent
<1>1. Init => Evidence
  BY DEF Init, Evidence
<1>2. RecoveryInv /\ Evidence /\ [Next]_vars => (agreed' # agreed => claim.known = unresolved)
  <2> SUFFICES ASSUME RecoveryInv, Evidence, [Next]_vars, agreed' # agreed
               PROVE  claim.known = unresolved
    OBVIOUS
  <2>1. Reconcile \/ ReconcileFails
    BY DEF Next, Turn, StatusTool, StartTurn, Recover, Checkpoint, EndTurn, Abandon, Denied, Act, Look,
      Replace, Finish,
      Settle, Dispatch, Refuse, Observe, Answer, Reconcile, Superseded, ReconcileFails, Cite, Exit, Report,
      Crash, vars, history
  <2> QED BY <2>1 DEF Reconcile, ReconcileFails, Evidence, Fits
<1> QED BY <1>1, <1>2, NextEvidence, RecoveryInvariant, PTL DEF Spec, EvidenceIsCurrent

-----------------------------------------------------------------------------
(***************************************************************************)
(* That a file waits for every outcome the harness can know to be missing, *)
(* and that a decision of the user is not asked for again.                 *)
(***************************************************************************)

Watched == {c \in Calls : watched[c] # "no"}

(* The call that the turn is executing. *)
Handled == IF pc \in Handling THEN {call} ELSE {}

(* In a turn every other call without a known outcome blocks it or has its watcher. *)
Accounted ==
  /\ pc \in InTurn => Dangling \ Handled \subseteq Covered(unresolved) \cup Watched
  /\ pc = "returned" /\ outcome = "running" => call \in closed \cup unresolved \cup Watched

LEMMA WatchedTyped == ASSUME TypeOK PROVE Watched \subseteq Calls
BY DEF Watched

(* Where the turn goes on with its call, what was accounted for stays so if only
   the call it handles, and calls that are closed, leave the others.  *)
LEMMA StaysAccounted ==
  ASSUME Accounted, pc \in InTurn,
         Dangling' \ Handled' \subseteq Dangling \ Handled,
         UNCHANGED <<started, since>>, unresolved \subseteq unresolved',
         UNCHANGED watched
  PROVE  Dangling' \ Handled' \subseteq Covered(unresolved)' \cup Watched'
BY DEF Accounted, Covered, Watched

LEMMA NextAccounted == RecoveryInv /\ Accounted /\ [Next]_vars => Accounted'
<1> SUFFICES ASSUME RecoveryInv, Accounted, [Next]_vars PROVE Accounted'
  OBVIOUS
<1>t. /\ TypeOK /\ Control /\ Known /\ closed \subseteq closed'
      /\ started \subseteq Calls /\ since \in [Calls -> 0..turn]
      /\ watched \in [Calls -> {"no", "running", "failed"}]
  BY ClosedGrows DEF RecoveryInv, TypeOK
<1>1. CASE StartTurn \/ Recover \/ EndTurn \/ Abandon \/ Crash
  BY <1>1 DEF StartTurn, Recover, EndTurn, Abandon, Crash, Accounted, InTurn
<1>2. CASE Checkpoint
  <2>1. Dangling \subseteq Covered(unresolved)
    <3> SUFFICES ASSUME NEW d \in Dangling PROVE d \in Covered(unresolved)
      OBVIOUS
    <3>1. since[d] < turn
      BY <1>2, <1>t, LimitsAssumption
      DEF Checkpoint, Dangling, RecoveryInv, Born, Control, TypeOK, Turns
    <3> QED BY <1>2, <3>1 DEF Checkpoint, RecoveryInv, OldBlocked, Old
  <2>2. /\ Covered(unresolved)' = Covered(unresolved) /\ Dangling' = Dangling
        /\ pc' \in {"ready", "idle"}
    BY <1>2 DEF Checkpoint, scope, history, Covered, Dangling
  <2> QED BY <2>1, <2>2 DEF Accounted
<1>3. ASSUME NEW c \in Calls, Dispatch(c) PROVE Accounted'
  <2>1. /\ pc = "ready" /\ pc' \in {"asked", "returned"} /\ call' = c
        /\ started' = started \cup {c} /\ since' = [since EXCEPT ![c] = turn] /\ c \notin started
        /\ UNCHANGED <<unresolved, watched>>
        /\ pc' = "returned" => outcome' = "definite"
    BY <1>3 DEF Dispatch, Begin, scope
  <2>2. Dangling' \ Handled' \subseteq Dangling /\ Dangling \ Handled = Dangling
    BY <1>t, <2>1 DEF Dangling, Handled, Handling, InTurn
  <2>3. Covered(unresolved) \subseteq Covered(unresolved)' /\ Watched' = Watched
    BY <1>t, <2>1 DEF Covered, Watched
  <2> QED BY <2>1, <2>2, <2>3 DEF Accounted, InTurn
<1>4. ASSUME NEW d \in Status, NEW c \in unresolved, NEW o \in observed, Cite(d, c, o)
      PROVE  Accounted'
  <2>1. /\ pc = "ready" /\ pc' \in {"citing", "returned"} /\ call' = d /\ d \in Calls
        /\ started' = started \cup {d} /\ since' = [since EXCEPT ![d] = turn] /\ d \notin started
        /\ UNCHANGED <<unresolved, watched>>
        /\ pc' = "returned" => outcome' = "definite"
    BY <1>4, CallsAssumption DEF Cite, Begin, scope
  <2>2. Dangling' \ Handled' \subseteq Dangling /\ Dangling \ Handled = Dangling
    BY <1>t, <2>1 DEF Dangling, Handled, Handling, InTurn
  <2>3. Covered(unresolved) \subseteq Covered(unresolved)' /\ Watched' = Watched
    BY <1>t, <2>1 DEF Covered, Watched
  <2> QED BY <2>1, <2>2, <2>3 DEF Accounted, InTurn
<1>5. CASE Denied \/ Act \/ Look \/ Replace \/ Answer \/ Superseded \/ ReconcileFails
  <2>1. /\ UNCHANGED <<unresolved, watched, started, since, call>>
        /\ pc \in Handling /\ pc' \in Handling
        /\ pc' = "returned" => outcome' # "running"
    BY <1>5 DEF Denied, Act, Look, Replace, Answer, Superseded, ReconcileFails, Return, scope, Handling, InTurn
  <2>2. Dangling' \ Handled' \subseteq Dangling \ Handled
    BY <1>t, <2>1 DEF Dangling, Handled
  <2> QED BY <2>1, <2>2, StaysAccounted DEF Accounted, Handling
<1>6. CASE Finish
  <2>1. /\ UNCHANGED <<unresolved, started, since, call>>
        /\ pc = "running" /\ pc' = "returned" /\ call \in Calls
        /\ Watched \subseteq Watched' /\ (outcome' = "running" => call \in Watched')
    BY <1>6, <1>t DEF Finish, Return, scope, Control, Handling, InTurn, Watched
  <2>2. Dangling' \ Handled' \subseteq Dangling \ Handled
    BY <1>t, <2>1 DEF Dangling, Handled, Handling, InTurn
  <2>3. Covered(unresolved)' = Covered(unresolved)
    BY <2>1 DEF Covered
  <2> QED BY <2>1, <2>2, <2>3 DEF Accounted, InTurn
<1>7. CASE Settle
  <2>1. /\ UNCHANGED <<watched, started, since, closed, call>> /\ pc = "returned" /\ pc' = "ready"
        /\ unresolved \subseteq unresolved' /\ (outcome = "unknown" => call \in unresolved')
        /\ call \in started
    BY <1>7, <1>t DEF Settle, MarkUnknown, history, Control, Handling, InTurn
  <2>2. call \in closed \cup Covered(unresolved)' \cup Watched'
    BY <1>t, <2>1 DEF Accounted, Known, Covered, Watched, TypeOK
  <2>3. /\ Dangling' = Dangling /\ Handled = {call} /\ Watched' = Watched
        /\ Covered(unresolved) \subseteq Covered(unresolved)'
    BY <2>1 DEF Dangling, Handled, Handling, InTurn, Watched, Covered
  <2>4. Dangling \ Handled \subseteq Covered(unresolved) \cup Watched
    BY <2>1 DEF Accounted, InTurn
  <2>5. Dangling' \subseteq Covered(unresolved)' \cup Watched'
    BY <2>1, <2>2, <2>3, <2>4 DEF Dangling
  <2> QED BY <2>1, <2>5 DEF Accounted
<1>8. CASE Reconcile
  <2>1. /\ UNCHANGED <<watched, started, since, call>> /\ pc = "commit" /\ pc' = "returned"
        /\ outcome' = "definite" /\ unresolved' = unresolved \ {target}
        /\ closed' = closed \cup Covered({target}) \cup {call}
    BY <1>8 DEF Reconcile, Agree
  <2>2. Dangling' \ Handled' \subseteq (Dangling \ Handled) \ Covered({target})
    BY <2>1 DEF Dangling, Handled, Handling, InTurn
  <2>3. Covered(unresolved) \subseteq Covered(unresolved)' \cup Covered({target}) /\ Watched' = Watched
    BY <2>1 DEF Covered, Watched
  <2> QED BY <2>1, <2>2, <2>3 DEF Accounted, InTurn
<1>9. CASE Observe \/ \E c \in Calls : Refuse(c)
  <2>1. /\ UNCHANGED <<watched, started, since, closed, call>> /\ pc = "ready" /\ pc' = "ready"
        /\ unresolved \subseteq unresolved'
    BY <1>9 DEF Observe, Refuse, MarkUnknown, history, thread
  <2>2. Dangling' \ Handled' \subseteq Dangling \ Handled
    BY <2>1 DEF Dangling, Handled, Handling, InTurn
  <2> QED BY <2>1, <2>2, StaysAccounted DEF Accounted, InTurn
<1>10. ASSUME NEW c \in Calls, Exit(c) PROVE Accounted'
  <2>1. /\ UNCHANGED <<unresolved, started, since, call, pc, outcome>>
        /\ \/ watched' = [watched EXCEPT ![c] = "no"] /\ c \in closed'
           \/ watched' = [watched EXCEPT ![c] = "failed"]
    BY <1>10 DEF Exit, thread, scope
  <2>2. /\ Watched \subseteq Watched' \cup closed' /\ Covered(unresolved)' = Covered(unresolved)
        /\ Handled' = Handled /\ Dangling' \subseteq Dangling /\ Dangling' \cap closed' = {}
    BY <1>t, <2>1 DEF Watched, Covered, Dangling, Handled
  <2> QED BY <1>t, <2>1, <2>2 DEF Accounted
<1>11. ASSUME NEW c \in Calls, Report(c) PROVE Accounted'
  <2>1. /\ UNCHANGED <<started, since, call, pc, outcome, closed, turn>>
        /\ watched' = [watched EXCEPT ![c] = "no"]
        /\ unresolved \subseteq unresolved' /\ (since[c] = turn => c \in unresolved')
        /\ c \in started
    BY <1>11, <1>t DEF Report, MarkUnknown, thread, history, RecoveryInv, Born
  <2>2. /\ Watched \subseteq Watched' \cup {c} /\ Covered(unresolved) \subseteq Covered(unresolved)'
        /\ Handled' = Handled /\ Dangling' = Dangling
    BY <1>t, <2>1 DEF Watched, Covered, Dangling, Handled
  <2>3. pc # "idle" /\ c \in Dangling => c \in Covered(unresolved)'
    <3>1. CASE since[c] = turn
      BY <2>1, <3>1 DEF Covered
    <3>2. CASE since[c] # turn
      <4>1. since[c] < turn
        BY <3>2, <1>t DEF TypeOK
      <4> QED BY <4>1, <2>2 DEF RecoveryInv, OldBlocked, Old
    <3> QED BY <3>1, <3>2
  <2>4. pc = "returned" /\ outcome = "running" => call \in closed' \cup unresolved' \cup Watched'
    <3> SUFFICES ASSUME pc = "returned", outcome = "running", call = c
                 PROVE  call \in closed' \cup unresolved' \cup Watched'
      BY <2>1, <2>2 DEF Accounted
    <3>1. since[c] = turn
      BY DEF RecoveryInv, Control, Handling, InTurn
    <3> QED BY <2>1, <3>1
  <2> QED BY <2>1, <2>2, <2>3, <2>4 DEF Accounted, InTurn
<1>12. CASE UNCHANGED vars
  BY <1>12 DEF vars, thread, scope, history, Accounted, Dangling, Covered, Watched, Handled
<1> QED
  BY <1>1, <1>2, <1>3, <1>4, <1>5, <1>6, <1>7, <1>8, <1>9, <1>10, <1>11, <1>12
  DEF Next, Turn, StatusTool

LEMMA RecoveryAccounted == Spec => []Accounted
<1>1. Init => Accounted
  BY DEF Init, Accounted, InTurn
<1> QED BY <1>1, NextAccounted, RecoveryInvariant, PTL DEF Spec

(* Watchers are of background processes, and what becomes known between the last
   look of a file and its replacement is what they tell of this turn.  *)
Late ==
  /\ Watched \subseteq Background
  /\ pc = "looked" => \A o \in unresolved : o \in Background /\ since[o] = turn

LEMMA NextLate == RecoveryInv /\ Late /\ [Next]_vars => Late'
<1> SUFFICES ASSUME RecoveryInv, Late, [Next]_vars PROVE Late'
  OBVIOUS
<1>t. watched \in [Calls -> {"no", "running", "failed"}] /\ Background \subseteq Calls
  BY CallsAssumption DEF RecoveryInv, TypeOK
<1>1. CASE Look
  BY <1>1 DEF Look, Return, Late, Watched, scope, history
<1>2. CASE Finish
  BY <1>2, <1>t DEF Finish, Return, Late, Watched
<1>3. ASSUME NEW c \in Calls, Exit(c) PROVE Late'
  <2>1. Watched' \subseteq Watched /\ UNCHANGED <<pc, unresolved, since, turn>>
    BY <1>3, <1>t DEF Exit, Watched, thread, scope
  <2> QED BY <2>1 DEF Late
<1>4. ASSUME NEW c \in Calls, Report(c) PROVE Late'
  <2>1. Watched' \subseteq Watched /\ c \in Watched /\ UNCHANGED <<pc, since, turn>>
    BY <1>4, <1>t DEF Report, Watched, thread, history
  <2>2. unresolved' = unresolved \/ (unresolved' = unresolved \cup {c} /\ since[c] = turn)
    BY <1>4 DEF Report, MarkUnknown
  <2> QED BY <2>1, <2>2 DEF Late
<1>5. CASE Crash
  BY <1>5 DEF Crash, Late, Watched
<1>6. CASE \/ StartTurn \/ Recover \/ Checkpoint \/ EndTurn \/ Abandon \/ Denied \/ Act \/ Replace
           \/ Settle \/ StatusTool \/ \E c \in Calls : Dispatch(c) \/ Refuse(c)
  <2>1. pc' # "looked" /\ UNCHANGED watched
    BY <1>6
    DEF StartTurn, Recover, Checkpoint, EndTurn, Abandon, Denied, Act, Replace, Settle, StatusTool, Observe,
        Answer, Reconcile, Superseded, ReconcileFails, Cite, Dispatch, Refuse, Return, thread
  <2> QED BY <2>1 DEF Late, Watched
<1>7. CASE UNCHANGED vars
  BY <1>7 DEF vars, thread, scope, history, Late, Watched
<1> QED
  BY <1>1, <1>2, <1>3, <1>4, <1>5, <1>6, <1>7 DEF Next, Turn

LEMMA RecoveryLate == Spec => []Late
<1>1. Init => Late
  BY CallsAssumption DEF Init, Late, Watched
<1> QED BY <1>1, NextLate, RecoveryInvariant, PTL DEF Spec

(* However long the approval of a file took: at the last look before it is
   replaced every other call whose outcome is not known is a background process
   of this turn whose watcher has not told of it; and such a process alone can be
   unknown at the replacement (execution/filesystem.py:275-279).  *)
THEOREM FilesSafe == Spec => FilesWait
<1> DEFINE Waiting == {c \in Calls : watched[c] # "no"}
<1>1. ASSUME RecoveryInv, Accounted, Late, pc \in {"prepared", "looked"},
             \A o \in unresolved : o \in Background /\ since[o] = turn
      PROVE  Waited(Waiting \cup unresolved)
  <2> SUFFICES ASSUME NEW d \in Dangling \ {call}
               PROVE  d \in Background /\ since[d] = turn /\ d \in Waiting \cup unresolved
    BY DEF Waited
  <2>1. d \in Covered(unresolved) \cup Watched
    BY <1>1 DEF Accounted, Handled, Handling, InTurn
  <2>2. Background \cap Turns = {}
    BY CallsAssumption DEF Turns
  <2>3. d \in unresolved \cup Watched
    BY <1>1, <2>1, <2>2 DEF Covered
  <2>4. d \in Background
    BY <1>1, <2>3 DEF Late
  <2>5. since[d] = turn
    <3>1. since[d] \in 0..turn /\ turn \in Nat
      BY <1>1, <2>4, CallsAssumption DEF RecoveryInv, TypeOK
    <3>2. ~(since[d] < turn)
      BY <1>1 DEF RecoveryInv, OldBlocked, Old
    <3> QED BY <3>1, <3>2
  <2> QED BY <2>3, <2>4, <2>5 DEF Watched
<1>2. RecoveryInv /\ Accounted /\ Late /\ [Next]_vars =>
        /\ pc # "looked" /\ pc' = "looked" => Waited(Waiting)
        /\ (acted' \ acted) \cap File # {} => pc = "looked" /\ Waited(Waiting \cup unresolved)
  <2> SUFFICES ASSUME RecoveryInv, Accounted, Late, [Next]_vars
               PROVE  /\ pc # "looked" /\ pc' = "looked" => Waited(Waiting)
                      /\ (acted' \ acted) \cap File # {} =>
                           pc = "looked" /\ Waited(Waiting \cup unresolved)
    OBVIOUS
  <2>1. ASSUME pc # "looked", pc' = "looked" PROVE Waited(Waiting)
    <3>1. Look
      BY <2>1 DEF Next, Turn, StatusTool, StartTurn, Recover, Checkpoint, EndTurn, Abandon, Denied, Act,
        Replace, Finish, Settle, Dispatch, Refuse, Observe, Answer, Reconcile, Superseded, ReconcileFails,
        Cite, Exit, Report, Crash, Return, vars, thread
    <3>2. pc = "prepared" /\ unresolved = {}
      BY <2>1, <3>1 DEF Look, Return
    <3> QED BY <1>1, <3>2 DEF Waited
  <2>2. ASSUME (acted' \ acted) \cap File # {}
        PROVE  pc = "looked" /\ Waited(Waiting \cup unresolved)
    <3>1. Replace \/ (Act /\ acted' # acted)
      BY <2>2 DEF Next, Turn, StatusTool, StartTurn, Recover, Checkpoint, EndTurn, Abandon, Denied, Look,
        Finish, Settle, Dispatch, Refuse, Observe, Answer, Reconcile, Superseded, ReconcileFails, Cite, Exit,
        Report, Crash, vars, history
    <3>2. pc = "looked"
      BY <2>2, <3>1 DEF Act, Replace
    <3>3. \A o \in unresolved : o \in Background /\ since[o] = turn
      BY <3>2 DEF Late
    <3> QED BY <1>1, <3>2, <3>3
  <2> QED BY <2>1, <2>2
<1> QED BY <1>2, RecoveryInvariant, RecoveryAccounted, RecoveryLate, PTL DEF Spec, FilesWait

--------------------------------------------------------------------------------

(* Every call in S started after the turns whose journals are in T. *)
Before(T, S) == \A t \in T \cap Turns, c \in S \cap Calls : t < since[c]

(* What a journal or the scope has taken over from a journal that could not be
   read stands for calls of earlier turns, none of which it names itself.  *)
Apart ==
  /\ \A t \in Turns : /\ journal[t].pending \cap Calls \subseteq started
                      /\ Before(journal[t].pending, journal[t].pending)
                      /\ \A q \in journal[t].pending \cap Turns : q < t
  /\ pc # "idle" => /\ \A q \in unresolved \cap Turns : q < turn
                    /\ Before(unresolved, journal[turn].pending)
  /\ pc = "recover" => unresolved \cap Calls \subseteq started /\ Before(unresolved, unresolved)

(* What was decided is not in the journals of the session, nor taken over. *)
Decided ==
  /\ agreed \subseteq started
  /\ agreed \cap Interrupted(pointer) = {} /\ agreed \cap Interrupted(saved) = {}
  /\ pc \in {"recover", "checkpoint"} => agreed \cap unresolved = {}
  /\ pc = "checkpoint" => agreed \cap Interrupted(turn) = {}

DecisionInv == RecoveryInv /\ Apart /\ Decided

(* The turn that is under way when a call or a decision is recorded. *)
Appends(N) ==
  /\ \A t \in Turns \ {turn} : journal'[t] = journal[t]
  /\ journal'[turn].pending \subseteq journal[turn].pending \cup N
  /\ journal[turn].tail = "corrupt" => journal'[turn].tail = "corrupt"

(* What each append of the turn may add to its journal. *)
LEMMA NextAppends ==
  ASSUME RecoveryInv, turn \in Turns
  PROVE  /\ \A c \in Ops :
              Append(turn, Started(journal[turn], c)) \/ AppendFails(turn, Started(journal[turn], c))
                => Appends({c})
         /\ \A c \in Ops : \A how :
              Append(turn, Settled(journal[turn], c, how)) \/ AppendFails(turn, Settled(journal[turn], c, how))
                => Appends({})
         /\ \A c \in Ops :
              Append(turn, Reconciled(journal[turn], c)) \/ AppendFails(turn, Reconciled(journal[turn], c))
                => Appends({})
         /\ Append(turn, journal[turn]) \/ AppendFails(turn, journal[turn]) => Appends({})
         /\ Append(turn, Pending(journal[turn], unresolved)) \/
            AppendFails(turn, Pending(journal[turn], unresolved)) => Appends(unresolved)
<1>t. TypeOK /\ journal[turn] \in Journals /\ unresolved \in SUBSET Ops
  BY DEF RecoveryInv, TypeOK
<1>k. ASSUME NEW new \in Journals, NEW N, new.tail = journal[turn].tail,
             new.pending \subseteq journal[turn].pending \cup N,
             Append(turn, new) \/ AppendFails(turn, new)
      PROVE  Appends(N)
  BY <1>k, <1>t, Kept DEF Appends
<1>1. ASSUME NEW c \in Ops
      PROVE  /\ Started(journal[turn], c) \in Journals
             /\ Started(journal[turn], c).tail = journal[turn].tail
             /\ Started(journal[turn], c).pending \subseteq journal[turn].pending \cup {c}
             /\ Reconciled(journal[turn], c) \in Journals
             /\ Reconciled(journal[turn], c).tail = journal[turn].tail
             /\ Reconciled(journal[turn], c).pending \subseteq journal[turn].pending \cup {}
  BY <1>t, RecordsTyped, RecordsSay
<1>2. ASSUME NEW c \in Ops, NEW how
      PROVE  /\ Settled(journal[turn], c, how) \in Journals
             /\ Settled(journal[turn], c, how).tail = journal[turn].tail
             /\ Settled(journal[turn], c, how).pending \subseteq journal[turn].pending \cup {}
  BY <1>t, RecordsTyped, RecordsSay DEF Settled, Journals
<1>3. /\ Pending(journal[turn], unresolved) \in Journals
      /\ Pending(journal[turn], unresolved).tail = journal[turn].tail
      /\ Pending(journal[turn], unresolved).pending \subseteq journal[turn].pending \cup unresolved
  BY <1>t, RecordsTyped, RecordsSay
<1>4. \A c \in Ops :
        /\ Append(turn, Started(journal[turn], c)) \/ AppendFails(turn, Started(journal[turn], c))
             => Appends({c})
        /\ Append(turn, Reconciled(journal[turn], c)) \/ AppendFails(turn, Reconciled(journal[turn], c))
             => Appends({})
  BY <1>1, <1>k
<1>5. \A c \in Ops : \A how :
        Append(turn, Settled(journal[turn], c, how)) \/ AppendFails(turn, Settled(journal[turn], c, how))
          => Appends({})
  BY <1>2, <1>k
<1>6. Append(turn, journal[turn]) \/ AppendFails(turn, journal[turn]) => Appends({})
  BY <1>t, <1>k
<1>7. Append(turn, Pending(journal[turn], unresolved)) \/
      AppendFails(turn, Pending(journal[turn], unresolved)) => Appends(unresolved)
  BY <1>3, <1>k
<1> QED BY <1>4, <1>5, <1>6, <1>7

(* A watcher removes the call it watched, if anything. *)
LEMMA WatcherAppends ==
  ASSUME RecoveryInv, NEW c \in Calls, Exit(c)
  PROVE  /\ \A t \in Turns : journal'[t].pending \subseteq journal[t].pending
         /\ \A t \in Turns : journal[t].tail = "corrupt" => journal'[t].tail = "corrupt"
<1>t. PICK t \in Turns : t = since[c]
  BY ExitAppends
<1>1. PICK new \in {journal[t], Completed(journal[t], c)} :
        /\ new \in Journals /\ new.tail = journal[t].tail
        /\ Append(t, new) \/ AppendFails(t, new)
  BY <1>t, ExitAppends
<1>2. TypeOK /\ journal[t] \in Journals
  BY DEF RecoveryInv, TypeOK
<1>3. new.pending \subseteq journal[t].pending
  BY <1>1, <1>2, RecordsSay
<1>4. /\ \A q \in Turns \ {t} : journal'[q] = journal[q]
      /\ journal[t].tail = "corrupt" => journal'[t].tail = "corrupt"
      /\ journal'[t].pending = journal[t].pending \/ journal'[t].pending = new.pending
  BY <1>1, <1>2, Kept
<1> QED BY <1>3, <1>4

(* Journals that only lose operations stay apart. *)
LEMMA FewerApart ==
  ASSUME Apart, \A t \in Turns : journal'[t].pending \subseteq journal[t].pending,
         UNCHANGED <<turn, started, since>>, unresolved' \cap Turns \subseteq unresolved,
         pc # "idle" => turn \in Turns,
         pc' # "idle" => pc # "idle",
         pc' = "recover" => pc = "recover" /\ unresolved' = unresolved
  PROVE  Apart'
BY DEF Apart, Before

(* So do those to which a call is added that begins. *)
LEMMA BeginApart ==
  ASSUME RecoveryInv, Apart, NEW c \in Calls, c \notin started, Begin(c), Appends({c}),
         UNCHANGED <<turn, unresolved>>, pc = "ready", pc' # "recover"
  PROVE  Apart'
<1>t. /\ turn \in Turns /\ turn \in Nat /\ Turns = 1..MaxTurns /\ MaxTurns \in Nat
      /\ started \subseteq Calls /\ since \in [Calls -> 0..turn] /\ Calls \cap Turns = {}
      /\ started' = started \cup {c} /\ since' = [since EXCEPT ![c] = turn]
  BY LimitsAssumption, CallsAssumption
  DEF RecoveryInv, TypeOK, Control, InTurn, Turns, Begin
<1>s. \A d \in started : since'[d] = since[d]
  BY <1>t
<1>1. ASSUME NEW t \in Turns \ {turn}
      PROVE  /\ journal'[t].pending \cap Calls \subseteq started'
             /\ Before(journal[t].pending, journal[t].pending)'
             /\ \A q \in journal'[t].pending \cap Turns : q < t
  BY <1>t, <1>s DEF Appends, Apart, Before
<1>2. \A q \in journal'[turn].pending \cap Turns : q \in journal[turn].pending /\ q < turn
  BY <1>t DEF Appends, Apart
<1>3. \A d \in journal'[turn].pending \cap Calls :
         d = c \/ (d \in journal[turn].pending \cap Calls /\ d \in started)
  BY <1>t DEF Appends, Apart
<1>4. Before(journal[turn].pending, journal[turn].pending)'
  BY <1>t, <1>s, <1>2, <1>3 DEF Apart, Before
<1>5. Before(unresolved, journal[turn].pending)' /\ \A q \in unresolved' \cap Turns : q < turn'
  BY <1>t, <1>s, <1>3 DEF Apart, Before
<1> QED BY <1>t, <1>1, <1>2, <1>3, <1>4, <1>5 DEF Apart

LEMMA NextApart == RecoveryInv /\ Apart /\ [Next]_vars => Apart'
<1> SUFFICES ASSUME RecoveryInv, Apart, [Next]_vars PROVE Apart'
  OBVIOUS
<1>t. /\ TypeOK /\ Control /\ turn \in Nat /\ pointer \in 0..turn /\ saved \in 0..turn
      /\ Turns = 1..MaxTurns /\ MaxTurns \in Nat /\ Calls \cap Turns = {} /\ Ops = Calls \cup Turns
      /\ journal \in [Turns -> Journals] /\ started \subseteq Calls /\ since \in [Calls -> 0..turn]
      /\ pc # "idle" => turn \in Turns
  BY LimitsAssumption, CallsAssumption DEF RecoveryInv, TypeOK, Control, Turns, Ops
<1>h. pc \in Handling => call \in Ops
  BY <1>t DEF Control
<1>a. ASSUME Appends({}), turn \in Turns PROVE \A t \in Turns : journal'[t].pending \subseteq journal[t].pending
  BY <1>a DEF Appends
<1>1. CASE StartTurn
  <2>1. /\ pointer # 0 => pointer \in Turns
        /\ turn' = turn + 1 /\ turn' \in Turns /\ UNCHANGED <<journal, started, since>>
        /\ unresolved' = Interrupted(pointer)
    BY <1>1, <1>t DEF StartTurn, disk, history
  <2>2. journal[turn'].pending = {}
    BY <1>t, <2>1 DEF RecoveryInv, Fresh, Blank
  <2>3. CASE pointer = 0 \/ journal[pointer].tail = "corrupt"
    <3>1. unresolved' \subseteq {pointer} /\ unresolved' \cap Calls = {} /\ pointer < turn'
      BY <1>t, <2>1, <2>3, LimitsAssumption DEF Interrupted
    <3> QED BY <2>1, <2>2, <3>1 DEF Apart, Before
  <2>4. CASE pointer # 0 /\ journal[pointer].tail # "corrupt"
    <3>1. unresolved' = journal[pointer].pending
      BY <2>1, <2>4 DEF Interrupted
    <3>2. \A q \in unresolved' \cap Turns : q < turn'
      BY <1>t, <2>1, <2>4, <3>1 DEF Apart
    <3> QED BY <2>1, <2>2, <2>4, <3>1, <3>2 DEF Apart, Before
  <2> QED BY <2>3, <2>4
<1>2. CASE Recover
  <2>1. /\ Appends(unresolved) /\ turn \in Turns /\ pc = "recover" /\ pc' \notin {"recover"}
        /\ UNCHANGED <<turn, unresolved, started, since>>
    BY <1>2, <1>t, NextAppends DEF Recover, scope, history
  <2>2. journal[turn].pending = {}
    BY <2>1 DEF RecoveryInv, Fresh, Blank
  <2>3. journal'[turn].pending \subseteq unresolved /\ \A t \in Turns \ {turn} : journal'[t] = journal[t]
    BY <2>1, <2>2 DEF Appends
  <2> QED BY <2>1, <2>3 DEF Apart, Before
<1>3. ASSUME NEW c \in Calls, Dispatch(c) PROVE Apart'
  <2>1. Appends({c})
    BY <1>3, <1>t, NextAppends DEF Dispatch
  <2> QED BY <1>3, <2>1, BeginApart DEF Dispatch, scope
<1>4. ASSUME NEW d \in Status, NEW c \in unresolved, NEW o \in observed, Cite(d, c, o) PROVE Apart'
  <2>1. d \in Calls /\ Appends({d})
    BY <1>4, <1>t, CallsAssumption, NextAppends DEF Cite
  <2> QED BY <1>4, <2>1, BeginApart DEF Cite, scope
<1>5. CASE Settle
  <2>1. Appends({})
    BY <1>5, <1>t, <1>h, NextAppends DEF Settle, Handling, InTurn
  <2>2. unresolved' \cap Turns \subseteq unresolved
    BY <1>5, <1>t DEF Settle, MarkUnknown, Control, Handling, InTurn
  <2> QED BY <1>5, <1>t, <1>a, <2>1, <2>2, FewerApart DEF Settle, history
<1>6. ASSUME NEW c \in Calls, Refuse(c) PROVE Apart'
  <2>1. Appends({})
    BY <1>6, <1>t, NextAppends DEF Refuse
  <2>2. unresolved' \cap Turns \subseteq unresolved
    BY <1>6, <1>t DEF Refuse, MarkUnknown
  <2> QED BY <1>6, <1>t, <1>a, <2>1, <2>2, FewerApart DEF Refuse, history, thread
<1>7. CASE Observe \/ Act \/ Finish
  <2>1. Appends({}) \/ UNCHANGED journal
    BY <1>7, <1>t, NextAppends DEF Observe, Act, Finish
  <2>2. /\ UNCHANGED <<turn, unresolved, started, since>> /\ pc # "idle" /\ pc' # "recover" /\ turn \in Turns
    BY <1>7, <1>t DEF Observe, Act, Finish, Return, thread, scope, history
  <2> QED BY <1>t, <1>a, <2>1, <2>2, FewerApart
<1>8. CASE Reconcile \/ ReconcileFails
  <2>1. target \in Ops /\ turn \in Turns
    BY <1>8, <1>t DEF Reconcile, ReconcileFails, TypeOK
  <2>2. Appends({})
    BY <1>8, <2>1, NextAppends DEF Reconcile, ReconcileFails
  <2>3. /\ UNCHANGED <<turn, started, since>> /\ unresolved' \subseteq unresolved
        /\ pc # "idle" /\ pc' # "recover"
    BY <1>8 DEF Reconcile, ReconcileFails, scope
  <2> QED BY <1>t, <1>a, <2>1, <2>2, <2>3, FewerApart
<1>9. ASSUME NEW c \in Calls, Exit(c) PROVE Apart'
  <2>1. \A t \in Turns : journal'[t].pending \subseteq journal[t].pending
    BY <1>9, WatcherAppends
  <2> QED BY <1>9, <1>t, <2>1, FewerApart DEF Exit, thread, scope
<1>10. ASSUME NEW c \in Calls, Report(c) PROVE Apart'
  <2>1. since[c] = turn => pc # "recover"
    BY <1>10, <1>t DEF Report, RecoveryInv, Born, Control
  <2>2. unresolved' \cap Turns \subseteq unresolved /\ (pc = "recover" => unresolved' = unresolved)
    BY <1>10, <1>t, <2>1 DEF Report, MarkUnknown
  <2> QED BY <1>10, <1>t, <2>2, FewerApart DEF Report, thread, disk, history
<1>11. CASE \/ Checkpoint \/ EndTurn \/ Abandon \/ Denied \/ Look \/ Replace \/ Answer \/ Superseded
            \/ UNCHANGED vars
  <2>1. /\ UNCHANGED <<journal, turn, started, since, unresolved>>
        /\ pc' # "idle" => pc # "idle"
        /\ pc' = "recover" => pc = "recover"
    BY <1>11 DEF Checkpoint, EndTurn, Abandon, Denied, Look, Replace, Answer, Superseded, Return, vars, disk,
      scope, thread, history
  <2> QED BY <2>1, <1>t, FewerApart
<1>12. CASE Crash
  BY <1>12 DEF Crash, disk, history, Apart, Before
<1> QED
  BY <1>1, <1>2, <1>3, <1>4, <1>5, <1>6, <1>7, <1>8, <1>9, <1>10, <1>11, <1>12
  DEF Next, Turn, StatusTool

--------------------------------------------------------------------------------

(* What is decided stays out of a journal to which nothing decided is added. *)
LEMMA OutStays ==
  ASSUME RecoveryInv, NEW p \in 0..MaxTurns, NEW N, agreed \cap Interrupted(p) = {},
         agreed' = agreed, agreed \cap N = {},
         p # 0 => /\ journal'[p].pending \subseteq journal[p].pending \cup N
                  /\ journal[p].tail = "corrupt" => journal'[p].tail = "corrupt"
  PROVE  agreed' \cap Interrupted(p)' = {}
<1>1. agreed \subseteq Calls /\ agreed \cap {p} = {}
  BY LimitsAssumption, CallsAssumption DEF RecoveryInv, TypeOK
<1>2. CASE p = 0
  BY <1>2 DEF Interrupted
<1>3. CASE p # 0 /\ journal'[p].tail = "corrupt"
  BY <1>1, <1>3 DEF Interrupted
<1>4. CASE p # 0 /\ journal'[p].tail # "corrupt"
  <2>1. Interrupted(p) = journal[p].pending /\ Interrupted(p)' = journal'[p].pending
    BY <1>4 DEF Interrupted
  <2> QED BY <1>4, <2>1
<1> QED BY <1>2, <1>3, <1>4

(* A step that decides nothing, and adds nothing decided to any journal. *)
LEMMA StaysDecided ==
  ASSUME RecoveryInv, Decided, NEW N, agreed \cap N = {}, agreed' = agreed, started \subseteq started',
         \A t \in Turns : /\ journal'[t].pending \subseteq journal[t].pending \cup N
                          /\ journal[t].tail = "corrupt" => journal'[t].tail = "corrupt",
         UNCHANGED <<pointer, saved, turn>>,
         pc' \in {"recover", "checkpoint"} => pc' = pc /\ unresolved' = unresolved
  PROVE  Decided'
<1>t. /\ turn \in 0..MaxTurns /\ pointer \in 0..MaxTurns /\ saved \in 0..MaxTurns
      /\ \A p \in 0..MaxTurns : p # 0 => p \in Turns
  BY LimitsAssumption DEF RecoveryInv, TypeOK, Turns
<1>1. \A p \in 0..MaxTurns : agreed \cap Interrupted(p) = {} => agreed' \cap Interrupted(p)' = {}
  BY <1>t, OutStays
<1>2. agreed' \cap Interrupted(pointer)' = {} /\ agreed' \cap Interrupted(saved)' = {}
  BY <1>t, <1>1 DEF Decided
<1>3. pc' = "checkpoint" => agreed' \cap Interrupted(turn)' = {}
  BY <1>t, <1>1 DEF Decided
<1> QED BY <1>2, <1>3 DEF Decided

LEMMA NothingAdded ==
  ASSUME RecoveryInv, Decided, agreed' = agreed, started \subseteq started',
         \A t \in Turns : /\ journal'[t].pending \subseteq journal[t].pending
                          /\ journal[t].tail = "corrupt" => journal'[t].tail = "corrupt",
         UNCHANGED <<pointer, saved, turn>>,
         pc' \in {"recover", "checkpoint"} => pc' = pc /\ unresolved' = unresolved
  PROVE  Decided'
<1> DEFINE N == {}
<1>1. \A t \in Turns : /\ journal'[t].pending \subseteq journal[t].pending \cup N
                       /\ journal[t].tail = "corrupt" => journal'[t].tail = "corrupt"
  OBVIOUS
<1>2. agreed \cap N = {}
  OBVIOUS
<1> HIDE DEF N
<1> QED BY <1>1, <1>2, StaysDecided

(* A decision leaves the journal of the turn without the calls it is about. *)
LEMMA DecisionIsOut ==
  ASSUME RecoveryInv, Apart, Decided, target \in unresolved, pc = "commit",
         Append(turn, Reconciled(journal[turn], target)) \/
           AppendFails(turn, Reconciled(journal[turn], target)),
         agreed' \subseteq agreed \cup Covered({target}), agreed' \subseteq Calls,
         target \in journal'[turn].pending /\ journal'[turn].tail # "corrupt" => agreed' = agreed
  PROVE  agreed' \cap (IF journal'[turn].tail = "corrupt" THEN {turn} ELSE journal'[turn].pending) = {}
<1>t. /\ TypeOK /\ turn \in Turns /\ turn # 0 /\ pointer = turn /\ Calls \cap Turns = {}
      /\ unresolved \subseteq Ops /\ Ops = Calls \cup Turns /\ journal[turn].pending \subseteq Ops
      /\ turn \in Nat /\ since \in [Calls -> 0..turn] /\ Turns = 1..MaxTurns /\ MaxTurns \in Nat
  BY LimitsAssumption, CallsAssumption
  DEF RecoveryInv, TypeOK, Control, InTurn, Turns, Ops, Journals
<1>1. /\ journal'[turn].pending \subseteq journal[turn].pending
      /\ journal[turn].tail = "corrupt" => journal'[turn].tail = "corrupt"
  BY <1>t, NextAppends DEF Appends
<1>2. CASE journal'[turn].tail = "corrupt"
  BY <1>t, <1>2
<1>3. CASE journal'[turn].tail # "corrupt"
  <2>1. agreed \cap journal[turn].pending = {}
    BY <1>t, <1>1, <1>3 DEF Decided, Interrupted
  <2>2. ASSUME NEW c \in agreed', c \in journal'[turn].pending PROVE FALSE
    <3>1. c \in Covered({target}) /\ c \in journal[turn].pending /\ target \notin journal'[turn].pending
      <4>1. c \notin agreed
        BY <1>1, <2>1, <2>2
      <4> QED BY <1>1, <1>3, <2>2, <4>1
    <3>2. c # target /\ c \in Calls
      BY <2>2, <3>1
    <3>3. target \in Turns /\ since[c] <= target
      BY <3>1, <3>2 DEF Covered
    <3>4. target < since[c]
      BY <1>t, <3>1, <3>2, <3>3 DEF Apart, Before
    <3> QED BY <1>t, <3>2, <3>3, <3>4
  <2> QED BY <1>3, <2>2
<1> QED BY <1>2, <1>3

LEMMA NextDecided == DecisionInv /\ [Next]_vars => Decided'
<1> SUFFICES ASSUME RecoveryInv, Apart, Decided, [Next]_vars PROVE Decided'
  BY DEF DecisionInv
<1>t. /\ TypeOK /\ Control /\ turn \in Nat /\ pointer \in 0..turn /\ saved \in 0..turn
      /\ turn \in 0..MaxTurns /\ Turns = 1..MaxTurns /\ MaxTurns \in Nat
      /\ Calls \cap Turns = {} /\ Ops = Calls \cup Turns /\ agreed \subseteq Calls
      /\ pc # "idle" => turn \in Turns
  BY LimitsAssumption, CallsAssumption DEF RecoveryInv, TypeOK, Control, Turns, Ops
<1>h. pc \in Handling => call \in Ops
  BY <1>t DEF Control, TypeOK
<1>e. ASSUME NEW N, Appends(N), turn \in Turns
      PROVE  \A t \in Turns : /\ journal'[t].pending \subseteq journal[t].pending \cup N
                              /\ journal[t].tail = "corrupt" => journal'[t].tail = "corrupt"
  BY <1>e DEF Appends
<1>1. CASE StartTurn
  <2>1. UNCHANGED <<journal, pointer, saved, agreed, started>> /\ unresolved' = Interrupted(pointer)
        /\ pc' = "recover"
    BY <1>1 DEF StartTurn, disk, history
  <2> QED BY <2>1 DEF Decided, Interrupted
<1>2. CASE Recover
  <2>1. /\ Appends(unresolved) /\ turn \in Turns /\ pc = "recover"
        /\ UNCHANGED <<turn, pointer, saved, unresolved, started, agreed>>
        /\ pc' \in {"checkpoint", "idle"}
    BY <1>2, <1>t, NextAppends DEF Recover, scope, history
  <2>2. /\ journal[turn] = Blank /\ agreed \cap unresolved = {} /\ agreed \cap Interrupted(turn) = {}
    BY <2>1 DEF RecoveryInv, Fresh, Blank, Decided, Interrupted
  <2>3. \A p \in 0..MaxTurns : agreed \cap Interrupted(p) = {} => agreed' \cap Interrupted(p)' = {}
    <3> TAKE p \in 0..MaxTurns
    <3>1. p # 0 => /\ journal'[p].pending \subseteq journal[p].pending \cup unresolved
                   /\ journal[p].tail = "corrupt" => journal'[p].tail = "corrupt"
      BY <1>t, <2>1, <1>e
    <3> QED BY <2>1, <2>2, <3>1, OutStays
  <2>4. /\ agreed' \cap Interrupted(turn)' = {} /\ agreed' \cap Interrupted(pointer)' = {}
        /\ agreed' \cap Interrupted(saved)' = {}
    <3>1. turn \in 0..MaxTurns /\ pointer \in 0..MaxTurns /\ saved \in 0..MaxTurns
      BY <1>t
    <3>2. \A p \in {turn, pointer, saved} : agreed \cap Interrupted(p) = {}
      BY <2>2 DEF Decided
    <3>3. \A p \in {turn, pointer, saved} : agreed' \cap Interrupted(p)' = {}
      BY <2>3, <3>1, <3>2
    <3> QED BY <2>1, <3>3 DEF Interrupted
  <2> QED BY <2>1, <2>2, <2>4 DEF Decided
<1>3. CASE Checkpoint
  <2>1. /\ pc = "checkpoint" /\ pc' \notin {"recover", "checkpoint"} /\ pointer' = turn
        /\ saved' \in {saved, turn} /\ UNCHANGED <<journal, agreed, started, turn>>
    BY <1>3 DEF Checkpoint, history
  <2> QED BY <2>1 DEF Decided, Interrupted
<1>4. ASSUME NEW c \in Calls, Dispatch(c) PROVE Decided'
  <2>1. Appends({c}) /\ turn \in Turns /\ agreed \cap {c} = {}
    BY <1>4, <1>t, NextAppends DEF Dispatch, Decided
  <2>2. /\ UNCHANGED <<agreed, pointer, saved, turn>> /\ started \subseteq started'
        /\ pc' \notin {"recover", "checkpoint"}
    BY <1>4 DEF Dispatch, Begin
  <2>3. \A t \in Turns : /\ journal'[t].pending \subseteq journal[t].pending \cup {c}
                         /\ journal[t].tail = "corrupt" => journal'[t].tail = "corrupt"
    BY <2>1, <1>e
  <2> QED BY <2>1, <2>2, <2>3, StaysDecided
<1>5. ASSUME NEW d \in Status, NEW c \in unresolved, NEW o \in observed, Cite(d, c, o) PROVE Decided'
  <2>1. d \in Calls /\ Appends({d}) /\ turn \in Turns /\ agreed \cap {d} = {}
    BY <1>5, <1>t, CallsAssumption, NextAppends DEF Cite, Decided
  <2>2. /\ UNCHANGED <<agreed, pointer, saved, turn>> /\ started \subseteq started'
        /\ pc' \notin {"recover", "checkpoint"}
    BY <1>5 DEF Cite, Begin
  <2>3. \A t \in Turns : /\ journal'[t].pending \subseteq journal[t].pending \cup {d}
                         /\ journal[t].tail = "corrupt" => journal'[t].tail = "corrupt"
    BY <2>1, <1>e
  <2> QED BY <2>1, <2>2, <2>3, StaysDecided
<1>n. ASSUME Appends({}) \/ UNCHANGED journal, turn \in Turns,
             UNCHANGED <<agreed, started, pointer, saved, turn>>, pc' \notin {"recover", "checkpoint"}
      PROVE  Decided'
  <2>1. \A t \in Turns : /\ journal'[t].pending \subseteq journal[t].pending
                         /\ journal[t].tail = "corrupt" => journal'[t].tail = "corrupt"
    BY <1>n, <1>e
  <2> QED BY <1>n, <2>1, NothingAdded
<1>6. CASE Settle
  <2>1. Appends({}) /\ turn \in Turns
    BY <1>6, <1>t, <1>h, NextAppends DEF Settle, Handling, InTurn
  <2> QED BY <1>6, <2>1, <1>n DEF Settle, history
<1>7. ASSUME NEW c \in Calls, Refuse(c) PROVE Decided'
  <2>1. Appends({}) /\ turn \in Turns
    BY <1>7, <1>t, NextAppends DEF Refuse
  <2> QED BY <1>7, <2>1, <1>n DEF Refuse, history, thread
<1>8. CASE Observe \/ Act \/ Finish
  <2>1. (Appends({}) \/ UNCHANGED journal) /\ turn \in Turns
    BY <1>8, <1>t, NextAppends DEF Observe, Act, Finish
  <2> QED BY <1>8, <2>1, <1>n DEF Observe, Act, Finish, Return, thread, history
<1>9. CASE Reconcile \/ ReconcileFails
  <2>1. /\ turn \in Turns /\ target \in unresolved /\ pc = "commit"
        /\ UNCHANGED <<turn, pointer, saved, started>> /\ pc' = "returned"
        /\ \/ Append(turn, Reconciled(journal[turn], target))
           \/ AppendFails(turn, Reconciled(journal[turn], target))
    BY <1>9, <1>t DEF Reconcile, ReconcileFails
  <2>2. /\ agreed' \subseteq agreed \cup Covered({target})
        /\ target \in journal'[turn].pending /\ journal'[turn].tail # "corrupt" => agreed' = agreed
    <3>1. CASE ReconcileFails
      BY <3>1 DEF ReconcileFails
    <3>2. CASE Reconcile /\ journal[turn].tail = "whole"
      <4>1. target \in Ops /\ journal[turn] \in Journals /\ journal \in [Turns -> Journals]
        BY <1>t, <2>1 DEF TypeOK
      <4>2. journal'[turn].pending = journal[turn].pending \ {target}
        BY <3>2, <4>1, <2>1, RecordsSay DEF Reconcile, Append, Line
      <4> QED BY <3>2, <4>2 DEF Reconcile, Agree
    <3>3. CASE Reconcile /\ journal[turn].tail # "whole"
      <4>1. journal \in [Turns -> Journals] /\ journal[turn] \in Journals
        BY <1>t, <2>1 DEF TypeOK
      <4>2. journal'[turn].tail = "corrupt"
        BY <3>3, <4>1, <2>1 DEF Reconcile, Append, Line, Journals
      <4> QED BY <3>3, <4>2 DEF Reconcile, Agree
    <3> QED BY <1>9, <3>1, <3>2, <3>3
  <2>3. agreed' \subseteq started' /\ agreed' \subseteq Calls
    BY <2>1, <2>2, <1>t DEF Decided, Covered, TypeOK
  <2>4. agreed' \cap (IF journal'[turn].tail = "corrupt" THEN {turn} ELSE journal'[turn].pending) = {}
    BY <2>1, <2>2, <2>3, DecisionIsOut
  <2>5. /\ pointer' = turn /\ saved' = turn /\ turn # 0
    BY <2>1, <1>t, LimitsAssumption DEF Control, InTurn
  <2>6. agreed' \cap Interrupted(pointer)' = {} /\ agreed' \cap Interrupted(saved)' = {}
    BY <2>1, <2>4, <2>5 DEF Interrupted
  <2> QED BY <2>1, <2>3, <2>6 DEF Decided
<1>10. ASSUME NEW c \in Calls, Exit(c) PROVE Decided'
  <2>1. \A t \in Turns : /\ journal'[t].pending \subseteq journal[t].pending
                         /\ journal[t].tail = "corrupt" => journal'[t].tail = "corrupt"
    BY <1>10, WatcherAppends
  <2>2. UNCHANGED <<pc, unresolved, agreed, started, pointer, saved, turn>>
    BY <1>10 DEF Exit, thread, scope
  <2> QED BY <2>1, <2>2, NothingAdded
<1>11. ASSUME NEW c \in Calls, Report(c) PROVE Decided'
  <2>1. since[c] = turn => pc \notin {"recover", "checkpoint"}
    BY <1>11, <1>t DEF Report, RecoveryInv, Born, Control
  <2>2. UNCHANGED <<pc, agreed, started, pointer, saved, turn, journal>>
        /\ (pc \in {"recover", "checkpoint"} => unresolved' = unresolved)
    BY <1>11, <2>1 DEF Report, thread, disk, history
  <2> QED BY <2>2, NothingAdded
<1>12. CASE \/ EndTurn \/ Abandon \/ Denied \/ Look \/ Replace \/ Answer \/ Superseded
  <2>1. turn \in Turns /\ UNCHANGED <<journal, agreed, started, pointer, saved, turn>>
        /\ pc' \notin {"recover", "checkpoint"}
    BY <1>12, <1>t DEF EndTurn, Abandon, Denied, Look, Replace, Answer, Superseded, Return, disk, history
  <2> QED BY <2>1, <1>n
<1>13. CASE Crash
  BY <1>13 DEF Crash, disk, history, Decided, Interrupted
<1>14. CASE UNCHANGED vars
  BY <1>14 DEF vars, disk, thread, scope, history, Decided, Interrupted
<1> QED
  BY <1>1, <1>2, <1>3, <1>4, <1>5, <1>6, <1>7, <1>8, <1>9, <1>10, <1>11, <1>12, <1>13, <1>14
  DEF Next, Turn, StatusTool

(* A decision of the user is final: whatever fails or crashes, the turn that recovers
   from the session file does not ask for it again.  *)
THEOREM DecisionsSafe == Spec => []AgreedStays
<1>1. Init => Apart /\ Decided
  BY DEF Init, Apart, Decided, Before, Blank, Interrupted
<1>2. DecisionInv /\ [Next]_vars => Apart' /\ Decided'
  BY NextApart, NextDecided DEF DecisionInv
<1>3. Spec => [](Apart /\ Decided)
  BY <1>1, <1>2, RecoveryInvariant, PTL DEF Spec, DecisionInv
<1>4. Apart /\ Decided => AgreedStays
  BY DEF Decided, AgreedStays
<1> QED BY <1>3, <1>4, PTL
================================================================================
