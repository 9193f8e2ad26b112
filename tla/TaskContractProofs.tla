--------------------------- MODULE TaskContractProofs ---------------------------
(***************************************************************************)
(* Proofs about TaskContract: for any messages, whatever they say, and any *)
(* conditions and bounds, a task that is done is done for what the user    *)
(* asked for last, a restriction holds from its acceptance, and a task is  *)
(* accepted in the workspace that was checked.  The assumptions stand in   *)
(* the theorems.                                                           *)
(***************************************************************************)
EXTENDS TaskContract, FiniteSetTheorems, TLAPS

--------------------------------------------------------------------------------
(* The newest message of a set is one of its members.                          *)
LEMMA NewestIsIn ==
  ASSUME NEW S, S \subseteq Nat, IsFiniteSet(S), S # {}
  PROVE  Newest(S) \in S /\ \A n \in S : n <= Newest(S)
<1> DEFINE Later(m) == {n \in S : n > m}
           Tails == {Later(m) : m \in S}
<1>1. \E T \in Tails : \A U \in Tails : ~(<<U, T>> \in StrictSubsetOrdering(S))
  <2>1. IsWellFoundedOn(StrictSubsetOrdering(S), SUBSET S)
    BY FS_StrictSubsetOrderingWellFounded, FS_FiniteSubsetsOfFinite
  <2>2. Tails \subseteq SUBSET S /\ Tails # {}
    OBVIOUS
  <2> HIDE DEF Tails
  <2> QED BY <2>1, <2>2, WFMin
<1>2. PICK m \in S : \A U \in Tails : ~(<<U, Later(m)>> \in StrictSubsetOrdering(S))
  BY <1>1
<1>3. Later(m) = {}
  <2> SUFFICES ASSUME NEW n \in S, n > m PROVE FALSE
    OBVIOUS
  <2>1. Later(n) \in Tails
    OBVIOUS
  <2>2. Later(n) \subseteq Later(m) /\ n \in Later(m) /\ n \notin Later(n)
    <3>1. \A k \in S : k \in Nat
      OBVIOUS
    <3>2. \A k \in S : k > n => k > m
      BY <3>1
    <3>3. Later(n) \subseteq Later(m)
      BY <3>2
    <3>4. n \in Later(m)
      OBVIOUS
    <3>5. ~(n > n)
      BY <3>1
    <3> QED BY <3>3, <3>4, <3>5
  <2>3. <<Later(n), Later(m)>> \in (SUBSET S) \X (SUBSET S) /\ Later(n) # Later(m)
    BY <2>2
  <2>4. <<Later(n), Later(m)>> \in StrictSubsetOrdering(S)
    BY <2>2, <2>3 DEF StrictSubsetOrdering
  <2> QED BY <1>2, <2>1, <2>4
<1>4. \A n \in S : n <= m
  BY <1>3
<1> QED BY <1>4 DEF Newest

LEMMA NewestMessage ==
  ASSUME MessagesAssumption, NEW S \in SUBSET Messages, S # {}
  PROVE  Newest(S) \in S /\ \A n \in S : n <= Newest(S)
BY NewestIsIn, FS_Subset DEF MessagesAssumption

(* Every message that is new counts.                                           *)
LEMMA NewMessagesCount ==
  ASSUME MessagesAssumption, NEW S \in SUBSET Messages, S # {}
  PROVE  Cardinality(S) \in Nat /\ Cardinality(S) > 0
<1>1. IsFiniteSet(S)
  BY FS_Subset DEF MessagesAssumption
<1>2. Cardinality(S) \in Nat /\ Cardinality(S) # 0
  BY <1>1, FS_CardinalityType, FS_EmptySet
<1> QED BY <1>2

--------------------------------------------------------------------------------
(* What the operators of intent do, field by field.                            *)

SameTask(t, u) == u.id = t.id /\ u.criteria = t.criteria /\ u.stated = t.stated
SameVerdict(t, u) ==
  /\ u.status = t.status /\ u.evidence = t.evidence /\ u.accepted = t.accepted
  /\ u.revision = t.revision
Reset(u) == u.status = "active" /\ u.evidence = NoEvidence /\ u.accepted = NoProof
Inputs(t, u) == u.inputs = t.inputs /\ u.delivered = t.delivered /\ u.pending = t.pending
Only == Saying({"only"})
(* The class is projected from the intent and what is pending.                 *)
Projected(t) ==
  /\ t.pending \cap Only = {} => t.class = t.intent
  /\ t.pending \cap Only # {} => t.class.only

LEMMA ClassifyType ==
  ASSUME MessagesAssumption, NEW m \in Messages, NEW b \in BOOLEAN
  PROVE  Classify(m, b) \in Intents /\ Classify(m, b).only = (Word[m] = "only")
BY DEF Classify, Intents, MessagesAssumption, Words

LEMMA ProjectFields ==
  ASSUME MessagesAssumption, NEW t \in Tasks, NEW u, u = Project(t)
  PROVE  /\ u \in Tasks /\ SameTask(t, u) /\ SameVerdict(t, u) /\ Inputs(t, u)
         /\ u.admitted = t.admitted /\ u.intent = t.intent /\ u.instruction = t.instruction
         /\ Projected(u)
<1> DEFINE narrowing == t.pending \cap Only
           class == IF narrowing = {} THEN t.intent ELSE Classify(Newest(narrowing), TRUE)
<1>1. u = [t EXCEPT !.class = class]
  BY DEF Project, Only
<1>2. class \in Intents /\ (narrowing = {} => class = t.intent) /\ (narrowing # {} => class.only)
  <2>1. CASE narrowing = {}
    BY <2>1 DEF Tasks
  <2>2. CASE narrowing # {}
    <3>1. narrowing \in SUBSET Messages
      BY DEF Only, Saying
    <3>2. Newest(narrowing) \in Messages /\ Word[Newest(narrowing)] = "only"
      BY <2>2, <3>1, NewestMessage DEF Only, Saying
    <3> QED BY <2>2, <3>2, ClassifyType
  <2> QED BY <2>1, <2>2
<1> HIDE DEF class
<1>3. u \in Tasks
  BY <1>1, <1>2 DEF Tasks
<1>4. /\ SameTask(t, u) /\ SameVerdict(t, u) /\ Inputs(t, u)
      /\ u.admitted = t.admitted /\ u.intent = t.intent /\ u.instruction = t.instruction
      /\ u.class = class
  BY <1>1 DEF Tasks, SameTask, SameVerdict, Inputs
<1> QED BY <1>2, <1>3, <1>4 DEF Projected, Inputs

LEMMA AdmittedFields ==
  ASSUME NEW t \in Tasks, NEW u, u = Admitted(t)
  PROVE  /\ u \in Tasks /\ SameTask(t, u) /\ SameVerdict(t, u) /\ Inputs(t, u)
         /\ u.intent = t.intent /\ u.class = t.class /\ u.instruction = t.instruction
         /\ t.pending = {} => u.admitted = t.revision
         /\ t.pending # {} => u.admitted = t.admitted
<1>1. CASE t.pending # {}
  BY <1>1 DEF Admitted, SameTask, SameVerdict, Inputs
<1>2. CASE t.pending = {}
  <2>1. u = [t EXCEPT !.admitted = t.revision] /\ t.revision \in Nat
    BY <1>2 DEF Admitted, Tasks
  <2> QED BY <1>2, <2>1 DEF Tasks, SameTask, SameVerdict, Inputs
<1> QED BY <1>1, <1>2

LEMMA NothingType ==
  ASSUME BoundsAssumption
  PROVE  /\ "active" \in Statuses /\ NoEvidence \in Evidence
         /\ NoProof \in [revision : Nat, world : 0..MaxWorld]
<1>1. 0 \in Nat /\ 0 \in 0..MaxWorld
  BY DEF BoundsAssumption
<1> QED BY <1>1 DEF Statuses, NoEvidence, Evidence, NoProof

LEMMA RevisedFields ==
  ASSUME MessagesAssumption, BoundsAssumption, NEW t \in Tasks, NEW new \in SUBSET Messages, NEW u,
         u = Revised(t, new)
  PROVE  /\ u \in Tasks /\ SameTask(t, u)
         /\ u.inputs = t.inputs \cup new /\ u.delivered = t.delivered /\ u.pending = t.pending
         /\ u.admitted = t.admitted /\ u.intent = t.intent /\ u.class = t.class
         /\ new = {} => SameVerdict(t, u)
         /\ new # {} => Reset(u) /\ u.revision > t.revision
<1>1. CASE new = {}
  BY <1>1 DEF Revised, SameTask, SameVerdict
<1>2. CASE new # {}
  <2> DEFINE n == t.revision + Cardinality(new)
             m == Newest(new)
  <2>1. u = [t EXCEPT !.revision = n, !.inputs = t.inputs \cup new,
                      !.instruction = m, !.status = "active",
                      !.evidence = NoEvidence, !.accepted = NoProof]
    BY <1>2 DEF Revised
  <2>2. n \in Nat /\ n > t.revision
    BY <1>2, NewMessagesCount DEF Tasks
  <2>3. m \in Messages
    BY <1>2, NewestMessage
  <2>4. t.inputs \cup new \subseteq Messages /\ m \in Messages \cup {0}
    BY <2>3 DEF Tasks
  <2> HIDE DEF n, m
  <2>5. u \in Tasks
    BY <2>1, <2>2, <2>4, NothingType, ZenonT(60) DEF Tasks
  <2>6. /\ SameTask(t, u) /\ Reset(u) /\ u.revision = n
        /\ u.inputs = t.inputs \cup new /\ u.delivered = t.delivered /\ u.pending = t.pending
        /\ u.admitted = t.admitted /\ u.intent = t.intent /\ u.class = t.class
    BY <2>1 DEF Tasks, SameTask, Reset
  <2> QED BY <1>2, <2>2, <2>5, <2>6
<1> QED BY <1>1, <1>2

LEMMA AcceptedFields ==
  ASSUME MessagesAssumption, BoundsAssumption, NEW t \in Tasks, NEW S \in SUBSET Messages, NEW u,
         u = Accepted(t, S)
  PROVE  /\ u \in Tasks /\ SameTask(t, u)
         /\ u.inputs = t.inputs \cup (S \ t.delivered) /\ u.delivered = t.delivered
         /\ u.pending = t.pending \cup (S \ t.delivered)
         /\ u.admitted = t.admitted /\ u.intent = t.intent
         /\ S \ t.delivered \subseteq t.inputs => SameVerdict(t, u)
         /\ ~(S \ t.delivered \subseteq t.inputs) => Reset(u) /\ u.revision > t.revision
         /\ Projected(u) \/ (u.class = t.class /\ u.pending = t.pending)
<1> DEFINE new == S \ t.delivered
<1>1. CASE new = {}
  BY <1>1 DEF Accepted, SameTask, SameVerdict, Tasks
<1>2. CASE new # {}
  <2> DEFINE r == Revised(t, new \ t.inputs)
             p == [r EXCEPT !.pending = r.pending \cup new]
  <2>1. u = Project(p)
    BY <1>2 DEF Accepted
  <2>2. /\ r \in Tasks /\ SameTask(t, r)
        /\ r.inputs = t.inputs \cup (new \ t.inputs) /\ r.delivered = t.delivered /\ r.pending = t.pending
        /\ r.admitted = t.admitted /\ r.intent = t.intent
        /\ new \ t.inputs = {} => SameVerdict(t, r)
        /\ new \ t.inputs # {} => Reset(r) /\ r.revision > t.revision
    BY RevisedFields
  <2> HIDE DEF r
  <2>3. p \in Tasks
    BY <2>2 DEF Tasks
  <2>4. /\ SameTask(r, p) /\ SameVerdict(r, p)
        /\ p.inputs = r.inputs /\ p.delivered = r.delivered /\ p.pending = r.pending \cup new
        /\ p.admitted = r.admitted /\ p.intent = r.intent
    BY <2>2 DEF Tasks, SameTask, SameVerdict
  <2> HIDE DEF p
  <2>5. /\ u \in Tasks /\ SameTask(p, u) /\ SameVerdict(p, u) /\ Inputs(p, u)
        /\ u.admitted = p.admitted /\ u.intent = p.intent /\ Projected(u)
    BY <2>1, <2>3, ProjectFields
  <2> QED BY <1>2, <2>2, <2>4, <2>5 DEF SameTask, SameVerdict, Inputs, Reset
<1> QED BY <1>1, <1>2

LEMMA WithdrawnFields ==
  ASSUME MessagesAssumption, NEW t \in Tasks, NEW S, NEW u, u = Withdrawn(t, S)
  PROVE  /\ u \in Tasks /\ SameTask(t, u) /\ SameVerdict(t, u)
         /\ u.inputs = t.inputs /\ u.delivered = t.delivered /\ u.pending = t.pending \ S
         /\ u.intent = t.intent
         /\ u.admitted = t.admitted \/ (u.pending = {} /\ u.admitted = t.revision)
         /\ Projected(u) \/ (u.class = t.class /\ u.pending = t.pending)
<1>1. CASE t.pending \cap S = {}
  BY <1>1 DEF Withdrawn, SameTask, SameVerdict, Tasks
<1>2. CASE t.pending \cap S # {}
  <2> DEFINE w == [t EXCEPT !.pending = t.pending \ S]
             p == Project(w)
  <2>1. u = Admitted(p)
    BY <1>2 DEF Withdrawn
  <2>2. w \in Tasks
    BY DEF Tasks
  <2>3. /\ SameTask(t, w) /\ SameVerdict(t, w)
        /\ w.inputs = t.inputs /\ w.delivered = t.delivered /\ w.pending = t.pending \ S
        /\ w.admitted = t.admitted /\ w.intent = t.intent
    BY DEF Tasks, SameTask, SameVerdict
  <2> HIDE DEF w
  <2>4. /\ p \in Tasks /\ SameTask(w, p) /\ SameVerdict(w, p) /\ Inputs(w, p)
        /\ p.admitted = w.admitted /\ p.intent = w.intent /\ Projected(p)
    BY <2>2, ProjectFields
  <2> HIDE DEF p
  <2>5. /\ u \in Tasks /\ SameTask(p, u) /\ SameVerdict(p, u) /\ Inputs(p, u)
        /\ u.intent = p.intent /\ u.class = p.class
        /\ p.pending = {} => u.admitted = p.revision
        /\ p.pending # {} => u.admitted = p.admitted
    BY <2>1, <2>4, AdmittedFields
  <2> QED BY <2>3, <2>4, <2>5 DEF SameTask, SameVerdict, Inputs, Projected
<1> QED BY <1>1, <1>2

(* "u" is the task "t" with the messages of S delivered.                       *)
GivenOver(t, S, u) ==
  LET new == S \ t.delivered
      deciding == new \cap Saying({"only", "fix", "do"})
  IN /\ u \in Tasks /\ SameTask(t, u)
     /\ u.inputs = t.inputs \cup new /\ u.delivered = t.delivered \cup S
     /\ u.pending = t.pending \ new
     /\ new \subseteq t.inputs => SameVerdict(t, u)
     /\ ~(new \subseteq t.inputs) => Reset(u) /\ u.revision > t.revision
     /\ u.admitted = t.admitted \/ (u.pending = {} /\ u.admitted = u.revision)
     /\ Projected(u) \/ (u.class = t.class /\ u.pending = t.pending /\ u.intent = t.intent)
     /\ deciding = {} => u.intent = t.intent
     /\ deciding # {} => u.intent.only = (Word[Newest(deciding)] = "only")

LEMMA DeliveredFields ==
  ASSUME MessagesAssumption, BoundsAssumption, NEW t \in Tasks, NEW S \in SUBSET Messages, NEW u,
         u = Delivered(t, S)
  PROVE  GivenOver(t, S, u)
<1> DEFINE new == S \ t.delivered
           deciding == new \cap Saying({"only", "fix", "do"})
           intent == IF deciding = {} THEN t.intent ELSE Classify(Newest(deciding), TRUE)
<1>1. CASE new = {}
  <2>1. u = t
    BY <1>1 DEF Delivered
  <2>2. t.delivered \cup S = t.delivered
    BY <1>1
  <2> QED BY <1>1, <2>1, <2>2 DEF GivenOver, SameTask, SameVerdict, Tasks
<1>2. CASE new # {}
  <2> DEFINE r == Revised(t, new \ t.inputs)
             d == [r EXCEPT !.intent = intent, !.pending = r.pending \ new,
                            !.delivered = r.delivered \cup new]
             p == Project(d)
  <2>2. /\ r \in Tasks /\ SameTask(t, r)
        /\ r.inputs = t.inputs \cup (new \ t.inputs) /\ r.delivered = t.delivered /\ r.pending = t.pending
        /\ r.admitted = t.admitted /\ r.intent = t.intent
        /\ new \ t.inputs = {} => SameVerdict(t, r)
        /\ new \ t.inputs # {} => Reset(r) /\ r.revision > t.revision
    BY RevisedFields
  <2>1. u = Admitted(p)
    BY <1>2, <2>2 DEF Delivered
  <2> HIDE DEF r
  <2>3. /\ intent \in Intents
        /\ deciding = {} => intent = t.intent
        /\ deciding # {} => intent.only = (Word[Newest(deciding)] = "only")
    <3>1. CASE deciding = {}
      BY <3>1 DEF Tasks
    <3>2. CASE deciding # {}
      <4>1. Newest(deciding) \in Messages
        BY <3>2, NewestMessage
      <4> QED BY <3>2, <4>1, ClassifyType
    <3> QED BY <3>1, <3>2
  <2> HIDE DEF intent
  <2>4. d \in Tasks
    BY <2>2, <2>3 DEF Tasks
  <2>5. /\ SameTask(r, d) /\ SameVerdict(r, d)
        /\ d.inputs = r.inputs /\ d.delivered = r.delivered \cup new /\ d.pending = r.pending \ new
        /\ d.admitted = r.admitted /\ d.intent = intent
    BY <2>2 DEF Tasks, SameTask, SameVerdict
  <2> HIDE DEF d
  <2>6. /\ p \in Tasks /\ SameTask(d, p) /\ SameVerdict(d, p) /\ Inputs(d, p)
        /\ p.admitted = d.admitted /\ p.intent = d.intent /\ Projected(p)
    BY <2>4, ProjectFields
  <2> HIDE DEF p
  <2>7. /\ u \in Tasks /\ SameTask(p, u) /\ SameVerdict(p, u) /\ Inputs(p, u)
        /\ u.intent = p.intent /\ u.class = p.class
        /\ p.pending = {} => u.admitted = p.revision
        /\ p.pending # {} => u.admitted = p.admitted
    BY <2>1, <2>6, AdmittedFields
  <2>8. SameTask(t, u) /\ u \in Tasks /\ u.intent = intent
    BY <2>2, <2>5, <2>6, <2>7 DEF SameTask
  <2>9. /\ u.inputs = t.inputs \cup new /\ u.delivered = t.delivered \cup S
        /\ u.pending = t.pending \ new /\ Projected(u)
    BY <2>2, <2>5, <2>6, <2>7 DEF Inputs, Projected
  <2>10. /\ new \subseteq t.inputs => SameVerdict(t, u)
         /\ ~(new \subseteq t.inputs) => Reset(u) /\ u.revision > t.revision
    BY <2>2, <2>5, <2>6, <2>7 DEF SameVerdict, Reset
  <2>11. /\ u.pending = {} => u.admitted = u.revision
         /\ u.pending # {} => u.admitted = t.admitted
    BY <2>2, <2>5, <2>6, <2>7 DEF SameVerdict, Inputs
  <2> QED BY <2>3, <2>8, <2>9, <2>10, <2>11 DEF GivenOver
<1> QED BY <1>1, <1>2

--------------------------------------------------------------------------------
(* The invariant.                                                              *)

Steers == Is("steer")
Waiting == queue.pending \cup (queue.claimed \cap Undelivered)

(* The books of the inbox: nothing is in two of its lists, what the worker has *)
(* taken is claimed until it is acknowledged, and all of it was sent before.   *)
Books ==
  /\ \A m \in task.inputs \cup queue.pending \cup queue.claimed \cup queue.returned \cup {human} :
       m <= newest
  /\ queue.pending \cap queue.claimed = {} /\ queue.pending \cap queue.returned = {}
  /\ queue.claimed \cap queue.returned = {}
  /\ IF pc \in {"admit", "acknowledge"} THEN taken \subseteq queue.claimed /\ taken # {} ELSE taken = {}
  /\ pc = "acknowledge" => human \in taken /\ taken \cap lost = {}
  /\ pc = "begin" => human \in Messages \ Waiting
  /\ back \in {"idle", "model", "step", "begin"}
  /\ pc \in {"admit", "acknowledge"} => back # "idle"
  /\ task.id = 0 => task.pending = {} /\ task.inputs = {}
  /\ pc \notin {"idle", "begin", "close"} => task.id # 0

(* What steers the task and waits is what is pending for the task.             *)
Pends ==
  /\ task.pending \subseteq Steers /\ task.pending \subseteq Waiting
  /\ Waiting \cap Steers \cap task.inputs \subseteq task.pending
  /\ task.admitted <= task.revision

(* The revision is admitted only when nothing is pending, but for a promotion  *)
(* (Promote) until the next step, and for what was never delivered.            *)
Unseen == task.pending \ Undelivered
Seen == Unseen = {} \/ task.admitted < task.revision
Loose == pc \in {"idle", "close", "approve", "step"} \/ (pc = "begin" /\ human \notin task.inputs)
Tight == Loose \/ Seen

InLoopPCs == {"configure", "step", "model", "final", "promote", "approve", "accept",
              "snapshot", "project", "check", "answer", "evaluate", "recheck", "store"}
Running ==
  /\ pc \in InLoopPCs \/ (pc \in {"admit", "acknowledge"} /\ back # "begin") => task.status = "active"
  /\ pc = "conclude" => task.status \in {"active", "answered"}
  /\ pc \in {"conclude", "verdict"} /\ report = "failed" => task.status = "active"
  /\ pc = "answer" => questions = 0

(* Acceptance works on one revision of the task, and what it found is of that  *)
(* revision and of the workspace between its start and now.                    *)
Working == {"project", "check", "answer", "evaluate", "recheck", "store", "conclude"}
FoundNow(e) == before <= e.world /\ e.world <= world /\ (e.met => e.world \in Good)
OfOne ==
  /\ pc \in Working \cup {"snapshot"} =>
       before <= world /\ (seen.id # 0 => seen.revision <= task.revision)
  /\ pc \in Working =>
       /\ copy.id = task.id /\ copy.criteria = task.criteria /\ copy.stated = task.stated
       /\ copy.revision <= task.revision /\ (seen.id # 0 => seen.revision <= copy.revision)
  /\ pc = "check" => report \in {"passed", "failed", "not_run"}
  /\ pc \in {"answer", "evaluate", "recheck", "store"} => report \in {"passed", "not_run"}
  /\ pc = "check" /\ report = "passed" => ~(copy.class.kind = "answer" /\ copy.class.only)
  /\ pc = "answer" /\ report = "passed" => copy.criteria = {}
  /\ pc \in {"evaluate", "recheck", "store"} => copy.stated = copy.revision
  /\ pc \in {"recheck", "store"} => found.revision = copy.revision /\ FoundNow(found)

(* The verdict of the acceptance before its last look.                         *)
Judged ==
  pc = "conclude" /\ report \in {"passed", "accepted"} /\ task.revision = copy.revision =>
    /\ task.admitted = task.revision /\ task.pending \subseteq lost
    /\ report = "passed" => task.criteria = {}
    /\ report = "accepted" =>
         /\ task.stated = task.revision /\ task.evidence.revision = task.revision
         /\ task.evidence.met /\ FoundNow(task.evidence)

(* A restriction is in the intent or pending, and either way in the class.     *)
Restricted ==
  /\ task.intent.only => task.class.only
  /\ task.pending \cap Only # {} => task.class.only
  /\ task.pending \cap Only = {} => task.class.only = task.intent.only
  /\ ruling \in Only => task.intent.only
  /\ pc \in {"model", "promote", "approve"} => queue.pending \cap Steers \subseteq task.pending

(* No turn ends with the task active, unless an instruction reopened it.       *)
Reopened == task.inputs \cap (queue.pending \cup queue.claimed \cup queue.returned) # {}
Settling ==
  /\ pc \in {"idle", "close", "next"} \/ (pc \in {"admit", "acknowledge"} /\ back = "begin") =>
       (task.status = "active" /\ task.id # 0 => crashes > 0 \/ Reopened)
  /\ pc = "idle" => ~queue.accepting /\ (queue.pending = {} \/ crashes > 0)

ContractInv ==
  /\ TypeOK /\ Books /\ Pends /\ Tight /\ Running /\ OfOne /\ Judged /\ DoneIsCurrent
  /\ Restricted /\ Settling

--------------------------------------------------------------------------------
(* What a save of the queue does to the task.                                  *)

LEMMA PersistFields ==
  ASSUME MessagesAssumption, BoundsAssumption, task \in Tasks, NEW q,
         q.pending \in SUBSET Messages, Persist(q), task.id # 0
  PROVE  LET new == (q.pending \cap Steers) \ task.delivered IN
         /\ task' \in Tasks /\ SameTask(task, task')
         /\ task'.inputs = task.inputs \cup new /\ task'.delivered = task.delivered
         /\ task'.pending = (task.pending \cup new) \ q.returned /\ task'.intent = task.intent
         /\ new \subseteq task.inputs => SameVerdict(task, task')
         /\ ~(new \subseteq task.inputs) => Reset(task') /\ task'.revision > task.revision
         /\ task'.admitted = task.admitted \/ (task'.pending = {} /\ task'.admitted = task'.revision)
         /\ Projected(task') \/ (task'.class = task.class /\ task'.pending = task.pending)
<1> DEFINE S == q.pending \cap Steers
           new == S \ task.delivered
           a == Accepted(task, S)
<1>1. task' = Withdrawn(a, q.returned)
  BY DEF Persist, Steers
<1>2. /\ a \in Tasks /\ SameTask(task, a)
      /\ a.inputs = task.inputs \cup new /\ a.delivered = task.delivered
      /\ a.pending = task.pending \cup new
      /\ a.admitted = task.admitted /\ a.intent = task.intent
      /\ new \subseteq task.inputs => SameVerdict(task, a)
      /\ ~(new \subseteq task.inputs) => Reset(a) /\ a.revision > task.revision
      /\ Projected(a) \/ (a.class = task.class /\ a.pending = task.pending)
  BY AcceptedFields
<1> HIDE DEF a
<1>3. /\ task' \in Tasks /\ SameTask(a, task') /\ SameVerdict(a, task')
      /\ task'.inputs = a.inputs /\ task'.delivered = a.delivered
      /\ task'.pending = a.pending \ q.returned /\ task'.intent = a.intent
      /\ task'.admitted = a.admitted \/ (task'.pending = {} /\ task'.admitted = a.revision)
      /\ Projected(task') \/ (task'.class = a.class /\ task'.pending = a.pending)
  BY <1>1, <1>2, WithdrawnFields
<1>4. /\ task'.inputs = task.inputs \cup new /\ task'.delivered = task.delivered
      /\ task'.pending = (task.pending \cup new) \ q.returned /\ task'.intent = task.intent
      /\ SameTask(task, task')
  BY <1>2, <1>3 DEF SameTask
<1>5. /\ new \subseteq task.inputs => SameVerdict(task, task')
      /\ ~(new \subseteq task.inputs) => Reset(task') /\ task'.revision > task.revision
      /\ task'.admitted = task.admitted \/ (task'.pending = {} /\ task'.admitted = task'.revision)
  BY <1>2, <1>3 DEF SameVerdict, Reset
<1>6. Projected(task') \/ (task'.class = task.class /\ task'.pending = task.pending)
  <2>1. CASE task'.class = a.class /\ task'.pending = a.pending
    <3>1. CASE Projected(a)
      BY <1>2, <1>3, <2>1, <3>1 DEF Projected
    <3>2. CASE a.class = task.class /\ a.pending = task.pending
      BY <2>1, <3>2
    <3> QED BY <1>2, <3>1, <3>2
  <2> QED BY <1>3, <2>1
<1> QED BY <1>3, <1>4, <1>5, <1>6

(* What was waiting and is known to the task is pending already, so that a save *)
(* either leaves what was found out about the task alone, or reopens it.       *)
Untouched(t, u) == SameVerdict(t, u) /\ u.inputs = t.inputs /\ u.pending \subseteq t.pending
Touched(t, u) == Reset(u) /\ u.revision > t.revision /\ u.inputs # t.inputs
SetsOK(t) == t.pending \subseteq t.inputs /\ t.delivered \subseteq t.inputs /\ t.pending \cap t.delivered = {}
QueueOK(q) == q \in [pending : SUBSET Messages, claimed : SUBSET Messages,
                     returned : SUBSET Messages, accepting : BOOLEAN]

LEMMA PersistEffect ==
  ASSUME MessagesAssumption, BoundsAssumption, task \in Tasks, SetsOK(task), Pends,
         task.id = 0 => task.pending = {},
         NEW q, QueueOK(q), Persist(q), q.pending \cap q.returned = {},
         NEW fresh, fresh \cap task.inputs = {}, q.pending \subseteq Waiting \cup fresh
  PROVE  /\ queue' = q /\ task' \in Tasks /\ SetsOK(task')
         /\ SameTask(task, task') /\ task'.delivered = task.delivered /\ task'.intent = task.intent
         /\ Untouched(task, task') \/ Touched(task, task')
         /\ task'.admitted = task.admitted \/ (task'.pending = {} /\ task'.admitted = task'.revision)
         /\ Projected(task') \/ (task'.class = task.class /\ task'.pending = task.pending)
         /\ task'.id # 0 => /\ task'.inputs = task.inputs \cup (q.pending \cap Steers)
                            /\ task'.pending = (task.pending \cup (q.pending \cap Steers)) \ q.returned
         /\ task'.id = 0 => task' = task
<1>0. queue' = q
  BY DEF Persist
<1>1. CASE task.id = 0
  <2>1. task' = task
    BY <1>1 DEF Persist
  <2> QED BY <1>0, <1>1, <2>1 DEF SameTask, Untouched, SameVerdict
<1>2. CASE task.id # 0
  <2> DEFINE S == q.pending \cap Steers
             new == S \ task.delivered
  <2>1. /\ task' \in Tasks /\ SameTask(task, task')
        /\ task'.inputs = task.inputs \cup new /\ task'.delivered = task.delivered
        /\ task'.pending = (task.pending \cup new) \ q.returned /\ task'.intent = task.intent
        /\ new \subseteq task.inputs => SameVerdict(task, task')
        /\ ~(new \subseteq task.inputs) => Reset(task') /\ task'.revision > task.revision
        /\ task'.admitted = task.admitted \/ (task'.pending = {} /\ task'.admitted = task'.revision)
        /\ Projected(task') \/ (task'.class = task.class /\ task'.pending = task.pending)
    BY <1>2, PersistFields DEF QueueOK
  <2>2. S \cap task.inputs \subseteq task.pending
    BY DEF Pends
  <2>3. new = S
    BY <2>2 DEF SetsOK
  <2>4. new \subseteq task.inputs => new \subseteq task.pending
    BY <2>2
  <2>5. SetsOK(task')
    BY <2>1 DEF SetsOK
  <2>6. Untouched(task, task') \/ Touched(task, task')
    BY <2>1, <2>4 DEF Untouched, Touched
  <2> QED BY <1>0, <1>2, <2>1, <2>3, <2>5, <2>6 DEF SameTask
<1> QED BY <1>1, <1>2

--------------------------------------------------------------------------------
(* What each other action does to the task.                                    *)

Kept(t, u) ==
  /\ SameTask(t, u) /\ Inputs(t, u) /\ u.intent = t.intent /\ u.class = t.class
  /\ u.revision = t.revision /\ u.admitted = t.admitted

LEMMA NoTaskType == ASSUME BoundsAssumption PROVE NoTask \in Tasks
<1>1. 0 \in Nat /\ 0 \in 0..MaxWorld
  BY DEF BoundsAssumption
<1> QED BY <1>1, NothingType DEF NoTask, Tasks, Intents, NoProof

LEMMA BeginKnown ==
  ASSUME task \in Tasks, SetsOK(task), NEW u,
         u = Admitted([task EXCEPT !.status = "active", !.evidence = NoEvidence]), BoundsAssumption
  PROVE  /\ u \in Tasks /\ SameTask(task, u) /\ Inputs(task, u) /\ u.status = "active"
         /\ u.intent = task.intent /\ u.class = task.class /\ u.revision = task.revision
         /\ task.pending = {} => u.admitted = task.revision
         /\ task.pending # {} => u.admitted = task.admitted
<1> DEFINE t == [task EXCEPT !.status = "active", !.evidence = NoEvidence]
<1>1. t \in Tasks
  BY NothingType DEF Tasks
<1>2. Kept(task, t) /\ t.status = "active"
  BY DEF Tasks, Kept, SameTask, Inputs
<1>3. u = Admitted(t)
  OBVIOUS
<1> HIDE DEF t
<1> QED BY <1>1, <1>2, <1>3, AdmittedFields DEF Kept, SameTask, SameVerdict, Inputs

LEMMA NewTaskFields ==
  ASSUME MessagesAssumption, BoundsAssumption, task \in Tasks, NEW m \in Messages, NEW u, u = NewTask(task, m)
  PROVE  /\ u \in Tasks /\ SetsOK(u) /\ u.id = task.id + 1 /\ u.status = "active"
         /\ u.revision = 1 /\ u.admitted = 1 /\ u.inputs = {m} /\ u.pending = {}
         /\ u.class = u.intent /\ u.intent.only = (Word[m] = "only")
<1> DEFINE n == task.id + 1
           c == Classify(m, FALSE)
<1>1. u = [NoTask EXCEPT !.id = n, !.revision = 1, !.admitted = 1, !.class = c, !.intent = c,
                         !.inputs = {m}, !.delivered = {m}]
  BY DEF NewTask
<1>2. n \in Nat /\ 1 \in Nat /\ {m} \subseteq Messages
  BY DEF Tasks
<1>3. c \in Intents /\ c.only = (Word[m] = "only")
  BY ClassifyType
<1> HIDE DEF n, c
<1>4. u \in Tasks
  <2>1. NoTask \in Tasks /\ {m} \in SUBSET Messages
    BY NoTaskType
  <2> QED BY <1>1, <1>2, <1>3, <2>1, ZenonT(60) DEF Tasks
<1>5. /\ u.id = n /\ u.revision = 1 /\ u.admitted = 1 /\ u.class = c /\ u.intent = c
      /\ u.inputs = {m} /\ u.delivered = {m} /\ u.pending = {} /\ u.status = "active"
  BY <1>1 DEF NoTask
<1> QED BY <1>3, <1>4, <1>5 DEF n, SetsOK

LEMMA ContractFields ==
  ASSUME NEW kind \in {"answer", "change"}, NEW C \in SUBSET Conditions, BoundsAssumption,
         NEW u, u = Contract(task, kind, C), task \in Tasks
  PROVE  /\ u \in Tasks /\ u.id = task.id /\ Inputs(task, u) /\ u.status = task.status
         /\ u.admitted = u.revision /\ u.revision >= task.revision
         /\ u.class.only = task.class.only
         /\ u.intent = task.intent \/ u.intent = u.class
<1> DEFINE reclassified == kind # task.class.kind
           class == IF reclassified THEN [task.class EXCEPT !.kind = kind, !.human = FALSE] ELSE task.class
           intent == IF reclassified THEN class ELSE task.intent
           next == IF reclassified \/ C # task.criteria THEN task.revision + 1 ELSE task.revision
<1>1. u = [task EXCEPT !.class = class, !.intent = intent, !.criteria = C, !.stated = next,
                       !.evidence = NoEvidence, !.revision = next, !.admitted = next]
  BY DEF Contract
<1>2. next \in Nat /\ next >= task.revision
  BY DEF Tasks
<1>3. class \in Intents /\ class.only = task.class.only
  BY DEF Tasks, Intents
<1>4. intent \in Intents /\ (intent = task.intent \/ intent = class)
  BY <1>3 DEF Tasks
<1> HIDE DEF next, class, intent
<1>5. u \in Tasks
  BY <1>1, <1>2, <1>3, <1>4, NothingType, ZenonT(60) DEF Tasks
<1>6. /\ u.id = task.id /\ Inputs(task, u) /\ u.status = task.status
      /\ u.admitted = next /\ u.revision = next /\ u.class = class /\ u.intent = intent
  BY <1>1 DEF Tasks, Inputs
<1> QED BY <1>2, <1>3, <1>4, <1>5, <1>6

LEMMA PromoteFields ==
  ASSUME task \in Tasks, BoundsAssumption, Promote
  PROVE  /\ task' \in Tasks /\ task'.id = task.id /\ Inputs(task, task') /\ task'.status = "active"
         /\ task'.admitted = task'.revision /\ task'.revision > task.revision
         /\ task'.class.only = task.class.only /\ task'.intent = task'.class
<1> DEFINE class == [task.class EXCEPT !.kind = "change", !.locked = TRUE, !.human = FALSE]
           next == task.revision + 1
<1>1. task' = [task EXCEPT !.class = class, !.intent = class, !.status = "active",
                           !.evidence = NoEvidence, !.revision = next, !.admitted = next]
  BY DEF Promote
<1>2. next \in Nat /\ next > task.revision
  BY DEF Tasks
<1>3. class \in Intents /\ class.only = task.class.only
  BY DEF Tasks, Intents
<1> HIDE DEF class, next
<1>4. task' \in Tasks
  BY <1>1, <1>2, <1>3, NothingType, ZenonT(60) DEF Tasks
<1>5. /\ task'.id = task.id /\ Inputs(task, task') /\ task'.status = "active"
      /\ task'.admitted = next /\ task'.revision = next /\ task'.class = class /\ task'.intent = class
  BY <1>1 DEF Tasks, Inputs
<1> QED BY <1>2, <1>3, <1>4, <1>5

--------------------------------------------------------------------------------
(* Types.                                                                      *)

TaskOK(t) == t \in Tasks /\ SetsOK(t)
WorkerOK ==
  /\ pc \in PCs /\ back \in PCs /\ taken \subseteq Messages /\ lost \subseteq Messages
  /\ newest \in Messages \cup {0} /\ human \in Messages \cup {0} /\ ruling \in Messages \cup {0}
  /\ last \in {"normal", "awaiting", "error", "blocked"}
  /\ iteration \in 0..MaxIterations /\ questions \in Nat
AcceptanceOK ==
  /\ seen \in Tasks /\ copy \in Tasks /\ found \in Evidence
  /\ before \in 0..MaxWorld /\ world \in 0..MaxWorld
  /\ report \in {"none", "passed", "failed", "not_run", "awaiting", "accepted", "blocked"}
  /\ mutated \in BOOLEAN /\ cancelled \in BOOLEAN /\ awaiting \in BOOLEAN
  /\ cancels \in 0..MaxCancels /\ crashes \in 0..MaxCrashes

LEMMA TypeParts == TypeOK <=> TaskOK(task) /\ QueueOK(queue) /\ WorkerOK /\ AcceptanceOK
BY DEF TypeOK, TaskOK, SetsOK, QueueOK, WorkerOK, AcceptanceOK

LEMMA PersistType ==
  ASSUME MessagesAssumption, BoundsAssumption, TaskOK(task), NEW q, QueueOK(q), Persist(q)
  PROVE  TaskOK(task') /\ QueueOK(queue')
<1>1. queue' = q /\ q.pending \in SUBSET Messages
  BY DEF Persist, QueueOK
<1>2. CASE task.id = 0
  BY <1>1, <1>2 DEF Persist
<1>3. CASE task.id # 0
  <2> DEFINE new == (q.pending \cap Steers) \ task.delivered
  <2>1. /\ task' \in Tasks
        /\ task'.inputs = task.inputs \cup new /\ task'.delivered = task.delivered
        /\ task'.pending = (task.pending \cup new) \ q.returned
    BY <1>1, <1>3, PersistFields DEF TaskOK
  <2> QED BY <1>1, <2>1 DEF TaskOK, SetsOK
<1> QED BY <1>2, <1>3

(* The queue each action saves.                                                *)
LEMMA QueueFields ==
  ASSUME QueueOK(queue), NEW S \in SUBSET Messages
  PROVE  /\ LET q == [queue EXCEPT !.accepting = TRUE] IN
              QueueOK(q) /\ q.pending = queue.pending /\ q.claimed = queue.claimed
              /\ q.returned = queue.returned /\ q.accepting = TRUE
         /\ LET q == [queue EXCEPT !.accepting = FALSE] IN
              QueueOK(q) /\ q.pending = queue.pending /\ q.claimed = queue.claimed
              /\ q.returned = queue.returned /\ q.accepting = FALSE
         /\ LET q == [queue EXCEPT !.pending = @ \cup S] IN
              QueueOK(q) /\ q.pending = queue.pending \cup S /\ q.claimed = queue.claimed
              /\ q.returned = queue.returned /\ q.accepting = queue.accepting
         /\ LET q == [queue EXCEPT !.pending = @ \ S, !.returned = @ \cup S] IN
              QueueOK(q) /\ q.pending = queue.pending \ S /\ q.claimed = queue.claimed
              /\ q.returned = queue.returned \cup S /\ q.accepting = queue.accepting
         /\ LET q == [queue EXCEPT !.pending = @ \ S, !.claimed = @ \cup S] IN
              QueueOK(q) /\ q.pending = queue.pending \ S /\ q.claimed = queue.claimed \cup S
              /\ q.returned = queue.returned /\ q.accepting = queue.accepting
         /\ LET q == [queue EXCEPT !.claimed = @ \ S] IN
              QueueOK(q) /\ q.pending = queue.pending /\ q.claimed = queue.claimed \ S
              /\ q.returned = queue.returned /\ q.accepting = queue.accepting
         /\ LET q == [queue EXCEPT !.pending = {}, !.returned = @ \cup queue.pending, !.accepting = FALSE] IN
              QueueOK(q) /\ q.pending = {} /\ q.claimed = queue.claimed
              /\ q.returned = queue.returned \cup queue.pending /\ q.accepting = FALSE
         /\ LET q == [queue EXCEPT !.pending = @ \cup S, !.claimed = {}, !.accepting = FALSE] IN
              QueueOK(q) /\ q.pending = queue.pending \cup S /\ q.claimed = {}
              /\ q.returned = queue.returned /\ q.accepting = FALSE
BY DEF QueueOK

--------------------------------------------------------------------------------
(* The actions that save the queue.                                            *)

Saved ==
  /\ TaskOK(task') /\ QueueOK(queue')
  /\ SameTask(task, task') /\ task'.delivered = task.delivered /\ task'.intent = task.intent
  /\ Untouched(task, task') \/ Touched(task, task')
  /\ task'.admitted = task.admitted \/ (task'.pending = {} /\ task'.admitted = task'.revision)
  /\ Projected(task') \/ (task'.class = task.class /\ task'.pending = task.pending)
  /\ task'.id # 0 => /\ task'.inputs = task.inputs \cup (queue'.pending \cap Steers)
                     /\ task'.pending = (task.pending \cup (queue'.pending \cap Steers)) \ queue'.returned
  /\ task'.id = 0 => task' = task

(* It waits as long as it is not returned, and no other known input comes back. *)
Mailed ==
  /\ Saved
  /\ Waiting' \cap task.inputs \subseteq Waiting /\ Waiting \subseteq Waiting' \cup queue'.returned
  /\ Waiting' \cap queue'.returned = {}
  /\ lost' = lost /\ Undelivered \subseteq Undelivered' /\ questions' = questions

LEMMA Saves ==
  ASSUME MessagesAssumption, BoundsAssumption, TaskOK(task), Books, Pends,
         NEW q, QueueOK(q), Persist(q), q.pending \cap q.returned = {},
         q.pending \cap task.inputs \subseteq Waiting
  PROVE  Saved /\ queue' = q
<1> DEFINE fresh == q.pending \ Waiting
<1>1. fresh \cap task.inputs = {} /\ q.pending \subseteq Waiting \cup fresh
  OBVIOUS
<1>2. task \in Tasks /\ SetsOK(task) /\ (task.id = 0 => task.pending = {})
  BY DEF TaskOK, Books
<1> HIDE DEF fresh
<1>3. /\ queue' = q /\ task' \in Tasks /\ SetsOK(task')
      /\ SameTask(task, task') /\ task'.delivered = task.delivered /\ task'.intent = task.intent
      /\ Untouched(task, task') \/ Touched(task, task')
      /\ task'.admitted = task.admitted \/ (task'.pending = {} /\ task'.admitted = task'.revision)
      /\ Projected(task') \/ (task'.class = task.class /\ task'.pending = task.pending)
      /\ task'.id # 0 => /\ task'.inputs = task.inputs \cup (q.pending \cap Steers)
                         /\ task'.pending = (task.pending \cup (q.pending \cap Steers)) \ q.returned
      /\ task'.id = 0 => task' = task
  BY <1>1, <1>2, PersistEffect
<1> QED BY <1>3 DEF Saved, TaskOK

LEMMA RunMails ==
  ASSUME MessagesAssumption, BoundsAssumption, TypeOK, Books, Pends, NEW m \in Is("run"), Run(m)
  PROVE  Mailed /\ Books'
<1> DEFINE q == [queue EXCEPT !.accepting = TRUE]
<1>1. Persist(q) /\ pc = "idle" /\ pc' = "begin" /\ m > newest /\ newest' = m /\ human' = m
      /\ UNCHANGED <<questions, back, taken, lost>>
  BY DEF Run
<1>2. QueueOK(queue) /\ TaskOK(task) /\ taken = {} /\ m \in Messages /\ newest \in Nat
  BY <1>1, TypeParts DEF Books, Is, WorkerOK, MessagesAssumption
<1>3. QueueOK(q) /\ q.pending = queue.pending /\ q.claimed = queue.claimed /\ q.returned = queue.returned
  BY <1>2, QueueFields
<1> HIDE DEF q
<1>4. q.pending \cap q.returned = {} /\ q.pending \cap task.inputs \subseteq Waiting
  BY <1>3 DEF Books, Waiting
<1>5. Saved /\ queue' = q
  BY <1>1, <1>2, <1>3, <1>4, Saves
<1>6. Undelivered' = Undelivered /\ Waiting' = Waiting
  BY <1>1, <1>3, <1>5 DEF Undelivered, Waiting
<1>7. Waiting \cap queue.returned = {}
  BY DEF Waiting, Books
<1>8. Mailed
  BY <1>1, <1>3, <1>5, <1>6, <1>7 DEF Mailed
<1>9. m \notin Waiting /\ \A n \in task.inputs \cup queue.pending \cup queue.claimed \cup queue.returned : n <= m
  <2>1. \A n \in task.inputs \cup queue.pending \cup queue.claimed \cup queue.returned : n \in Nat
    BY <1>2 DEF TaskOK, Tasks, QueueOK, MessagesAssumption
  <2> QED BY <1>1, <1>2, <2>1 DEF Books, Waiting, MessagesAssumption
<1>10. task'.inputs \subseteq task.inputs \cup queue.pending
  BY <1>3, <1>5 DEF Saved
<1>11. task'.id = 0 => task'.pending = {} /\ task'.inputs = {}
  BY <1>5 DEF Saved, Books
<1> QED BY <1>1, <1>2, <1>3, <1>5, <1>6, <1>8, <1>9, <1>10, <1>11 DEF Books, MessagesAssumption

LEMMA SentBefore ==
  ASSUME MessagesAssumption, TypeOK, Books, NEW m \in Messages, m > newest,
         NEW n \in task.inputs \cup queue.pending \cup queue.claimed \cup queue.returned \cup {human}
  PROVE  n < m
<1>1. n <= newest
  BY DEF Books
<1>2. m \in Nat /\ newest \in Nat /\ n \in Nat
  <2>1. Messages \subseteq Nat
    BY DEF MessagesAssumption
  <2>2. newest \in Messages \cup {0} /\ n \in Messages \cup {0}
    BY TypeParts DEF WorkerOK, TaskOK, Tasks, QueueOK
  <2> QED BY <2>1, <2>2
<1> QED BY <1>1, <1>2

LEMMA EnqueueMails ==
  ASSUME MessagesAssumption, BoundsAssumption, TypeOK, Books, Pends, NEW m \in Messages, Enqueue(m)
  PROVE  Mailed /\ Books'
<1> DEFINE q == [queue EXCEPT !.pending = @ \cup {m}]
<1>1. Persist(q) /\ m > newest /\ newest' = m
      /\ UNCHANGED <<questions, pc, back, human, taken, lost>>
  BY DEF Enqueue, worker
<1>2. QueueOK(queue) /\ TaskOK(task) /\ {m} \in SUBSET Messages /\ m \in Nat
  BY TypeParts DEF MessagesAssumption
<1>3. QueueOK(q) /\ q.pending = queue.pending \cup {m} /\ q.claimed = queue.claimed /\ q.returned = queue.returned
  BY <1>2, QueueFields
<1> HIDE DEF q
<1>4. /\ \A n \in task.inputs \cup queue.pending \cup queue.claimed \cup queue.returned \cup {human} : n <= m
      /\ m \notin task.inputs \cup queue.pending \cup queue.claimed \cup queue.returned \cup {human}
  <2>1. \A n \in task.inputs \cup queue.pending \cup queue.claimed \cup queue.returned \cup {human} : n < m
    BY <1>1, SentBefore
  <2>2. ~(m < m)
    BY <1>2
  <2>3. \A n \in task.inputs \cup queue.pending \cup queue.claimed \cup queue.returned \cup {human} : n \in Nat
    <3>1. Messages \subseteq Nat
      BY DEF MessagesAssumption
    <3> QED BY <1>2, <3>1, TypeParts DEF WorkerOK, TaskOK, Tasks, QueueOK
  <2>4. \A n \in task.inputs \cup queue.pending \cup queue.claimed \cup queue.returned \cup {human} : n <= m
    BY <1>2, <2>1, <2>3
  <2> QED BY <2>1, <2>2, <2>4
<1>5. q.pending \cap q.returned = {} /\ q.pending \cap task.inputs \subseteq Waiting
  BY <1>3, <1>4 DEF Books, Waiting
<1>6. Saved /\ queue' = q
  BY <1>1, <1>2, <1>3, <1>5, Saves
<1>7. Undelivered' = Undelivered /\ Waiting' = Waiting \cup {m}
  BY <1>1, <1>3, <1>6 DEF Undelivered, Waiting
<1>8. Mailed
  BY <1>1, <1>3, <1>4, <1>6, <1>7 DEF Mailed, Books, Waiting
<1>9. task'.inputs \subseteq task.inputs \cup queue.pending \cup {m}
  BY <1>3, <1>6 DEF Saved
<1>10. task'.id = task.id /\ (task'.id = 0 => task'.pending = {} /\ task'.inputs = {})
  BY <1>6 DEF Saved, Books, SameTask
<1>11. m # human /\ (pc \in {"admit", "acknowledge"} => m \notin taken)
  BY <1>4 DEF Books
<1>12. m <= m
  BY <1>2
<1> QED BY <1>1, <1>3, <1>4, <1>6, <1>7, <1>8, <1>9, <1>10, <1>11, <1>12 DEF Books

LEMMA DequeueMails ==
  ASSUME MessagesAssumption, BoundsAssumption, TypeOK, Books, Pends, NEW m \in Messages, Dequeue(m)
  PROVE  Mailed /\ Books'
<1> DEFINE q == [queue EXCEPT !.pending = @ \ {m}, !.returned = @ \cup {m}]
<1>1. Persist(q) /\ m \in queue.pending
      /\ UNCHANGED <<questions, newest, pc, back, human, taken, lost>>
  BY DEF Dequeue, worker
<1>2. QueueOK(queue) /\ TaskOK(task) /\ {m} \in SUBSET Messages
  BY TypeParts
<1>3. QueueOK(q) /\ q.pending = queue.pending \ {m} /\ q.claimed = queue.claimed
      /\ q.returned = queue.returned \cup {m}
  BY <1>2, QueueFields
<1> HIDE DEF q
<1>5. q.pending \cap q.returned = {} /\ q.pending \cap task.inputs \subseteq Waiting
  BY <1>3 DEF Books, Waiting
<1>6. Saved /\ queue' = q
  BY <1>1, <1>2, <1>3, <1>5, Saves
<1>7. Undelivered' = Undelivered /\ Waiting' = Waiting \ {m}
  BY <1>1, <1>3, <1>6 DEF Undelivered, Waiting, Books
<1>8. Mailed
  BY <1>1, <1>3, <1>6, <1>7 DEF Mailed, Books, Waiting
<1>9. task'.inputs \subseteq task.inputs \cup queue.pending
  BY <1>3, <1>6 DEF Saved
<1>10. task'.id = task.id /\ (task'.id = 0 => task'.pending = {} /\ task'.inputs = {})
  BY <1>6 DEF Saved, Books, SameTask
<1> QED BY <1>1, <1>3, <1>6, <1>7, <1>8, <1>9, <1>10 DEF Books

LEMMA TakeMails ==
  ASSUME MessagesAssumption, BoundsAssumption, TypeOK, Books, Pends,
         NEW S \in SUBSET queue.pending, NEW from, NEW to \in {"model", "step", "begin"},
         pc \in {"step", "final", "next"}, Take(S, from, to),
         UNCHANGED <<questions, newest, human, lost>>
  PROVE  Mailed /\ Books'
<1> DEFINE q == [queue EXCEPT !.pending = @ \ S, !.claimed = @ \cup S]
<1>1. Persist(q) /\ S # {} /\ taken' = S /\ back' = to /\ pc' = "admit"
  BY DEF Take
<1>2. QueueOK(queue) /\ TaskOK(task) /\ S \in SUBSET Messages
  BY TypeParts DEF QueueOK
<1>3. QueueOK(q) /\ q.pending = queue.pending \ S /\ q.claimed = queue.claimed \cup S
      /\ q.returned = queue.returned
  BY <1>2, QueueFields
<1> HIDE DEF q
<1>5. q.pending \cap q.returned = {} /\ q.pending \cap task.inputs \subseteq Waiting
  BY <1>3 DEF Books, Waiting
<1>6. Saved /\ queue' = q
  BY <1>1, <1>2, <1>3, <1>5, Saves
<1>7. Undelivered = lost /\ Undelivered' = lost \cup S
  BY <1>1 DEF Undelivered
<1>8. Waiting' = Waiting
  BY <1>3, <1>6, <1>7 DEF Waiting, Books
<1>9. Mailed
  BY <1>3, <1>6, <1>7, <1>8 DEF Mailed, Books, Waiting
<1>10. task'.inputs \subseteq task.inputs \cup queue.pending
  BY <1>3, <1>6 DEF Saved
<1>11. task'.id = task.id /\ (task'.id = 0 => task'.pending = {} /\ task'.inputs = {})
  BY <1>6 DEF Saved, Books, SameTask
<1> QED BY <1>1, <1>3, <1>6, <1>9, <1>10, <1>11 DEF Books

LEMMA AcknowledgeMails ==
  ASSUME MessagesAssumption, BoundsAssumption, TypeOK, Books, Pends, Acknowledge
  PROVE  Mailed /\ Books'
<1> DEFINE q == [queue EXCEPT !.claimed = @ \ taken]
<1>1. Persist(q) /\ pc = "acknowledge" /\ pc' = back /\ taken' = {}
      /\ UNCHANGED <<questions, newest, back, human, lost>>
  BY DEF Acknowledge
<1>2. QueueOK(queue) /\ TaskOK(task) /\ taken \in SUBSET Messages
  BY TypeParts DEF WorkerOK
<1>3. QueueOK(q) /\ q.pending = queue.pending /\ q.claimed = queue.claimed \ taken
      /\ q.returned = queue.returned
  BY <1>2, QueueFields
<1> HIDE DEF q
<1>5. q.pending \cap q.returned = {} /\ q.pending \cap task.inputs \subseteq Waiting
  BY <1>3 DEF Books, Waiting
<1>6. Saved /\ queue' = q
  BY <1>1, <1>2, <1>3, <1>5, Saves
<1>7. Undelivered = lost /\ Undelivered' = lost /\ taken \cap lost = {} /\ taken \subseteq queue.claimed
      /\ back # "admit" /\ back # "acknowledge" /\ human \in taken
  BY <1>1 DEF Undelivered, Books
<1>8. Waiting' = Waiting
  BY <1>3, <1>6, <1>7 DEF Waiting, Books
<1>9. Mailed
  BY <1>1, <1>3, <1>6, <1>7, <1>8 DEF Mailed, Books, Waiting
<1>10. task'.inputs \subseteq task.inputs \cup queue.pending
  BY <1>3, <1>6 DEF Saved
<1>11. task'.id = task.id /\ (task'.id = 0 => task'.pending = {} /\ task'.inputs = {}) /\ task.id # 0
  BY <1>1, <1>6 DEF Saved, Books, SameTask
<1>12. human \in Messages \ Waiting
  BY <1>2, <1>7 DEF Waiting, Books
<1> QED BY <1>1, <1>3, <1>6, <1>7, <1>8, <1>9, <1>10, <1>11, <1>12 DEF Books

LEMMA ClosingMails ==
  ASSUME MessagesAssumption, BoundsAssumption, TypeOK, Books, Pends, pc \in {"next", "close"},
         pc' \in {"idle", "close"}, UNCHANGED <<questions, newest, back, human, taken, lost>>,
         \/ Persist([queue EXCEPT !.accepting = FALSE])
         \/ Persist([queue EXCEPT !.pending = {}, !.returned = @ \cup queue.pending, !.accepting = FALSE])
  PROVE  Mailed /\ Books'
<1> USE TypeParts DEF Undelivered
<1>1. QueueOK(queue) /\ TaskOK(task)
  OBVIOUS
<1>2. CASE Persist([queue EXCEPT !.accepting = FALSE])
  <2> DEFINE q == [queue EXCEPT !.accepting = FALSE]
  <2>1. QueueOK(q) /\ q.pending = queue.pending /\ q.claimed = queue.claimed /\ q.returned = queue.returned
    BY <1>1, QueueFields
  <2>2. Persist(q)
    BY <1>2
  <2> HIDE DEF q
  <2>3. q.pending \cap q.returned = {} /\ q.pending \cap task.inputs \subseteq Waiting
    BY <2>1 DEF Books, Waiting
  <2>4. Saved /\ queue' = q
    BY <1>1, <2>1, <2>2, <2>3, Saves
  <2>5. Undelivered' = Undelivered /\ Waiting' = Waiting
    BY <2>1, <2>4 DEF Waiting
  <2>6. Mailed
    BY <2>1, <2>4, <2>5 DEF Mailed, Books, Waiting
  <2>7. task'.inputs \subseteq task.inputs \cup queue.pending
    BY <2>1, <2>4 DEF Saved
  <2>8. task'.id = task.id /\ (task'.id = 0 => task'.pending = {} /\ task'.inputs = {})
    BY <2>4 DEF Saved, Books, SameTask
  <2> QED BY <2>1, <2>4, <2>6, <2>7, <2>8 DEF Books
<1>3. CASE Persist([queue EXCEPT !.pending = {}, !.returned = @ \cup queue.pending, !.accepting = FALSE])
  <2> DEFINE q == [queue EXCEPT !.pending = {}, !.returned = @ \cup queue.pending, !.accepting = FALSE]
  <2>1. QueueOK(q) /\ q.pending = {} /\ q.claimed = queue.claimed
        /\ q.returned = queue.returned \cup queue.pending
    BY <1>1, QueueFields
  <2>2. Persist(q)
    BY <1>3
  <2> HIDE DEF q
  <2>3. q.pending \cap q.returned = {} /\ q.pending \cap task.inputs \subseteq Waiting
    BY <2>1
  <2>4. Saved /\ queue' = q
    BY <1>1, <2>1, <2>2, <2>3, Saves
  <2>5. Undelivered' = Undelivered /\ Waiting' = Waiting \ queue.pending
    BY <2>1, <2>4 DEF Waiting, Books
  <2>6. Mailed
    BY <2>1, <2>4, <2>5 DEF Mailed, Books, Waiting
  <2>7. task'.inputs \subseteq task.inputs \cup queue.pending
    BY <2>1, <2>4 DEF Saved
  <2>8. task'.id = task.id /\ (task'.id = 0 => task'.pending = {} /\ task'.inputs = {})
    BY <2>4 DEF Saved, Books, SameTask
  <2> QED BY <2>1, <2>4, <2>6, <2>7, <2>8 DEF Books
<1> QED BY <1>2, <1>3

(* A save of the queue keeps every part of the invariant that does not depend  *)
(* on where the worker is.                                                     *)
Held == queue.pending \cup queue.claimed \cup queue.returned

LEMMA MailedTypes ==
  ASSUME TypeOK, Mailed
  PROVE  /\ task \in Tasks /\ task' \in Tasks
         /\ task.revision \in Nat /\ task.admitted \in Nat /\ task'.revision \in Nat /\ task'.admitted \in Nat
BY TypeParts DEF Mailed, Saved, TaskOK, Tasks

LEMMA MailedPends ==
  ASSUME TypeOK, Books, Pends, Mailed
  PROVE  Pends'
<1>1. task'.admitted <= task'.revision
  BY MailedTypes DEF Mailed, Saved, Untouched, SameVerdict, Touched, Pends
<1>2. queue'.pending \subseteq Waiting'
  BY DEF Waiting
<1>3. CASE task'.id = 0
  <2>1. task' = task /\ task.pending = {}
    BY <1>3 DEF Mailed, Saved, Books
  <2> QED BY <1>1, <2>1 DEF Mailed, Pends
<1>4. CASE task'.id # 0
  <2>1. /\ task'.inputs = task.inputs \cup (queue'.pending \cap Steers)
        /\ task'.pending = (task.pending \cup (queue'.pending \cap Steers)) \ queue'.returned
    BY <1>4 DEF Mailed, Saved
  <2> QED BY <1>1, <1>2, <2>1 DEF Mailed, Pends, Steers
<1> QED BY <1>3, <1>4

LEMMA MailedSeen ==
  ASSUME TypeOK, Pends, Mailed, Seen
  PROVE  Seen'
<1>1. CASE task'.pending = {}
  BY <1>1 DEF Seen, Unseen
<1>2. CASE task'.admitted = task.admitted
  <2>1. CASE Touched(task, task')
    BY <1>2, <2>1, MailedTypes DEF Touched, Pends, Seen
  <2>2. CASE Untouched(task, task')
    BY <1>2, <2>2 DEF Untouched, SameVerdict, Seen, Unseen, Mailed
  <2> QED BY <2>1, <2>2 DEF Mailed, Saved
<1> QED BY <1>1, <1>2 DEF Mailed, Saved

LEMMA MailedDone ==
  ASSUME DoneIsCurrent, Mailed
  PROVE  DoneIsCurrent'
<1> SUFFICES ASSUME task'.status \in {"complete", "answered"} PROVE DoneIsCurrent'
  BY DEF DoneIsCurrent
<1>1. Untouched(task, task') /\ SameTask(task, task')
  BY DEF Mailed, Saved, Touched, Reset
<1> QED BY <1>1 DEF DoneIsCurrent, Mailed, Saved, Untouched, SameVerdict, SameTask

LEMMA MailedRestricted ==
  ASSUME Restricted, Mailed, Books', ruling' = ruling
  PROVE  Restricted'
<1>1. /\ task'.intent.only => task'.class.only
      /\ task'.pending \cap Only # {} => task'.class.only
      /\ task'.pending \cap Only = {} => task'.class.only = task'.intent.only
      /\ ruling' \in Only => task'.intent.only
  <2>1. task'.intent = task.intent
    BY DEF Mailed, Saved
  <2>2. CASE task'.class = task.class /\ task'.pending = task.pending
    BY <2>1, <2>2 DEF Restricted
  <2>3. CASE Projected(task')
    <3>1. task'.pending \cap Only = {} => task'.class = task'.intent
      BY <2>3 DEF Projected
    <3>2. task'.pending \cap Only # {} => task'.class.only
      BY <2>3 DEF Projected
    <3> QED BY <2>1, <3>1, <3>2 DEF Restricted
  <2> QED BY <2>2, <2>3 DEF Mailed, Saved
<1>2. ASSUME pc' \in {"model", "promote", "approve"} PROVE queue'.pending \cap Steers \subseteq task'.pending
  <2>1. task'.id # 0
    BY <1>2 DEF Books
  <2>2. task'.pending = (task.pending \cup (queue'.pending \cap Steers)) \ queue'.returned
    BY <2>1 DEF Mailed, Saved
  <2>3. queue'.pending \cap queue'.returned = {}
    BY DEF Books
  <2> QED BY <2>2, <2>3
<1>3. Steers' = Steers /\ Only' = Only
  BY DEF Steers, Only, Saying, Is
<1> QED BY <1>1, <1>2, <1>3 DEF Restricted

(* While the worker stays where it is, so does the rest.                       *)
LEMMA MailedStays ==
  ASSUME ContractInv, Mailed, Books', Held \subseteq Held',
         UNCHANGED <<pc, back, human, report, copy, seen, before, found, world, crashes>>
  PROVE  Tight' /\ Running' /\ OfOne' /\ Judged'
<1> USE DEF ContractInv
<1>1. Untouched(task, task') \/ Touched(task, task')
  BY DEF Mailed, Saved
<1>2. Tight'
  <2>1. CASE Seen
    BY <2>1, MailedSeen DEF Tight
  <2>2. CASE pc \in {"idle", "close", "approve", "step"}
    BY <2>2 DEF Tight, Loose
  <2>3. CASE pc = "begin" /\ human \notin task.inputs
    <3>1. human \notin queue'.pending
      BY <2>3 DEF Books, Waiting
    <3>2. task'.inputs \subseteq task.inputs \cup queue'.pending
      BY DEF Mailed, Saved
    <3> QED BY <2>3, <3>1, <3>2 DEF Tight, Loose
  <2> QED BY <2>1, <2>2, <2>3 DEF Tight, Loose
<1>3. task'.status = task.status \/ task'.status = "active"
  BY <1>1 DEF Untouched, SameVerdict, Touched, Reset
<1>4. Running'
  BY <1>3 DEF Running, Mailed
<1>5. SameTask(task, task') /\ task'.revision >= task.revision
  BY <1>1, MailedTypes DEF Mailed, Saved, Untouched, SameVerdict, Touched
<1>6. OfOne'
  <2>1. task.revision \in Nat /\ task'.revision \in Nat /\ copy.revision \in Nat /\ seen.revision \in Nat
    BY MailedTypes DEF TypeOK, Tasks
  <2>2. FoundNow(found)' = FoundNow(found)
    BY DEF FoundNow
  <2> QED BY <1>5, <2>1, <2>2 DEF OfOne, SameTask
<1>7. Judged'
  <2> SUFFICES ASSUME pc = "conclude", report \in {"passed", "accepted"}, task'.revision = copy.revision
      PROVE  Judged'
    BY DEF Judged
  <2>1. copy.revision <= task.revision /\ copy.revision \in Nat
    BY DEF OfOne, Working, TypeOK, Tasks
  <2>2. ~Touched(task, task')
    BY <2>1, MailedTypes DEF Touched
  <2>3. Untouched(task, task')
    BY <1>1, <2>2
  <2>4. task.revision = copy.revision /\ task'.evidence = task.evidence
    BY <2>3 DEF Untouched, SameVerdict
  <2>5. FoundNow(task.evidence)' = FoundNow(task.evidence)
    BY <2>4 DEF FoundNow
  <2> QED BY <1>5, <2>3, <2>4, <2>5 DEF Judged, Mailed, Saved, Untouched, SameVerdict, SameTask
<1> QED BY <1>2, <1>4, <1>6, <1>7

(* A task that is active again was reopened by an input that is still there.   *)
LEMMA MailedSettled ==
  ASSUME Mailed, Held \subseteq Held', crashes' = crashes,
         task.status = "active" /\ task.id # 0 => crashes > 0 \/ Reopened
  PROVE  task'.status = "active" /\ task'.id # 0 => (crashes > 0 \/ Reopened)'
<1> SUFFICES ASSUME task'.status = "active", task'.id # 0 PROVE (crashes > 0 \/ Reopened)'
  OBVIOUS
<1>1. task'.inputs = task.inputs \cup (queue'.pending \cap Steers) /\ task.id # 0
  BY DEF Mailed, Saved, SameTask
<1>2. CASE Touched(task, task')
  <2>1. task'.inputs \cap queue'.pending # {}
    BY <1>1, <1>2 DEF Touched
  <2> QED BY <2>1 DEF Reopened
<1>3. CASE Untouched(task, task')
  BY <1>1, <1>3 DEF Untouched, SameVerdict, Reopened, Held
<1> QED BY <1>2, <1>3 DEF Mailed, Saved

--------------------------------------------------------------------------------
(* One lemma for each action: it keeps the invariant.  First those that save   *)
(* the queue.                                                                  *)

LEMMA TypeNext ==
  ASSUME TaskOK(task'), QueueOK(queue'), WorkerOK', AcceptanceOK'
  PROVE  TypeOK'
BY DEF TypeOK, TaskOK, SetsOK, QueueOK, WorkerOK, AcceptanceOK

(* Outside the loop and acceptance little is asked of the worker.              *)
LEMMA Outside ==
  ASSUME pc' \in {"idle", "begin", "next", "close", "settle"}
         \/ (pc' \in {"admit", "acknowledge"} /\ back' = "begin")
  PROVE  Running' /\ OfOne' /\ Judged'
BY DEF Running, OfOne, Judged, Working, InLoopPCs

LEMMA RunKeeps ==
  ASSUME MessagesAssumption, BoundsAssumption, ContractInv, NEW m \in Is("run"), Run(m)
  PROVE  ContractInv'
<1> USE DEF ContractInv
<1>1. Mailed /\ Books'
  BY RunMails
<1>2. /\ pc = "idle" /\ pc' = "begin" /\ m > newest /\ newest' = m /\ human' = m
      /\ last' = "normal" /\ cancelled' = FALSE /\ m \in Messages /\ queue' = [queue EXCEPT !.accepting = TRUE]
      /\ UNCHANGED <<questions, back, taken, iteration, verify, mutated, world, bounds, history, lost>>
  BY DEF Run, Is, Persist
<1>3. TypeOK'
  <2>1. WorkerOK'
    BY <1>2, TypeParts DEF WorkerOK, PCs, history
  <2>2. AcceptanceOK'
    BY <1>2, TypeParts DEF AcceptanceOK, verify, baseline, bounds, history
  <2> QED BY <1>1, <2>1, <2>2, TypeNext DEF Mailed, Saved
<1>4. Pends' /\ DoneIsCurrent' /\ Restricted'
  BY <1>1, <1>2, MailedPends, MailedDone, MailedRestricted DEF history
<1>5. Tight'
  <2>1. queue'.pending = queue.pending
    BY <1>2, TypeParts, QueueFields
  <2>2. m \notin task.inputs \cup queue.pending
    <3> SUFFICES ASSUME m \in task.inputs \cup queue.pending PROVE FALSE
      OBVIOUS
    <3>1. m < m
      BY <1>2, SentBefore
    <3>2. m \in Nat
      BY <1>2 DEF MessagesAssumption
    <3> QED BY <3>1, <3>2
  <2>3. task'.inputs \subseteq task.inputs \cup queue.pending
    BY <1>1, <2>1 DEF Mailed, Saved
  <2> QED BY <1>2, <2>2, <2>3 DEF Tight, Loose
<1>6. Running' /\ OfOne' /\ Judged'
  BY <1>2, Outside
<1>7. Settling'
  BY <1>2 DEF Settling
<1> QED BY <1>1, <1>3, <1>4, <1>5, <1>6, <1>7

LEMMA EnqueueKeeps ==
  ASSUME MessagesAssumption, BoundsAssumption, ContractInv, NEW m \in Messages, Enqueue(m)
  PROVE  ContractInv'
<1> USE DEF ContractInv
<1>1. Mailed /\ Books'
  BY EnqueueMails
<1>2. /\ queue.accepting /\ newest' = m /\ queue' = [queue EXCEPT !.pending = @ \cup {m}]
      /\ UNCHANGED <<questions, pc, worker, verify, mutated, world, cancelled, bounds, history, lost>>
  BY DEF Enqueue, Persist
<1>3. TypeOK'
  <2>1. WorkerOK'
    BY <1>2, TypeParts DEF WorkerOK, worker, history
  <2>2. AcceptanceOK'
    BY <1>2, TypeParts DEF AcceptanceOK, verify, baseline, bounds, history
  <2> QED BY <1>1, <2>1, <2>2, TypeNext DEF Mailed, Saved
<1>4. Pends' /\ DoneIsCurrent' /\ Restricted'
  BY <1>1, <1>2, MailedPends, MailedDone, MailedRestricted DEF history
<1>5. /\ queue'.pending = queue.pending \cup {m} /\ queue'.claimed = queue.claimed
      /\ queue'.returned = queue.returned
  <2>1. {m} \in SUBSET Messages
    OBVIOUS
  <2> QED BY <1>2, <2>1, TypeParts, QueueFields
<1>6. Held \subseteq Held'
  BY <1>5 DEF Held
<1>7. Tight' /\ Running' /\ OfOne' /\ Judged'
  BY <1>1, <1>2, <1>6, MailedStays DEF worker, verify, baseline, bounds
<1>8. Settling'
  <2>1. crashes' = crashes /\ pc' = pc /\ back' = back
    BY <1>2 DEF bounds, worker
  <2>2. pc # "idle"
    BY <1>2 DEF Settling
  <2> QED BY <1>1, <1>6, <2>1, <2>2, MailedSettled DEF Settling
<1> QED BY <1>1, <1>3, <1>4, <1>7, <1>8

LEMMA DequeueKeeps ==
  ASSUME MessagesAssumption, BoundsAssumption, ContractInv, NEW m \in Messages, Dequeue(m)
  PROVE  ContractInv'
<1> USE DEF ContractInv
<1>1. Mailed /\ Books'
  BY DequeueMails
<1>2. /\ queue' = [queue EXCEPT !.pending = @ \ {m}, !.returned = @ \cup {m}]
      /\ UNCHANGED <<questions, newest, pc, worker, verify, mutated, world, cancelled, bounds, history, lost>>
  BY DEF Dequeue, Persist
<1>3. TypeOK'
  <2>1. WorkerOK'
    BY <1>2, TypeParts DEF WorkerOK, worker, history
  <2>2. AcceptanceOK'
    BY <1>2, TypeParts DEF AcceptanceOK, verify, baseline, bounds, history
  <2> QED BY <1>1, <2>1, <2>2, TypeNext DEF Mailed, Saved
<1>4. Pends' /\ DoneIsCurrent' /\ Restricted'
  BY <1>1, <1>2, MailedPends, MailedDone, MailedRestricted DEF history
<1>5. /\ queue'.pending = queue.pending \ {m} /\ queue'.claimed = queue.claimed
      /\ queue'.returned = queue.returned \cup {m} /\ queue'.accepting = queue.accepting
  <2>1. {m} \in SUBSET Messages
    OBVIOUS
  <2> QED BY <1>2, <2>1, TypeParts, QueueFields
<1>6. Held \subseteq Held'
  BY <1>5 DEF Held
<1>7. Tight' /\ Running' /\ OfOne' /\ Judged'
  BY <1>1, <1>2, <1>6, MailedStays DEF worker, verify, baseline, bounds
<1>8. Settling'
  <2>1. crashes' = crashes /\ pc' = pc /\ back' = back
    BY <1>2 DEF bounds, worker
  <2>2. pc = "idle" => ~queue'.accepting /\ (queue'.pending = {} \/ crashes > 0)
    BY <1>5 DEF Settling
  <2> QED BY <1>1, <1>6, <2>1, <2>2, MailedSettled DEF Settling
<1> QED BY <1>1, <1>3, <1>4, <1>7, <1>8

LEMMA TakeKeeps ==
  ASSUME MessagesAssumption, BoundsAssumption, ContractInv,
         NEW S \in SUBSET queue.pending, NEW from, NEW to, Take(S, from, to),
         \/ pc \in {"step", "final"} /\ to \in {"model", "step"} /\ S = Steering
         \/ pc = "next" /\ to = "begin",
         UNCHANGED <<questions, newest, human, last, iteration, verify, mutated, world, cancelled,
                     bounds, history, lost>>
  PROVE  ContractInv'
<1> USE DEF ContractInv
<1>1. Mailed /\ Books'
  <2>1. to \in {"model", "step", "begin"} /\ pc \in {"step", "final", "next"}
    OBVIOUS
  <2> QED BY <2>1, TakeMails
<1>2. /\ S # {} /\ taken' = S /\ back' = to /\ pc' = "admit"
      /\ queue' = [queue EXCEPT !.pending = @ \ S, !.claimed = @ \cup S]
  BY DEF Take, Persist
<1>3. S \in SUBSET Messages
  BY TypeParts DEF QueueOK
<1>4. TypeOK'
  <2>1. WorkerOK'
    BY <1>2, <1>3, TypeParts DEF WorkerOK, PCs, history
  <2>2. AcceptanceOK'
    BY TypeParts DEF AcceptanceOK, verify, baseline, bounds, history
  <2> QED BY <1>1, <2>1, <2>2, TypeNext DEF Mailed, Saved
<1>5. Pends' /\ DoneIsCurrent' /\ Restricted'
  BY <1>1, MailedPends, MailedDone, MailedRestricted DEF history
<1>6. queue'.pending = queue.pending \ S /\ queue'.claimed = queue.claimed \cup S
      /\ queue'.returned = queue.returned
  BY <1>2, <1>3, TypeParts, QueueFields
<1>7. Held \subseteq Held'
  BY <1>6 DEF Held
<1>8. Untouched(task, task') \/ Touched(task, task')
  BY <1>1 DEF Mailed, Saved
<1>9. CASE pc \in {"step", "final"}
  <2>1. to \in {"model", "step"} /\ S = Steering
    BY <1>9
  <2>2. Tight'
    <3>1. Undelivered = lost /\ Undelivered' = lost \cup S
      BY <1>2, <1>9 DEF Undelivered
    <3>2. S = queue.pending \cap Steers
      BY <2>1 DEF Steering, Steers
    <3>3. task.pending \subseteq lost \cup S
      BY <3>1, <3>2 DEF Pends, Waiting
    <3>4. task'.pending \subseteq task.pending \cup S
      <4>1. CASE task'.id = 0
        BY <1>1, <4>1 DEF Mailed, Saved
      <4>2. CASE task'.id # 0
        BY <1>1, <1>6, <3>2, <4>2 DEF Mailed, Saved
      <4> QED BY <4>1, <4>2
    <3>5. Unseen' = {}
      BY <3>1, <3>3, <3>4 DEF Unseen
    <3> QED BY <3>5 DEF Tight, Seen
  <2>3. task'.status = "active"
    <3>1. task.status = "active"
      BY <1>9 DEF Running, InLoopPCs
    <3> QED BY <1>8, <3>1 DEF Untouched, SameVerdict, Touched, Reset
  <2>4. Running' /\ OfOne' /\ Judged'
    BY <1>2, <2>3 DEF Running, OfOne, Judged, Working, InLoopPCs
  <2>5. Settling'
    BY <1>2, <2>1 DEF Settling
  <2> QED BY <1>1, <1>4, <1>5, <2>2, <2>4, <2>5
<1>10. CASE pc = "next"
  <2>1. to = "begin"
    BY <1>10
  <2>2. Tight'
    BY <1>1, <1>10, MailedSeen DEF Tight, Loose
  <2>3. Running' /\ OfOne' /\ Judged'
    BY <1>2, <2>1, Outside
  <2>4. Settling'
    <3>1. crashes' = crashes
      BY DEF bounds
    <3>2. task.status = "active" /\ task.id # 0 => crashes > 0 \/ Reopened
      BY <1>10 DEF Settling
    <3> QED BY <1>1, <1>2, <1>7, <3>1, <3>2, MailedSettled DEF Settling
  <2> QED BY <1>1, <1>4, <1>5, <2>2, <2>3, <2>4
<1> QED BY <1>9, <1>10

LEMMA AcknowledgeKeeps ==
  ASSUME MessagesAssumption, BoundsAssumption, ContractInv, Acknowledge
  PROVE  ContractInv'
<1> USE DEF ContractInv
<1>1. Mailed /\ Books'
  BY AcknowledgeMails
<1>2. /\ pc = "acknowledge" /\ pc' = back /\ taken' = {}
      /\ queue' = [queue EXCEPT !.claimed = @ \ taken]
      /\ UNCHANGED <<questions, newest, back, human, last, iteration, verify, mutated, world,
                     cancelled, bounds, history, lost>>
  BY DEF Acknowledge, Persist
<1>3. TypeOK'
  <2>1. WorkerOK'
    BY <1>2, TypeParts DEF WorkerOK, PCs, history
  <2>2. AcceptanceOK'
    BY <1>2, TypeParts DEF AcceptanceOK, verify, baseline, bounds, history
  <2> QED BY <1>1, <2>1, <2>2, TypeNext DEF Mailed, Saved
<1>4. Pends' /\ DoneIsCurrent' /\ Restricted'
  BY <1>1, <1>2, MailedPends, MailedDone, MailedRestricted DEF history
<1>5. Tight'
  BY <1>1, <1>2, MailedSeen DEF Tight, Loose
<1>6. back \in {"model", "step", "begin"}
  BY <1>2 DEF Books
<1>7. Untouched(task, task') \/ Touched(task, task')
  BY <1>1 DEF Mailed, Saved
<1>8. back # "begin" => task'.status = "active"
  BY <1>2, <1>7 DEF Running, Untouched, SameVerdict, Touched, Reset
<1>9. Running' /\ OfOne' /\ Judged' /\ Settling'
  BY <1>2, <1>6, <1>8 DEF Running, OfOne, Judged, Settling, Working, InLoopPCs
<1> QED BY <1>1, <1>3, <1>4, <1>5, <1>9

(* A save that ends the turn: by next_or_close, or by the caller.              *)
LEMMA ClosingKeeps ==
  ASSUME MessagesAssumption, BoundsAssumption, ContractInv, pc \in {"next", "close"},
         pc' \in {"idle", "close"},
         UNCHANGED <<questions, newest, worker, verify, mutated, world, cancelled, bounds, history, lost>>,
         \/ Persist([queue EXCEPT !.accepting = FALSE]) /\ pc' = "close"
         \/ Persist([queue EXCEPT !.pending = {}, !.returned = @ \cup queue.pending, !.accepting = FALSE])
  PROVE  ContractInv'
<1> USE DEF ContractInv
<1>1. Mailed /\ Books'
  BY ClosingMails DEF worker
<1>2. TypeOK'
  <2>1. WorkerOK'
    BY TypeParts DEF WorkerOK, PCs, history, worker
  <2>2. AcceptanceOK'
    BY TypeParts DEF AcceptanceOK, verify, baseline, bounds, history
  <2> QED BY <1>1, <2>1, <2>2, TypeNext DEF Mailed, Saved
<1>3. Pends' /\ DoneIsCurrent' /\ Restricted'
  BY <1>1, MailedPends, MailedDone, MailedRestricted DEF history
<1>4. Tight'
  BY DEF Tight, Loose
<1>5. Running' /\ OfOne' /\ Judged'
  BY Outside
<1>6. Held \subseteq Held' /\ (pc' = "idle" => ~queue'.accepting /\ queue'.pending = {})
  <2>1. QueueOK(queue) /\ {} \in SUBSET Messages
    BY TypeParts
  <2>2. CASE Persist([queue EXCEPT !.accepting = FALSE]) /\ pc' = "close"
    BY <2>1, <2>2, QueueFields DEF Persist, Held
  <2>3. CASE Persist([queue EXCEPT !.pending = {}, !.returned = @ \cup queue.pending, !.accepting = FALSE])
    BY <2>1, <2>3, QueueFields DEF Persist, Held
  <2> QED BY <2>2, <2>3
<1>7. Settling'
  <2>1. crashes' = crashes
    BY DEF bounds
  <2>2. task.status = "active" /\ task.id # 0 => crashes > 0 \/ Reopened
    BY DEF Settling
  <2> QED BY <1>1, <1>6, <2>1, <2>2, MailedSettled DEF Settling
<1> QED BY <1>1, <1>2, <1>3, <1>4, <1>5, <1>7

--------------------------------------------------------------------------------
(* Delivery and the beginning of a turn.                                       *)

LEMMA AdmitKeeps ==
  ASSUME MessagesAssumption, BoundsAssumption, ContractInv, Admit
  PROVE  ContractInv'
<1> USE DEF ContractInv
<1> DEFINE new == (taken \cap Steers) \ task.delivered
           deciding == new \cap Saying({"only", "fix", "do"})
<1>1. /\ pc = "admit" /\ pc' = "acknowledge" /\ task' = Delivered(task, new)
      /\ ruling' = (IF deciding = {} THEN ruling ELSE Newest(deciding))
      /\ human' = Newest(taken) /\ lost' = lost \ taken
      /\ UNCHANGED <<questions, queue, newest, back, taken, last, iteration, verify, mutated, world,
                     cancelled, bounds, awaiting>>
  BY DEF Admit, Steers
<1>2. task \in Tasks /\ SetsOK(task) /\ taken \in SUBSET Messages /\ new \in SUBSET Messages
  BY TypeParts DEF TaskOK, WorkerOK
<1>3. new \ task.delivered = new
  OBVIOUS
<1>4. /\ task' \in Tasks /\ SameTask(task, task')
      /\ task'.inputs = task.inputs \cup new /\ task'.delivered = task.delivered \cup new
      /\ task'.pending = task.pending \ new
      /\ new \subseteq task.inputs => SameVerdict(task, task')
      /\ ~(new \subseteq task.inputs) => Reset(task') /\ task'.revision > task.revision
      /\ task'.admitted = task.admitted \/ (task'.pending = {} /\ task'.admitted = task'.revision)
      /\ Projected(task') \/ (task'.class = task.class /\ task'.pending = task.pending /\ task'.intent = task.intent)
      /\ deciding = {} => task'.intent = task.intent
      /\ deciding # {} => task'.intent.only = (Word[Newest(deciding)] = "only")
  <2>1. GivenOver(task, new, task')
    BY <1>1, <1>2, DeliveredFields
  <2> QED BY <1>3, <2>1 DEF GivenOver
<1>5. SetsOK(task')
  BY <1>2, <1>4 DEF SetsOK
<1>6. taken \subseteq queue.claimed /\ taken # {} /\ task.id # 0 /\ back # "idle"
  BY <1>1 DEF Books
<1>7. Newest(taken) \in taken
  BY <1>2, <1>6, NewestMessage
<1>8. deciding # {} => Newest(deciding) \in deciding
  BY <1>2, NewestMessage
<1>9. /\ Undelivered = lost \cup taken /\ Undelivered' = lost \ taken
      /\ Waiting' = Waiting \ taken /\ taken \subseteq Waiting
  BY <1>1, <1>6 DEF Undelivered, Waiting, Books
<1>10. task.pending \cap taken \subseteq new /\ new \subseteq taken
  BY <1>2 DEF Pends, SetsOK
<1>11. TypeOK'
  <2>1. WorkerOK'
    BY <1>1, <1>2, <1>7, <1>8, TypeParts DEF WorkerOK, PCs
  <2>2. AcceptanceOK'
    BY <1>1, TypeParts DEF AcceptanceOK, verify, baseline, bounds
  <2>3. TaskOK(task') /\ QueueOK(queue')
    BY <1>1, <1>4, <1>5, TypeParts DEF TaskOK
  <2> QED BY <2>1, <2>2, <2>3, TypeNext
<1>12. Books'
  BY <1>1, <1>4, <1>6, <1>7, <1>10 DEF Books, SameTask
<1>13. Pends'
  <2>1. task.revision \in Nat /\ task.admitted \in Nat /\ task'.revision \in Nat
    BY <1>2, <1>4 DEF Tasks
  <2>2. task'.admitted <= task'.revision
    BY <1>4, <2>1 DEF Pends, SameVerdict
  <2>3. task'.pending \subseteq Waiting'
    BY <1>4, <1>9, <1>10 DEF Pends
  <2>4. Waiting' \cap Steers \cap task'.inputs \subseteq task'.pending
    BY <1>4, <1>9, <1>10 DEF Pends
  <2> QED BY <1>4, <2>2, <2>3, <2>4 DEF Pends, Steers
<1>14. Tight'
  <2>1. Seen
    BY <1>1 DEF Tight, Loose
  <2>2. CASE Unseen = {}
    <3>1. Unseen' = {}
      BY <1>4, <1>9, <1>10, <2>2 DEF Unseen
    <3> QED BY <3>1 DEF Tight, Seen
  <2>3. CASE task'.pending = {}
    BY <2>3 DEF Tight, Seen, Unseen
  <2>4. CASE task.admitted < task.revision /\ task'.admitted = task.admitted
    <3>1. task.revision \in Nat /\ task.admitted \in Nat /\ task'.revision \in Nat
      BY <1>2, <1>4 DEF Tasks
    <3>2. task'.admitted < task'.revision
      BY <1>4, <2>4, <3>1 DEF SameVerdict
    <3> QED BY <3>2 DEF Tight, Seen
  <2> QED BY <1>4, <2>1, <2>2, <2>3, <2>4 DEF Seen
<1>15. DoneIsCurrent'
  <2> SUFFICES ASSUME task'.status \in {"complete", "answered"} PROVE DoneIsCurrent'
    BY DEF DoneIsCurrent
  <2>1. SameVerdict(task, task')
    BY <1>4 DEF Reset
  <2>2. task'.pending \subseteq lost'
    BY <1>1, <1>4, <1>10, <2>1 DEF DoneIsCurrent, SameVerdict
  <2> QED BY <1>1, <1>4, <2>1, <2>2 DEF DoneIsCurrent, SameVerdict, SameTask
<1>16. back # "begin" => task'.status = "active"
  BY <1>1, <1>4 DEF Running, SameVerdict, Reset
<1>17. Running' /\ OfOne' /\ Judged'
  BY <1>1, <1>16 DEF Running, OfOne, Judged, Working, InLoopPCs
<1>18. Restricted'
  <2>1. /\ task'.intent.only => task'.class.only
        /\ task'.pending \cap Only # {} => task'.class.only
        /\ task'.pending \cap Only = {} => task'.class.only = task'.intent.only
    BY <1>4 DEF Restricted, Projected
  <2>2. ruling' \in Only => task'.intent.only
    <3>1. CASE deciding = {}
      BY <1>1, <1>4, <3>1 DEF Restricted
    <3>2. CASE deciding # {}
      BY <1>1, <1>4, <3>2 DEF Only, Saying
    <3> QED BY <3>1, <3>2
  <2>3. Steers' = Steers /\ Only' = Only
    BY DEF Steers, Only, Saying, Is
  <2> QED BY <1>1, <2>1, <2>2, <2>3 DEF Restricted
<1>19. Settling'
  <2> SUFFICES ASSUME back = "begin", task'.status = "active" PROVE (crashes > 0 \/ Reopened)'
    BY <1>1 DEF Settling
  <2>1. CASE new \subseteq task.inputs
    BY <1>1, <1>4, <1>6, <2>1 DEF SameVerdict, Settling, Reopened, bounds
  <2>2. CASE ~(new \subseteq task.inputs)
    BY <1>1, <1>4, <1>6, <1>10, <2>2 DEF Reopened
  <2> QED BY <2>1, <2>2
<1> QED BY <1>11, <1>12, <1>13, <1>14, <1>15, <1>17, <1>18, <1>19

LEMMA BeginKeeps ==
  ASSUME MessagesAssumption, BoundsAssumption, ContractInv, Begin
  PROVE  ContractInv'
<1> USE DEF ContractInv
<1> DEFINE deciding == {human} \cap Saying({"only", "fix", "do"})
<1>1. /\ pc = "begin" /\ pc' = "configure" /\ iteration' = 1 /\ awaiting' = FALSE
      /\ seen' = NoTask /\ before' = 0 /\ copy' = NoTask /\ report' = "none" /\ found' = NoEvidence
      /\ UNCHANGED <<queue, newest, back, human, taken, last, mutated, world, cancelled, bounds, lost>>
  BY DEF Begin
<1>2. task \in Tasks /\ SetsOK(task) /\ human \in Messages \ Waiting /\ taken = {}
  BY <1>1, TypeParts DEF TaskOK, Books
<1>3. Undelivered' = Undelivered /\ Waiting' = Waiting
  BY <1>1 DEF Undelivered, Waiting
<1>4. /\ TaskOK(task') /\ task'.id # 0 /\ task'.status = "active"
      /\ task'.inputs \subseteq task.inputs \cup {human} /\ task'.pending \subseteq task.pending
      /\ Waiting \cap task'.inputs \cap task.pending \subseteq task'.pending
      /\ task'.inputs \cap Waiting \subseteq task.inputs
      /\ task'.admitted <= task'.revision /\ Seen'
      /\ task'.intent.only => task'.class.only
      /\ task'.pending \cap Only # {} => task'.class.only
      /\ task'.pending \cap Only = {} => task'.class.only = task'.intent.only
      /\ ruling' \in Only => task'.intent.only
      /\ questions' \in Nat /\ ruling' \in Messages \cup {0}
  <2>0. /\ task.revision \in Nat /\ task.admitted \in Nat /\ task.admitted <= task.revision
        /\ questions \in Nat /\ ruling \in Messages \cup {0} /\ human \in Messages
    BY <1>2, TypeParts DEF Tasks, WorkerOK, Pends
  <2>1. CASE /\ human \in task.inputs
             /\ task' = Admitted([task EXCEPT !.status = "active", !.evidence = NoEvidence])
             /\ UNCHANGED <<questions, ruling>>
    <3>1. /\ task' \in Tasks /\ SameTask(task, task') /\ Inputs(task, task') /\ task'.status = "active"
          /\ task'.intent = task.intent /\ task'.class = task.class /\ task'.revision = task.revision
          /\ task.pending = {} => task'.admitted = task.revision
          /\ task.pending # {} => task'.admitted = task.admitted
      BY <1>2, <2>1, BeginKnown
    <3>2. TaskOK(task') /\ task'.id # 0
      BY <1>2, <2>1, <3>1 DEF TaskOK, SetsOK, Inputs, SameTask, Books
    <3>3. Seen'
      <4>1. Seen
        BY <1>1, <2>1 DEF Tight, Loose
      <4> QED BY <1>3, <3>1, <4>1 DEF Seen, Unseen, Inputs
    <3>4. task'.admitted <= task'.revision
      BY <2>0, <3>1
    <3> QED BY <2>0, <2>1, <3>1, <3>2, <3>3, <3>4 DEF Inputs, Restricted
  <2>2. CASE /\ human \notin task.inputs /\ Resumes(task, human)
             /\ task' = Delivered(task, {human})
             /\ questions' \in IF questions < 2 THEN {0} ELSE 0..questions
             /\ ruling' = IF human \in Saying({"only", "fix", "do"}) THEN human ELSE ruling
    <3>1. {human} \in SUBSET Messages /\ {human} \ task.delivered = {human}
      BY <1>2, <2>2 DEF SetsOK
    <3>2. /\ task' \in Tasks /\ SameTask(task, task')
          /\ task'.inputs = task.inputs \cup {human} /\ task'.delivered = task.delivered \cup {human}
          /\ task'.pending = task.pending \ {human}
          /\ Reset(task') /\ task'.revision > task.revision
          /\ task'.admitted = task.admitted \/ (task'.pending = {} /\ task'.admitted = task'.revision)
          /\ Projected(task') \/ (task'.class = task.class /\ task'.pending = task.pending /\ task'.intent = task.intent)
          /\ deciding = {} => task'.intent = task.intent
          /\ deciding # {} => task'.intent.only = (Word[Newest(deciding)] = "only")
      <4>1. GivenOver(task, {human}, task')
        <5>1. task' = Delivered(task, {human}) /\ task \in Tasks /\ {human} \in SUBSET Messages
          BY <1>2, <2>2, <3>1
        <5> QED BY <5>1, DeliveredFields
      <4>2. {human} \ task.delivered = {human} /\ ~({human} \subseteq task.inputs)
        BY <2>2, <3>1
      <4> QED BY <4>1, <4>2 DEF GivenOver
    <3>3. TaskOK(task') /\ task'.id # 0
      BY <1>2, <2>2, <3>2 DEF TaskOK, SetsOK, SameTask, Resumes
    <3>4. task'.revision \in Nat
      BY <3>2 DEF Tasks
    <3>5. task'.admitted <= task'.revision /\ Seen'
      BY <2>0, <3>2, <3>4 DEF Seen, Unseen
    <3>6. /\ task'.intent.only => task'.class.only
          /\ task'.pending \cap Only # {} => task'.class.only
          /\ task'.pending \cap Only = {} => task'.class.only = task'.intent.only
      BY <3>2 DEF Restricted, Projected
    <3>7. ruling' \in Only => task'.intent.only
      <4>1. CASE human \in Saying({"only", "fix", "do"})
        <5>1. deciding = {human} /\ deciding \in SUBSET Messages
          BY <4>1, <3>1
        <5>2. Newest(deciding) = human
          BY <5>1, NewestMessage
        <5> QED BY <2>2, <3>2, <4>1, <5>1, <5>2 DEF Only, Saying
      <4>2. CASE human \notin Saying({"only", "fix", "do"})
        BY <2>2, <3>2, <4>2 DEF Restricted
      <4> QED BY <4>1, <4>2
    <3>8. questions' \in Nat
      BY <2>0, <2>2
    <3>9. ruling' \in Messages \cup {0}
      BY <2>0, <2>2
    <3>10. /\ task'.inputs \cap Waiting \subseteq task.inputs
           /\ Waiting \cap task'.inputs \cap task.pending \subseteq task'.pending
      BY <1>2, <3>2
    <3> QED BY <3>2, <3>3, <3>5, <3>6, <3>7, <3>8, <3>9, <3>10 DEF Reset
  <2>3. CASE /\ human \notin task.inputs /\ task' = NewTask(task, human)
             /\ questions' = 0 /\ ruling' = human
    <3>1. /\ task' \in Tasks /\ SetsOK(task') /\ task'.id = task.id + 1 /\ task'.status = "active"
          /\ task'.revision = 1 /\ task'.admitted = 1 /\ task'.inputs = {human} /\ task'.pending = {}
          /\ task'.class = task'.intent /\ task'.intent.only = (Word[human] = "only")
      BY <1>2, <2>3, <2>0, NewTaskFields
    <3>2. TaskOK(task') /\ task'.id # 0
      <4>1. task.id \in Nat
        BY <1>2 DEF Tasks
      <4> QED BY <3>1, <4>1 DEF TaskOK
    <3>3. Seen'
      BY <3>1 DEF Seen, Unseen
    <3>4. ruling' \in Only => task'.intent.only
      BY <2>3, <3>1 DEF Only, Saying
    <3>5. task.pending \cap {human} = {}
      BY <1>2 DEF Pends
    <3>6. task'.admitted <= task'.revision
      BY <3>1
    <3> QED BY <1>2, <2>0, <2>3, <3>1, <3>2, <3>3, <3>4, <3>5, <3>6
  <2> QED BY <2>1, <2>2, <2>3 DEF Begin
<1>5. TypeOK'
  <2>1. WorkerOK'
    <3>1. 1 \in 0..MaxIterations
      BY DEF BoundsAssumption
    <3> QED BY <1>1, <1>4, <3>1, TypeParts DEF WorkerOK, PCs
  <2>2. AcceptanceOK'
    <3>1. 0 \in 0..MaxWorld
      BY DEF BoundsAssumption
    <3> QED BY <1>1, <3>1, NoTaskType, NothingType, TypeParts DEF AcceptanceOK, bounds
  <2> QED BY <1>1, <1>4, <2>1, <2>2, TypeParts, TypeNext
<1>6. Books'
  BY <1>1, <1>2, <1>4 DEF Books
<1>7. Pends'
  BY <1>3, <1>4 DEF Pends, Steers
<1>8. Tight' /\ DoneIsCurrent' /\ Running' /\ OfOne' /\ Judged' /\ Settling'
  BY <1>1, <1>4 DEF Tight, DoneIsCurrent, Running, OfOne, Judged, Settling, Working
<1>9. Restricted'
  <2>1. Steers' = Steers /\ Only' = Only
    BY DEF Steers, Only, Saying, Is
  <2> QED BY <1>1, <1>4, <2>1 DEF Restricted
<1> QED BY <1>5, <1>6, <1>7, <1>8, <1>9

--------------------------------------------------------------------------------
(* The loop of the model and its tools.                                        *)

Stays == UNCHANGED <<queue, newest, back, human, taken, lost, crashes, ruling>>

LEMMA StillBooks ==
  ASSUME Books, Pends, Stays, pc \notin {"idle", "begin", "admit", "acknowledge", "close"},
         pc' \notin {"idle", "begin", "admit", "acknowledge"},
         task'.id = task.id, Inputs(task, task'), task'.admitted <= task'.revision
  PROVE  Books' /\ Pends' /\ Undelivered' = Undelivered /\ Unseen' = Unseen /\ task.id # 0
<1>1. Undelivered' = Undelivered /\ Waiting' = Waiting /\ Steers' = Steers
  BY DEF Stays, Undelivered, Waiting, Steers, Is
<1>2. task.id # 0
  BY DEF Books
<1>3. Unseen' = Unseen
  BY <1>1 DEF Unseen, Inputs
<1>4. Books'
  BY <1>2 DEF Books, Stays, Inputs
<1>5. Pends'
  BY <1>1 DEF Pends, Inputs
<1> QED BY <1>1, <1>2, <1>3, <1>4, <1>5

(* A contract may change, but neither what is pending nor the restriction.     *)
LEMMA StillRestricted ==
  ASSUME Restricted, Stays, Inputs(task, task'), task'.class.only = task.class.only,
         task'.intent = task.intent \/ task'.intent = task'.class,
         pc' \in {"model", "promote", "approve"} =>
           pc \in {"model", "promote", "approve"} \/ queue.pending \cap Steers = {}
  PROVE  Restricted'
<1>1. Steers' = Steers /\ Only' = Only /\ queue' = queue /\ ruling' = ruling /\ task'.pending = task.pending
  BY DEF Steers, Only, Saying, Is, Stays, Inputs
<1>2. CASE task'.intent = task.intent
  BY <1>1, <1>2 DEF Restricted
<1>3. CASE task'.intent = task'.class
  <2>1. task'.intent.only = task.class.only
    BY <1>3
  <2> QED BY <1>1, <2>1 DEF Restricted
<1> QED BY <1>2, <1>3

LEMMA LoopKeeps ==
  ASSUME ContractInv, TypeOK', Stays,
         pc \in {"configure", "step", "final", "model", "promote", "approve"},
         pc' \in {"step", "model", "final", "accept", "promote", "approve", "settle"},
         task'.id = task.id, Inputs(task, task'), task'.admitted <= task'.revision,
         task'.status = "active", task'.class.only = task.class.only,
         task'.intent = task.intent \/ task'.intent = task'.class,
         pc' \in {"model", "promote", "approve"} =>
           pc \in {"model", "promote", "approve"} \/ queue.pending \cap Steers = {},
         pc' \in {"step", "approve"} \/ Seen'
  PROVE  ContractInv'
<1> USE DEF ContractInv
<1>1. Books' /\ Pends'
  BY StillBooks
<1>2. Restricted'
  BY StillRestricted
<1>3. Tight'
  BY DEF Tight, Loose
<1>4. Running' /\ OfOne' /\ Judged' /\ DoneIsCurrent' /\ Settling'
  BY DEF Running, OfOne, Judged, DoneIsCurrent, Settling, Working
<1> QED BY <1>1, <1>2, <1>3, <1>4

(* A step that leaves the task alone.                                          *)
LEMMA SameTaskKeeps ==
  ASSUME ContractInv, TypeOK', Stays, task' = task,
         pc \in {"configure", "step", "final", "model", "promote", "approve"},
         pc' \in {"step", "model", "final", "accept", "promote", "approve", "settle"},
         pc' \in {"model", "promote", "approve"} =>
           pc \in {"model", "promote", "approve"} \/ queue.pending \cap Steers = {},
         pc' \in {"step", "approve"} \/ Seen
  PROVE  ContractInv'
<1> USE DEF ContractInv
<1>1. /\ task'.id = task.id /\ Inputs(task, task') /\ task'.admitted <= task'.revision
      /\ task'.status = "active" /\ task'.class.only = task.class.only /\ task'.intent = task.intent
  BY DEF Inputs, Pends, Running, InLoopPCs
<1>2. Undelivered' = Undelivered
  BY DEF Undelivered, Stays
<1>3. Seen => Seen'
  BY <1>2 DEF Seen, Unseen
<1>4. pc' \in {"step", "approve"} \/ Seen'
  BY <1>3
<1> QED BY <1>1, <1>4, LoopKeeps

LEMMA ConfigureKeeps ==
  ASSUME BoundsAssumption, ContractInv, NEW C \in SUBSET Conditions, Configure(C)
  PROVE  ContractInv'
<1> USE DEF ContractInv
<1>1. /\ pc = "configure" /\ pc' = "step"
      /\ UNCHANGED <<questions, queue, newest, worker, verify, mutated, world, cancelled, bounds, history, lost>>
  BY DEF Configure
<1>2. task \in Tasks /\ SetsOK(task) /\ task.status = "active"
  BY <1>1, TypeParts DEF TaskOK, Running, InLoopPCs
<1>3. /\ task' \in Tasks /\ task'.id = task.id /\ Inputs(task, task') /\ task'.status = "active"
      /\ task'.admitted = task.admitted /\ task'.revision = task.revision
      /\ task'.class = task.class /\ task'.intent = task.intent
  <2>1. CASE task' = task
    BY <1>2, <2>1 DEF Inputs
  <2>2. CASE task' = [task EXCEPT !.criteria = C, !.stated = task.revision]
    <3>1. task' \in Tasks
      BY <1>2, <2>2 DEF Tasks
    <3> QED BY <1>2, <2>2, <3>1 DEF Tasks, Inputs
  <2> QED BY <2>1, <2>2 DEF Configure
<1>4. Stays
  BY <1>1 DEF Stays, worker, bounds, history
<1>5. TypeOK'
  <2>1. WorkerOK'
    BY <1>1, TypeParts DEF WorkerOK, worker, history, PCs
  <2>2. AcceptanceOK'
    BY <1>1, TypeParts DEF AcceptanceOK, verify, baseline, bounds, history
  <2>3. TaskOK(task') /\ QueueOK(queue')
    BY <1>1, <1>2, <1>3, TypeParts DEF TaskOK, SetsOK, Inputs
  <2> QED BY <2>1, <2>2, <2>3, TypeNext
<1>6. task'.admitted <= task'.revision
  BY <1>3 DEF Pends
<1> QED BY <1>1, <1>3, <1>4, <1>5, <1>6, LoopKeeps

LEMMA TakeSteeringKeeps ==
  ASSUME MessagesAssumption, BoundsAssumption, ContractInv, TakeSteering
  PROVE  ContractInv'
<1> USE DEF ContractInv
<1>1. /\ pc \in {"step", "final"}
      /\ UNCHANGED <<questions, newest, human, last, iteration, verify, mutated, world, cancelled, bounds, history, lost>>
  BY DEF TakeSteering
<1>2. CASE Steering # {}
  <2> DEFINE to == IF pc = "step" THEN "model" ELSE "step"
  <2>1. Take(Steering, pc, to) /\ to \in {"model", "step"} /\ Steering \in SUBSET queue.pending
    BY <1>2 DEF TakeSteering, Steering
  <2> HIDE DEF to
  <2> QED BY <1>1, <2>1, TakeKeeps
<1>3. CASE Steering = {}
  <2>1. /\ pc' = (IF pc = "step" THEN "model" ELSE "accept")
        /\ UNCHANGED <<task, queue, back, taken>>
    BY <1>3 DEF TakeSteering
  <2>2. Stays
    BY <1>1, <2>1 DEF Stays, bounds, history
  <2>3. TypeOK'
    <3>1. WorkerOK'
      BY <1>1, <2>1, TypeParts DEF WorkerOK, worker, history, PCs
    <3>2. AcceptanceOK'
      BY <1>1, TypeParts DEF AcceptanceOK, verify, baseline, bounds, history
    <3> QED BY <2>1, <3>1, <3>2, TypeParts, TypeNext
  <2>4. queue.pending \cap Steers = {}
    BY <1>3 DEF Steering, Steers
  <2>5. Seen
    <3>1. Undelivered = lost
      BY <1>1 DEF Undelivered
    <3>2. task.pending \subseteq Undelivered
      BY <2>4, <3>1 DEF Pends, Waiting
    <3> QED BY <3>2 DEF Seen, Unseen
  <2> QED BY <1>1, <2>1, <2>2, <2>3, <2>4, <2>5, SameTaskKeeps
<1> QED BY <1>2, <1>3

LEMMA RespondKeeps ==
  ASSUME BoundsAssumption, ContractInv, Respond
  PROVE  ContractInv'
<1> USE DEF ContractInv
<1>1. /\ pc = "model" /\ pc' \in {"final", "settle", "step"}
      /\ UNCHANGED <<task, queue, newest, back, human, taken, verify, mutated, world, cancelled, bounds, history, lost>>
  BY DEF Respond
<1>2. Stays /\ Seen
  BY <1>1 DEF Stays, bounds, history, Tight, Loose
<1>3. TypeOK'
  <2>1. questions' \in Nat /\ last' \in {"normal", "awaiting", "error", "blocked"} /\ iteration' \in 0..MaxIterations
    BY TypeParts DEF Respond, WorkerOK, BoundsAssumption
  <2>2. WorkerOK'
    BY <1>1, <2>1, TypeParts DEF WorkerOK, history, PCs
  <2>3. AcceptanceOK'
    BY <1>1, TypeParts DEF AcceptanceOK, verify, baseline, bounds, history
  <2> QED BY <1>1, <2>2, <2>3, TypeParts, TypeNext
<1> QED BY <1>1, <1>2, <1>3, SameTaskKeeps

LEMMA TaskStateKeeps ==
  ASSUME BoundsAssumption, ContractInv, TaskState
  PROVE  ContractInv'
<1> USE DEF ContractInv
<1>1. /\ pc = "model" /\ pc' = "step"
      /\ UNCHANGED <<questions, queue, newest, worker, verify, mutated, world, cancelled, bounds, history, lost>>
  BY DEF TaskState, Reclassify, Define, Revise, MayState
<1>2. task \in Tasks /\ SetsOK(task) /\ task.status = "active" /\ task.criteria \in SUBSET Conditions
  BY <1>1, TypeParts DEF TaskOK, Running, InLoopPCs, Tasks
<1>3. PICK kind \in {"answer", "change"}, C \in SUBSET Conditions : task' = Contract(task, kind, C)
  <2>1. CASE \E C \in SUBSET Conditions : Reclassify(C)
    BY <2>1 DEF Reclassify
  <2>2. CASE \E C \in SUBSET Conditions, kind \in {"answer", "change"} : Revise(kind, C)
    BY <2>2 DEF Revise
  <2>3. CASE \E C \in SUBSET Conditions, kind \in {"answer", "change"} : Define(kind, C)
    <3>1. PICK C \in SUBSET Conditions, kind \in {"answer", "change"} : Define(kind, C)
      BY <2>3
    <3>2. task.criteria \cup C \in SUBSET Conditions
      BY <1>2
    <3> QED BY <3>1, <3>2 DEF Define
  <2> QED BY <2>1, <2>2, <2>3 DEF TaskState
<1>4. /\ task' \in Tasks /\ task'.id = task.id /\ Inputs(task, task') /\ task'.status = task.status
      /\ task'.admitted = task'.revision /\ task'.revision >= task.revision
      /\ task'.class.only = task.class.only
      /\ task'.intent = task.intent \/ task'.intent = task'.class
  BY <1>2, <1>3, ContractFields
<1>5. Stays
  BY <1>1 DEF Stays, worker, bounds, history
<1>6. TypeOK'
  <2>1. WorkerOK'
    BY <1>1, TypeParts DEF WorkerOK, worker, history, PCs
  <2>2. AcceptanceOK'
    BY <1>1, TypeParts DEF AcceptanceOK, verify, baseline, bounds, history
  <2>3. TaskOK(task') /\ QueueOK(queue')
    BY <1>1, <1>2, <1>4, TypeParts DEF TaskOK, SetsOK, Inputs
  <2> QED BY <2>1, <2>2, <2>3, TypeNext
<1>7. task'.admitted <= task'.revision
  BY <1>4 DEF Tasks
<1> QED BY <1>1, <1>2, <1>4, <1>5, <1>6, <1>7, LoopKeeps

LEMMA CheckToolKeeps ==
  ASSUME ContractInv, CheckTool
  PROVE  ContractInv'
<1> USE DEF ContractInv
<1>1. /\ pc = "model" /\ pc' \in {"step", "promote", "approve"}
      /\ UNCHANGED <<task, questions, queue, newest, worker, verify, mutated, world, cancelled, bounds, history, lost>>
  BY DEF CheckTool
<1>2. Stays /\ Seen
  BY <1>1 DEF Stays, worker, bounds, history, Tight, Loose
<1>3. TypeOK'
  <2>2. WorkerOK'
    BY <1>1, TypeParts DEF WorkerOK, worker, history, PCs
  <2>3. AcceptanceOK'
    BY <1>1, TypeParts DEF AcceptanceOK, verify, baseline, bounds, history
  <2> QED BY <1>1, <2>2, <2>3, TypeParts, TypeNext
<1> QED BY <1>1, <1>2, <1>3, SameTaskKeeps

LEMMA PromoteKeeps ==
  ASSUME BoundsAssumption, ContractInv, Promote
  PROVE  ContractInv'
<1> USE DEF ContractInv
<1>1. /\ pc = "promote" /\ pc' = "approve"
      /\ UNCHANGED <<questions, queue, newest, worker, verify, mutated, world, cancelled, bounds, history, lost>>
  BY DEF Promote
<1>2. task \in Tasks /\ SetsOK(task)
  BY TypeParts DEF TaskOK
<1>3. /\ task' \in Tasks /\ task'.id = task.id /\ Inputs(task, task') /\ task'.status = "active"
      /\ task'.admitted = task'.revision /\ task'.class.only = task.class.only /\ task'.intent = task'.class
  BY <1>2, PromoteFields
<1>4. Stays
  BY <1>1 DEF Stays, worker, bounds, history
<1>5. TypeOK'
  <2>1. WorkerOK'
    BY <1>1, TypeParts DEF WorkerOK, worker, history, PCs
  <2>2. AcceptanceOK'
    BY <1>1, TypeParts DEF AcceptanceOK, verify, baseline, bounds, history
  <2>3. TaskOK(task') /\ QueueOK(queue')
    BY <1>1, <1>2, <1>3, TypeParts DEF TaskOK, SetsOK, Inputs
  <2> QED BY <2>1, <2>2, <2>3, TypeNext
<1>6. task'.admitted <= task'.revision
  BY <1>3 DEF Tasks
<1> QED BY <1>1, <1>3, <1>4, <1>5, <1>6, LoopKeeps

LEMMA DispatchKeeps ==
  ASSUME BoundsAssumption, ContractInv, Dispatch
  PROVE  ContractInv'
<1> USE DEF ContractInv
<1>1. /\ pc = "approve" /\ pc' = "step"
      /\ UNCHANGED <<task, questions, queue, newest, worker, verify, cancelled, bounds, history, lost>>
  BY DEF Dispatch
<1>2. Stays
  BY <1>1 DEF Stays, worker, bounds, history
<1>3. TypeOK'
  <2>1. world' \in 0..MaxWorld /\ mutated' \in BOOLEAN
    <3>1. world \in 0..MaxWorld /\ mutated \in BOOLEAN /\ MaxWorld \in Nat
      BY TypeParts DEF AcceptanceOK, BoundsAssumption
    <3>2. CASE UNCHANGED <<world, mutated>>
      BY <3>1, <3>2
    <3>3. CASE world < MaxWorld /\ world' = world + 1 /\ mutated' = TRUE
      <4>1. world' \in 0..MaxWorld
        BY <3>1, <3>3
      <4> QED BY <3>3, <4>1
    <3> QED BY <3>2, <3>3 DEF Dispatch
  <2>2. WorkerOK'
    BY <1>1, TypeParts DEF WorkerOK, worker, history, PCs
  <2>3. AcceptanceOK'
    BY <1>1, <2>1, TypeParts DEF AcceptanceOK, verify, baseline, bounds, history
  <2> QED BY <1>1, <2>2, <2>3, TypeParts, TypeNext
<1> QED BY <1>1, <1>2, <1>3, SameTaskKeeps

--------------------------------------------------------------------------------
(* Acceptance.                                                                 *)

LEMMA AcceptKeeps ==
  ASSUME ContractInv, TypeOK', Stays, Kept(task, task'),
         pc \in {"accept", "snapshot", "project", "check", "answer", "evaluate", "recheck", "store", "conclude"},
         pc' \in {"snapshot", "project", "check", "answer", "evaluate", "recheck", "store", "conclude", "verdict"},
         Running', OfOne', Judged', DoneIsCurrent'
  PROVE  ContractInv'
<1> USE DEF ContractInv
<1>1. /\ task'.id = task.id /\ Inputs(task, task') /\ task'.admitted <= task'.revision
      /\ task'.class.only = task.class.only /\ task'.intent = task.intent
  BY DEF Kept, SameTask, Pends
<1>2. Books' /\ Pends' /\ Unseen' = Unseen
  BY <1>1, StillBooks
<1>3. Restricted'
  BY <1>1, StillRestricted
<1>4. Tight'
  BY <1>2 DEF Tight, Loose, Seen, Kept
<1>5. Settling'
  BY DEF Settling
<1> QED BY <1>2, <1>3, <1>4, <1>5

(* Nothing of which is seen by the invariant but the place.                    *)
LEMMA KeptSame == ASSUME task' = task PROVE Kept(task, task')
BY DEF Kept, SameTask, Inputs

LEMMA StartAcceptanceKeeps ==
  ASSUME BoundsAssumption, ContractInv, StartAcceptance
  PROVE  ContractInv'
<1> USE DEF ContractInv
<1>1. /\ pc = "accept" /\ pc' = "snapshot" /\ seen' \in {NoTask, task} /\ before' = world
      /\ UNCHANGED <<task, questions, queue, newest, worker, copy, report, found, mutated, world, cancelled, bounds, history, lost>>
  BY DEF StartAcceptance
<1>2. Stays
  BY <1>1 DEF Stays, worker, bounds, history
<1>3. task \in Tasks /\ world \in 0..MaxWorld /\ world \in Nat /\ task.revision \in Nat
  BY TypeParts DEF TaskOK, AcceptanceOK, BoundsAssumption, Tasks
<1>4. TypeOK'
  <2>1. WorkerOK'
    BY <1>1, TypeParts DEF WorkerOK, worker, history, PCs
  <2>2. AcceptanceOK'
    BY <1>1, <1>3, NoTaskType, TypeParts DEF AcceptanceOK, bounds, history
  <2> QED BY <1>1, <2>1, <2>2, TypeParts, TypeNext
<1>5. OfOne'
  <2>1. before' <= world' /\ (seen'.id # 0 => seen'.revision <= task'.revision)
    BY <1>1, <1>3 DEF NoTask
  <2> QED BY <1>1, <2>1 DEF OfOne, Working
<1>6. Running' /\ Judged' /\ DoneIsCurrent'
  BY <1>1 DEF Running, Judged, DoneIsCurrent, InLoopPCs
<1> QED BY <1>1, <1>2, <1>4, <1>5, <1>6, KeptSame, AcceptKeeps

LEMMA SnapshotKeeps ==
  ASSUME BoundsAssumption, ContractInv, Snapshot
  PROVE  ContractInv'
<1> USE DEF ContractInv
<1>1. /\ pc = "snapshot" /\ pc' = "project" /\ copy' = task
      /\ UNCHANGED <<task, questions, queue, newest, worker, baseline, report, found, mutated, world, cancelled, bounds, history, lost>>
  BY DEF Snapshot
<1>2. Stays
  BY <1>1 DEF Stays, worker, bounds, history
<1>3. task \in Tasks /\ task.revision \in Nat
  BY TypeParts DEF TaskOK, Tasks
<1>4. TypeOK'
  <2>1. WorkerOK'
    BY <1>1, TypeParts DEF WorkerOK, worker, history, PCs
  <2>2. AcceptanceOK'
    BY <1>1, <1>3, TypeParts DEF AcceptanceOK, baseline, bounds, history
  <2> QED BY <1>1, <2>1, <2>2, TypeParts, TypeNext
<1>5. OfOne'
  <2>1. copy'.revision <= task'.revision
    BY <1>1, <1>3
  <2> QED BY <1>1, <2>1 DEF OfOne, Working, baseline
<1>6. Running' /\ Judged' /\ DoneIsCurrent'
  BY <1>1 DEF Running, Judged, DoneIsCurrent, InLoopPCs
<1> QED BY <1>1, <1>2, <1>4, <1>5, <1>6, KeptSame, AcceptKeeps

LEMMA ChangesGrow ==
  ASSUME BoundsAssumption, world \in 0..MaxWorld, NEW w \in Changes \cup {world}
  PROVE  w \in 0..MaxWorld /\ w >= world
<1>1. MaxWorld \in Nat
  BY DEF BoundsAssumption
<1> QED BY <1>1 DEF Changes

LEMMA ProjectCheckKeeps ==
  ASSUME BoundsAssumption, ContractInv, ProjectCheck
  PROVE  ContractInv'
<1> USE DEF ContractInv
<1>1. /\ pc = "project" /\ pc' = "check"
      /\ UNCHANGED <<task, questions, queue, newest, worker, baseline, copy, found, cancelled, bounds, history, lost>>
  BY DEF ProjectCheck
<1>2. Stays
  BY <1>1 DEF Stays, worker, bounds, history
<1>3. /\ report' \in {"passed", "failed", "not_run"}
      /\ report' = "passed" => ~(copy.class.kind = "answer" /\ copy.class.only)
      /\ world' \in Changes \cup {world}
  BY DEF ProjectCheck
<1>4. mutated' \in BOOLEAN
  <2>1. mutated \in BOOLEAN
    BY TypeParts DEF AcceptanceOK
  <2>2. CASE mutated' = mutated
    BY <2>1, <2>2
  <2>3. CASE mutated' = (report' # "passed")
    BY <2>3
  <2> QED BY <2>2, <2>3 DEF ProjectCheck
<1>5. world' \in 0..MaxWorld /\ world' >= world /\ world \in Nat /\ before \in Nat
  <2>1. world \in 0..MaxWorld /\ before \in 0..MaxWorld /\ MaxWorld \in Nat
    BY TypeParts DEF AcceptanceOK, BoundsAssumption
  <2> QED BY <1>3, <2>1, ChangesGrow
<1>6. TypeOK'
  <2>1. WorkerOK'
    BY <1>1, TypeParts DEF WorkerOK, worker, history, PCs
  <2>2. AcceptanceOK'
    BY <1>1, <1>3, <1>4, <1>5, TypeParts DEF AcceptanceOK, baseline, bounds, history
  <2> QED BY <1>1, <2>1, <2>2, TypeParts, TypeNext
<1>7. OfOne'
  <2>1. before' <= world'
    <3>1. before <= world
      BY <1>1 DEF OfOne, Working
    <3>2. world' \in Nat
      BY <1>5 DEF BoundsAssumption
    <3> QED BY <1>1, <1>5, <3>1, <3>2 DEF baseline
  <2> QED BY <1>1, <1>3, <2>1 DEF OfOne, Working, baseline
<1>8. Running' /\ Judged' /\ DoneIsCurrent'
  BY <1>1 DEF Running, Judged, DoneIsCurrent, InLoopPCs
<1> QED BY <1>1, <1>2, <1>6, <1>7, <1>8, KeptSame, AcceptKeeps

LEMMA CheckKeeps ==
  ASSUME ContractInv, Check
  PROVE  ContractInv'
<1> USE DEF ContractInv
<1>1. /\ pc = "check"
      /\ UNCHANGED <<task, questions, queue, newest, worker, baseline, copy, found, mutated, world, cancelled, bounds, history, lost>>
  BY DEF Check
<1>2. Stays
  BY <1>1 DEF Stays, worker, bounds, history
<1>3. report \in {"passed", "failed", "not_run"} /\ questions \in Nat /\ task.status = "active"
  BY <1>1, TypeParts DEF OfOne, WorkerOK, Running, InLoopPCs
<1>4. \/ pc' = "conclude" /\ report' \in {"failed", "awaiting"}
      \/ /\ pc' = "answer" /\ report' = report /\ report # "failed" /\ questions = 0 /\ Answers(copy)
      \/ /\ pc' = "evaluate" /\ report' = report /\ report # "failed" /\ copy.stated = copy.revision
  BY <1>3 DEF Check
<1>5. TypeOK'
  <2>1. WorkerOK'
    BY <1>1, <1>4, TypeParts DEF WorkerOK, worker, history, PCs
  <2>2. AcceptanceOK'
    BY <1>1, <1>3, <1>4, TypeParts DEF AcceptanceOK, baseline, bounds, history
  <2> QED BY <1>1, <2>1, <2>2, TypeParts, TypeNext
<1>6. OfOne'
  <2>1. report = "passed" /\ Answers(copy) => copy.criteria = {}
    BY <1>1 DEF OfOne, Answers
  <2> QED BY <1>1, <1>3, <1>4, <2>1 DEF OfOne, Working, baseline
<1>7. Running' /\ Judged' /\ DoneIsCurrent'
  BY <1>1, <1>3, <1>4 DEF Running, Judged, DoneIsCurrent, InLoopPCs
<1>8. pc' \in {"answer", "evaluate", "conclude"}
  BY <1>4
<1> QED BY <1>1, <1>2, <1>5, <1>6, <1>7, <1>8, KeptSame, AcceptKeeps

(* "u" is the task "t" with another verdict.                                   *)
Written(t, u, s, e, a) ==
  u \in Tasks /\ Kept(t, u) /\ u.status = s /\ u.evidence = e /\ u.accepted = a

LEMMA VerdictFields ==
  ASSUME task \in Tasks, NEW s \in Statuses, NEW e \in Evidence,
         NEW a \in [revision : Nat, world : 0..MaxWorld]
  PROVE  /\ Written(task, task, task.status, task.evidence, task.accepted)
         /\ Written(task, [task EXCEPT !.status = s], s, task.evidence, task.accepted)
         /\ Written(task, [task EXCEPT !.accepted = a], task.status, task.evidence, a)
         /\ Written(task, [task EXCEPT !.evidence = e], task.status, e, task.accepted)
         /\ Written(task, [task EXCEPT !.evidence = e, !.status = s], s, e, task.accepted)
         /\ Written(task, [task EXCEPT !.status = s, !.evidence = e], s, e, task.accepted)
         /\ Written(task, [task EXCEPT !.status = s, !.accepted = a], s, task.evidence, a)
         /\ Written(task, [task EXCEPT !.status = s, !.evidence = e, !.accepted = a], s, e, a)
         /\ Written(task, [task EXCEPT !.status = s, !.accepted = a, !.evidence = e], s, e, a)
<1> USE DEF Written, Tasks, Kept, SameTask, Inputs
<1>0. Written(task, task, task.status, task.evidence, task.accepted)
  OBVIOUS
<1>1. Written(task, [task EXCEPT !.status = s], s, task.evidence, task.accepted)
  OBVIOUS
<1>2. Written(task, [task EXCEPT !.accepted = a], task.status, task.evidence, a)
  OBVIOUS
<1>3. Written(task, [task EXCEPT !.evidence = e], task.status, e, task.accepted)
  OBVIOUS
<1>4. Written(task, [task EXCEPT !.evidence = e, !.status = s], s, e, task.accepted)
  OBVIOUS
<1>5. Written(task, [task EXCEPT !.status = s, !.evidence = e], s, e, task.accepted)
  OBVIOUS
<1>6. Written(task, [task EXCEPT !.status = s, !.accepted = a], s, task.evidence, a)
  OBVIOUS
<1>7. Written(task, [task EXCEPT !.status = s, !.evidence = e, !.accepted = a], s, e, a)
  OBVIOUS
<1>8. Written(task, [task EXCEPT !.status = s, !.accepted = a, !.evidence = e], s, e, a)
  OBVIOUS
<1> HIDE DEF Written, Tasks, Kept, SameTask, Inputs
<1> QED BY <1>0, <1>1, <1>2, <1>3, <1>4, <1>5, <1>6, <1>7, <1>8

LEMMA WrittenType ==
  ASSUME TypeOK, NEW s, NEW e, NEW a, Written(task, task', s, e, a), queue' = queue, WorkerOK', AcceptanceOK'
  PROVE  TypeOK'
<1>1. TaskOK(task')
  BY TypeParts DEF Written, Kept, Inputs, TaskOK, SetsOK
<1> QED BY <1>1, TypeParts, TypeNext

(* What is pending when the revision is admitted was never delivered.          *)
LEMMA AllDelivered ==
  ASSUME Tight, ~Loose, pc # "admit", task.admitted = task.revision, task \in Tasks
  PROVE  task.pending \subseteq lost
<1>1. ~(task.admitted < task.revision)
  BY DEF Tasks
<1>2. Unseen = {} /\ Undelivered = lost
  BY <1>1 DEF Tight, Seen, Undelivered
<1> QED BY <1>2 DEF Unseen

LEMMA AnswerKeeps ==
  ASSUME BoundsAssumption, ContractInv, Answer
  PROVE  ContractInv'
<1> USE DEF ContractInv
<1>1. /\ pc = "answer" /\ pc' = "conclude"
      /\ UNCHANGED <<questions, queue, newest, worker, baseline, copy, found, mutated, world, cancelled, bounds, history, lost>>
  BY DEF Answer
<1>2. Stays
  BY <1>1 DEF Stays, worker, bounds, history
<1>3. task \in Tasks /\ task.status = "active" /\ questions = 0 /\ report \in {"passed", "not_run"}
  BY <1>1, TypeParts DEF TaskOK, Running, InLoopPCs, OfOne
<1>4. \/ /\ Current(task) /\ report' = report
         /\ Written(task, task', "answered", NoEvidence, NoProof)
      \/ /\ task' = task /\ report' = "failed"
         /\ Written(task, task', "active", task.evidence, task.accepted)
  <2>1. "answered" \in Statuses
    BY DEF Statuses
  <2>2. Written(task, [task EXCEPT !.status = "answered", !.accepted = NoProof, !.evidence = NoEvidence],
                "answered", NoEvidence, NoProof)
    BY <1>3, <2>1, NothingType, VerdictFields
  <2>3. Written(task, task, "active", task.evidence, task.accepted)
    BY <1>3, <2>1, NothingType, VerdictFields
  <2>4. CASE Current(task)
    <3>1. report' = report
          /\ task' = [task EXCEPT !.status = "answered", !.accepted = NoProof, !.evidence = NoEvidence]
      BY <2>4, Zenon DEF Answer, Answered
    <3> QED BY <2>2, <2>4, <3>1, Zenon
  <2>5. CASE ~Current(task)
    <3>1. report' = "failed" /\ task' = task
      BY <2>5, Zenon DEF Answer, Answered
    <3> QED BY <2>3, <3>1, Zenon
  <2> QED BY <2>4, <2>5
<1>5. Kept(task, task')
  BY <1>4 DEF Written
<1>6. TypeOK'
  <2>1. WorkerOK'
    BY <1>1, TypeParts DEF WorkerOK, worker, history, PCs
  <2>2. AcceptanceOK'
    BY <1>1, <1>3, <1>4, TypeParts DEF AcceptanceOK, baseline, bounds, history
  <2> QED BY <1>1, <1>4, <2>1, <2>2, WrittenType
<1>7. OfOne'
  BY <1>1, <1>5 DEF OfOne, Working, baseline, Kept, SameTask
<1>8. Current(task) => task.admitted = task.revision /\ task.pending \subseteq lost
  <2>1. ~Loose
    BY <1>1 DEF Loose
  <2> QED BY <1>1, <1>3, <2>1, AllDelivered DEF Current
<1>9. report = "passed" => task.criteria = {}
  BY <1>1 DEF OfOne, Working
<1>10. Running' /\ Judged' /\ DoneIsCurrent'
  BY <1>1, <1>3, <1>4, <1>8, <1>9
     DEF Written, Kept, SameTask, Inputs, Running, Judged, DoneIsCurrent, InLoopPCs
<1> QED BY <1>1, <1>2, <1>5, <1>6, <1>7, <1>10, AcceptKeeps

LEMMA EvaluateKeeps ==
  ASSUME BoundsAssumption, ContractInv, Evaluate
  PROVE  ContractInv'
<1> USE DEF ContractInv
<1>1. /\ pc = "evaluate" /\ pc' = "recheck"
      /\ found' = [found EXCEPT !.revision = copy.revision, !.met = world \in Good, !.world = world]
      /\ UNCHANGED <<task, questions, queue, newest, worker, baseline, copy, report, cancelled, bounds, history, lost>>
  BY DEF Evaluate
<1>2. Stays
  BY <1>1 DEF Stays, worker, bounds, history
<1>3. /\ world \in 0..MaxWorld /\ before \in 0..MaxWorld /\ MaxWorld \in Nat
      /\ found \in Evidence /\ copy.revision \in Nat /\ mutated \in BOOLEAN
  BY TypeParts DEF AcceptanceOK, BoundsAssumption, Tasks
<1>4. world' \in Changes \cup {world}
  BY DEF Evaluate
<1>5. world' \in 0..MaxWorld /\ world' >= world /\ world \in Nat /\ before \in Nat /\ world' \in Nat
  BY <1>3, <1>4, ChangesGrow
<1>6. mutated' \in BOOLEAN
  BY <1>3, Zenon DEF Evaluate
<1>7. found' \in Evidence /\ found'.revision = copy.revision /\ found'.world = world
      /\ (found'.met => world \in Good)
  <2> DEFINE met == world \in Good
  <2>1. met \in BOOLEAN /\ found' = [found EXCEPT !.revision = copy.revision, !.met = met, !.world = world]
    BY <1>1
  <2> HIDE DEF met
  <2>2. found' \in Evidence /\ found'.revision = copy.revision /\ found'.world = world /\ found'.met = met
    BY <1>3, <2>1 DEF Evidence
  <2> QED BY <2>2 DEF met
<1>8. TypeOK'
  <2>1. WorkerOK'
    BY <1>1, TypeParts DEF WorkerOK, worker, history, PCs
  <2>2. AcceptanceOK'
    BY <1>1, <1>5, <1>6, <1>7, TypeParts DEF AcceptanceOK, baseline, bounds, history
  <2> QED BY <1>1, <2>1, <2>2, TypeParts, TypeNext
<1>9. OfOne'
  <2>1. before <= world
    BY <1>1 DEF OfOne, Working
  <2>2. before' <= world' /\ before' <= world /\ world <= world'
    BY <1>1, <1>5, <2>1 DEF baseline
  <2>3. FoundNow(found)'
    BY <1>7, <2>2 DEF FoundNow
  <2> QED BY <1>1, <1>7, <2>2, <2>3 DEF OfOne, Working, baseline
<1>10. Running' /\ Judged' /\ DoneIsCurrent'
  BY <1>1 DEF Running, Judged, DoneIsCurrent, InLoopPCs
<1> QED BY <1>1, <1>2, <1>8, <1>9, <1>10, KeptSame, AcceptKeeps

LEMMA RecheckKeeps ==
  ASSUME BoundsAssumption, ContractInv, Recheck
  PROVE  ContractInv'
<1> USE DEF ContractInv
<1>1. /\ pc = "recheck" /\ pc' = "store"
      /\ UNCHANGED <<task, questions, queue, newest, worker, baseline, copy, report, mutated, world, cancelled, bounds, history, lost>>
  BY DEF Recheck
<1>2. Stays
  BY <1>1 DEF Stays, worker, bounds, history
<1>3. found \in Evidence
  BY TypeParts DEF AcceptanceOK
<1>4. found' \in Evidence /\ found'.revision = found.revision /\ found'.world = found.world
      /\ (found'.met => found.met)
  <2>1. CASE found' = found
    BY <1>3, <2>1
  <2>2. CASE found' = [found EXCEPT !.met = FALSE]
    BY <1>3, <2>2 DEF Evidence
  <2> QED BY <2>1, <2>2 DEF Recheck
<1>5. TypeOK'
  <2>1. WorkerOK'
    BY <1>1, TypeParts DEF WorkerOK, worker, history, PCs
  <2>2. AcceptanceOK'
    BY <1>1, <1>4, TypeParts DEF AcceptanceOK, baseline, bounds, history
  <2> QED BY <1>1, <2>1, <2>2, TypeParts, TypeNext
<1>6. OfOne'
  <2>1. found.revision = copy.revision /\ FoundNow(found)
    BY <1>1 DEF OfOne
  <2>2. FoundNow(found)'
    BY <1>1, <1>4, <2>1 DEF FoundNow, baseline
  <2> QED BY <1>1, <1>4, <2>1, <2>2 DEF OfOne, Working, baseline
<1>7. Running' /\ Judged' /\ DoneIsCurrent'
  BY <1>1 DEF Running, Judged, DoneIsCurrent, InLoopPCs
<1> QED BY <1>1, <1>2, <1>5, <1>6, <1>7, KeptSame, AcceptKeeps

LEMMA StoreKeeps ==
  ASSUME BoundsAssumption, ContractInv, Store
  PROVE  ContractInv'
<1> USE DEF ContractInv
<1>1. /\ pc = "store" /\ pc' = "conclude"
      /\ UNCHANGED <<questions, queue, newest, worker, baseline, copy, found, mutated, world, cancelled, bounds, history, lost>>
  BY DEF Store
<1>2. Stays
  BY <1>1 DEF Stays, worker, bounds, history
<1>3. task \in Tasks /\ task.status = "active" /\ found \in Evidence
  BY <1>1, TypeParts DEF TaskOK, AcceptanceOK, Running, InLoopPCs
<1>4. \/ /\ Current(task) /\ report' = (IF found.met THEN "accepted" ELSE "failed")
         /\ Written(task, task', "active", found, task.accepted)
      \/ /\ report' = "failed"
         /\ Written(task, task', "active", NoEvidence, task.accepted)
  <2>1. "active" \in Statuses
    BY DEF Statuses
  <2>2. Written(task, [task EXCEPT !.evidence = found, !.status = "active"], "active", found, task.accepted)
    BY <1>3, <2>1, NothingType, VerdictFields
  <2>3. Written(task, [task EXCEPT !.evidence = NoEvidence], "active", NoEvidence, task.accepted)
    BY <1>3, <2>1, NothingType, VerdictFields
  <2>4. CASE Current(task)
    <3>1. report' = (IF found.met THEN "accepted" ELSE "failed")
          /\ task' = [task EXCEPT !.evidence = found, !.status = "active"]
      BY <2>4, Zenon DEF Store
    <3> QED BY <2>2, <2>4, <3>1, Zenon
  <2>5. CASE ~Current(task)
    <3>1. report' = "failed" /\ task' = [task EXCEPT !.evidence = NoEvidence]
      BY <2>5, Zenon DEF Store
    <3> QED BY <2>3, <3>1, Zenon
  <2> QED BY <2>4, <2>5
<1>5. Kept(task, task') /\ task'.status = "active"
  BY <1>4 DEF Written
<1>6. TypeOK'
  <2>1. WorkerOK'
    BY <1>1, TypeParts DEF WorkerOK, worker, history, PCs
  <2>2. AcceptanceOK'
    BY <1>1, <1>3, <1>4, TypeParts DEF AcceptanceOK, baseline, bounds, history
  <2> QED BY <1>1, <1>4, <2>1, <2>2, WrittenType
<1>7. OfOne'
  BY <1>1, <1>5 DEF OfOne, Working, baseline, Kept, SameTask
<1>8. Current(task) => task.admitted = task.revision /\ task.pending \subseteq lost
  <2>1. ~Loose
    BY <1>1 DEF Loose
  <2> QED BY <1>1, <1>3, <2>1, AllDelivered DEF Current
<1>9. Judged'
  <2> SUFFICES ASSUME report' = "accepted" PROVE Judged'
    BY <1>4 DEF Judged
  <2>1. /\ Current(task) /\ found.met
        /\ Written(task, task', "active", found, task.accepted)
    BY <1>4
  <2>2. task.stated = task.revision /\ found.revision = task.revision /\ FoundNow(found)
    BY <1>1, <2>1 DEF OfOne, Working, Current
  <2>3. FoundNow(task.evidence)'
    <3>1. task'.evidence = found
      BY <2>1 DEF Written
    <3> QED BY <1>1, <2>2, <3>1 DEF FoundNow, baseline
  <2> QED BY <1>1, <1>8, <2>1, <2>2, <2>3 DEF Judged, Written, Kept, SameTask, Inputs
<1>10. Running' /\ DoneIsCurrent'
  BY <1>1, <1>5 DEF Running, DoneIsCurrent, InLoopPCs
<1> QED BY <1>1, <1>2, <1>5, <1>6, <1>7, <1>9, <1>10, AcceptKeeps

(* The last look: a task is completed by what was judged of this revision.     *)
LEMMA ConcludeEffect ==
  ASSUME BoundsAssumption, ContractInv, Conclude
  PROVE  /\ Kept(task, task') /\ task' \in Tasks
         /\ \/ task'.status = task.status /\ report' = report /\ task'.accepted = task.accepted
                 /\ task'.evidence = task.evidence
            \/ task'.status = task.status /\ report' = report /\ report \notin {"passed", "accepted"}
            \/ task'.status = "active" /\ report' \in {"failed", "blocked"}
            \/ /\ report \in {"passed", "accepted"} /\ report' = report /\ questions = 0 /\ Unchanged
               /\ seen.id # 0 /\ task'.status = "complete" /\ task'.evidence = task.evidence
               /\ task'.accepted = [revision |-> seen.revision, world |-> before]
<1> USE DEF ContractInv
<1>1. /\ task \in Tasks /\ seen \in Tasks /\ before \in 0..MaxWorld /\ questions \in Nat
      /\ seen.revision \in Nat /\ "active" \in Statuses /\ "complete" \in Statuses
  BY TypeParts DEF TaskOK, AcceptanceOK, WorkerOK, Tasks, Statuses
<1> DEFINE a == [revision |-> seen.revision, world |-> before]
<1>2. a \in [revision : Nat, world : 0..MaxWorld]
  BY <1>1
<1> HIDE DEF a
<1>3. CASE seen.id = 0
  <2>1. task' = task /\ report' = report
    BY <1>3, Zenon DEF Conclude
  <2> QED BY <1>1, <2>1, KeptSame
<1>4. CASE seen.id # 0 /\ ~Unchanged
  <2>1. /\ task' = [task EXCEPT !.status = "active", !.evidence = NoEvidence, !.accepted = NoProof]
        /\ report' = "failed"
    BY <1>4, Zenon DEF Conclude
  <2>2. Written(task, [task EXCEPT !.status = "active", !.evidence = NoEvidence, !.accepted = NoProof],
                "active", NoEvidence, NoProof)
    BY <1>1, NothingType, VerdictFields
  <2>3. Written(task, task', "active", NoEvidence, NoProof)
    BY <2>1, <2>2, Zenon
  <2> QED BY <2>1, <2>3 DEF Written
<1>5. CASE seen.id # 0 /\ Unchanged /\ report \notin {"passed", "accepted"}
  <2>1. task' = [task EXCEPT !.accepted = NoProof] /\ report' = report
    BY <1>5, Zenon DEF Conclude
  <2>2. Written(task, [task EXCEPT !.accepted = NoProof], task.status, task.evidence, NoProof)
    BY <1>1, NothingType, VerdictFields
  <2>3. Written(task, task', task.status, task.evidence, NoProof)
    BY <2>1, <2>2, Zenon
  <2> QED BY <1>5, <2>1, <2>3 DEF Written
<1>6. CASE seen.id # 0 /\ Unchanged /\ report \in {"passed", "accepted"} /\ (questions > 0 \/ cancelled)
  <2>1. /\ task' = [task EXCEPT !.status = "active", !.evidence = NoEvidence, !.accepted = NoProof]
        /\ report' = "blocked"
    BY <1>6, Zenon DEF Conclude
  <2>2. Written(task, [task EXCEPT !.status = "active", !.evidence = NoEvidence, !.accepted = NoProof],
                "active", NoEvidence, NoProof)
    BY <1>1, NothingType, VerdictFields
  <2>3. Written(task, task', "active", NoEvidence, NoProof)
    BY <2>1, <2>2, Zenon
  <2> QED BY <2>1, <2>3 DEF Written
<1>7. CASE seen.id # 0 /\ Unchanged /\ report \in {"passed", "accepted"} /\ ~(questions > 0 \/ cancelled)
  <2>1. task' = [task EXCEPT !.status = "complete", !.accepted = a] /\ report' = report
    BY <1>7, Zenon DEF Conclude, a
  <2>2. Written(task, [task EXCEPT !.status = "complete", !.accepted = a], "complete", task.evidence, a)
    BY <1>1, <1>2, NothingType, VerdictFields
  <2>3. Written(task, task', "complete", task.evidence, a)
    BY <2>1, <2>2, Zenon
  <2>4. questions = 0
    BY <1>1, <1>7
  <2> QED BY <1>7, <2>1, <2>3, <2>4 DEF Written, a
<1> QED BY <1>3, <1>4, <1>5, <1>6, <1>7

(* Unchanged means that all three looked at one revision.                      *)
LEMMA OneRevision ==
  ASSUME ContractInv, pc = "conclude", seen.id # 0, Unchanged
  PROVE  task.revision = copy.revision /\ task.revision = seen.revision
<1> USE DEF ContractInv
<1>1. seen.revision <= copy.revision /\ copy.revision <= task.revision /\ task.revision = seen.revision
  BY DEF OfOne, Working, Unchanged
<1>2. seen.revision \in Nat /\ copy.revision \in Nat /\ task.revision \in Nat
  BY TypeParts DEF TaskOK, AcceptanceOK, Tasks
<1> QED BY <1>1, <1>2

LEMMA ConcludeKeeps ==
  ASSUME BoundsAssumption, ContractInv, Conclude
  PROVE  ContractInv'
<1> USE DEF ContractInv
<1>1. /\ pc = "conclude" /\ pc' = "verdict"
      /\ UNCHANGED <<questions, queue, newest, worker, baseline, copy, found, mutated, world, cancelled, bounds, history, lost>>
  BY DEF Conclude
<1>2. Stays
  BY <1>1 DEF Stays, worker, bounds, history
<1>3. /\ Kept(task, task') /\ task' \in Tasks
      /\ \/ task'.status = task.status /\ report' = report /\ task'.accepted = task.accepted
              /\ task'.evidence = task.evidence
         \/ task'.status = task.status /\ report' = report /\ report \notin {"passed", "accepted"}
         \/ task'.status = "active" /\ report' \in {"failed", "blocked"}
         \/ /\ report \in {"passed", "accepted"} /\ report' = report /\ questions = 0 /\ Unchanged
            /\ seen.id # 0 /\ task'.status = "complete" /\ task'.evidence = task.evidence
            /\ task'.accepted = [revision |-> seen.revision, world |-> before]
  BY ConcludeEffect
<1>4. TypeOK'
  <2>1. WorkerOK'
    BY <1>1, TypeParts DEF WorkerOK, worker, history, PCs
  <2>2. AcceptanceOK'
    BY <1>1, <1>3, TypeParts DEF AcceptanceOK, baseline, bounds, history
  <2>3. TaskOK(task') /\ QueueOK(queue')
    BY <1>1, <1>3, TypeParts DEF TaskOK, SetsOK, Kept, Inputs
  <2> QED BY <2>1, <2>2, <2>3, TypeNext
<1>5. OfOne' /\ Judged'
  BY <1>1 DEF OfOne, Judged, Working
<1>6. task.status \in {"active", "answered"} /\ (report = "failed" => task.status = "active")
  BY <1>1 DEF Running
<1>7. Running'
  BY <1>1, <1>3, <1>6 DEF Running, InLoopPCs
<1>8. DoneIsCurrent'
  <2> SUFFICES ASSUME task'.status \in {"complete", "answered"} PROVE DoneIsCurrent'
    BY DEF DoneIsCurrent
  <2>1. CASE task'.status = "answered"
    <3>1. task.status = "answered"
      BY <1>3, <1>6, <2>1
    <3> QED BY <1>1, <1>3, <2>1, <3>1 DEF DoneIsCurrent, Kept, Inputs
  <2>2. CASE task'.status = "complete"
    <3>1. /\ report \in {"passed", "accepted"} /\ questions = 0 /\ Unchanged /\ seen.id # 0
          /\ task'.evidence = task.evidence
          /\ task'.accepted = [revision |-> seen.revision, world |-> before]
      BY <1>3, <1>6, <2>2
    <3>2. task.revision = copy.revision /\ task.revision = seen.revision
      BY <1>1, <3>1, OneRevision
    <3>3. /\ task.admitted = task.revision /\ task.pending \subseteq lost
          /\ task.criteria # {} => /\ task.stated = task.revision
                                   /\ task.evidence.revision = task.revision /\ task.evidence.met
      BY <1>1, <3>1, <3>2 DEF Judged
    <3>4. task'.accepted.revision = task.revision
      BY <3>1, <3>2
    <3> QED BY <1>1, <1>3, <3>1, <3>3, <3>4 DEF DoneIsCurrent, Kept, SameTask, Inputs
  <2> QED BY <2>1, <2>2
<1> QED BY <1>1, <1>2, <1>3, <1>4, <1>5, <1>7, <1>8, AcceptKeeps

--------------------------------------------------------------------------------
(* The end of a turn, what others do meanwhile, and a crash.                   *)

LEMMA VerdictKeeps ==
  ASSUME BoundsAssumption, ContractInv, Verdict
  PROVE  ContractInv'
<1> USE DEF ContractInv
<1>1. /\ pc = "verdict" /\ pc' \in {"settle", "step"} /\ (pc' = "step" => report = "failed")
      /\ seen' = NoTask /\ before' = 0 /\ copy' = NoTask /\ report' = "none" /\ found' = NoEvidence
      /\ UNCHANGED <<task, questions, queue, newest, back, human, taken, mutated, world, cancelled, bounds, history, lost>>
  BY DEF Verdict
<1>2. Stays
  BY <1>1 DEF Stays, bounds, history
<1>3. TypeOK'
  <2>1. last' \in {"normal", "awaiting", "error", "blocked"} /\ iteration' \in 0..MaxIterations
    BY TypeParts DEF Verdict, WorkerOK, BoundsAssumption
  <2>2. WorkerOK'
    BY <1>1, <2>1, TypeParts DEF WorkerOK, history, PCs
  <2>3. AcceptanceOK'
    <3>1. 0 \in 0..MaxWorld
      BY DEF BoundsAssumption
    <3> QED BY <1>1, <3>1, NoTaskType, NothingType, TypeParts DEF AcceptanceOK, bounds, history
  <2> QED BY <1>1, <2>2, <2>3, TypeParts, TypeNext
<1>4. Inputs(task, task') /\ task'.admitted <= task'.revision
  BY <1>1 DEF Inputs, Pends
<1>5. Books' /\ Pends' /\ Unseen' = Unseen
  BY <1>1, <1>2, <1>4, StillBooks
<1>6. Restricted'
  BY <1>1, <1>2, <1>4, StillRestricted
<1>7. Tight'
  BY <1>1, <1>5 DEF Tight, Loose, Seen
<1>8. DoneIsCurrent'
  BY <1>1 DEF DoneIsCurrent
<1>9. pc' = "step" => task.status = "active"
  BY <1>1 DEF Running
<1>10. Running' /\ OfOne' /\ Judged' /\ Settling'
  <2>1. CASE pc' = "settle"
    BY <2>1, Outside DEF Settling
  <2>2. CASE pc' = "step"
    <3>1. task'.status = "active"
      BY <1>1, <1>9, <2>2
    <3> QED BY <2>2, <3>1 DEF Running, OfOne, Judged, Settling, Working
  <2> QED BY <1>1, <2>1, <2>2
<1> QED BY <1>3, <1>5, <1>6, <1>7, <1>8, <1>10

LEMMA SettleKeeps ==
  ASSUME BoundsAssumption, ContractInv, Settle
  PROVE  ContractInv'
<1> USE DEF ContractInv
<1> DEFINE status ==
     IF cancelled THEN "cancelled"
     ELSE IF last = "awaiting" THEN "waiting_user"
     ELSE IF last = "error" THEN "incomplete"
     ELSE IF task.status \in {"complete", "answered"} THEN task.status
     ELSE IF last = "blocked" THEN "blocked" ELSE "incomplete"
<1>1. /\ pc = "settle" /\ pc' \in {"close", "next"} /\ task' = [task EXCEPT !.status = status]
      /\ awaiting' \in BOOLEAN
      /\ UNCHANGED <<questions, queue, newest, worker, verify, mutated, world, cancelled, bounds, ruling, lost>>
  BY DEF Settle, Settled
<1>2. status \in Statuses /\ status # "active" /\ (status \in {"complete", "answered"} => status = task.status)
  <2>1. CASE cancelled
    BY <2>1 DEF Statuses
  <2>2. CASE ~cancelled
    BY <2>2 DEF Statuses
  <2> QED BY <2>1, <2>2
<1> HIDE DEF status
<1>3. task \in Tasks
  BY TypeParts DEF TaskOK
<1>4. Written(task, task', status, task.evidence, task.accepted)
  <2>1. Written(task, [task EXCEPT !.status = status], status, task.evidence, task.accepted)
    BY <1>2, <1>3, NothingType, VerdictFields
  <2> QED BY <1>1, <2>1, Zenon
<1>5. Stays
  BY <1>1 DEF Stays, worker, bounds
<1>6. TypeOK'
  <2>1. WorkerOK'
    BY <1>1, TypeParts DEF WorkerOK, worker, PCs
  <2>2. AcceptanceOK'
    BY <1>1, TypeParts DEF AcceptanceOK, verify, baseline, bounds
  <2> QED BY <1>1, <1>4, <2>1, <2>2, WrittenType
<1>7. /\ task'.id = task.id /\ Inputs(task, task') /\ task'.admitted <= task'.revision
      /\ task'.class.only = task.class.only /\ task'.intent = task.intent
  BY <1>4 DEF Written, Kept, SameTask, Pends
<1>8. Books' /\ Pends' /\ Unseen' = Unseen
  BY <1>1, <1>5, <1>7, StillBooks
<1>9. Restricted'
  BY <1>1, <1>5, <1>7, StillRestricted
<1>10. Tight'
  BY <1>1, <1>4, <1>8 DEF Tight, Loose, Seen, Written, Kept
<1>11. DoneIsCurrent'
  BY <1>1, <1>2, <1>4 DEF DoneIsCurrent, Written, Kept, SameTask, Inputs
<1>12. Running' /\ OfOne' /\ Judged'
  BY <1>1, Outside
<1>13. Settling'
  BY <1>1, <1>2, <1>4 DEF Settling, Written
<1> QED BY <1>6, <1>8, <1>9, <1>10, <1>11, <1>12, <1>13

LEMMA FailKeeps ==
  ASSUME BoundsAssumption, ContractInv, Fail
  PROVE  ContractInv'
<1> USE DEF ContractInv
<1>1. /\ pc # "idle" /\ pc # "close" /\ pc' = "close" /\ taken' = {} /\ lost' = Undelivered
      /\ UNCHANGED <<questions, queue, newest, back, human, last, iteration, verify, mutated, world,
                     cancelled, bounds, history>>
  BY DEF Fail
<1>2. task \in Tasks
  BY TypeParts DEF TaskOK
<1>3. PICK s \in Statuses : /\ Written(task, task', s, task.evidence, task.accepted)
                            /\ s \in {"active", "complete", "answered"} => s = task.status
                            /\ s = "active" /\ task.id # 0 => ~InTask
  <2>1. CASE InTask /\ task.id # 0
    <3>1. PICK s \in {"cancelled", "budget_exhausted", "incomplete"} : task' = [task EXCEPT !.status = s]
      BY <2>1 DEF Fail
    <3>2. s \in Statuses /\ s \notin {"active", "complete", "answered"}
      BY DEF Statuses
    <3>3. Written(task, [task EXCEPT !.status = s], s, task.evidence, task.accepted)
      BY <1>2, <3>2, NothingType, VerdictFields
    <3>4. Written(task, task', s, task.evidence, task.accepted)
      BY <3>1, <3>3, Zenon
    <3> QED BY <3>2, <3>4
  <2>2. CASE ~(InTask /\ task.id # 0)
    <3>1. task' = task
      BY <2>2, Zenon DEF Fail
    <3>2. Written(task, task, task.status, task.evidence, task.accepted) /\ task.status \in Statuses
      BY <1>2, NothingType, VerdictFields DEF Tasks
    <3>3. Written(task, task', task.status, task.evidence, task.accepted)
      BY <3>1, <3>2, Zenon
    <3> QED BY <2>2, <3>2, <3>3
  <2> QED BY <2>1, <2>2
<1>4. Undelivered \subseteq Messages
  BY TypeParts DEF Undelivered, WorkerOK
<1>5. TypeOK'
  <2>1. WorkerOK'
    BY <1>1, <1>4, TypeParts DEF WorkerOK, PCs, history
  <2>2. AcceptanceOK'
    BY <1>1, TypeParts DEF AcceptanceOK, verify, baseline, bounds, history
  <2> QED BY <1>1, <1>3, <2>1, <2>2, WrittenType
<1>6. /\ task'.id = task.id /\ Inputs(task, task') /\ task'.admitted <= task'.revision
      /\ task'.class = task.class /\ task'.intent = task.intent
  BY <1>3 DEF Written, Kept, SameTask, Pends
<1>7. Undelivered' = Undelivered /\ Waiting' = Waiting /\ lost \subseteq lost' /\ Steers' = Steers
  BY <1>1 DEF Undelivered, Waiting, Steers, Is
<1>8. Books'
  BY <1>1, <1>6 DEF Books, Inputs
<1>9. Pends'
  BY <1>6, <1>7 DEF Pends, Inputs
<1>10. Tight'
  BY <1>1 DEF Tight, Loose
<1>11. DoneIsCurrent'
  BY <1>1, <1>3, <1>7 DEF DoneIsCurrent, Written, Kept, SameTask, Inputs
<1>12. Running' /\ OfOne' /\ Judged'
  BY <1>1, Outside
<1>13. Restricted'
  <2>1. Only' = Only /\ ruling' = ruling
    BY <1>1 DEF Only, Saying, history
  <2> QED BY <1>1, <1>6, <2>1 DEF Restricted, Inputs
<1>14. Settling'
  <2> SUFFICES ASSUME task'.status = "active", task'.id # 0 PROVE (crashes > 0 \/ Reopened)'
    BY <1>1 DEF Settling
  <2>1. task.status = "active" /\ task.id # 0 /\ ~InTask
    BY <1>3, <1>6 DEF Written
  <2>2. crashes > 0 \/ Reopened
    BY <1>1, <2>1 DEF Settling, InTask
  <2> QED BY <1>1, <1>6, <2>2 DEF Reopened, Inputs, bounds
<1> QED BY <1>5, <1>8, <1>9, <1>10, <1>11, <1>12, <1>13, <1>14

LEMMA NextOrCloseKeeps ==
  ASSUME MessagesAssumption, BoundsAssumption, ContractInv, NextOrClose
  PROVE  ContractInv'
<1> USE DEF ContractInv
<1>1. /\ pc = "next"
      /\ UNCHANGED <<questions, newest, human, last, iteration, verify, mutated, world, cancelled, bounds, history, lost>>
  BY DEF NextOrClose
<1>2. CASE pc' = "close" /\ UNCHANGED <<task, queue, back, taken>>
  <2>1. Stays
    BY <1>1, <1>2 DEF Stays, bounds, history
  <2>2. TypeOK'
    <3>1. WorkerOK'
      BY <1>1, <1>2, TypeParts DEF WorkerOK, PCs, history
    <3>2. AcceptanceOK'
      BY <1>1, TypeParts DEF AcceptanceOK, verify, baseline, bounds, history
    <3> QED BY <1>2, <3>1, <3>2, TypeParts, TypeNext
  <2>3. Inputs(task, task') /\ task'.admitted <= task'.revision
    BY <1>2 DEF Inputs, Pends
  <2>4. Books' /\ Pends'
    BY <1>1, <1>2, <2>1, <2>3, StillBooks
  <2>5. Restricted'
    BY <1>2, <2>1, <2>3, StillRestricted
  <2>6. Tight' /\ DoneIsCurrent'
    BY <1>1, <1>2 DEF Tight, Loose, DoneIsCurrent
  <2>7. Running' /\ OfOne' /\ Judged'
    BY <1>2, Outside
  <2>8. Settling'
    BY <1>1, <1>2 DEF Settling, Reopened, bounds
  <2> QED BY <2>2, <2>4, <2>5, <2>6, <2>7, <2>8
<1>3. CASE Take(Steering, "next", "begin")
  <2>1. Steering \in SUBSET queue.pending
    BY DEF Steering
  <2> QED BY <1>1, <1>3, <2>1, TakeKeeps
<1>4. CASE Take(FollowUp, "next", "begin")
  <2>1. FollowUp \in SUBSET queue.pending
    BY DEF FollowUp
  <2> QED BY <1>1, <1>4, <2>1, TakeKeeps
<1>5. CASE pc' = "close" /\ Persist([queue EXCEPT !.accepting = FALSE]) /\ UNCHANGED <<back, taken>>
  <2>1. UNCHANGED <<questions, newest, worker, verify, mutated, world, cancelled, bounds, history, lost>>
    BY <1>1, <1>5 DEF worker
  <2> QED BY <1>1, <1>5, <2>1, ClosingKeeps
<1> QED BY <1>2, <1>3, <1>4, <1>5 DEF NextOrClose

LEMMA CloseKeeps ==
  ASSUME MessagesAssumption, BoundsAssumption, ContractInv, Close
  PROVE  ContractInv'
<1> USE DEF ContractInv
<1>1. /\ pc = "close" /\ pc' = "idle"
      /\ UNCHANGED <<questions, newest, worker, verify, mutated, world, cancelled, bounds, history, lost>>
  BY DEF Close
<1>2. CASE ~queue.accepting /\ queue.pending = {} /\ UNCHANGED <<task, queue>>
  <2>1. TypeOK'
    <3>1. WorkerOK'
      BY <1>1, TypeParts DEF WorkerOK, worker, PCs, history
    <3>2. AcceptanceOK'
      BY <1>1, TypeParts DEF AcceptanceOK, verify, baseline, bounds, history
    <3> QED BY <1>2, <3>1, <3>2, TypeParts, TypeNext
  <2>2. Undelivered' = Undelivered /\ Waiting' = Waiting /\ Steers' = Steers /\ Only' = Only
    BY <1>1, <1>2 DEF Undelivered, Waiting, Steers, Is, Only, Saying, worker
  <2>3. Books'
    BY <1>1, <1>2 DEF Books, worker
  <2>4. Pends'
    BY <1>2, <2>2 DEF Pends
  <2>5. Tight' /\ DoneIsCurrent'
    BY <1>1, <1>2 DEF Tight, Loose, DoneIsCurrent
  <2>6. Restricted'
    BY <1>1, <1>2, <2>2 DEF Restricted, history
  <2>7. Running' /\ OfOne' /\ Judged'
    BY <1>1, Outside
  <2>8. Settling'
    BY <1>1, <1>2 DEF Settling, Reopened, bounds
  <2> QED BY <2>1, <2>3, <2>4, <2>5, <2>6, <2>7, <2>8
<1>3. CASE Persist([queue EXCEPT !.pending = {}, !.returned = @ \cup queue.pending, !.accepting = FALSE])
  BY <1>1, <1>3, ClosingKeeps
<1> QED BY <1>2, <1>3 DEF Close

(* What does not touch the task, its inputs or the worker.                     *)
LEMMA AsideKeeps ==
  ASSUME ContractInv, TypeOK', before <= world => world <= world',
         UNCHANGED <<task, questions, queue, newest, pc, worker, verify, history, lost, crashes>>
  PROVE  ContractInv'
<1> USE DEF ContractInv
<1>1. /\ UNCHANGED <<task, questions, queue, newest, pc, back, human, taken, ruling, lost, crashes>>
      /\ UNCHANGED <<seen, before, copy, report, found>>
  BY DEF worker, verify, baseline, history
<1>2. /\ Undelivered' = Undelivered /\ Waiting' = Waiting /\ Steers' = Steers /\ Only' = Only
      /\ Unseen' = Unseen /\ Reopened' = Reopened
  BY <1>1 DEF Undelivered, Waiting, Steers, Is, Only, Saying, Unseen, Reopened
<1>3. Books' /\ Pends'
  BY <1>1, <1>2 DEF Books, Pends
<1>4. Tight' /\ DoneIsCurrent' /\ Running'
  BY <1>1, <1>2 DEF Tight, Loose, Seen, DoneIsCurrent, Running
<1>5. Restricted' /\ Settling'
  BY <1>1, <1>2 DEF Restricted, Settling
<1>6. world' \in Nat /\ world \in Nat /\ before \in Nat
  BY DEF TypeOK
<1>7. before <= world => before <= world'
  BY <1>6
<1>8. \A e \in Evidence : before <= world /\ FoundNow(e) => FoundNow(e)'
  <2> SUFFICES ASSUME NEW e \in Evidence, before <= world, FoundNow(e) PROVE FoundNow(e)'
    OBVIOUS
  <2>1. e.world \in Nat
    BY DEF Evidence
  <2>2. e.world <= world'
    BY <1>6, <2>1 DEF FoundNow
  <2> QED BY <1>1, <2>2 DEF FoundNow
<1>9. found \in Evidence /\ task.evidence \in Evidence
  BY DEF TypeOK, Tasks
<1>10. OfOne'
  <2>1. pc \in {"recheck", "store"} => FoundNow(found)'
    BY <1>8, <1>9, <1>1 DEF OfOne, Working
  <2>2. pc \in Working \cup {"snapshot"} => before <= world'
    BY <1>7 DEF OfOne
  <2>3. pc \in {"recheck", "store"} => found.revision = copy.revision
    BY DEF OfOne
  <2> HIDE DEF ContractInv
  <2>4. OfOne
    BY DEF ContractInv
  <2> QED BY <1>1, <2>1, <2>2, <2>3, <2>4 DEF OfOne
<1>11. Judged'
  <2>1. pc = "conclude" => before <= world
    BY DEF OfOne, Working
  <2>2. FoundNow(task.evidence) /\ pc = "conclude" => FoundNow(task.evidence)'
    BY <1>8, <1>9, <2>1
  <2> QED BY <1>1, <2>2 DEF Judged
<1> QED BY <1>3, <1>4, <1>5, <1>10, <1>11

LEMMA CancelKeeps ==
  ASSUME BoundsAssumption, ContractInv, Cancel
  PROVE  ContractInv'
<1>1. /\ cancelled' = TRUE /\ cancels' = cancels + 1 /\ cancels < MaxCancels
      /\ UNCHANGED <<task, questions, queue, newest, pc, worker, verify, mutated, world, crashes, history, lost>>
  BY DEF Cancel
<1>2. TypeOK
  BY DEF ContractInv
<1>3. cancels' \in 0..MaxCancels /\ world <= world'
  BY <1>1, <1>2 DEF TypeOK, BoundsAssumption
<1>4. TypeOK'
  <2>1. WorkerOK'
    BY <1>1, <1>2, TypeParts DEF WorkerOK, worker, history
  <2>2. AcceptanceOK'
    BY <1>1, <1>2, <1>3, TypeParts DEF AcceptanceOK, verify, baseline, history
  <2> QED BY <1>1, <1>2, <2>1, <2>2, TypeParts, TypeNext
<1> QED BY <1>1, <1>3, <1>4, AsideKeeps

LEMMA ElsewhereKeeps ==
  ASSUME BoundsAssumption, ContractInv, Elsewhere
  PROVE  ContractInv'
<1>1. /\ world < MaxWorld /\ world' = world + 1
      /\ UNCHANGED <<task, questions, queue, newest, pc, worker, verify, mutated, cancelled, bounds, history, lost>>
  BY DEF Elsewhere
<1>2. TypeOK
  BY DEF ContractInv
<1>3. world' \in 0..MaxWorld /\ world <= world'
  BY <1>1, <1>2 DEF TypeOK, BoundsAssumption
<1>4. TypeOK'
  <2>1. WorkerOK'
    BY <1>1, <1>2, TypeParts DEF WorkerOK, worker, history
  <2>2. AcceptanceOK'
    BY <1>1, <1>2, <1>3, TypeParts DEF AcceptanceOK, verify, baseline, bounds, history
  <2> QED BY <1>1, <1>2, <2>1, <2>2, TypeParts, TypeNext
<1>5. crashes' = crashes
  BY <1>1 DEF bounds
<1> QED BY <1>1, <1>3, <1>4, <1>5, AsideKeeps

LEMMA ReopenKeeps ==
  ASSUME BoundsAssumption, MessagesAssumption, ContractInv, Reopen
  PROVE  ContractInv'
<1> USE DEF ContractInv
<1> DEFINE S == queue.claimed \cap Undelivered
           q == [queue EXCEPT !.pending = @ \cup S, !.claimed = {}, !.accepting = FALSE]
<1>1. /\ crashes < MaxCrashes /\ crashes' = crashes + 1
      /\ pc' = "idle" /\ back' = "idle" /\ taken' = {} /\ cancelled' = FALSE
      /\ last' = "normal" /\ iteration' = 0 /\ human' = 0 /\ queue' = q
      /\ seen' = NoTask /\ before' = 0 /\ copy' = NoTask /\ report' = "none" /\ found' = NoEvidence
      /\ UNCHANGED <<questions, newest, world, cancels, history, lost>>
  BY DEF Reopen
<1>2. mutated' \in BOOLEAN
  BY DEF Reopen
<1>3. QueueOK(queue) /\ S \in SUBSET Messages /\ task \in Tasks
  BY TypeParts DEF QueueOK, TaskOK
<1>4. QueueOK(q) /\ q.pending = queue.pending \cup S /\ q.claimed = {}
      /\ q.returned = queue.returned /\ q.accepting = FALSE
  BY <1>3, QueueFields
<1> HIDE DEF q
<1>5. PICK s \in Statuses, e \in Evidence :
        /\ Written(task, task', s, e, task.accepted)
        /\ s \in {"active", "complete", "answered"} => s = task.status /\ e = task.evidence
  <2>1. CASE task.status = "complete" /\ ~Proved(task)
    <3>1. task' = [task EXCEPT !.status = "incomplete", !.evidence = NoEvidence]
      BY <2>1, Zenon DEF Reopen
    <3>2. "incomplete" \in Statuses /\ task.accepted \in [revision : Nat, world : 0..MaxWorld]
      BY <1>3 DEF Statuses, Tasks
    <3>3. Written(task, [task EXCEPT !.status = "incomplete", !.evidence = NoEvidence],
                  "incomplete", NoEvidence, task.accepted)
      BY <1>3, <3>2, NothingType, VerdictFields
    <3>4. Written(task, task', "incomplete", NoEvidence, task.accepted)
      BY <3>1, <3>3, Zenon
    <3> QED BY <3>2, <3>4, NothingType
  <2>2. CASE ~(task.status = "complete" /\ ~Proved(task))
    <3>1. task' = task
      BY <2>2, Zenon DEF Reopen
    <3>2. /\ task.status \in Statuses /\ task.evidence \in Evidence
          /\ Written(task, task, task.status, task.evidence, task.accepted)
      BY <1>3, NothingType, VerdictFields DEF Tasks
    <3>3. Written(task, task', task.status, task.evidence, task.accepted)
      BY <3>1, <3>2, Zenon
    <3> QED BY <3>2, <3>3
  <2> QED BY <2>1, <2>2
<1>6. /\ task'.id = task.id /\ Inputs(task, task') /\ task'.admitted <= task'.revision
      /\ task'.class = task.class /\ task'.intent = task.intent
  BY <1>5 DEF Written, Kept, SameTask, Pends
<1>7. TypeOK'
  <2>1. TaskOK(task')
    BY <1>5, TypeParts DEF Written, Kept, Inputs, TaskOK, SetsOK
  <2>2. WorkerOK'
    BY <1>1, TypeParts DEF WorkerOK, PCs, history, BoundsAssumption
  <2>3. crashes' \in 0..MaxCrashes
    BY <1>1, TypeParts DEF AcceptanceOK, BoundsAssumption
  <2>4. 0 \in 0..MaxWorld
    BY DEF BoundsAssumption
  <2>5. AcceptanceOK'
    BY <1>1, <1>2, <2>3, <2>4, NoTaskType, NothingType, TypeParts DEF AcceptanceOK, history
  <2> QED BY <1>1, <1>4, <2>1, <2>2, <2>5, TypeNext
<1>8. Undelivered' = lost /\ Waiting' = Waiting /\ Steers' = Steers
  BY <1>1, <1>4 DEF Undelivered, Waiting, Steers, Is
<1>9. Books'
  <2>1. 0 <= newest
    <3>1. Messages \subseteq Nat
      BY DEF MessagesAssumption
    <3>2. newest \in Messages \cup {0}
      BY TypeParts DEF WorkerOK
    <3> HIDE DEF ContractInv
    <3>3. newest \in Nat
      BY <3>1, <3>2
    <3> QED BY <3>3
  <2> QED BY <1>1, <1>4, <1>6, <2>1 DEF Books, Inputs
<1>10. Pends'
  BY <1>6, <1>8 DEF Pends, Inputs
<1>11. Tight'
  BY <1>1 DEF Tight, Loose
<1>12. DoneIsCurrent'
  BY <1>1, <1>5 DEF DoneIsCurrent, Written, Kept, SameTask, Inputs
<1>13. Running' /\ OfOne' /\ Judged'
  BY <1>1, Outside
<1>14. Restricted'
  <2>1. Only' = Only /\ ruling' = ruling
    BY <1>1 DEF Only, Saying, history
  <2> QED BY <1>1, <1>6, <2>1 DEF Restricted, Inputs
<1>15. Settling'
  <2>1. crashes' > 0
    BY <1>1, TypeParts DEF AcceptanceOK
  <2> QED BY <1>1, <1>4, <2>1 DEF Settling
<1> QED BY <1>7, <1>9, <1>10, <1>11, <1>12, <1>13, <1>14, <1>15

--------------------------------------------------------------------------------
(* The invariant holds at the start and is kept by every step.                 *)

LEMMA InitKeeps ==
  ASSUME MessagesAssumption, BoundsAssumption, Init
  PROVE  ContractInv
<1>1. /\ task = NoTask /\ questions = 0 /\ newest = 0
      /\ queue = [pending |-> {}, claimed |-> {}, returned |-> {}, accepting |-> FALSE]
      /\ pc = "idle" /\ back = "idle" /\ human = 0 /\ taken = {} /\ last = "normal"
      /\ iteration = 0 /\ mutated = FALSE /\ world = 0
      /\ seen = NoTask /\ before = 0 /\ copy = NoTask /\ report = "none" /\ found = NoEvidence
      /\ cancelled = FALSE /\ cancels = 0 /\ crashes = 0
      /\ ruling = 0 /\ awaiting = FALSE /\ lost = {}
  BY DEF Init
<1>2. /\ task.id = 0 /\ task.inputs = {} /\ task.pending = {} /\ task.delivered = {}
      /\ task.admitted = 0 /\ task.revision = 0 /\ task.status = "active"
      /\ task.class = task.intent /\ task.intent.only = FALSE
  BY <1>1 DEF NoTask
<1>3. queue.pending = {} /\ queue.claimed = {} /\ queue.returned = {} /\ queue.accepting = FALSE
  BY <1>1
<1>4. 0 \notin Messages /\ 0 <= 0
  BY DEF MessagesAssumption
<1>5. TypeOK
  <2>1. TaskOK(task)
    BY <1>1, <1>2, NoTaskType DEF TaskOK, SetsOK
  <2>2. QueueOK(queue)
    BY <1>1 DEF QueueOK
  <2>3. WorkerOK
    BY <1>1 DEF WorkerOK, PCs, BoundsAssumption
  <2>4. 0 \in 0..MaxWorld /\ 0 \in 0..MaxCancels /\ 0 \in 0..MaxCrashes
    BY DEF BoundsAssumption
  <2>5. AcceptanceOK
    BY <1>1, <2>4, NoTaskType, NothingType DEF AcceptanceOK
  <2> QED BY <2>1, <2>2, <2>3, <2>5, TypeParts
<1>6. Books
  BY <1>1, <1>2, <1>3, <1>4 DEF Books
<1>7. Pends
  BY <1>2, <1>4 DEF Pends
<1>8. Tight /\ DoneIsCurrent
  BY <1>1, <1>2 DEF Tight, Loose, DoneIsCurrent
<1>9. Running /\ OfOne /\ Judged
  BY <1>1 DEF Running, OfOne, Judged, Working, InLoopPCs
<1>10. Restricted
  BY <1>1, <1>2, <1>4 DEF Restricted, Only, Saying
<1>11. Settling
  BY <1>1, <1>2, <1>3 DEF Settling
<1> QED BY <1>5, <1>6, <1>7, <1>8, <1>9, <1>10, <1>11 DEF ContractInv

LEMMA StutterKeeps ==
  ASSUME ContractInv, UNCHANGED vars
  PROVE  ContractInv'
<1>1. /\ UNCHANGED <<task, questions, queue, newest, pc, worker, verify, history, lost, crashes>>
      /\ UNCHANGED <<mutated, world, cancelled, cancels>>
  BY DEF vars, bounds
<1>2. TypeOK
  BY DEF ContractInv
<1>3. world <= world'
  BY <1>1, <1>2 DEF TypeOK
<1>4. TypeOK'
  <2>1. WorkerOK'
    BY <1>1, <1>2, TypeParts DEF WorkerOK, worker, history
  <2>2. AcceptanceOK'
    BY <1>1, <1>2, TypeParts DEF AcceptanceOK, verify, baseline, history
  <2> QED BY <1>1, <1>2, <2>1, <2>2, TypeParts, TypeNext
<1> QED BY <1>1, <1>3, <1>4, AsideKeeps

LEMMA NextKeeps ==
  ASSUME MessagesAssumption, BoundsAssumption, ContractInv, [Next]_vars
  PROVE  ContractInv'
<1>1. CASE UNCHANGED vars
  BY <1>1, StutterKeeps
<1>2. CASE Client
  <2>1. \A mode : Is(mode) \subseteq Messages
    BY DEF Is
  <2> QED BY <1>2, <2>1, RunKeeps, EnqueueKeeps, DequeueKeeps, CancelKeeps DEF Client
<1>3. CASE Worker
  BY <1>3, BeginKeeps, ConfigureKeeps, TakeSteeringKeeps, AdmitKeeps, AcknowledgeKeeps, RespondKeeps,
     TaskStateKeeps, CheckToolKeeps, PromoteKeeps, DispatchKeeps, StartAcceptanceKeeps, SnapshotKeeps,
     ProjectCheckKeeps, CheckKeeps, AnswerKeeps, EvaluateKeeps, RecheckKeeps, StoreKeeps, ConcludeKeeps,
     VerdictKeeps, SettleKeeps, FailKeeps, NextOrCloseKeeps, CloseKeeps DEF Worker
<1>4. CASE Elsewhere \/ Reopen
  BY <1>4, ElsewhereKeeps, ReopenKeeps
<1> QED BY <1>1, <1>2, <1>3, <1>4 DEF Next

--------------------------------------------------------------------------------
(* What makes a task complete, and what it is when the session is reopened.    *)

LEMMA SavedStatus ==
  ASSUME MessagesAssumption, BoundsAssumption, task \in Tasks, NEW q, q.pending \in SUBSET Messages, Persist(q)
  PROVE  task'.status \in {task.status, "active"}
<1>1. CASE task.id = 0
  BY <1>1 DEF Persist
<1>2. CASE task.id # 0
  <2>1. SameVerdict(task, task') \/ Reset(task')
    BY <1>2, PersistFields
  <2> QED BY <2>1 DEF SameVerdict, Reset
<1> QED BY <1>1, <1>2

LEMMA QueueSaved ==
  ASSUME MessagesAssumption, BoundsAssumption, TypeOK,
         \/ Persist([queue EXCEPT !.accepting = TRUE])
         \/ Persist([queue EXCEPT !.accepting = FALSE])
         \/ \E S \in SUBSET Messages : \/ Persist([queue EXCEPT !.pending = @ \cup S])
                                       \/ Persist([queue EXCEPT !.pending = @ \ S, !.returned = @ \cup S])
                                       \/ Persist([queue EXCEPT !.pending = @ \ S, !.claimed = @ \cup S])
                                       \/ Persist([queue EXCEPT !.claimed = @ \ S])
         \/ Persist([queue EXCEPT !.pending = {}, !.returned = @ \cup queue.pending, !.accepting = FALSE])
  PROVE  task'.status \in {task.status, "active"}
<1>1. QueueOK(queue) /\ task \in Tasks
  BY TypeParts DEF TaskOK
<1>2. \A q : QueueOK(q) => q.pending \in SUBSET Messages
  BY DEF QueueOK
<1>3. PICK q : QueueOK(q) /\ Persist(q)
  BY <1>1, QueueFields
<1> QED BY <1>1, <1>2, <1>3, SavedStatus

LEMMA ByTheClient ==
  ASSUME MessagesAssumption, BoundsAssumption, TypeOK, Client
  PROVE  task'.status \in {task.status, "active"} /\ crashes' = crashes
<1>1. ASSUME NEW m \in Is("run"), Run(m) PROVE task'.status \in {task.status, "active"} /\ crashes' = crashes
  <2>1. Persist([queue EXCEPT !.accepting = TRUE]) /\ crashes' = crashes
    BY <1>1 DEF Run, bounds
  <2> QED BY <2>1, QueueSaved
<1>2. ASSUME NEW m \in Messages, Enqueue(m) \/ Dequeue(m)
      PROVE  task'.status \in {task.status, "active"} /\ crashes' = crashes
  <2>1. /\ \/ Persist([queue EXCEPT !.pending = @ \cup {m}])
           \/ Persist([queue EXCEPT !.pending = @ \ {m}, !.returned = @ \cup {m}])
        /\ crashes' = crashes
    BY <1>2 DEF Enqueue, Dequeue, bounds
  <2>2. {m} \in SUBSET Messages
    OBVIOUS
  <2> QED BY <2>1, <2>2, QueueSaved
<1>3. CASE Cancel
  BY <1>3 DEF Cancel
<1>4. \A mode : Is(mode) \subseteq Messages
  BY DEF Is
<1> QED BY <1>1, <1>2, <1>3, <1>4 DEF Client

(* Where a turn begins and ends.                                               *)
LEMMA AtTheEnds ==
  ASSUME MessagesAssumption, BoundsAssumption, ContractInv,
         Acknowledge \/ NextOrClose \/ Close \/ Settle \/ Fail \/ Verdict
  PROVE  task'.status = "complete" => task.status = "complete"
<1> USE DEF ContractInv
<1>1. QueueOK(queue) /\ taken \in SUBSET Messages /\ Steering \in SUBSET Messages /\ FollowUp \in SUBSET Messages
  BY TypeParts DEF WorkerOK, QueueOK, Steering, FollowUp
<1>2. CASE Acknowledge
  <2>1. Persist([queue EXCEPT !.claimed = @ \ taken])
    BY <1>2 DEF Acknowledge
  <2> QED BY <1>1, <2>1, QueueSaved
<1>3. CASE NextOrClose
  <2>1. \/ task' = task
        \/ \E S \in SUBSET Messages : Persist([queue EXCEPT !.pending = @ \ S, !.claimed = @ \cup S])
        \/ Persist([queue EXCEPT !.accepting = FALSE])
    BY <1>1, <1>3 DEF NextOrClose, Take
  <2> QED BY <2>1, QueueSaved
<1>4. CASE Close
  <2>1. \/ task' = task
        \/ Persist([queue EXCEPT !.pending = {}, !.returned = @ \cup queue.pending, !.accepting = FALSE])
    BY <1>4 DEF Close
  <2> QED BY <2>1, QueueSaved
<1>5. CASE Settle
  <2> DEFINE status ==
     IF cancelled THEN "cancelled"
     ELSE IF last = "awaiting" THEN "waiting_user"
     ELSE IF last = "error" THEN "incomplete"
     ELSE IF task.status \in {"complete", "answered"} THEN task.status
     ELSE IF last = "blocked" THEN "blocked" ELSE "incomplete"
  <2>1. task' = [task EXCEPT !.status = status]
    BY <1>5 DEF Settle, Settled
  <2>2. status = "complete" => task.status = "complete"
    OBVIOUS
  <2> HIDE DEF status
  <2>3. task \in Tasks
    BY TypeParts DEF TaskOK
  <2>4. task'.status = status
    BY <2>1, <2>3 DEF Tasks
  <2> QED BY <2>2, <2>4
<1>6. CASE Fail
  <2>1. task \in Tasks
    BY TypeParts DEF TaskOK
  <2>2. CASE InTask /\ task.id # 0
    <3>1. PICK s \in {"cancelled", "budget_exhausted", "incomplete"} : task' = [task EXCEPT !.status = s]
      BY <1>6, <2>2 DEF Fail
    <3>2. task'.status = s
      BY <2>1, <3>1 DEF Tasks
    <3> QED BY <3>2
  <2>3. CASE ~(InTask /\ task.id # 0)
    BY <1>6, <2>3, Zenon DEF Fail
  <2> QED BY <2>2, <2>3
<1>7. CASE Verdict
  BY <1>7 DEF Verdict
<1> QED BY <1>2, <1>3, <1>4, <1>5, <1>6, <1>7

(* Only the last look of acceptance makes a task complete.                     *)
LEMMA OnlyConclude ==
  ASSUME MessagesAssumption, BoundsAssumption, ContractInv, ContractInv', Next,
         task'.status = "complete", task.status # "complete"
  PROVE  Conclude
<1>1. Running'
  BY DEF ContractInv
<1>2. TypeOK
  BY DEF ContractInv
<1>3. ~Client
  BY <1>2, ByTheClient
<1>4. pc' \notin InLoopPCs \cup {"conclude"} /\ ~(pc' \in {"admit", "acknowledge"} /\ back' # "begin")
  BY <1>1 DEF Running
<1>5. ~(Begin \/ (\E C \in SUBSET Conditions : Configure(C)) \/ TaskState \/ Promote \/ Answer \/ Store)
  BY <1>4 DEF Begin, Configure, TaskState, Promote, Answer, Store, InLoopPCs
<1>6. ~(Respond \/ CheckTool \/ Dispatch \/ StartAcceptance \/ Snapshot \/ ProjectCheck \/ Check
        \/ Evaluate \/ Recheck)
  BY DEF Respond, CheckTool, Dispatch, StartAcceptance, Snapshot, ProjectCheck, Check, Evaluate, Recheck
<1>7. ~TakeSteering
  BY <1>4 DEF TakeSteering, Take, InLoopPCs
<1>8. ~Admit
  <2> SUFFICES ASSUME Admit PROVE FALSE
    OBVIOUS
  <2> DEFINE new == (taken \cap Is("steer")) \ task.delivered
  <2>1. task' = Delivered(task, new)
    BY DEF Admit
  <2>2. task \in Tasks /\ new \in SUBSET Messages
    BY <1>2, TypeParts DEF TaskOK, Is
  <2>3. GivenOver(task, new, task')
    BY <2>1, <2>2, DeliveredFields
  <2>4. SameVerdict(task, task') \/ Reset(task')
    BY <2>3 DEF GivenOver
  <2> QED BY <2>4 DEF SameVerdict, Reset
<1>9. ~(Acknowledge \/ NextOrClose \/ Close \/ Settle \/ Fail \/ Verdict)
  BY AtTheEnds
<1>10. ~Elsewhere
  BY DEF Elsewhere
<1>11. ~Reopen
  <2> SUFFICES ASSUME Reopen PROVE FALSE
    OBVIOUS
  <2>1. task' = task
    BY Zenon DEF Reopen
  <2> QED BY <2>1
<1> QED BY <1>3, <1>5, <1>6, <1>7, <1>8, <1>9, <1>10, <1>11 DEF Next, Worker

LEMMA OnlyReopen ==
  ASSUME MessagesAssumption, BoundsAssumption, TypeOK, Next, crashes' # crashes
  PROVE  Reopen
<1>1. ~Client
  BY ByTheClient
<1>2. ~(Begin \/ (\E C \in SUBSET Conditions : Configure(C)) \/ TakeSteering \/ Admit \/ Acknowledge)
  BY DEF Begin, Configure, TakeSteering, Admit, Acknowledge, bounds
<1>3. ~(Respond \/ TaskState \/ CheckTool \/ Promote \/ Dispatch)
  BY DEF Respond, TaskState, CheckTool, Promote, Dispatch, bounds
<1>4. ~(StartAcceptance \/ Snapshot \/ ProjectCheck \/ Check \/ Answer)
  BY DEF StartAcceptance, Snapshot, ProjectCheck, Check, Answer, bounds
<1>5. ~(Evaluate \/ Recheck \/ Store \/ Conclude \/ Verdict)
  BY DEF Evaluate, Recheck, Store, Conclude, Verdict, bounds
<1>6. ~(Settle \/ Fail \/ NextOrClose \/ Close \/ Elsewhere)
  BY DEF Settle, Fail, NextOrClose, Close, Elsewhere, bounds
<1> QED BY <1>1, <1>2, <1>3, <1>4, <1>5, <1>6 DEF Next, Worker

LEMMA StepAccepts ==
  ASSUME MessagesAssumption, BoundsAssumption, ContractInv, ContractInv', [Next]_vars
  PROVE  Accepts
<1> USE DEF ContractInv
<1>1. CASE UNCHANGED vars
  BY <1>1 DEF Accepts, vars, bounds
<1>2. CASE Next
  <2>1. ASSUME task'.status = "complete", task.status # "complete", task.criteria # {}
        PROVE  task.evidence.world = world /\ world \in Good
    <3>1. Conclude /\ pc = "conclude"
      BY <1>2, <2>1, OnlyConclude DEF Conclude
    <3>2. /\ report \in {"passed", "accepted"} /\ Unchanged /\ seen.id # 0
      BY <2>1, <3>1, ConcludeEffect
    <3>3. task.revision = copy.revision
      BY <3>1, <3>2, OneRevision
    <3>4. task.evidence.met /\ FoundNow(task.evidence)
      BY <2>1, <3>1, <3>2, <3>3 DEF Judged
    <3>5. world = before
      BY <3>2 DEF Unchanged
    <3>6. task.evidence.world \in Nat /\ world \in Nat
      BY DEF TypeOK, Tasks, Evidence
    <3> QED BY <3>4, <3>5, <3>6 DEF FoundNow
  <2>2. ASSUME task'.status = "complete", crashes' # crashes
        PROVE  task.accepted.world = world
    <3>1. Reopen
      BY <1>2, <2>2, OnlyReopen
    <3>2. task \in Tasks
      BY TypeParts DEF TaskOK
    <3>3. CASE task.status = "complete" /\ ~Proved(task)
      <4>1. task' = [task EXCEPT !.status = "incomplete", !.evidence = NoEvidence]
        BY <3>1, <3>3, Zenon DEF Reopen
      <4>2. task'.status = "incomplete"
        BY <3>2, <4>1 DEF Tasks
      <4> QED BY <2>2, <4>2
    <3>4. CASE task.status = "complete" /\ Proved(task)
      BY <3>4 DEF Proved
    <3>5. CASE task.status # "complete"
      <4>1. task' = task
        BY <3>1, <3>5, Zenon DEF Reopen
      <4> QED BY <2>2, <3>5, <4>1
    <3> QED BY <3>3, <3>4, <3>5
  <2> QED BY <2>1, <2>2 DEF Accepts
<1> QED BY <1>1, <1>2

--------------------------------------------------------------------------------
(* The theorems.                                                               *)

(* Every reachable state satisfies the invariant.                              *)
THEOREM ContractHolds ==
  ASSUME MessagesAssumption, BoundsAssumption
  PROVE  Spec => []ContractInv
<1>1. Init => ContractInv
  BY InitKeeps
<1>2. ContractInv /\ [Next]_vars => ContractInv'
  BY NextKeeps
<1> QED BY <1>1, <1>2, PTL DEF Spec

(* Whatever is sent and whenever, a task that is complete or answered is so for
   the revision the last instruction made, with all of it delivered but what a
   failed save lost, and with evidence of that revision
   (core/task_verification.py, the looks of _verify before each commit).       *)
THEOREM DoneForTheRevision ==
  ASSUME MessagesAssumption, BoundsAssumption
  PROVE  Spec => []TaskSafe
<1>1. ContractInv => TaskSafe
  BY DEF ContractInv, TaskSafe
<1> QED BY <1>1, ContractHolds, PTL

(* From its acceptance until a later instruction to the contrary is delivered,
   an instruction not to modify anything restricts the task wherever the model
   may call a tool (core/task_intent.py, _project).                            *)
THEOREM RestrictedFromAcceptance ==
  ASSUME MessagesAssumption, BoundsAssumption
  PROVE  Spec => []RestrictionHolds
<1>1. ContractInv => RestrictionHolds
  <2> SUFFICES ASSUME ContractInv, pc \in {"model", "promote", "approve"}, Restrictions # {}
      PROVE  task.class.only
    BY DEF RestrictionHolds
  <2>1. taken = {} /\ queue.pending \cap Steers \subseteq task.pending
    BY DEF ContractInv, Books, Restricted
  <2>2. Only \cap ({ruling} \cup task.pending) # {}
    BY <2>1 DEF Restrictions, Only, Steers
  <2> QED BY <2>2 DEF ContractInv, Restricted
<1> QED BY <1>1, ContractHolds, PTL

(* A turn of a process that did not die leaves no task active, unless it holds
   back an instruction that reopened it (core/task_control.py, settle_task and
   settle_task_failure).                                                       *)
THEOREM TurnsEndSettled ==
  ASSUME MessagesAssumption, BoundsAssumption
  PROVE  Spec => []TurnsSettle
<1>1. ContractInv => TurnsSettle
  BY DEF ContractInv, Settling, Reopened, TurnsSettle
<1> QED BY <1>1, ContractHolds, PTL

(* A task with conditions becomes complete only in the workspace in which their
   evidence was collected, and one still complete when its session is opened
   again was accepted in the workspace found there (core/task_verification.py,
   verify; core/task_control.py).                                              *)
THEOREM AcceptedWhereChecked ==
  ASSUME MessagesAssumption, BoundsAssumption
  PROVE  Spec => AcceptsTheWorkspace
<1>1. ContractInv /\ ContractInv' /\ [Next]_vars => Accepts
  BY StepAccepts
<1> QED BY <1>1, ContractHolds, PTL DEF Spec, AcceptsTheWorkspace
================================================================================
