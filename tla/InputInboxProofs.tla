---------------------------- MODULE InputInboxProofs ----------------------------
(***************************************************************************)
(* Proofs about InputInbox for every set of inputs and every bound: its    *)
(* type invariant, the safety of accepted input across failing saves and   *)
(* crashes, that the queue implements InputLedger, and in which order      *)
(* input is delivered.                                                     *)
(***************************************************************************)
EXTENDS InputInbox, TLAPS

(* What bind_session makes of the inbox in the session file. *)
Recovered ==
  [pending |-> inbox.pending \cup Unadmitted, claimed |-> {}, returned |-> inbox.returned]

(* Between reopening and the first save memory is the recovered inbox; from then
   on it is the saved one.  *)
MemoryIsInbox == queue = inbox \/ (pc = "idle" /\ queue = Recovered)

(* Only accepted input is anywhere. *)
OnlyAccepted(q) == q.pending \cup q.claimed \cup q.returned \subseteq Accepted

(* What the worker holds between the claim and the acknowledgement. *)
TakenIsClaimed ==
  /\ pc = "admit" => taken \subseteq queue.claimed \ delivered
  /\ pc = "ack" => taken \subseteq delivered

(* The inductive invariant. *)
InboxInv ==
  /\ TypeOK
  /\ OnePlace
  /\ AcceptedIsDurable
  /\ MemoryIsInbox
  /\ TakenIsClaimed
  /\ OnlyAccepted(queue) /\ OnlyAccepted(inbox) /\ delivered \subseteq Accepted

--------------------------------------------------------------------------------

LEMMA InitTypeOK == Init => TypeOK
<1> SUFFICES ASSUME Init PROVE TypeOK
  OBVIOUS
<1>1. queue \in Queues /\ inbox \in Queues
  BY DEF Init, Queues, Empty
<1> QED BY <1>1 DEF Init, TypeOK, PCs

(* What the mutations make of the lists are lists again. *)
LEMMA MovedTyped ==
  ASSUME NEW q \in Queues, NEW S \in SUBSET Inputs
  PROVE  /\ [q EXCEPT !.pending = @ \cup S] \in Queues
         /\ [q EXCEPT !.pending = @ \ S, !.claimed = @ \cup S] \in Queues
         /\ [q EXCEPT !.pending = @ \ S, !.returned = @ \cup S] \in Queues
         /\ [q EXCEPT !.claimed = @ \ S] \in Queues
BY DEF Queues

LEMMA SelectionTyped ==
  TypeOK => Steering \in SUBSET Inputs /\ Earliest \in SUBSET Inputs /\ queue.pending \in SUBSET Inputs
BY DEF TypeOK, Queues, Steering, Earliest

LEMMA BindTyped ==
  ASSUME TypeOK, Bind
  PROVE  queue' \in Queues /\ seat' \in [Inputs -> Nat] /\ last' \in Nat
<1>1. queue' \in Queues
  BY DEF Bind, TypeOK, Unadmitted, Queues
<1>2. seat' \in [Inputs -> Nat] /\ last' \in Nat
  BY DEF Bind, TypeOK
<1> QED BY <1>1, <1>2

(* Type correctness does not depend on the other invariants. *)
LEMMA NextTypeOK == TypeOK /\ [Next]_vars => TypeOK'
<1> SUFFICES ASSUME TypeOK, [Next]_vars PROVE TypeOK'
  OBVIOUS
<1> USE DEF TypeOK
<1>1. CASE StartTurn
  <2>1. queue' \in Queues /\ inbox' \in Queues
    BY <1>1 DEF StartTurn, Persist
  <2>2. notified' \subseteq Inputs /\ echoed' \in [Inputs -> Nat]
    BY <1>1 DEF StartTurn, Announce, Queues
  <2> QED BY <1>1, <2>1, <2>2 DEF StartTurn, Persist, PCs, order
<1>2. CASE StartTurnFails
  <2>1. queue' \in Queues /\ inbox' \in Queues /\ failures' \in Nat
    BY <1>2 DEF StartTurnFails
  <2> QED BY <1>2, <2>1 DEF StartTurnFails, told, order
<1>3. CASE Cancel
  BY <1>3 DEF Cancel, told, order, durable
<1>4. CASE Resume
  <2>1. reopens' \in Nat
    BY <1>4 DEF Resume
  <2> QED BY <1>4, <2>1, BindTyped DEF Resume, Bind, PCs, durable
<1>5. CASE Reconnect
  BY <1>5, BindTyped DEF Reconnect, Bind, PCs, durable
<1>6. CASE Crash
  <2>1. reopens' \in Nat
    BY <1>6 DEF Crash
  <2> QED BY <1>6, <2>1, BindTyped DEF Crash, Bind, PCs, durable
<1>7. ASSUME NEW i \in Inputs, Enqueue(i) PROVE TypeOK'
  <2>1. queue' \in Queues /\ inbox' \in Queues
    BY <1>7, MovedTyped DEF Enqueue, Persist
  <2> QED BY <1>7, <2>1 DEF Enqueue, Persist, told, turn
<1>8. ASSUME NEW i \in Inputs, EnqueueFails(i) PROVE TypeOK'
  BY <1>8 DEF EnqueueFails, SaveFails, told, turn, order
<1>9. ASSUME NEW i \in Inputs, Remove(i) PROVE TypeOK'
  <2>1. queue' \in Queues /\ inbox' \in Queues
    BY <1>9, MovedTyped DEF Remove, GiveBack, Persist
  <2>2. notified' \subseteq Inputs /\ echoed' \in [Inputs -> Nat]
    BY <1>9 DEF Remove, Announce
  <2> QED BY <1>9, <2>1, <2>2 DEF Remove, GiveBack, Persist, turn, order
<1>10. ASSUME NEW i \in Inputs, RemoveFails(i) PROVE TypeOK'
  BY <1>10 DEF RemoveFails, SaveFails, told, turn, order
<1>11. CASE BeginStep
  BY <1>11 DEF BeginStep, Quiet, PCs, told, order, durable
<1>12. CASE Model
  BY <1>12 DEF Model, Goto, Quiet, PCs, told, order, durable
<1>13. CASE FinalAnswer
  BY <1>13 DEF FinalAnswer, Quiet, PCs, told, order, durable
<1>14. CASE TakeSteering
  <2>1. CASE pc' = "admit" /\ Claim(Steering) /\ taken' = Steering
    <3>1. queue' \in Queues /\ inbox' \in Queues /\ taken' \subseteq Inputs
      BY <2>1, MovedTyped, SelectionTyped DEF Claim, Persist
    <3> QED BY <1>14, <2>1, <3>1 DEF TakeSteering, Claim, Persist, Goto, Quiet, PCs, told, order, durable
  <2>2. CASE Goto(IF back = "model" THEN "model" ELSE "verify") /\ Quiet
    BY <2>2 DEF Goto, Quiet, PCs, told, order, durable
  <2> QED BY <1>14, <2>1, <2>2 DEF TakeSteering
<1>15. CASE TakeSteeringFails
  BY <1>15 DEF TakeSteeringFails, SaveFails, Goto, PCs, told, order
<1>16. CASE Verify
  BY <1>16 DEF Verify, Goto, Quiet, PCs, told, order, durable
<1>17. CASE NextOrClose
  <2>1. queue' \in Queues /\ inbox' \in Queues /\ taken' \subseteq Inputs
    BY <1>17, MovedTyped, SelectionTyped DEF NextOrClose, Claim, Persist
  <2> QED BY <1>17, <2>1 DEF NextOrClose, Claim, Persist, PCs, told, order
<1>18. CASE NextOrCloseFails
  BY <1>18 DEF NextOrCloseFails, SaveFails, Goto, PCs, told, order
<1>19. CASE Admit
  BY <1>19 DEF Admit, PCs, told, order
<1>20. CASE AdmitFails
  BY <1>20 DEF AdmitFails, SaveFails, PCs, told, order
<1>21. CASE Acknowledge
  <2>1. queue' \in Queues /\ inbox' \in Queues
    BY <1>21, MovedTyped DEF Acknowledge, Persist
  <2> QED BY <1>21, <2>1 DEF Acknowledge, Persist, PCs, told, order
<1>22. CASE AcknowledgeFails
  BY <1>22 DEF AcknowledgeFails, SaveFails, PCs, told, order
<1>23. CASE Close
  <2>1. queue' \in Queues /\ inbox' \in Queues
    BY <1>23, MovedTyped, SelectionTyped DEF Close, GiveBack, Persist
  <2>2. notified' \subseteq Inputs /\ echoed' \in [Inputs -> Nat]
    BY <1>23, SelectionTyped DEF Close, Announce, told
  <2> QED BY <1>23, <2>1, <2>2 DEF Close, GiveBack, Persist, PCs, told, order
<1>24. CASE CloseFails
  BY <1>24 DEF CloseFails, SaveFails, PCs, told, order
<1>25. CASE UNCHANGED vars
  BY <1>25 DEF vars, told, order, durable, turn
<1> QED
  BY <1>1, <1>2, <1>3, <1>4, <1>5, <1>6, <1>7, <1>8, <1>9, <1>10, <1>11, <1>12, <1>13,
     <1>14, <1>15, <1>16, <1>17, <1>18, <1>19, <1>20, <1>21, <1>22, <1>23, <1>24, <1>25
  DEF Next, Client, Worker

(* Queue, session file and worker keep their types: pc never leaves the turn's
   control points and no list holds anything but inputs.  *)
THEOREM TypeCorrect == Spec => []TypeOK
<1> QED BY InitTypeOK, NextTypeOK, PTL DEF Spec

--------------------------------------------------------------------------------

LEMMA InitInv == Init => InboxInv
<1> SUFFICES ASSUME Init PROVE InboxInv
  OBVIOUS
<1> QED BY InitTypeOK
  DEF Init, InboxInv, OnePlace, OneplaceOf, AcceptedIsDurable, Accepted, MemoryIsInbox,
      TakenIsClaimed, OnlyAccepted, Empty

(* Reopening the session: nothing is lost, and nothing that is a message is
   queued again.  *)
LEMMA BindInv == ASSUME InboxInv, TypeOK', Bind PROVE InboxInv'
<1> USE DEF InboxInv, Bind, durable
<1>1. queue' = Recovered'
  BY DEF Recovered, Unadmitted
<1>2. OnePlace'
  BY DEF OnePlace, OneplaceOf, Unadmitted
<1>3. AcceptedIsDurable' /\ OnlyAccepted(queue)' /\ OnlyAccepted(inbox)' /\ (delivered \subseteq Accepted)'
  BY DEF AcceptedIsDurable, Accepted, OnlyAccepted, Unadmitted
<1>4. TakenIsClaimed'
  BY DEF TakenIsClaimed
<1> QED BY <1>1, <1>2, <1>3, <1>4 DEF MemoryIsInbox

(* A step that leaves lists, file and history alone keeps everything but what
   is said about pc.  *)
LEMMA QuietInv ==
  ASSUME InboxInv, TypeOK', UNCHANGED <<queue, durable, stamp>>,
         pc' # "idle" => queue = inbox, TakenIsClaimed',
         pc = "idle" => pc' = "idle"
  PROVE  InboxInv'
BY DEF InboxInv, durable, OnePlace, OneplaceOf, AcceptedIsDurable, Accepted, OnlyAccepted,
       MemoryIsInbox, Recovered, Unadmitted

(* A save: memory and file hold the same new lists. *)
LEMMA PersistInv ==
  ASSUME NEW q, InboxInv, TypeOK', Persist(q), delivered' = delivered,
         OneplaceOf(q),
         Accepted' \subseteq q.pending \cup q.claimed \cup q.returned \cup delivered,
         q.pending \cup q.claimed \cup q.returned \subseteq Accepted',
         Accepted \subseteq Accepted',
         TakenIsClaimed'
  PROVE  InboxInv'
BY DEF InboxInv, Persist, OnePlace, OneplaceOf, AcceptedIsDurable, OnlyAccepted, MemoryIsInbox

(* A claim, or a return to the user, of pending inputs. *)
LEMMA MoveInv ==
  ASSUME InboxInv, TypeOK', NEW S \in SUBSET queue.pending, Claim(S) \/ GiveBack(S),
         delivered' = delivered, stamp' = stamp, TakenIsClaimed'
  PROVE  InboxInv'
<1>t. TypeOK /\ OneplaceOf(queue) /\ OnlyAccepted(queue)
  BY DEF InboxInv, OnePlace
<1>d. Accepted \subseteq queue.pending \cup queue.claimed \cup queue.returned \cup delivered
  BY DEF InboxInv, AcceptedIsDurable, MemoryIsInbox, Recovered, Unadmitted
<1>a. Accepted' = Accepted
  BY DEF Accepted
<1>1. CASE Claim(S)
  <2> DEFINE q == [queue EXCEPT !.pending = @ \ S, !.claimed = @ \cup S]
  <2>1. /\ q.pending = queue.pending \ S /\ q.claimed = queue.claimed \cup S
        /\ q.returned = queue.returned
    BY <1>t DEF TypeOK, Queues
  <2>2. Persist(q)
    BY <1>1 DEF Claim
  <2>3. OneplaceOf(q) /\ q.pending \cup q.claimed \cup q.returned \subseteq Accepted'
    BY <1>t, <1>a, <2>1 DEF OneplaceOf, OnlyAccepted
  <2>4. Accepted' \subseteq q.pending \cup q.claimed \cup q.returned \cup delivered
    BY <1>d, <1>a, <2>1
  <2> HIDE DEF q
  <2> QED BY <1>a, <2>2, <2>3, <2>4, PersistInv
<1>2. CASE GiveBack(S)
  <2> DEFINE q == [queue EXCEPT !.pending = @ \ S, !.returned = @ \cup S]
  <2>1. /\ q.pending = queue.pending \ S /\ q.claimed = queue.claimed
        /\ q.returned = queue.returned \cup S
    BY <1>t DEF TypeOK, Queues
  <2>2. Persist(q)
    BY <1>2 DEF GiveBack
  <2>3. OneplaceOf(q) /\ q.pending \cup q.claimed \cup q.returned \subseteq Accepted'
    BY <1>t, <1>a, <2>1 DEF OneplaceOf, OnlyAccepted
  <2>4. Accepted' \subseteq q.pending \cup q.claimed \cup q.returned \cup delivered
    BY <1>d, <1>a, <2>1
  <2> HIDE DEF q
  <2> QED BY <1>a, <2>2, <2>3, <2>4, PersistInv
<1> QED BY <1>1, <1>2

(* What a claim does to the lists, for the worker that holds it. *)
LEMMA ClaimHeld ==
  ASSUME InboxInv, NEW S \in SUBSET queue.pending, Claim(S)
  PROVE  S \subseteq queue'.claimed \ delivered
BY DEF InboxInv, TypeOK, Queues, OnePlace, OneplaceOf, Claim, Persist

LEMMA NextInv == InboxInv /\ [Next]_vars => InboxInv'
<1> SUFFICES ASSUME InboxInv, [Next]_vars PROVE InboxInv'
  OBVIOUS
<1>t. TypeOK /\ TypeOK'
  BY NextTypeOK DEF InboxInv
<1>p. OneplaceOf(queue) /\ OneplaceOf(inbox) /\ OnlyAccepted(queue) /\ OnlyAccepted(inbox)
  BY DEF InboxInv, OnePlace
<1>m. \/ queue = inbox
      \/ pc = "idle" /\ queue = Recovered
  BY DEF InboxInv, MemoryIsInbox
<1>d. Accepted \subseteq queue.pending \cup queue.claimed \cup queue.returned \cup delivered
  BY <1>m DEF InboxInv, AcceptedIsDurable, Recovered, Unadmitted
<1>1. CASE StartTurn
  <2> USE <1>1 DEF StartTurn, order
  <2>1. Accepted' = Accepted /\ TakenIsClaimed'
    BY DEF Accepted, TakenIsClaimed
  <2> QED BY <1>t, <1>p, <1>d, <2>1, PersistInv DEF OnlyAccepted
<1>2. CASE StartTurnFails
  <2> USE <1>2 DEF StartTurnFails, order
  <2>1. Accepted' = Accepted /\ TakenIsClaimed'
    BY DEF Accepted, TakenIsClaimed
  <2>2. CASE inbox' = inbox
    BY <1>t, <2>1, <2>2, QuietInv DEF durable
  <2>3. CASE inbox' = queue
    BY <1>t, <1>p, <1>d, <2>1, <2>3
    DEF InboxInv, OnePlace, OneplaceOf, AcceptedIsDurable, OnlyAccepted, MemoryIsInbox
  <2> QED BY <2>2, <2>3
<1>3. ASSUME NEW i \in Inputs, Enqueue(i) PROVE InboxInv'
  <2> DEFINE q == [queue EXCEPT !.pending = @ \cup {i}]
  <2> USE <1>3
  <2>1. /\ stamp[i] = 0 /\ stamp'[i] > 0 /\ Accepted' = Accepted \cup {i} /\ i \notin Accepted
    BY <1>t DEF Enqueue, Admissible, Accepted, TypeOK
  <2>2. /\ q.pending = queue.pending \cup {i} /\ q.claimed = queue.claimed
        /\ q.returned = queue.returned
    BY <1>t DEF TypeOK, Queues
  <2>3. i \notin queue.pending \cup queue.claimed \cup queue.returned \cup delivered
    BY <1>p, <2>1 DEF OnlyAccepted, InboxInv
  <2>4. Persist(q) /\ delivered' = delivered
    BY DEF Enqueue
  <2>5. TakenIsClaimed'
    BY <2>4, <2>2 DEF Enqueue, turn, InboxInv, TakenIsClaimed, Persist
  <2>6. OneplaceOf(q)
    BY <1>p, <2>2, <2>3 DEF OneplaceOf
  <2>7. q.pending \cup q.claimed \cup q.returned \subseteq Accepted'
    BY <1>p, <2>1, <2>2 DEF OnlyAccepted
  <2>8. Accepted' \subseteq q.pending \cup q.claimed \cup q.returned \cup delivered
    BY <1>d, <2>1, <2>2
  <2> HIDE DEF q
  <2> QED BY <1>t, <2>1, <2>4, <2>5, <2>6, <2>7, <2>8, PersistInv
<1>4. ASSUME NEW i \in Inputs, Remove(i) PROVE InboxInv'
  <2>1. GiveBack({i}) /\ {i} \in SUBSET queue.pending /\ UNCHANGED <<delivered, order, turn>>
    BY <1>4 DEF Remove
  <2>2. TakenIsClaimed'
    BY <1>t, <2>1 DEF GiveBack, Persist, turn, InboxInv, TakenIsClaimed, TypeOK, Queues
  <2> QED BY <1>t, <2>1, <2>2, MoveInv DEF order
<1>5. CASE TakeSteering
  <2>1. CASE Claim(Steering) /\ taken' = Steering /\ pc' = "admit" /\ UNCHANGED <<delivered, order>>
    <3>1. Steering \in SUBSET queue.pending
      BY DEF Steering
    <3>2. TakenIsClaimed'
      BY <2>1, <3>1, ClaimHeld DEF TakenIsClaimed
    <3> QED BY <1>t, <2>1, <3>1, <3>2, MoveInv DEF order
  <2>2. CASE Goto(IF back = "model" THEN "model" ELSE "verify") /\ Quiet
    <3>1. TakenIsClaimed'
      BY <2>2 DEF Goto, TakenIsClaimed
    <3>2. pc = "steer" /\ queue = inbox
      BY <1>5, <1>m DEF TakeSteering
    <3> QED BY <1>t, <2>2, <3>1, <3>2, QuietInv DEF Goto, Quiet, order
  <2> QED BY <1>5, <2>1, <2>2 DEF TakeSteering
<1>6. CASE NextOrClose
  <2> DEFINE next == IF Steering # {} THEN Steering ELSE Earliest
  <2>1. /\ Claim(next) /\ taken' = next /\ pc' \in {"close", "admit"}
        /\ UNCHANGED <<delivered, order>>
    BY <1>6 DEF NextOrClose
  <2>2. next \in SUBSET queue.pending
    BY DEF Steering, Earliest
  <2> HIDE DEF next
  <2>3. TakenIsClaimed'
    BY <2>1, <2>2, ClaimHeld DEF TakenIsClaimed
  <2> QED BY <1>t, <2>1, <2>2, <2>3, MoveInv DEF order
<1>7. CASE Close
  <2>1. CASE accepting \/ queue.pending # {}
    <3>1. GiveBack(queue.pending) /\ UNCHANGED <<delivered, order>> /\ TakenIsClaimed'
      BY <1>7, <2>1 DEF Close, TakenIsClaimed
    <3> QED BY <1>t, <3>1, MoveInv DEF order
  <2>2. CASE ~(accepting \/ queue.pending # {})
    <3>1. UNCHANGED <<queue, durable, stamp>> /\ pc' = "idle" /\ TakenIsClaimed'
      BY <1>7, <2>2 DEF Close, TakenIsClaimed, order, durable
    <3> QED BY <1>t, <3>1, QuietInv
  <2> QED BY <2>1, <2>2
<1>8. CASE Admit
  <2>1. /\ pc = "admit" /\ pc' = "ack" /\ delivered' = delivered \cup taken /\ taken' = taken
        /\ queue' = queue /\ inbox' = inbox /\ queue = inbox
        /\ taken \subseteq queue.claimed /\ Accepted' = Accepted
    BY <1>8, <1>m DEF Admit, InboxInv, TakenIsClaimed, Accepted, order
  <2>2. OneplaceOf(queue)' /\ OneplaceOf(inbox)'
    BY <1>p, <2>1 DEF OneplaceOf
  <2> QED BY <1>t, <1>p, <2>1, <2>2
    DEF InboxInv, OnePlace, AcceptedIsDurable, MemoryIsInbox, TakenIsClaimed, OnlyAccepted
<1>9. CASE Acknowledge
  <2> DEFINE q == [queue EXCEPT !.claimed = @ \ taken]
  <2>1. /\ q.pending = queue.pending /\ q.claimed = queue.claimed \ taken
        /\ q.returned = queue.returned
    BY <1>t DEF TypeOK, Queues
  <2>2. /\ Persist(q) /\ delivered' = delivered /\ Accepted' = Accepted
        /\ taken \subseteq delivered /\ pc' = back
    BY <1>9 DEF Acknowledge, order, Accepted, InboxInv, TakenIsClaimed
  <2>3. TakenIsClaimed'
    BY <1>t, <2>2 DEF TypeOK, TakenIsClaimed
  <2>4. /\ OneplaceOf(q) /\ q.pending \cup q.claimed \cup q.returned \subseteq Accepted'
        /\ Accepted' \subseteq q.pending \cup q.claimed \cup q.returned \cup delivered
    BY <1>p, <1>d, <2>1, <2>2 DEF OneplaceOf, OnlyAccepted
  <2> HIDE DEF q
  <2> QED BY <1>t, <2>2, <2>3, <2>4, PersistInv
<1>10. CASE Resume \/ Reconnect \/ Crash
  BY <1>t, <1>10, BindInv DEF Resume, Reconnect, Crash
<1>11. CASE (\E i \in Inputs : EnqueueFails(i) \/ RemoveFails(i)) \/ Cancel \/ UNCHANGED vars
  <2>1. UNCHANGED <<queue, durable, stamp, pc, taken>>
    BY <1>11 DEF EnqueueFails, RemoveFails, Cancel, SaveFails, vars, order, turn, durable
  <2> QED BY <1>t, <1>m, <2>1, QuietInv DEF durable, InboxInv, TakenIsClaimed
<1>12. CASE BeginStep \/ Model \/ FinalAnswer \/ Verify
  <2>1. UNCHANGED <<queue, durable, stamp>> /\ pc # "idle" /\ pc' \notin {"idle", "admit", "ack"}
    BY <1>12 DEF BeginStep, Model, FinalAnswer, Verify, Goto, Quiet, order
  <2> QED BY <1>t, <1>m, <2>1, QuietInv DEF TakenIsClaimed
<1>13. CASE TakeSteeringFails \/ NextOrCloseFails \/ AdmitFails \/ AcknowledgeFails \/ CloseFails
  <2>1. UNCHANGED <<queue, durable, stamp>> /\ pc # "idle" /\ pc' \notin {"admit", "ack"}
    BY <1>13 DEF TakeSteeringFails, NextOrCloseFails, AdmitFails, AcknowledgeFails, CloseFails,
                 SaveFails, Goto, order, durable
  <2> QED BY <1>t, <1>m, <2>1, QuietInv DEF TakenIsClaimed
<1> QED
  BY <1>1, <1>2, <1>3, <1>4, <1>5, <1>6, <1>7, <1>8, <1>9, <1>10, <1>11, <1>12, <1>13
  DEF Next, Client, Worker

(* The inductive invariant holds in every behaviour: of any inputs, any limits,
   and any number of failing saves and crashes.  *)
THEOREM InboxInvariant == Spec => []InboxInv
<1> QED BY InitInv, NextInv, PTL DEF Spec

(* What the runs check of input_queue.py on three inputs, for all: an accepted
   input is in the session file, in one place, and is delivered once.  *)
THEOREM InboxSafe == Spec => [](AcceptedIsDurable /\ HeldOnce)
<1>1. InboxInv => AcceptedIsDurable /\ HeldOnce
  BY DEF InboxInv, HeldOnce, DeliveredOnce, TakenIsClaimed, MemoryIsSaved, MemoryIsInbox
<1> QED BY <1>1, InboxInvariant, PTL

(* Whatever the process was doing when a save failed or it died, an accepted input
   is in the session file: waiting, claimed, returned, or a message.  *)
THEOREM AcceptedSafe == Spec => []AcceptedIsDurable
<1> QED BY InboxSafe, PTL

(* Steering goes before follow-ups at every step that hands input to the model:
   of any inputs, and whatever saves fail and whenever the process dies.  *)
THEOREM SteeringSafe == Spec => SteeringFirst
<1>1. InboxInv /\ [Next]_vars => ((taken' \ taken) \ Steer # {} => Steering = {})
  <2> SUFFICES ASSUME InboxInv, [Next]_vars, (taken' \ taken) \ Steer # {}
               PROVE  Steering = {}
    OBVIOUS
  <2>1. CASE TakeSteering
    BY <2>1 DEF TakeSteering, Steering, Quiet
  <2>2. CASE NextOrClose
    BY <2>2 DEF NextOrClose, Steering
  <2>3. CASE Client \/ Crash \/ UNCHANGED vars
    BY <2>3 DEF Client, Crash, StartTurn, StartTurnFails, Cancel, Resume, Reconnect, Bind, Enqueue,
                EnqueueFails, Remove, RemoveFails, SaveFails, Quiet, turn, vars
  <2>4. CASE \/ BeginStep \/ Model \/ FinalAnswer \/ TakeSteeringFails \/ Verify
             \/ NextOrCloseFails \/ Admit \/ AdmitFails \/ Acknowledge \/ AcknowledgeFails
             \/ Close \/ CloseFails
    BY <2>4 DEF BeginStep, Model, FinalAnswer, TakeSteeringFails, Verify, NextOrCloseFails, Admit,
                AdmitFails, Acknowledge, AcknowledgeFails, Close, CloseFails, SaveFails, Quiet, Goto
  <2> QED BY <2>1, <2>2, <2>3, <2>4 DEF Next, Worker
<1> QED BY <1>1, InboxInvariant, PTL DEF Spec, SteeringFirst

--------------------------------------------------------------------------------
(* The queue implements InputLedger.                                           *)

(* The standing of every input in a state of the lists and the conversation. *)
StatusOf(q, d) ==
  [i \in Inputs |-> IF i \in d THEN "delivered"
                    ELSE IF i \in q.returned THEN "returned"
                    ELSE IF i \in q.pending \cup q.claimed THEN "held"
                    ELSE "new"]

(* Memory gives the same account of an input as the session file, also between
   the reopening of a session and its first save.  *)
LEMMA MemoryAgrees == InboxInv => LedgerStatus = StatusOf(queue, delivered)
<1> SUFFICES ASSUME InboxInv PROVE LedgerStatus = StatusOf(queue, delivered)
  OBVIOUS
<1>1. CASE queue = inbox
  BY <1>1 DEF LedgerStatus, StatusOf
<1>2. CASE queue = Recovered
  <2>1. /\ queue.pending = inbox.pending \cup (inbox.claimed \ delivered)
        /\ queue.claimed = {} /\ queue.returned = inbox.returned
    BY <1>2 DEF Recovered, Unadmitted
  <2> QED BY <2>1 DEF LedgerStatus, StatusOf
<1> QED BY <1>1, <1>2 DEF InboxInv, MemoryIsInbox

LEMMA LedgerInitially == Init => Ledger!LedgerInit
BY DEF Init, Empty, Ledger!LedgerInit, LedgerStatus

(* A save of the lists as they are in memory changes no standing. *)
LEMMA SavedAsIs ==
  ASSUME InboxInv, inbox' \in {inbox, queue}, delivered' = delivered
  PROVE  LedgerStatus' = LedgerStatus
<1>1. LedgerStatus = StatusOf(queue, delivered) /\ LedgerStatus = StatusOf(inbox, delivered)
  BY MemoryAgrees DEF LedgerStatus, StatusOf
<1>2. LedgerStatus' = StatusOf(inbox', delivered')
  BY DEF LedgerStatus, StatusOf
<1> QED BY <1>1, <1>2

(* Claimed inputs are still held. *)
LEMMA ClaimKeeps ==
  ASSUME InboxInv, NEW S \in SUBSET queue.pending, Claim(S), delivered' = delivered
  PROVE  LedgerStatus' = LedgerStatus
<1>1. /\ inbox'.pending = queue.pending \ S /\ inbox'.claimed = queue.claimed \cup S
      /\ inbox'.returned = queue.returned
  BY DEF InboxInv, TypeOK, Queues, Claim, Persist
<1>2. inbox'.pending \cup inbox'.claimed = queue.pending \cup queue.claimed
  BY <1>1
<1> QED BY <1>1, <1>2, MemoryAgrees DEF LedgerStatus, StatusOf

(* What goes back to the user was held until then. *)
LEMMA GiveBackReturns ==
  ASSUME InboxInv, NEW S \in SUBSET queue.pending, GiveBack(S), delivered' = delivered
  PROVE  Ledger!Return
<1>1. /\ inbox'.pending = queue.pending \ S /\ inbox'.claimed = queue.claimed
      /\ inbox'.returned = queue.returned \cup S
  BY DEF InboxInv, TypeOK, Queues, GiveBack, Persist
<1>2. S \in SUBSET Inputs /\ S \cap (delivered \cup queue.returned) = {}
  BY DEF InboxInv, TypeOK, Queues, OnePlace, OneplaceOf
<1>3. S \subseteq Ledger!Held
  BY <1>2, MemoryAgrees DEF Ledger!Held, StatusOf
<1>4. LedgerStatus' = [i \in Inputs |-> IF i \in S THEN "returned" ELSE LedgerStatus[i]]
  BY <1>1, <1>2, MemoryAgrees DEF LedgerStatus, StatusOf
<1> QED BY <1>2, <1>3, <1>4 DEF Ledger!Return, Ledger!Settle

LEMMA EnqueueAccepts ==
  ASSUME InboxInv, NEW i \in Inputs, Enqueue(i)
  PROVE  Ledger!Accept(i)
<1>1. /\ inbox'.pending = queue.pending \cup {i} /\ inbox'.claimed = queue.claimed
      /\ inbox'.returned = queue.returned /\ delivered' = delivered
  BY DEF InboxInv, TypeOK, Queues, Enqueue, Persist
<1>2. i \notin queue.pending \cup queue.claimed \cup queue.returned \cup delivered
  BY DEF InboxInv, OnlyAccepted, Accepted, Enqueue, Admissible
<1>3. LedgerStatus[i] = "new"
  BY <1>2, MemoryAgrees DEF StatusOf
<1>4. LedgerStatus' = [LedgerStatus EXCEPT ![i] = "held"]
  BY <1>1, <1>2, MemoryAgrees DEF LedgerStatus, StatusOf
<1> QED BY <1>3, <1>4 DEF Ledger!Accept

LEMMA AdmitDelivers == ASSUME InboxInv, Admit PROVE Ledger!Deliver
<1>1. /\ inbox' = inbox /\ delivered' = delivered \cup taken /\ queue = inbox
      /\ taken \in SUBSET Inputs /\ taken \subseteq inbox.claimed \ delivered
      /\ taken \cap inbox.returned = {}
  BY DEF InboxInv, TypeOK, TakenIsClaimed, MemoryIsInbox, OnePlace, OneplaceOf, Admit
<1>2. taken \subseteq Ledger!Held
  BY <1>1 DEF Ledger!Held, LedgerStatus
<1>3. LedgerStatus' = [i \in Inputs |-> IF i \in taken THEN "delivered" ELSE LedgerStatus[i]]
  BY <1>1 DEF LedgerStatus
<1> QED BY <1>1, <1>2, <1>3 DEF Ledger!Deliver, Ledger!Settle

(* The acknowledgement drops claims the conversation already has. *)
LEMMA AcknowledgeKeeps == ASSUME InboxInv, Acknowledge PROVE LedgerStatus' = LedgerStatus
<1>1. /\ inbox'.pending = inbox.pending /\ inbox'.claimed = inbox.claimed \ taken
      /\ inbox'.returned = inbox.returned /\ delivered' = delivered /\ taken \subseteq delivered
  BY DEF InboxInv, TypeOK, Queues, TakenIsClaimed, MemoryIsInbox, Acknowledge, Persist
<1> QED BY <1>1 DEF LedgerStatus

(* Every step accepts one input, settles some, or changes no standing. *)
LEMMA LedgerStep == InboxInv /\ [Next]_vars => [Ledger!LedgerNext]_LedgerStatus
<1> SUFFICES ASSUME InboxInv, [Next]_vars
             PROVE  Ledger!LedgerNext \/ LedgerStatus' = LedgerStatus
  OBVIOUS
<1>1. CASE StartTurn \/ StartTurnFails
  BY <1>1, SavedAsIs DEF StartTurn, StartTurnFails, Persist
<1>2. ASSUME NEW i \in Inputs, Enqueue(i) PROVE Ledger!LedgerNext
  BY <1>2, EnqueueAccepts DEF Ledger!LedgerNext
<1>3. ASSUME NEW i \in Inputs, Remove(i) PROVE Ledger!LedgerNext
  <2>1. {i} \in SUBSET queue.pending /\ GiveBack({i}) /\ delivered' = delivered
    BY <1>3 DEF Remove
  <2> QED BY <2>1, GiveBackReturns DEF Ledger!LedgerNext
<1>4. CASE TakeSteering
  <2>1. CASE Claim(Steering) /\ delivered' = delivered
    BY <2>1, ClaimKeeps DEF Steering
  <2>2. CASE Quiet
    BY <2>2, SavedAsIs DEF Quiet, durable
  <2> QED BY <1>4, <2>1, <2>2 DEF TakeSteering
<1>5. CASE NextOrClose
  <2> DEFINE next == IF Steering # {} THEN Steering ELSE Earliest
  <2>1. next \in SUBSET queue.pending /\ Claim(next) /\ delivered' = delivered
    BY <1>5 DEF NextOrClose, Steering, Earliest
  <2> HIDE DEF next
  <2> QED BY <2>1, ClaimKeeps
<1>6. CASE Close
  <2>1. CASE GiveBack(queue.pending) /\ delivered' = delivered
    BY <2>1, GiveBackReturns DEF Ledger!LedgerNext
  <2>2. CASE inbox' = inbox /\ delivered' = delivered
    BY <2>2, SavedAsIs
  <2> QED BY <1>6, <2>1, <2>2 DEF Close
<1>7. CASE Admit
  BY <1>7, AdmitDelivers DEF Ledger!LedgerNext
<1>8. CASE Acknowledge
  BY <1>8, AcknowledgeKeeps
<1>9. CASE \/ \E i \in Inputs : EnqueueFails(i) \/ RemoveFails(i)
           \/ TakeSteeringFails \/ NextOrCloseFails \/ AdmitFails \/ AcknowledgeFails \/ CloseFails
  BY <1>9, SavedAsIs
  DEF EnqueueFails, RemoveFails, TakeSteeringFails, NextOrCloseFails, AdmitFails,
      AcknowledgeFails, CloseFails, SaveFails
<1>10. CASE Cancel \/ BeginStep \/ Model \/ FinalAnswer \/ Verify \/ UNCHANGED vars
  BY <1>10, SavedAsIs DEF Cancel, BeginStep, Model, FinalAnswer, Verify, Quiet, durable, vars
<1>11. CASE Resume \/ Reconnect \/ Crash
  BY <1>11, SavedAsIs DEF Resume, Reconnect, Crash, Bind, durable
<1> QED
  BY <1>1, <1>2, <1>3, <1>4, <1>5, <1>6, <1>7, <1>8, <1>9, <1>10, <1>11
  DEF Next, Client, Worker

(* The queue, with its saves, workers and crashes, implements InputLedger: each
   accepted input is settled at most once and in one way.  *)
THEOREM LedgerRefinement == Spec => KeepsLedger
<1> QED BY LedgerInitially, LedgerStep, InboxInvariant, PTL DEF Spec, KeepsLedger, Ledger!LedgerSpec

-----------------------------------------------------------------------------
(***************************************************************************)
(* The order of input and what the client is told of it.  These results    *)
(* hold of a process in which no save fails, and some of them only while   *)
(* the session is not opened again: a claim that cannot be recorded stays  *)
(* with the worker that made it, and a recovered claim goes behind later   *)
(* input (core/input_queue.py:89).                                         *)
(***************************************************************************)
(* While no save fails: the queue is closed between turns, and what is claimed *)
(* is what the worker holds.                                                   *)
Calm ==
  /\ failures = 0
  /\ pc = "idle" => ~accepting
  /\ pc \in {"steer", "admit", "ack"} => back # "idle"
  /\ pc \in {"admit", "ack"} => queue.claimed = taken
  /\ pc \notin {"admit", "ack"} => queue.claimed = {}

(* While the session is not opened again either: a seat is the time of an      *)
(* acceptance, and no two inputs have the same.                                *)
Seated ==
  /\ reopens = 0
  /\ seat = stamp
  /\ \A i \in Inputs : stamp[i] <= last
  /\ \A i, j \in Accepted : stamp[i] = stamp[j] => i = j
  /\ pc = "idle" => queue.pending = {}

SameKind(i, j) == i \in Steer <=> j \in Steer

(* What waits was accepted after what the worker is about to deliver. *)
TakenInOrder ==
  pc = "admit" =>
    \A i \in taken, j \in queue.pending : SameKind(i, j) => stamp[i] < stamp[j]

(* The listener was there whenever something went back to the user. *)
AllTold ==
  /\ pc # "idle" => listening
  /\ queue.returned \subseteq notified
  /\ \A i \in notified : echoed[i] = 1

(* An input that was not announced since the session was opened was not echoed. *)
ToldOnce == \A i \in Inputs : echoed[i] <= 1 /\ (i \notin notified => echoed[i] = 0)

(* The steps that are left when no save fails. *)
SavingWorker ==
  \/ BeginStep \/ Model \/ FinalAnswer \/ TakeSteering \/ Verify \/ NextOrClose
  \/ Admit \/ Acknowledge \/ Close

SavingClient ==
  \/ StartTurn \/ Cancel \/ Resume \/ Reconnect
  \/ \E i \in Inputs : Enqueue(i) \/ Remove(i)

LEMMA NothingFails ==
  ASSUME MaxSaveFailures = 0, failures = 0, [Next]_vars
  PROVE  SavingWorker \/ SavingClient \/ Crash \/ UNCHANGED vars
<1>1. ~SaveFails /\ ~StartTurnFails
  BY DEF SaveFails, StartTurnFails
<1>2. ~TakeSteeringFails /\ ~NextOrCloseFails /\ ~AdmitFails /\ ~AcknowledgeFails /\ ~CloseFails
  BY <1>1 DEF TakeSteeringFails, NextOrCloseFails, AdmitFails, AcknowledgeFails, CloseFails
<1>3. ASSUME NEW i \in Inputs PROVE ~EnqueueFails(i) /\ ~RemoveFails(i)
  BY <1>1 DEF EnqueueFails, RemoveFails
<1> QED BY <1>1, <1>2, <1>3 DEF Next, Client, Worker, SavingWorker, SavingClient

LEMMA InitCalm == Init => Calm
BY DEF Init, Calm, Empty

(* What a claim and a return make of the lists. *)
LEMMA ClaimLists ==
  ASSUME TypeOK, NEW S, Claim(S)
  PROVE  /\ queue'.pending = queue.pending \ S /\ queue'.claimed = queue.claimed \cup S
         /\ queue'.returned = queue.returned
BY DEF TypeOK, Queues, Claim, Persist

LEMMA GiveBackLists ==
  ASSUME TypeOK, NEW S, GiveBack(S)
  PROVE  /\ queue'.pending = queue.pending \ S /\ queue'.claimed = queue.claimed
         /\ queue'.returned = queue.returned \cup S
BY DEF TypeOK, Queues, GiveBack, Persist

LEMMA EnqueueLists ==
  ASSUME TypeOK, NEW i \in Inputs, Enqueue(i)
  PROVE  /\ queue'.pending = queue.pending \cup {i} /\ queue'.claimed = queue.claimed
         /\ queue'.returned = queue.returned
BY DEF TypeOK, Queues, Enqueue, Persist

LEMMA AcknowledgeLists ==
  ASSUME TypeOK, Acknowledge
  PROVE  /\ queue'.pending = queue.pending /\ queue'.claimed = queue.claimed \ taken
         /\ queue'.returned = queue.returned
BY DEF TypeOK, Queues, Acknowledge, Persist

LEMMA NextCalm ==
  ASSUME MaxSaveFailures = 0, InboxInv, Calm, [Next]_vars
  PROVE  Calm'
<1>t. TypeOK /\ failures = 0
  BY DEF InboxInv, Calm
<1> USE DEF Calm
<1>1. CASE StartTurn
  BY <1>1 DEF StartTurn, Persist
<1>2. CASE Cancel \/ UNCHANGED vars
  BY <1>2 DEF Cancel, durable, turn, vars
<1>3. CASE Resume \/ Reconnect \/ Crash
  BY <1>3 DEF Resume, Reconnect, Crash, Bind
<1>4. ASSUME NEW i \in Inputs, Enqueue(i) PROVE Calm'
  BY <1>4, <1>t, EnqueueLists DEF Enqueue, Persist, turn
<1>5. ASSUME NEW i \in Inputs, Remove(i) PROVE Calm'
  BY <1>5, <1>t, GiveBackLists DEF Remove, GiveBack, Persist, turn
<1>6. CASE BeginStep
  BY <1>6 DEF BeginStep, Quiet
<1>7. CASE Model \/ Verify
  BY <1>7 DEF Model, Verify, Goto, Quiet
<1>8. CASE FinalAnswer
  BY <1>8 DEF FinalAnswer, Quiet
<1>9. CASE TakeSteering
  <2>1. CASE Claim(Steering) /\ taken' = Steering /\ pc' = "admit" /\ back' = back
    BY <1>9, <1>t, <2>1, ClaimLists DEF TakeSteering, Claim, Persist
  <2>2. CASE Goto(IF back = "model" THEN "model" ELSE "verify") /\ Quiet
    BY <1>9, <2>2 DEF TakeSteering, Goto, Quiet
  <2> QED BY <1>9, <2>1, <2>2 DEF TakeSteering
<1>10. CASE NextOrClose
  <2>1. PICK S : Claim(S) /\ taken' = S /\ pc' = IF S = {} THEN "close" ELSE "admit"
    BY <1>10 DEF NextOrClose
  <2>2. queue.claimed = {} /\ failures' = failures /\ back' = "begin"
    BY <1>10, <2>1 DEF NextOrClose, Claim, Persist
  <2>3. queue'.claimed = S
    BY <1>t, <2>1, <2>2, ClaimLists
  <2> HIDE DEF Calm
  <2> QED BY <1>t, <2>1, <2>2, <2>3 DEF Calm
<1>11. CASE Admit
  BY <1>11 DEF Admit
<1>12. CASE Acknowledge
  BY <1>12, <1>t, AcknowledgeLists DEF Acknowledge, Persist, TypeOK
<1>13. CASE Close
  <2>1. queue'.claimed = queue.claimed /\ failures' = failures
    BY <1>13, <1>t, GiveBackLists DEF Close, GiveBack, Persist
  <2> QED BY <1>13, <2>1 DEF Close
<1> QED
  BY <1>t, NothingFails, <1>1, <1>2, <1>3, <1>4, <1>5, <1>6, <1>7, <1>8, <1>9, <1>10, <1>11, <1>12, <1>13
  DEF SavingWorker, SavingClient

(* Only close() ends a turn. *)
LEMMA CloseEnds ==
  ASSUME TypeOK, Calm, SavingWorker, pc' = "idle"
  PROVE  Close
<1>1. ~BeginStep /\ ~Model /\ ~FinalAnswer /\ ~TakeSteering /\ ~Verify /\ ~NextOrClose /\ ~Admit
  BY DEF BeginStep, Model, FinalAnswer, TakeSteering, Verify, NextOrClose, Admit, Goto
<1>2. ~Acknowledge
  BY DEF Acknowledge, Calm
<1> QED BY <1>1, <1>2 DEF SavingWorker

LEMMA CalmAlways == ASSUME MaxSaveFailures = 0 PROVE Spec => [](InboxInv /\ Calm)
<1>1. InboxInv /\ Calm /\ [Next]_vars => (InboxInv /\ Calm)'
  BY NextInv, NextCalm
<1> QED BY <1>1, InitInv, InitCalm, PTL DEF Spec

(* A turn that ends while saves succeed leaves a closed queue, and every input it
   accepted has been delivered or went back to the user: whatever the user, the
   model and crashes before it did.  *)
THEOREM TurnsSettleInput == ASSUME MaxSaveFailures = 0 PROVE Spec => NoneStranded
<1> DEFINE Stays == pc # "idle" /\ pc' = "idle" /\ reopens' = reopens
                      => ~accepting' /\ Accepted \subseteq delivered' \cup queue'.returned
<1>1. InboxInv /\ Calm /\ [Next]_vars => Stays
  <2> SUFFICES ASSUME InboxInv, Calm, [Next]_vars, pc # "idle", pc' = "idle", reopens' = reopens
               PROVE  ~accepting' /\ Accepted \subseteq delivered' \cup queue'.returned
    OBVIOUS
  <2>t. TypeOK /\ failures = 0
    BY DEF InboxInv, Calm
  <2>1. Close
    <3>1. ~Resume /\ ~Reconnect /\ ~StartTurn
      BY DEF Resume, Reconnect, StartTurn
    <3>2. ~Crash
      BY <2>t DEF Crash, TypeOK
    <3>3. ~Cancel /\ pc' # pc /\ \A i \in Inputs : ~Enqueue(i) /\ ~Remove(i)
      BY DEF Cancel, Enqueue, Remove, turn
    <3> QED BY <2>t, <3>1, <3>2, <3>3, CloseEnds, NothingFails DEF SavingClient, vars, turn
  <2>2. /\ queue.claimed = {} /\ queue = inbox /\ pc = "close"
    BY <2>1 DEF Close, Calm, InboxInv, MemoryIsInbox
  <2>3. /\ queue'.returned = queue.returned \cup queue.pending /\ delivered' = delivered /\ ~accepting'
    BY <2>t, <2>1, GiveBackLists DEF Close
  <2> QED BY <2>2, <2>3 DEF InboxInv, AcceptedIsDurable
<1> HIDE DEF Stays
<1> QED BY <1>1, CalmAlways, PTL DEF Spec, NoneStranded, Stays

--------------------------------------------------------------------------------
(* The client is told.                                                         *)

LEMMA InitToldOnce == Init => ToldOnce
BY DEF Init, ToldOnce

(* One announcement: what it is new for is echoed, the rest is not. *)
LEMMA AnnouncedOnce ==
  ASSUME TypeOK, ToldOnce, NEW S \in SUBSET Inputs, Announce(S)
  PROVE  ToldOnce'
BY DEF TypeOK, ToldOnce, Announce

LEMMA NextToldOnce == InboxInv /\ ToldOnce /\ [Next]_vars => ToldOnce'
<1> SUFFICES ASSUME InboxInv, ToldOnce, [Next]_vars PROVE ToldOnce'
  OBVIOUS
<1>t. TypeOK /\ queue.returned \in SUBSET Inputs /\ queue.pending \in SUBSET Inputs
  BY DEF InboxInv, TypeOK, Queues
<1>1. CASE StartTurn
  BY <1>t, <1>1, AnnouncedOnce DEF StartTurn
<1>2. ASSUME NEW i \in Inputs, Remove(i) PROVE ToldOnce'
  BY <1>t, <1>2, AnnouncedOnce DEF Remove
<1>3. CASE Close
  <2>1. Announce(queue.pending) \/ UNCHANGED told
    BY <1>3 DEF Close
  <2> QED BY <1>t, <2>1, AnnouncedOnce DEF ToldOnce, told
<1>4. CASE Resume \/ Reconnect \/ Crash
  BY <1>4 DEF Resume, Reconnect, Crash, Bind, ToldOnce
<1>5. CASE \/ StartTurnFails \/ Cancel \/ UNCHANGED vars
           \/ \E i \in Inputs : Enqueue(i) \/ EnqueueFails(i) \/ RemoveFails(i)
  <2>1. UNCHANGED told
    BY <1>5 DEF StartTurnFails, Cancel, Enqueue, EnqueueFails, RemoveFails, SaveFails, vars
  <2> QED BY <2>1 DEF ToldOnce, told
<1>6. CASE \/ BeginStep \/ Model \/ FinalAnswer \/ TakeSteering \/ TakeSteeringFails \/ Verify
           \/ NextOrClose \/ NextOrCloseFails \/ Admit \/ AdmitFails \/ Acknowledge
           \/ AcknowledgeFails \/ CloseFails
  <2>1. UNCHANGED told
    BY <1>6 DEF BeginStep, Model, FinalAnswer, TakeSteering, TakeSteeringFails, Verify, NextOrClose,
                NextOrCloseFails, Admit, AdmitFails, Acknowledge, AcknowledgeFails, CloseFails,
                SaveFails, Quiet
  <2> QED BY <2>1 DEF ToldOnce, told
<1> QED BY <1>1, <1>2, <1>3, <1>4, <1>5, <1>6 DEF Next, Client, Worker

(* The client hears at most once that an input went back to it, since the session
   was opened: whatever fails, and whenever the process dies.  *)
THEOREM EchoesOnce == Spec => []EchoedOnce
<1>1. InboxInv /\ ToldOnce /\ [Next]_vars => (InboxInv /\ ToldOnce)'
  BY NextInv, NextToldOnce
<1>2. ToldOnce => EchoedOnce
  BY DEF ToldOnce, EchoedOnce
<1> QED BY <1>1, <1>2, InitInv, InitToldOnce, PTL DEF Spec

--------------------------------------------------------------------------------
(* A session that is not opened again.                                         *)

OrderInv == InboxInv /\ Calm /\ ToldOnce /\ Seated /\ TakenInOrder /\ AllTold

LEMMA InitOrder == Init => OrderInv
<1> SUFFICES ASSUME Init PROVE OrderInv
  OBVIOUS
<1>1. Seated
  BY DEF Init, Seated, Accepted, Empty
<1>2. TakenInOrder
  BY DEF Init, TakenInOrder
<1>3. AllTold
  BY DEF Init, AllTold, Empty
<1> QED BY <1>1, <1>2, <1>3, InitInv, InitCalm, InitToldOnce DEF OrderInv

(* The steps of such a session. *)
LEMMA NothingReopens ==
  ASSUME MaxSaveFailures = 0, MaxReopens = 0, OrderInv, [Next]_vars
  PROVE  \/ SavingWorker \/ StartTurn \/ Cancel \/ UNCHANGED vars
         \/ \E i \in Inputs : Enqueue(i) \/ Remove(i)
<1>1. failures = 0 /\ reopens = 0 /\ (pc = "idle" => ~accepting)
  BY DEF OrderInv, Calm, Seated
<1>2. ~Crash /\ ~Resume /\ ~Reconnect
  BY <1>1 DEF Crash, Resume, Reconnect
<1> QED BY <1>1, <1>2, NothingFails DEF SavingClient

LEMMA NextSeated ==
  ASSUME MaxSaveFailures = 0, MaxReopens = 0, OrderInv, [Next]_vars
  PROVE  Seated'
<1>t. TypeOK /\ Calm /\ Seated
  BY DEF OrderInv, InboxInv
<1>1. ASSUME NEW i \in Inputs, Enqueue(i) PROVE Seated'
  <2>1. /\ stamp[i] = 0 /\ last' = last + 1
        /\ stamp' = [stamp EXCEPT ![i] = last + 1] /\ seat' = [seat EXCEPT ![i] = last + 1]
        /\ pc' = pc /\ reopens' = reopens
    BY <1>1 DEF Enqueue, Admissible, turn
  <2>2. pc # "idle"
    BY <1>t, <1>1 DEF Enqueue, Admissible, Calm
  <2>3. seat' = stamp' /\ \A j \in Inputs : stamp'[j] <= last'
    BY <1>t, <2>1 DEF Seated, TypeOK
  <2>4. \A j, k \in Accepted' : stamp'[j] = stamp'[k] => j = k
    BY <1>t, <2>1 DEF Seated, TypeOK, Accepted
  <2> QED BY <1>t, <2>1, <2>2, <2>3, <2>4 DEF Seated
<1>2. CASE UNCHANGED order /\ reopens' = reopens /\ (pc' = "idle" => queue'.pending = {})
  BY <1>t, <1>2 DEF Seated, order, Accepted
<1>3. CASE StartTurn \/ Cancel \/ UNCHANGED vars
  BY <1>t, <1>2, <1>3 DEF StartTurn, Cancel, vars, turn, Seated
<1>4. ASSUME NEW i \in Inputs, Remove(i) PROVE Seated'
  <2>1. pc # "idle"
    BY <1>t, <1>4 DEF Remove, Seated
  <2> QED BY <1>2, <1>4, <2>1 DEF Remove, turn
<1>5. CASE SavingWorker
  <2>1. UNCHANGED order /\ reopens' = reopens
    BY <1>5 DEF SavingWorker, BeginStep, Model, FinalAnswer, TakeSteering, Verify, NextOrClose, Admit,
                Acknowledge, Close, Quiet
  <2>2. Close => queue'.pending = {}
    BY <1>t, GiveBackLists DEF Close
  <2> QED BY <1>t, <1>2, <1>5, <2>1, <2>2, CloseEnds
<1> QED BY <1>1, <1>3, <1>4, <1>5, NothingReopens

(* A claim takes all steering, or the follow-up that waits longest. *)
LEMMA ClaimInOrder ==
  ASSUME TypeOK, Seated, NEW i \in Inputs, NEW j \in queue.pending, j \in Inputs, SameKind(i, j),
         \/ i \in Steering /\ j \notin Steering
         \/ Steering = {} /\ i \in Earliest /\ j \notin Earliest
  PROVE  stamp[i] < stamp[j]
<1>1. CASE i \in Steering /\ j \notin Steering
  BY <1>1 DEF Steering, SameKind
<1>2. CASE Steering = {} /\ i \in Earliest /\ j \notin Earliest
  <2>1. PICK k \in queue.pending : ~(seat[j] <= seat[k])
    BY <1>2 DEF Earliest
  <2>2. seat[i] <= seat[k] /\ k \in Inputs
    BY <1>2, <2>1 DEF Earliest, TypeOK, Queues
  <2> QED BY <2>1, <2>2 DEF TypeOK, Seated
<1> QED BY <1>1, <1>2

LEMMA NextTakenInOrder ==
  ASSUME MaxSaveFailures = 0, MaxReopens = 0, OrderInv, [Next]_vars
  PROVE  TakenInOrder'
<1>t. /\ TypeOK /\ Calm /\ Seated /\ TakenInOrder /\ OnlyAccepted(queue)
      /\ queue.pending \subseteq Inputs
  BY DEF OrderInv, InboxInv, TypeOK, Queues
<1>1. ASSUME NEW e \in Inputs, Enqueue(e) PROVE TakenInOrder'
  <2>1. /\ stamp[e] = 0 /\ stamp' = [stamp EXCEPT ![e] = last + 1] /\ pc' = pc /\ taken' = taken
        /\ queue'.pending = queue.pending \cup {e}
    BY <1>t, <1>1, EnqueueLists DEF Enqueue, Admissible, turn
  <2> SUFFICES ASSUME pc = "admit", NEW i \in taken, NEW j \in queue.pending \cup {e}, SameKind(i, j)
               PROVE  stamp'[i] < stamp'[j]
    BY <2>1 DEF TakenInOrder, SameKind
  <2>2. i \in Accepted
    BY <1>t DEF Calm, OnlyAccepted
  <2>3. i \in Inputs /\ i # e /\ stamp'[i] = stamp[i] /\ stamp[i] <= last
    BY <1>t, <2>1, <2>2 DEF Accepted, TypeOK, Seated
  <2>4. CASE j = e
    BY <1>t, <2>1, <2>3, <2>4 DEF TypeOK
  <2>5. CASE j # e
    BY <1>t, <2>1, <2>3, <2>5 DEF TakenInOrder, TypeOK
  <2> QED BY <2>4, <2>5
<1>2. CASE pc' # "admit"
  BY <1>2 DEF TakenInOrder
<1>3. CASE UNCHANGED <<pc, taken, stamp>> /\ queue'.pending \subseteq queue.pending
  BY <1>t, <1>3 DEF TakenInOrder, SameKind
<1>4. CASE StartTurn \/ Cancel \/ UNCHANGED vars
  BY <1>2, <1>3, <1>4 DEF StartTurn, Cancel, vars, turn, order
<1>5. ASSUME NEW i \in Inputs, Remove(i) PROVE TakenInOrder'
  BY <1>t, <1>3, <1>5, GiveBackLists DEF Remove, turn, order
<1>6. CASE TakeSteering
  <2>1. CASE Claim(Steering) /\ taken' = Steering /\ stamp' = stamp
    <3>1. queue'.pending = queue.pending \ Steering
      BY <1>t, <2>1, ClaimLists
    <3> QED BY <1>t, <2>1, <3>1, ClaimInOrder DEF TakenInOrder, SameKind, Steering
  <2>2. CASE pc' \in {"model", "verify"}
    BY <1>2, <2>2
  <2> QED BY <1>6, <2>1, <2>2 DEF TakeSteering, order, Goto
<1>7. CASE NextOrClose
  <2> DEFINE next == IF Steering # {} THEN Steering ELSE Earliest
  <2>1. Claim(next) /\ taken' = next /\ stamp' = stamp
    BY <1>7 DEF NextOrClose, order
  <2>2. next \subseteq Inputs
    BY <1>t DEF Steering, Earliest
  <2>3. queue'.pending = queue.pending \ next
    BY <1>t, <2>1, ClaimLists
  <2>4. ASSUME NEW i \in next, NEW j \in queue.pending \ next, SameKind(i, j)
        PROVE  stamp[i] < stamp[j]
    BY <1>t, <2>2, <2>4, ClaimInOrder
  <2> HIDE DEF next
  <2> QED BY <2>1, <2>3, <2>4 DEF TakenInOrder, SameKind
<1>8. CASE BeginStep \/ Model \/ FinalAnswer \/ Verify \/ Admit \/ Acknowledge \/ Close
  <2>1. pc' # "admit"
    BY <1>t, <1>8 DEF BeginStep, Model, FinalAnswer, Verify, Admit, Acknowledge, Close, Goto, TypeOK
  <2> QED BY <1>2, <2>1
<1> QED BY <1>1, <1>4, <1>5, <1>6, <1>7, <1>8, NothingReopens DEF SavingWorker

LEMMA AnnouncedAll ==
  ASSUME TypeOK, ToldOnce, AllTold, NEW S \in SUBSET Inputs, Announce(S), listening' = TRUE
  PROVE  notified' = notified \cup S /\ \A i \in notified' : echoed'[i] = 1
BY DEF TypeOK, ToldOnce, AllTold, Announce

LEMMA NextAllTold ==
  ASSUME MaxSaveFailures = 0, MaxReopens = 0, OrderInv, [Next]_vars
  PROVE  AllTold'
<1>t. /\ TypeOK /\ Calm /\ Seated /\ ToldOnce /\ AllTold
      /\ queue.pending \in SUBSET Inputs /\ queue.returned \in SUBSET Inputs
  BY DEF OrderInv, InboxInv, TypeOK, Queues
<1>1. CASE StartTurn
  BY <1>t, <1>1, AnnouncedAll DEF StartTurn, Persist, AllTold
<1>2. ASSUME NEW i \in Inputs, Remove(i) PROVE AllTold'
  <2>1. pc # "idle" /\ listening
    BY <1>t, <1>2 DEF Remove, Seated, AllTold
  <2>2. queue'.returned = queue.returned \cup {i} /\ listening' = listening
    BY <1>t, <1>2, GiveBackLists DEF Remove
  <2> QED BY <1>t, <1>2, <2>1, <2>2, AnnouncedAll DEF Remove, AllTold
<1>3. CASE Close
  <2>1. pc = "close" /\ pc' = "idle" /\ listening
    BY <1>t, <1>3 DEF Close, AllTold
  <2>2. CASE accepting \/ queue.pending # {}
    <3>1. queue'.returned = queue.returned \cup queue.pending /\ Announce(queue.pending) /\ listening'
      BY <1>t, <1>3, <2>1, <2>2, GiveBackLists DEF Close, TypeOK
    <3> QED BY <1>t, <2>1, <3>1, AnnouncedAll DEF AllTold, TypeOK
  <2>3. CASE UNCHANGED <<queue, told>>
    BY <1>t, <2>1, <2>3 DEF AllTold, told
  <2> QED BY <1>3, <2>2, <2>3 DEF Close
<1>4. ASSUME UNCHANGED told, queue'.returned = queue.returned, pc = "idle" => pc' = "idle"
      PROVE  AllTold'
  BY <1>t, <1>4 DEF AllTold, told
<1>5. ASSUME NEW i \in Inputs, Enqueue(i) PROVE AllTold'
  BY <1>t, <1>4, <1>5, EnqueueLists DEF Enqueue, turn
<1>6. CASE Cancel \/ UNCHANGED vars
  BY <1>4, <1>6 DEF Cancel, vars, turn
<1>7. CASE BeginStep \/ Model \/ FinalAnswer \/ TakeSteering \/ Verify \/ NextOrClose \/ Admit \/ Acknowledge
  <2>1. UNCHANGED told /\ pc # "idle"
    BY <1>7 DEF BeginStep, Model, FinalAnswer, TakeSteering, Verify, NextOrClose, Admit, Acknowledge, Quiet
  <2>2. queue'.returned = queue.returned
    BY <1>t, <1>7, ClaimLists, AcknowledgeLists
    DEF BeginStep, Model, FinalAnswer, TakeSteering, Verify, NextOrClose, Admit, Quiet
  <2> QED BY <1>4, <2>1, <2>2
<1> QED BY <1>1, <1>2, <1>3, <1>5, <1>6, <1>7, NothingReopens DEF SavingWorker

LEMMA OrderAlways ==
  ASSUME MaxSaveFailures = 0, MaxReopens = 0
  PROVE  Spec => []OrderInv
<1>1. OrderInv /\ [Next]_vars => OrderInv'
  BY NextInv, NextCalm, NextToldOnce, NextSeated, NextTakenInOrder, NextAllTold DEF OrderInv
<1> QED BY <1>1, InitOrder, PTL DEF Spec

(* While a turn runs the client has been told, once, of every input that went
   back to it, as long as saves succeed and the session is not opened again: an
   input that is taken back right after that is announced to nobody.  *)
THEOREM ClientTold ==
  ASSUME MaxSaveFailures = 0, MaxReopens = 0
  PROVE  Spec => []ClientIsTold
<1>1. OrderInv => ClientIsTold
  <2> SUFFICES ASSUME OrderInv PROVE EchoedOnce /\ ReturnedIsEchoed
    BY DEF ClientIsTold
  <2>1. EchoedOnce
    BY DEF OrderInv, ToldOnce, EchoedOnce
  <2>2. ReturnedIsEchoed
    BY DEF OrderInv, AllTold, ReturnedIsEchoed
  <2> QED BY <2>1, <2>2
<1> QED BY <1>1, OrderAlways, PTL

(* Input of one kind is delivered in the order in which it was accepted, of any
   inputs, however turns, claims and withdrawals lie between.  *)
THEOREM OrderSafe ==
  ASSUME MaxSaveFailures = 0, MaxReopens = 0
  PROVE  Spec => KindsInOrder
<1>1. OrderInv /\ [Next]_vars => InOrder(Steer) /\ InOrder(Inputs \ Steer)
  <2> SUFFICES ASSUME OrderInv, [Next]_vars,
                      NEW i \in delivered' \ delivered, NEW j \in Accepted, SameKind(i, j),
                      stamp[j] < stamp[i]
               PROVE  j \in delivered' \cup queue.returned
    BY DEF InOrder, SameKind, Accepted
  <2>t. TypeOK /\ Calm /\ Seated /\ TakenInOrder
    BY DEF OrderInv, InboxInv
  <2>1. Admit
    BY NothingReopens
    DEF SavingWorker, StartTurn, Cancel, Enqueue, Remove, BeginStep, Model, FinalAnswer, TakeSteering,
        Verify, NextOrClose, Acknowledge, Close, Quiet, durable, vars
  <2>2. pc = "admit" /\ delivered' = delivered \cup taken /\ queue = inbox /\ queue.claimed = taken
    BY <2>1 DEF Admit, OrderInv, InboxInv, MemoryIsInbox, Calm
  <2>3. j \notin queue.pending
    BY <2>t, <2>2 DEF TakenInOrder, SameKind, Accepted, TypeOK
  <2> QED BY <2>2, <2>3 DEF OrderInv, InboxInv, AcceptedIsDurable
<1> QED BY <1>1, OrderAlways, PTL DEF Spec, KindsInOrder
================================================================================
