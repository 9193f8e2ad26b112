-------------------------- MODULE ModelRequestsProofs --------------------------
(***************************************************************************)
(* Proofs about the budget that the scopes of a task share: for any number *)
(* of sub-agents, any limits and any prices.  The assumptions about the    *)
(* constants stand in the theorems.                                        *)
(***************************************************************************)
EXTENDS ModelRequests, TLAPS

(* With a limit a request that is sent holds the lock, and whoever holds the   *)
(* lock was admitted with room for what his request is projected to cost.      *)
Alone == Priced => \A s \in Scopes : pc[s] = "sent" => holder = s
Room  == Priced /\ holder # Nobody => ~unmetered /\ billed + Projected <= limit

BudgetInv == TypeOK /\ Alone /\ Room /\ WithinLimit /\ Accounted

--------------------------------------------------------------------------------
(* What becomes of the money is decided by Record, which every attempt ends    *)
(* in: the request that is accounted for leaves the lock, nobody else is sent, *)
(* and its cost is at most what was open.                                      *)
LEMMA RecordKeeps ==
  ASSUME ScopesAssumption, AmountsAssumption, BudgetInv,
         NEW s \in Scopes, pc[s] = "sent",
         NEW cost \in 0..MaxCost, NEW known \in 0..cost, NEW metered \in BOOLEAN,
         metered => known = cost, Record(s, cost, known, metered), limit' = limit,
         \A t \in Scopes \ {s} : pc'[t] = pc[t], pc'[s] # "sent"
  PROVE  /\ spent' \in Nat /\ billed' \in Nat /\ unmetered' \in BOOLEAN
         /\ holder' \in Scopes \cup {Nobody}
         /\ Alone' /\ Room' /\ WithinLimit' /\ Accounted'
<1>1. /\ spent \in Nat /\ billed \in Nat /\ limit \in Nat /\ unmetered \in BOOLEAN
      /\ holder \in Scopes \cup {Nobody} /\ cost \in Nat /\ known \in Nat /\ cost <= MaxCost
      /\ MaxCost \in Nat /\ Projected \in Nat /\ Projected <= MaxCost
  BY DEF BudgetInv, TypeOK, AmountsAssumption
<1>2. /\ spent' = spent + known /\ billed' = billed + cost
      /\ unmetered' = (unmetered \/ ~metered)
      /\ holder' = IF holder = s THEN Nobody ELSE holder
  BY DEF Record, Charge
<1>3. /\ spent' \in Nat /\ billed' \in Nat /\ unmetered' \in BOOLEAN
      /\ holder' \in Scopes \cup {Nobody}
  BY <1>1, <1>2
<1>4. Priced => holder = s /\ holder' = Nobody
  BY <1>2 DEF BudgetInv, Alone
<1>5. Priced' <=> Priced
  BY DEF Priced
<1>6. Alone'
  BY <1>4, <1>5 DEF BudgetInv, Alone
<1>7. Room'
  BY <1>4, <1>5 DEF Room
<1>8. WithinLimit'
  <2>1. CASE Priced
    <3>1. billed + Projected <= limit
      BY <1>4, <2>1 DEF BudgetInv, Room, ScopesAssumption
    <3>2. billed + cost <= limit + (MaxCost - Projected)
      BY <3>1, <1>1
    <3> QED
      BY <3>2, <1>2 DEF WithinLimit
  <2> QED
    BY <2>1, <1>5 DEF WithinLimit
<1>9. Accounted'
  BY <1>1, <1>2 DEF BudgetInv, Accounted
<1> QED
  BY <1>3, <1>6, <1>7, <1>8, <1>9

(* The ways a request goes on, or is over.                                     *)
LEMMA DoneIsTyped ==
  ASSUME AmountsAssumption, TypeOK, NEW s \in Scopes, Done(s)
  PROVE  /\ pc' \in [Scopes -> {"idle", "gate", "sent", "backoff"}]
         /\ kind' \in [Scopes -> {"next", "stream"}] /\ attempt' \in [Scopes -> 0..Retries]
         /\ onFallback' \in [Scopes -> BOOLEAN] /\ started' \in [Scopes -> BOOLEAN]
         /\ pc'[s] # "sent" /\ \A t \in Scopes \ {s} : pc'[t] = pc[t]
BY DEF Done, TypeOK, AmountsAssumption

LEMMA AgainIsTyped ==
  ASSUME AmountsAssumption, TypeOK, NEW s \in Scopes, Again(s)
  PROVE  /\ pc' \in [Scopes -> {"idle", "gate", "sent", "backoff"}]
         /\ kind' \in [Scopes -> {"next", "stream"}] /\ attempt' \in [Scopes -> 0..Retries]
         /\ onFallback' \in [Scopes -> BOOLEAN] /\ started' \in [Scopes -> BOOLEAN]
         /\ pc'[s] # "sent" /\ \A t \in Scopes \ {s} : pc'[t] = pc[t]
<1>1. CASE attempt[s] < Retries
  BY <1>1 DEF Again, TypeOK, AmountsAssumption
<1>2. CASE ~(attempt[s] < Retries)
  BY <1>2, DoneIsTyped DEF Again
<1> QED
  BY <1>1, <1>2

(* Each of the five ends of an attempt.                                        *)
LEMMA AttemptKeeps ==
  ASSUME ScopesAssumption, AmountsAssumption, BudgetInv, NEW s \in Scopes,
         Answer(s) \/ Rejected(s) \/ Overloaded(s) \/ Fails(s) \/ Breaks(s)
  PROVE  BudgetInv'
<1>1. TypeOK /\ MaxCost \in Nat
  BY DEF BudgetInv, AmountsAssumption
<1>2. pc[s] = "sent" /\ UNCHANGED <<limit, cancelled, bounds, requests, own>>
  BY DEF Answer, Rejected, Overloaded, Fails, Breaks, Record
<1>3. \E cost \in 0..MaxCost, metered \in BOOLEAN : \E known \in 0..cost :
        (metered => known = cost) /\ Record(s, cost, known, metered)
  <2>1. CASE Answer(s)
    <3>1. PICK cost \in 0..MaxCost, metered \in BOOLEAN :
            Record(s, cost, IF metered THEN cost ELSE 0, metered)
      BY <2>1 DEF Answer
    <3>2. (IF metered THEN cost ELSE 0) \in 0..cost
      BY <1>1
    <3> QED
      BY <3>1, <3>2
  <2>2. CASE Rejected(s) \/ Overloaded(s)
    <3>1. Record(s, 0, 0, TRUE)
      BY <2>2 DEF Rejected, Overloaded
    <3>2. 0 \in 0..MaxCost /\ 0 \in 0..0
      BY <1>1
    <3> QED
      BY <3>1, <3>2
  <2>3. CASE Fails(s)
    <3>1. PICK cost \in 0..MaxCost : Record(s, cost, 0, FALSE)
      BY <2>3 DEF Fails
    <3>2. 0 \in 0..cost
      BY <1>1
    <3> QED
      BY <3>1, <3>2
  <2>4. CASE Breaks(s)
    BY <2>4 DEF Breaks
  <2> QED
    BY <2>1, <2>2, <2>3, <2>4
<1>4. /\ pc' \in [Scopes -> {"idle", "gate", "sent", "backoff"}]
      /\ kind' \in [Scopes -> {"next", "stream"}] /\ attempt' \in [Scopes -> 0..Retries]
      /\ onFallback' \in [Scopes -> BOOLEAN] /\ started' \in [Scopes -> BOOLEAN]
      /\ pc'[s] # "sent" /\ \A t \in Scopes \ {s} : pc'[t] = pc[t]
  <2>1. CASE Done(s)
    BY <1>1, <2>1, DoneIsTyped
  <2>2. CASE Again(s)
    BY <1>1, <2>2, AgainIsTyped
  <2>3. CASE /\ pc' = [pc EXCEPT ![s] = "gate"] /\ attempt' = [attempt EXCEPT ![s] = 0]
             /\ onFallback' = [onFallback EXCEPT ![s] = TRUE] /\ UNCHANGED <<kind, started>>
    BY <1>1, <2>3 DEF TypeOK, AmountsAssumption
  <2> QED
    BY <2>1, <2>2, <2>3 DEF Answer, Rejected, Overloaded, Fails, Breaks
<1>5. PICK cost \in 0..MaxCost, metered \in BOOLEAN : \E known \in 0..cost :
        (metered => known = cost) /\ Record(s, cost, known, metered)
  BY <1>3
<1>6. PICK known \in 0..cost : (metered => known = cost) /\ Record(s, cost, known, metered)
  BY <1>5
<1>7. /\ spent' \in Nat /\ billed' \in Nat /\ unmetered' \in BOOLEAN
      /\ holder' \in Scopes \cup {Nobody}
      /\ Alone' /\ Room' /\ WithinLimit' /\ Accounted'
  BY <1>2, <1>4, <1>6, RecordKeeps
<1>8. TypeOK'
  BY <1>1, <1>2, <1>4, <1>7 DEF TypeOK, bounds
<1> QED
  BY <1>7, <1>8 DEF BudgetInv

(* A request is admitted while nobody holds the lock, and only when there is   *)
(* room for it.                                                                *)
LEMMA AdmitKeeps ==
  ASSUME ScopesAssumption, AmountsAssumption, BudgetInv, NEW s \in Scopes, Admit(s)
  PROVE  BudgetInv'
<1>1. /\ TypeOK /\ ~Refused(s) /\ holder = Nobody /\ pc' = [pc EXCEPT ![s] = "sent"]
      /\ UNCHANGED <<limit, spent, unmetered, cancelled, kind, attempt, onFallback, started,
                     bounds, billed>>
  BY DEF Admit, BudgetInv
<1>2. Priced' <=> Priced
  BY <1>1 DEF Priced
<1>3. requests' \in 0..MaxRequests /\ own' \in [Children -> 0..ChildLimit]
  BY DEF Admit, BudgetInv, TypeOK, Refused, AmountsAssumption, Scopes
<1>4. holder' = IF Priced THEN s ELSE holder
  BY DEF Admit, Hold
<1>5. TypeOK'
  BY <1>1, <1>3, <1>4 DEF TypeOK, bounds
<1>6. Alone'
  <2>1. ASSUME Priced, NEW t \in Scopes, pc'[t] = "sent"
        PROVE  t = s
    <3>1. CASE t # s
      <4>1. pc[t] = "sent"
        BY <2>1, <3>1, <1>1 DEF TypeOK
      <4>2. t = Nobody
        BY <2>1, <4>1, <1>1 DEF BudgetInv, Alone
      <4> QED
        BY <4>2 DEF ScopesAssumption
    <3> QED
      BY <3>1
  <2> QED
    BY <2>1, <1>2, <1>4 DEF Alone
<1>7. Room'
  <2>1. CASE Priced
    <3>1. ~unmetered /\ ~(spent + Projected > limit)
      BY <1>1, <2>1 DEF Refused
    <3>2. spent = billed /\ billed \in Nat /\ limit \in Nat /\ Projected \in Nat
      BY <3>1 DEF BudgetInv, Accounted, TypeOK, AmountsAssumption
    <3>3. billed + Projected <= limit
      BY <3>1, <3>2
    <3> QED
      BY <3>1, <3>3, <1>1 DEF Room
  <2> QED
    BY <2>1, <1>2 DEF Room
<1>8. WithinLimit' /\ Accounted'
  BY <1>1, <1>2 DEF BudgetInv, WithinLimit, Accounted
<1> QED
  BY <1>5, <1>6, <1>7, <1>8 DEF BudgetInv

(* The other steps leave the money and the lock alone, and send nothing.       *)
LEMMA QuietKeeps ==
  ASSUME ScopesAssumption, AmountsAssumption, BudgetInv, TypeOK',
         UNCHANGED <<limit, spent, unmetered, holder, billed>>,
         \A s \in Scopes : pc'[s] = "sent" => pc[s] = "sent"
  PROVE  BudgetInv'
BY DEF BudgetInv, Alone, Room, WithinLimit, Accounted, Priced

LEMMA InvariantStep ==
  ASSUME ScopesAssumption, AmountsAssumption, BudgetInv, [Next]_vars
  PROVE  BudgetInv'
<1>1. TypeOK /\ Main \in Scopes
  BY DEF BudgetInv, Scopes
<1>2. ASSUME NEW s \in Scopes, Admit(s) PROVE BudgetInv'
  BY <1>2, AdmitKeeps
<1>3. ASSUME NEW s \in Scopes,
             Answer(s) \/ Rejected(s) \/ Overloaded(s) \/ Fails(s) \/ Breaks(s)
      PROVE BudgetInv'
  BY <1>3, AttemptKeeps
<1>4. ASSUME NEW s \in Scopes, Refuse(s) \/ Stop(s) PROVE BudgetInv'
  <2>1. Done(s) /\ UNCHANGED <<limit, budget, cancelled, bounds, billed>>
    BY <1>4 DEF Refuse, Stop
  <2>2. TypeOK'
    BY <1>1, <2>1, DoneIsTyped DEF TypeOK, budget, bounds
  <2> QED
    BY <1>1, <2>1, <2>2, DoneIsTyped, QuietKeeps DEF budget
<1>5. ASSUME NEW s \in Scopes, Backoff(s) PROVE BudgetInv'
  <2>1. TypeOK'
    BY <1>1, <1>5 DEF Backoff, TypeOK, budget, bounds
  <2>2. \A t \in Scopes : pc'[t] = "sent" => pc[t] = "sent"
    BY <1>1, <1>5 DEF Backoff, TypeOK
  <2> QED
    BY <1>5, <2>1, <2>2, QuietKeeps DEF Backoff, budget
<1>6. ASSUME NEW s \in Scopes, Ask(s) PROVE BudgetInv'
  <2>1. TypeOK'
    BY <1>1, <1>6 DEF Ask, TypeOK, budget, AmountsAssumption
  <2>2. \A t \in Scopes : pc'[t] = "sent" => pc[t] = "sent"
    BY <1>1, <1>6 DEF Ask, TypeOK
  <2> QED
    BY <1>6, <2>1, <2>2, QuietKeeps DEF Ask, budget
<1>7. ASSUME NEW s \in Scopes, Begins(s) PROVE BudgetInv'
  <2>1. TypeOK'
    BY <1>1, <1>7 DEF Begins, TypeOK, budget, bounds
  <2> QED
    BY <1>7, <2>1, QuietKeeps DEF Begins, budget
<1>8. CASE Cancel
  <2>1. TypeOK'
    BY <1>1, <1>8 DEF Cancel, TypeOK, budget, bounds, sending
  <2> QED
    BY <1>8, <2>1, QuietKeeps DEF Cancel, budget, sending
<1>9. CASE NewTurn
  <2>1. requests' \in 0..MaxRequests /\ own' \in [Children -> 0..ChildLimit]
    BY <1>9 DEF NewTurn, AmountsAssumption
  <2>2. turns' \in 1..MaxTurns /\ cancelled' = FALSE
    <3>1. turns < MaxTurns /\ turns' = turns + 1 /\ cancelled' = FALSE
      BY <1>9 DEF NewTurn
    <3>2. turns \in 1..MaxTurns /\ MaxTurns \in Nat
      BY <1>1 DEF TypeOK, AmountsAssumption
    <3> QED
      BY <3>1, <3>2
  <2>3. TypeOK'
    BY <1>1, <1>9, <2>1, <2>2 DEF NewTurn, TypeOK, sending
  <2> QED
    BY <1>9, <2>3, QuietKeeps DEF NewTurn, sending
<1>10. CASE UNCHANGED vars
  <2>1. TypeOK'
    BY <1>1, <1>10 DEF vars, TypeOK, budget, bounds, sending
  <2> QED
    BY <1>10, <2>1, QuietKeeps DEF vars, budget, sending
<1> QED
  BY <1>2, <1>3, <1>4, <1>5, <1>6, <1>7, <1>8, <1>9, <1>10 DEF Next, Step

LEMMA InvariantInit ==
  ASSUME ScopesAssumption, AmountsAssumption, Init
  PROVE  BudgetInv
<1>1. TypeOK
  <2>1. /\ limit \in Limits /\ spent \in Nat /\ billed \in Nat
        /\ unmetered \in BOOLEAN /\ cancelled \in BOOLEAN /\ holder \in Scopes \cup {Nobody}
    BY DEF Init
  <2>2. /\ requests \in 0..MaxRequests /\ asks \in 0..MaxAsks /\ turns \in 1..MaxTurns
        /\ own \in [Children -> 0..ChildLimit] /\ attempt \in [Scopes -> 0..Retries]
    BY DEF Init, AmountsAssumption
  <2>3. /\ pc \in [Scopes -> {"idle", "gate", "sent", "backoff"}]
        /\ kind \in [Scopes -> {"next", "stream"}]
        /\ onFallback \in [Scopes -> BOOLEAN] /\ started \in [Scopes -> BOOLEAN]
    BY DEF Init
  <2> QED
    BY <2>1, <2>2, <2>3 DEF TypeOK
<1>2. Alone
  BY DEF Init, Alone
<1>3. Room
  BY DEF Init, Room
<1>4. Accounted
  BY DEF Init, Accounted
<1>5. WithinLimit
  BY DEF Init, WithinLimit, AmountsAssumption
<1> QED
  BY <1>1, <1>2, <1>3, <1>4, <1>5 DEF BudgetInv

(* For any sub-agents, limits and prices: what is really billed exceeds the    *)
(* price limit by no more than the error of one projection, and as long as all *)
(* was metered the tracker holds what was billed (execution/runtime.py         *)
(* RequestBudget, execution/model_requests.py).                                *)
THEOREM BudgetHolds ==
  ASSUME ScopesAssumption, AmountsAssumption
  PROVE  Spec => []BudgetSafe
<1>1. Init => BudgetInv
  BY InvariantInit
<1>2. BudgetInv /\ [Next]_vars => BudgetInv'
  BY InvariantStep
<1>3. BudgetInv => BudgetSafe
  BY DEF BudgetInv, BudgetSafe
<1> QED
  BY <1>1, <1>2, <1>3, PTL DEF Spec

--------------------------------------------------------------------------------
(* A scope whose answer has begun to come is not sent again: only its own      *)
(* steps move it, and a stream that breaks is over.                            *)
LEMMA ContinuedStep ==
  ASSUME ScopesAssumption, AmountsAssumption, TypeOK, [Next]_vars
  PROVE  Continued
<1> SUFFICES ASSUME NEW s \in Scopes, started[s], pc[s] = "sent"
             PROVE  pc'[s] \in {"sent", "idle"}
  BY DEF Continued
<1>1. ASSUME NEW t \in Scopes, t # s, Ask(t) \/ Step(t) \/ Begins(t) PROVE pc'[s] = pc[s]
  <2>1. Done(t) => pc'[s] = pc[s]
    BY <1>1 DEF Done, TypeOK
  <2>2. Again(t) => pc'[s] = pc[s]
    BY <1>1, <2>1 DEF Again, TypeOK
  <2> QED
    BY <1>1, <2>1, <2>2
       DEF Step, Ask, Begins, Admit, Refuse, Stop, Backoff, Answer, Rejected, Overloaded, Fails,
           Breaks, TypeOK
<1>2. ASSUME Ask(s) \/ Step(s) \/ Begins(s) PROVE pc'[s] \in {"sent", "idle"}
  <2>1. Done(s) => pc'[s] = "idle"
    BY DEF Done, TypeOK
  <2>2. (Answer(s) \/ Breaks(s)) \/ Begins(s)
    BY <1>2 DEF Step, Ask, Begins, Admit, Refuse, Stop, Backoff, Rejected, Overloaded, Fails
  <2> QED
    BY <2>1, <2>2 DEF Answer, Breaks, Begins
<1>3. CASE Cancel \/ NewTurn \/ UNCHANGED vars
  BY <1>3 DEF Cancel, NewTurn, vars, sending
<1> QED
  BY <1>1, <1>2, <1>3 DEF Next

(* For any sub-agents: an answer of which a part was passed on is never asked  *)
(* for again (llm/anthropic_adapter.py).                                       *)
THEOREM NothingReplayed ==
  ASSUME ScopesAssumption, AmountsAssumption
  PROVE  Spec => NoReplay
<1>1. Init => BudgetInv
  BY InvariantInit
<1>2. BudgetInv /\ [Next]_vars => BudgetInv'
  BY InvariantStep
<1>3. BudgetInv /\ [Next]_vars => [Continued]_vars
  BY ContinuedStep DEF BudgetInv
<1> QED
  BY <1>1, <1>2, <1>3, PTL DEF Spec, NoReplay
================================================================================
