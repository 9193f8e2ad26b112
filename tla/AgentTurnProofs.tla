---------------------------- MODULE AgentTurnProofs ----------------------------
(***************************************************************************)
(* That every turn of the agent is safe (AgentTurn), for any tools,        *)
(* batches and limits.  It rests on what the messages since the last       *)
(* response look like at each place of the loop, and on how requests are   *)
(* counted against steps and compactions.                                  *)
(***************************************************************************)
EXTENDS AgentTurn, SequenceTheorems, FiniteSetTheorems, WellFoundedInduction, TLAPS

Roles == {"user", "assistant", "progress", "nudge", "call", "result", "retry"}

(* Messages that are neither calls nor results.                                *)
Plain(s) == s \in Seq(Roles) /\ \A i \in DOMAIN s : s[i] \notin {"call", "result"}

(* As many results as calls, and nothing between a call and what follows it.   *)
Whole(s) ==
  /\ s \in Seq(Roles)
  /\ Count("call", s) = Count("result", s)
  /\ \A i \in DOMAIN s : s[i] = "call" => i < Len(s) /\ s[i + 1] \in {"call", "result"}

(* But for the record of a retry, the last message is one to answer.           *)
Asks(s) ==
  \E i \in DOMAIN s : /\ s[i] \in {"user", "nudge", "result"}
                      /\ \A j \in DOMAIN s : j > i => s[j] = "retry"

--------------------------------------------------------------------------------
(* Sequences of messages.                                                      *)

(* The least number of a set.                                                  *)
LEMMA Smallest ==
  ASSUME NEW T, T \subseteq Nat, T # {}
  PROVE  \E k \in T : \A j \in T : k <= j
<1>1. IsWellFoundedOn(OpToRel(<, Nat), Nat)
  BY NatLessThanWellFounded
<1>2. PICK k \in T : \A j \in T : <<j, k>> \notin OpToRel(<, Nat)
  BY <1>1, WFMin
<1>3. ASSUME NEW j \in T PROVE k <= j
  <2>1. <<j, k>> \notin {ss \in Nat \X Nat : ss[1] < ss[2]}
    BY <1>2 DEF OpToRel
  <2>2. <<j, k>> \in Nat \X Nat
    OBVIOUS
  <2>3. ~ (<<j, k>>[1] < <<j, k>>[2])
    BY <2>1, <2>2
  <2> QED BY <2>3
<1> QED BY <1>3

(* Plain messages after whole ones.                                            *)
LEMMA WholeMore ==
  ASSUME NEW s, NEW t, Whole(s), Plain(t)
  PROVE  Whole(s \o t)
<1>1. s \in Seq(Roles) /\ t \in Seq(Roles) /\ s \o t \in Seq(Roles)
      /\ DOMAIN s = 1..Len(s) /\ DOMAIN t = 1..Len(t)
      /\ DOMAIN (s \o t) = 1..(Len(s) + Len(t)) /\ Len(s \o t) = Len(s) + Len(t)
  BY DEF Whole, Plain
<1>2. /\ \A i \in 1..Len(s) : (s \o t)[i] = s[i]
      /\ \A i \in (Len(s) + 1)..(Len(s) + Len(t)) : (s \o t)[i] = t[i - Len(s)]
  BY <1>1
<1>3. \A i \in (Len(s) + 1)..(Len(s) + Len(t)) : (s \o t)[i] \notin {"call", "result"}
  <2> TAKE i \in (Len(s) + 1)..(Len(s) + Len(t))
  <2>1. i - Len(s) \in 1..Len(t)
    BY <1>1
  <2> QED BY <1>1, <1>2, <2>1 DEF Plain
<1>4. ASSUME NEW m \in {"call", "result"}
      PROVE  Count(m, s \o t) = Count(m, s)
  <2>1. {i \in DOMAIN (s \o t) : (s \o t)[i] = m} = {i \in DOMAIN s : s[i] = m}
    BY <1>1, <1>2, <1>3
  <2> QED BY <2>1 DEF Count
<1>5. ASSUME NEW i \in DOMAIN (s \o t), (s \o t)[i] = "call"
      PROVE  i < Len(s \o t) /\ (s \o t)[i + 1] \in {"call", "result"}
  <2>1. i \in 1..Len(s) /\ s[i] = "call"
    BY <1>1, <1>2, <1>3, <1>5
  <2>2. i < Len(s) /\ s[i + 1] \in {"call", "result"}
    BY <1>1, <2>1 DEF Whole
  <2> QED BY <1>1, <1>2, <2>1, <2>2
<1>6. Count("call", s \o t) = Count("result", s \o t)
  BY <1>4 DEF Whole
<1> QED BY <1>1, <1>5, <1>6 DEF Whole

LEMMA PlainWhole ==
  ASSUME NEW t, Plain(t)
  PROVE  Whole(t)
<1>1. \A m \in {"call", "result"} : {i \in DOMAIN t : t[i] = m} = {}
  BY DEF Plain
<1>2. Count("call", t) = Count("result", t)
  BY <1>1 DEF Count
<1> QED BY <1>2 DEF Plain, Whole

(* The calls of a response and then as many results.                           *)
LEMMA WholeCalls ==
  ASSUME NEW s, Plain(s), NEW n \in Nat
  PROVE  Whole((s \o [k \in 1..n |-> "call"]) \o [k \in 1..n |-> "result"])
<1> DEFINE c == [k \in 1..n |-> "call"]
           r == [k \in 1..n |-> "result"]
           t == (s \o c) \o r
           p == Len(s)
<1>1. c \in Seq(Roles) /\ r \in Seq(Roles) /\ Len(c) = n /\ Len(r) = n
  BY DEF Roles
<1>2. s \in Seq(Roles) /\ p \in Nat /\ DOMAIN s = 1..p
  BY DEF Plain
<1> HIDE DEF p
<1>3. t \in Seq(Roles) /\ Len(t) = p + n + n /\ DOMAIN t = 1..(p + n + n)
      /\ Len(s \o c) = p + n
  BY <1>1, <1>2 DEF p
<1>4. /\ \A i \in 1..p : t[i] = s[i]
      /\ \A i \in (p + 1)..(p + n) : t[i] = "call"
      /\ \A i \in (p + n + 1)..(p + n + n) : t[i] = "result"
  <2>1. ASSUME NEW i \in 1..p PROVE t[i] = s[i]
    <3>1. i \in 1..Len(s \o c)
      BY <1>2, <1>3
    <3>2. t[i] = (s \o c)[i]
      BY <1>1, <1>2, <3>1
    <3>3. (s \o c)[i] = s[i]
      BY <1>1, <1>2 DEF p
    <3> QED BY <3>2, <3>3
  <2>2. ASSUME NEW i \in (p + 1)..(p + n) PROVE t[i] = "call"
    <3>1. i \in 1..Len(s \o c) /\ i - p \in 1..n
      BY <1>2, <1>3
    <3>2. t[i] = (s \o c)[i]
      BY <1>1, <1>2, <3>1
    <3>3. (s \o c)[i] = c[i - p]
      BY <1>1, <1>2, <3>1 DEF p
    <3> QED BY <3>1, <3>2, <3>3
  <2>3. ASSUME NEW i \in (p + n + 1)..(p + n + n) PROVE t[i] = "result"
    <3>1. i - (p + n) \in 1..n
      BY <1>2
    <3>2. t[i] = r[i - (p + n)]
      BY <1>1, <1>2, <1>3, <3>1
    <3> QED BY <3>1, <3>2
  <2> QED BY <2>1, <2>2, <2>3
<1> HIDE DEF t
<1>5. Plain(s) /\ \A i \in 1..p : t[i] \notin {"call", "result"}
  BY <1>2, <1>4 DEF Plain
<1>6. {i \in DOMAIN t : t[i] = "call"} = (p + 1)..(p + n)
  BY <1>2, <1>3, <1>4, <1>5
<1>7. {i \in DOMAIN t : t[i] = "result"} = (p + n + 1)..(p + n + n)
  BY <1>2, <1>3, <1>4, <1>5
<1>8. Cardinality((p + 1)..(p + n)) = n
  <2>1. Cardinality((p + 1)..(p + n)) = IF p + 1 > p + n THEN 0 ELSE (p + n) - (p + 1) + 1
    BY <1>2, FS_Interval
  <2> QED BY <1>2, <2>1
<1>9. Cardinality((p + n + 1)..(p + n + n)) = n
  <2>1. Cardinality((p + n + 1)..(p + n + n))
          = IF p + n + 1 > p + n + n THEN 0 ELSE (p + n + n) - (p + n + 1) + 1
    BY <1>2, FS_Interval
  <2> QED BY <1>2, <2>1
<1>10. Count("call", t) = Count("result", t)
  BY <1>6, <1>7, <1>8, <1>9 DEF Count
<1>11. ASSUME NEW i \in DOMAIN t, t[i] = "call"
       PROVE  i < Len(t) /\ t[i + 1] \in {"call", "result"}
  BY <1>2, <1>3, <1>4, <1>5, <1>11
<1> QED BY <1>3, <1>10, <1>11 DEF Whole, t

(* What is said last is what is to answer, and a retry hides nothing of it.    *)
LEMMA AsksMore ==
  ASSUME NEW s \in Seq(Roles), NEW t \in Seq(Roles),
         \/ Asks(s) /\ t = <<>>
         \/ t # <<>> /\ t[Len(t)] \in {"user", "nudge", "result"}
  PROVE  Asks(s \o t)
<1>1. CASE Asks(s) /\ t = <<>>
  <2>1. s \o t = s
    BY <1>1
  <2> QED BY <1>1, <2>1
<1>2. CASE t # <<>> /\ t[Len(t)] \in {"user", "nudge", "result"}
  <2> DEFINE u == s \o t
  <2>1. u \in Seq(Roles) /\ Len(u) = Len(s) + Len(t) /\ Len(t) > 0 /\ DOMAIN u = 1..Len(u)
    BY <1>2
  <2>2. u[Len(u)] = t[Len(t)]
    BY <2>1
  <2> HIDE DEF u
  <2>3. Len(u) \in DOMAIN u /\ \A j \in DOMAIN u : ~(j > Len(u))
    BY <2>1
  <2>4. Asks(u)
    BY <1>2, <2>2, <2>3 DEF Asks
  <2> QED BY <2>4 DEF u
<1> QED BY <1>1, <1>2

LEMMA AsksRetry ==
  ASSUME NEW s \in Seq(Roles), Asks(s)
  PROVE  Asks(Append(s, "retry"))
<1> DEFINE u == Append(s, "retry")
<1>1. DOMAIN u = 1..(Len(s) + 1) /\ DOMAIN s = 1..Len(s) /\ u[Len(s) + 1] = "retry"
      /\ \A i \in 1..Len(s) : u[i] = s[i]
  OBVIOUS
<1>2. PICK i \in DOMAIN s : /\ s[i] \in {"user", "nudge", "result"}
                            /\ \A j \in DOMAIN s : j > i => s[j] = "retry"
  BY DEF Asks
<1> HIDE DEF u
<1>3. i \in DOMAIN u /\ u[i] \in {"user", "nudge", "result"}
      /\ \A j \in DOMAIN u : j > i => u[j] = "retry"
  BY <1>1, <1>2
<1> QED BY <1>3 DEF Asks, u

LEMMA OnePlain ==
  ASSUME NEW m \in Roles \ {"call", "result"}
  PROVE  /\ Plain(<<m>>)
         /\ \A s : s \in Seq(Roles) => Append(s, m) = s \o <<m>>
<1>1. <<m>> \in Seq(Roles) /\ DOMAIN <<m>> = 1..1 /\ <<m>>[1] = m
  OBVIOUS
<1>2. Plain(<<m>>)
  BY <1>1 DEF Plain
<1> QED BY <1>2, AppendIsConcat

--------------------------------------------------------------------------------
(* The calls that are kept of a stream.                                        *)

(* A finite set of numbers has an element for each rank.                       *)
LEMMA Ranked ==
  ASSUME NEW n \in Nat, NEW K \in SUBSET (1..n), NEW i \in 1..Cardinality(K)
  PROVE  \E k \in K : Cardinality({j \in K : j <= k}) = i
<1> DEFINE Upto(k) == {j \in K : j <= k}
           T == {k \in 0..n : Cardinality(Upto(k)) >= i}
<1>0. \A j \in K : j \in Int /\ 1 <= j /\ j <= n
  OBVIOUS
<1>1. IsFiniteSet(K) /\ Cardinality(K) \in Nat
  <2>1. IsFiniteSet(1..n)
    BY FS_Interval
  <2>2. IsFiniteSet(K)
    BY <2>1, FS_Subset
  <2> QED BY <2>2, FS_CardinalityType
<1>2. \A k \in 0..n : IsFiniteSet(Upto(k)) /\ Cardinality(Upto(k)) \in Nat
  <2> TAKE k \in 0..n
  <2>1. Upto(k) \in SUBSET K
    OBVIOUS
  <2> QED BY <1>1, <2>1, FS_Subset, FS_CardinalityType
<1>3. Upto(n) = K /\ Upto(0) = {}
  <2>1. \A j \in K : j <= n /\ ~(j <= 0)
    BY <1>0
  <2> QED BY <2>1
<1> HIDE DEF Upto
<1>4. n \in T /\ T \subseteq Nat
  BY <1>1, <1>3
<1>5. PICK k \in T : \A j \in T : k <= j
  BY <1>4, Smallest
<1>6. k # 0
  BY <1>3, <1>5, FS_EmptySet
<1>7. k - 1 \in 0..n /\ k - 1 \notin T
  BY <1>5, <1>6
<1>8. Cardinality(Upto(k - 1)) < i /\ Cardinality(Upto(k)) >= i
  BY <1>2, <1>5, <1>7
<1>9. k \in K
  <2> SUFFICES ASSUME k \notin K PROVE FALSE
    OBVIOUS
  <2>1. \A j \in K : j <= k <=> j <= k - 1
    BY <1>0, <1>5
  <2>2. Upto(k) = Upto(k - 1)
    BY <2>1 DEF Upto
  <2> QED BY <1>2, <1>5, <1>7, <1>8, <2>2
<1>10. Upto(k) = Upto(k - 1) \cup {k} /\ k \notin Upto(k - 1)
  <2>1. \A j \in K : j <= k <=> (j <= k - 1 \/ j = k)
    BY <1>0, <1>5
  <2>2. k \in Nat /\ ~(k <= k - 1)
    BY <1>5
  <2> QED BY <1>9, <2>1, <2>2 DEF Upto
<1>11. Cardinality(Upto(k)) = Cardinality(Upto(k - 1)) + 1
  BY <1>2, <1>7, <1>10, FS_AddElement
<1>12. Cardinality(Upto(k)) = i
  BY <1>2, <1>7, <1>8, <1>11
<1> QED BY <1>9, <1>12 DEF Upto

(* What a stream keeps is calls of the response, the last among them           *)
(* (agent_loop.py _accumulate_stream_tokens).                                  *)
LEMMA CalledTyped ==
  ASSUME NEW r, r.tools \in Seq(Tools), r.tools # <<>>
  PROVE  Called(r) \in Seq(Tools) /\ Len(Called(r)) > 0
<1>1. CASE ~streaming
  BY <1>1 DEF Called
<1>2. CASE streaming
  <2> DEFINE tools == r.tools
             kept == {k \in DOMAIN tools : tools[k] \notin NoInput \/ k = Len(tools)}
             n == Cardinality(kept)
  <2>1. tools \in Seq(Tools) /\ DOMAIN tools = 1..Len(tools) /\ Len(tools) \in Nat /\ Len(tools) > 0
    OBVIOUS
  <2>2. kept \in SUBSET (1..Len(tools)) /\ Len(tools) \in kept
    BY <2>1
  <2>3. Called(r) = [i \in 1..n |->
                       tools[CHOOSE k \in kept : Cardinality({j \in kept : j <= k}) = i]]
    BY <1>2 DEF Called, Accumulated
  <2> HIDE DEF tools, kept
  <2>4. IsFiniteSet(kept) /\ n \in Nat /\ n # 0
    <3>1. IsFiniteSet(1..Len(tools))
      BY <2>1, FS_Interval
    <3>2. IsFiniteSet(kept)
      BY <2>2, <3>1, FS_Subset
    <3> QED BY <2>2, <3>2, FS_CardinalityType, FS_EmptySet
  <2>5. ASSUME NEW i \in 1..n
        PROVE  tools[CHOOSE k \in kept : Cardinality({j \in kept : j <= k}) = i] \in Tools
    <3>1. \E k \in kept : Cardinality({j \in kept : j <= k}) = i
      BY <2>1, <2>2, Ranked
    <3>2. (CHOOSE k \in kept : Cardinality({j \in kept : j <= k}) = i) \in kept
      BY <3>1
    <3> DEFINE k == CHOOSE k \in kept : Cardinality({j \in kept : j <= k}) = i
    <3>3. k \in 1..Len(tools)
      BY <2>2, <3>2
    <3> HIDE DEF k
    <3>4. tools[k] \in Tools
      BY <2>1, <3>3
    <3> QED BY <3>4 DEF k
  <2> HIDE DEF n
  <2>6. Called(r) \in [1..n -> Tools]
    BY <2>3, <2>5
  <2> QED BY <2>4, <2>6
<1> QED BY <1>1, <1>2

--------------------------------------------------------------------------------
(* The invariant.                                                              *)

(* The messages since the last response: whole where a request may be sent or  *)
(* the turn has ended, the calls alone while they are executed.                *)
FreshInv ==
  /\ phase \in {"head", "send", "opened", "model"} => Whole(fresh) /\ Asks(fresh)
  /\ phase = "ended" /\ status # "raised" => Whole(fresh)
  /\ phase = "tools" => /\ Len(batch) > 0
                        /\ \E s : Plain(s) /\ fresh = s \o [k \in Calls |-> "call"]

(* Every request has a step or a compaction of its own, one that is about to   *)
(* leave too; after a stop none but the one that was under way leaves.         *)
CountInv ==
  /\ requests + (IF phase \in {"send", "opened"} THEN 1 ELSE 0) <= step + overflows
  /\ phase \in {"send", "opened", "model"} => step > 0
  /\ late <= 1 /\ (late = 1 => cancelled /\ phase \in {"model", "ended"})
  /\ queued <= inputs

Running == phase # "ended" => status = "running"

AgentInv == TypeOK /\ FreshInv /\ CountInv /\ Ordered /\ Truthful /\ Running

(* What the calls are about is left alone by a step that leaves them alone.    *)
LEMMA CallsKept ==
  ASSUME Ordered, Truthful, Running, UNCHANGED <<calls, reply>>, phase # "ended",
         phase' = "tools" => phase = "tools",
         status' \in {"running", "error", "max_steps", "raised"} \/ (status' = "cancelled" /\ cancelled')
  PROVE  Ordered' /\ Truthful'
<1>1. batch' = batch /\ place' = place /\ result' = result /\ reply' = reply
  BY DEF calls
<1>2. Ordered'
  BY <1>1 DEF Ordered, Busy, Calls
<1>3. Truthful'
  BY <1>1 DEF Truthful
<1> QED BY <1>2, <1>3

(* Two ways a turn ends that say nothing of its messages but that they are     *)
(* whole, or are not saved (agent_loop.py _finish_hook_turn).                  *)
LEMMA EndsWhole ==
  ASSUME NEW s, Whole(s), NEW as, Finish(as, Append(s, "assistant"))
  PROVE  FreshInv'
<1>1. Plain(<<"assistant">>) /\ Append(s, "assistant") = s \o <<"assistant">>
  BY OnePlain DEF Roles, Whole
<1>2. Whole(Append(s, "assistant"))
  BY <1>1, WholeMore
<1> QED BY <1>2 DEF Finish, FreshInv

LEMMA SteeringPlain ==
  ASSUME TypeOK, LimitsAssumption
  PROVE  /\ Plain(Steering)
         /\ Steering # <<>> => Steering[Len(Steering)] = "user"
         /\ queued = 0 => Steering = <<>>
<1>1. queued \in Nat
  BY DEF TypeOK, LimitsAssumption
<1>2. Steering \in [1..queued -> Roles] /\ \A i \in 1..queued : Steering[i] = "user"
  BY DEF Steering, Roles
<1>3. Steering \in Seq(Roles) /\ Len(Steering) = queued /\ DOMAIN Steering = 1..queued
  BY <1>1, <1>2
<1>4. Plain(Steering)
  BY <1>2, <1>3 DEF Plain
<1>5. Steering # <<>> => Steering[Len(Steering)] = "user"
  BY <1>1, <1>2, <1>3
<1> QED BY <1>3, <1>4, <1>5

(* The thread of the turn up to the answer of the model.                       *)
LEMMA AskStep ==
  ASSUME LimitsAssumption, AgentInv,
         \/ StepsSpent \/ StepRefused \/ BeginStep \/ Send \/ Open \/ Stopped
         \/ Overflow \/ RequestFails \/ Retry
  PROVE  AgentInv'
<1> USE DEF AgentInv
<1>2. CASE StepsSpent
  <2>1. /\ phase = "head" /\ Finish("max_steps", Append(fresh, "assistant"))
        /\ UNCHANGED <<streaming, counters, calls, user, history, reply>>
    BY <1>2 DEF StepsSpent
  <2>2. TypeOK'
    BY <2>1 DEF Finish, TypeOK, counters, calls, user, history, Ends
  <2>3. FreshInv'
    BY <2>1, EndsWhole DEF FreshInv
  <2>4. CountInv' /\ Running'
    BY <2>1 DEF Finish, CountInv, Running, counters, calls, user, history
  <2>5. Ordered' /\ Truthful'
    BY <2>1, CallsKept DEF Finish
  <2> QED BY <2>2, <2>3, <2>4, <2>5
<1>3. CASE StepRefused
  <2>1. /\ phase = "head" /\ Raise
        /\ UNCHANGED <<streaming, counters, calls, user, history, reply>>
    BY <1>3 DEF StepRefused
  <2>2. TypeOK'
    BY <2>1 DEF Raise, TypeOK, counters, calls, user, history, Ends
  <2>3. FreshInv' /\ CountInv' /\ Running'
    BY <2>1 DEF Raise, FreshInv, CountInv, Running, counters, calls, user, history
  <2>4. Ordered' /\ Truthful'
    BY <2>1, CallsKept DEF Raise
  <2> QED BY <2>2, <2>3, <2>4
<1>4. CASE BeginStep
  <2>1. /\ phase = "head" /\ step < MaxSteps /\ step' = step + 1 /\ phase' = "send"
        /\ \/ UNCHANGED <<fresh, user>>
           \/ fresh' = fresh \o Steering /\ queued' = 0 /\ UNCHANGED <<cancelled, inputs>>
        /\ UNCHANGED <<streaming, status, overflows, empties, thoughts, calls, history, reply>>
    BY <1>4 DEF BeginStep
  <2>2. TypeOK'
    BY <2>1 DEF TypeOK, calls, user, history, LimitsAssumption
  <2>3. Whole(fresh') /\ Asks(fresh')
    <3>1. CASE UNCHANGED fresh
      BY <2>1, <3>1 DEF FreshInv
    <3>2. CASE fresh' = fresh \o Steering
      <4>1. Whole(fresh) /\ Asks(fresh) /\ fresh \in Seq(Roles)
        BY <2>1 DEF FreshInv, Whole
      <4>2. Plain(Steering) /\ Steering \in Seq(Roles)
            /\ (Steering # <<>> => Steering[Len(Steering)] = "user")
        BY SteeringPlain DEF Plain
      <4> QED BY <3>2, <4>1, <4>2, WholeMore, AsksMore
    <3> QED BY <2>1, <3>1, <3>2
  <2>4. FreshInv'
    BY <2>1, <2>3 DEF FreshInv
  <2>5. CountInv' /\ Running'
    BY <2>1 DEF TypeOK, CountInv, Running, calls, user, history
  <2>6. Ordered' /\ Truthful'
    BY <2>1, CallsKept DEF Running
  <2> QED BY <2>2, <2>4, <2>5, <2>6
<1>5. CASE Send
  <2>1. /\ phase = "send" /\ UNCHANGED <<streaming, counters, calls, user, history, reply>>
        /\ \/ cancelled /\ Finish("cancelled", Append(fresh, "assistant"))
           \/ phase' = "opened" /\ UNCHANGED <<status, fresh>>
    BY <1>5 DEF Send
  <2>2. TypeOK'
    BY <2>1 DEF Finish, TypeOK, counters, calls, user, history, Ends
  <2>3. FreshInv'
    <3>1. CASE Finish("cancelled", Append(fresh, "assistant"))
      BY <2>1, <3>1, EndsWhole DEF FreshInv
    <3>2. CASE phase' = "opened" /\ UNCHANGED <<status, fresh>>
      BY <2>1, <3>2 DEF FreshInv
    <3> QED BY <2>1, <3>1, <3>2
  <2>4. CountInv' /\ Running'
    BY <2>1 DEF Finish, TypeOK, CountInv, Running, counters, calls, user, history
  <2>5. Ordered' /\ Truthful'
    BY <2>1, CallsKept DEF Finish, Running, user
  <2> QED BY <2>2, <2>3, <2>4, <2>5
<1>6. CASE Open
  <2>1. /\ phase = "opened" /\ phase' = "model" /\ requests' = requests + 1
        /\ late' = IF cancelled THEN late + 1 ELSE late
        /\ UNCHANGED <<streaming, status, counters, fresh, calls, user, reply>>
    BY <1>6 DEF Open
  <2>2. TypeOK'
    BY <2>1 DEF TypeOK, counters, calls, user
  <2>3. FreshInv'
    BY <2>1 DEF FreshInv
  <2>4. CountInv' /\ Running'
    BY <2>1 DEF TypeOK, CountInv, Running, counters, user
  <2>5. Ordered' /\ Truthful'
    BY <2>1, CallsKept DEF Running
  <2> QED BY <2>2, <2>3, <2>4, <2>5
<1>7. CASE Stopped
  <2>1. /\ phase = "model" /\ cancelled /\ Finish("cancelled", Append(fresh, "assistant"))
        /\ UNCHANGED <<streaming, counters, calls, user, history, reply>>
    BY <1>7 DEF Stopped
  <2>2. TypeOK'
    BY <2>1 DEF Finish, TypeOK, counters, calls, user, history, Ends
  <2>3. FreshInv'
    BY <2>1, EndsWhole DEF FreshInv
  <2>4. CountInv' /\ Running'
    BY <2>1 DEF Finish, TypeOK, CountInv, Running, counters, calls, user, history
  <2>5. Ordered' /\ Truthful'
    BY <2>1, CallsKept DEF Finish, user
  <2> QED BY <2>2, <2>3, <2>4, <2>5
<1>8. CASE Overflow
  <2>1. /\ phase = "model" /\ ~cancelled
        /\ UNCHANGED <<streaming, empties, thoughts, calls, user, history, reply>>
        /\ \/ /\ overflows < Overflows /\ overflows' = overflows + 1
              /\ phase' = "head" /\ step' = step - 1 /\ UNCHANGED <<status, fresh>>
           \/ /\ overflows' = overflows \/ (overflows < Overflows /\ overflows' = overflows + 1)
              /\ Finish("error", Append(fresh, "assistant")) /\ UNCHANGED step
    BY <1>8 DEF Overflow
  <2>2. step \in 1..MaxSteps /\ overflows \in Nat
    BY <2>1 DEF TypeOK, CountInv, LimitsAssumption
  <2>3. TypeOK'
    <3>1. step' \in 0..MaxSteps /\ overflows' \in 0..Overflows
      BY <2>1, <2>2 DEF TypeOK, LimitsAssumption
    <3>2. phase' \in {"head", "ended"} /\ status' \in Ends \cup {"running"}
      BY <2>1 DEF Finish, TypeOK, Ends
    <3> QED BY <2>1, <3>1, <3>2 DEF TypeOK, calls, user, history
  <2>4. FreshInv'
    <3>1. CASE Finish("error", Append(fresh, "assistant"))
      BY <2>1, <3>1, EndsWhole DEF FreshInv
    <3>2. CASE phase' = "head" /\ UNCHANGED <<status, fresh>>
      BY <2>1, <3>2 DEF FreshInv
    <3> QED BY <2>1, <3>1, <3>2
  <2>5. CountInv'
    BY <2>1, <2>2 DEF Finish, TypeOK, CountInv, user, history
  <2>6. Running'
    BY <2>1 DEF Finish, Running
  <2>7. Ordered' /\ Truthful'
    BY <2>1, CallsKept DEF Finish, Running
  <2> QED BY <2>3, <2>4, <2>5, <2>6, <2>7
<1>9. CASE RequestFails
  <2>1. /\ phase = "model" /\ (Finish("error", Append(fresh, "assistant")) \/ Raise)
        /\ UNCHANGED <<streaming, counters, calls, user, history, reply>>
    BY <1>9 DEF RequestFails
  <2>2. TypeOK'
    BY <2>1 DEF Finish, Raise, TypeOK, counters, calls, user, history, Ends
  <2>3. FreshInv'
    <3>1. CASE Finish("error", Append(fresh, "assistant"))
      BY <2>1, <3>1, EndsWhole DEF FreshInv
    <3>2. CASE Raise
      BY <3>2 DEF Raise, FreshInv
    <3> QED BY <2>1, <3>1, <3>2
  <2>4. CountInv' /\ Running'
    BY <2>1 DEF Finish, Raise, TypeOK, CountInv, Running, counters, calls, user, history
  <2>5. Ordered' /\ Truthful'
    BY <2>1, CallsKept DEF Finish, Raise
  <2> QED BY <2>2, <2>3, <2>4, <2>5
<1>10. CASE Retry
  <2>1. /\ phase = "model" /\ fresh' = Append(fresh, "retry")
        /\ UNCHANGED <<streaming, phase, status, counters, calls, user, history, reply>>
    BY <1>10 DEF Retry
  <2>2. TypeOK'
    BY <2>1 DEF TypeOK, counters, calls, user, history
  <2>3. FreshInv'
    <3>1. Whole(fresh) /\ Asks(fresh) /\ fresh \in Seq(Roles)
      BY <2>1 DEF FreshInv, Whole
    <3>2. Plain(<<"retry">>) /\ Append(fresh, "retry") = fresh \o <<"retry">>
      BY <3>1, OnePlain DEF Roles
    <3>3. Whole(fresh') /\ Asks(fresh')
      BY <2>1, <3>1, <3>2, WholeMore, AsksRetry
    <3> QED BY <2>1, <3>3 DEF FreshInv
  <2>4. CountInv' /\ Running'
    BY <2>1 DEF TypeOK, CountInv, Running, counters, calls, user, history
  <2>5. Ordered' /\ Truthful'
    BY <2>1, CallsKept DEF Running
  <2> QED BY <2>2, <2>3, <2>4, <2>5
<1> QED
  BY <1>2, <1>3, <1>4, <1>5, <1>6, <1>7, <1>8, <1>9, <1>10

(* The answer of the model, whatever it is.                                    *)
LEMMA RespondStep ==
  ASSUME BatchesAssumption, LimitsAssumption, AgentInv, Respond
  PROVE  AgentInv'
<1> USE DEF AgentInv
<1>1. PICK r \in Responses :
        /\ phase = "model" /\ ~cancelled /\ reply' = r /\ UNCHANGED <<streaming, step, overflows, history>>
        /\ \/ /\ Cut(r) /\ Finish("error", Progress(r) \o <<"assistant">>)
              /\ UNCHANGED <<empties, thoughts, calls, user>>
           \/ /\ Recoverable(r) /\ thoughts < Thoughts /\ thoughts' = thoughts + 1
              /\ phase' = "head" /\ fresh' = <<"progress", "nudge">>
              /\ UNCHANGED <<status, empties, calls, user>>
           \/ /\ \/ /\ empties < Empties /\ empties' = empties + 1
                    /\ phase' = "head" /\ fresh' = <<"nudge">> /\ UNCHANGED status
                 \/ Finish("error", <<"assistant">>) /\ UNCHANGED empties
              /\ UNCHANGED <<thoughts, calls, user>>
           \/ /\ phase' = "head" /\ fresh' = <<"progress", "nudge">>
              /\ UNCHANGED <<status, empties, thoughts, calls, user>>
           \/ /\ ~Cut(r) /\ r.tools = <<>> /\ r.text = "plain"
              /\ Answer(<<"assistant">>) /\ UNCHANGED <<empties, thoughts, calls>>
           \/ /\ ~Cut(r) /\ r.tools # <<>> /\ batch' = Called(r)
              /\ place' = [k \in DOMAIN batch' |-> "waiting"]
              /\ result' = [k \in DOMAIN batch' |-> "ok"]
              /\ phase' = "tools" /\ fresh' = Before(r) \o [k \in DOMAIN batch' |-> "call"]
              /\ UNCHANGED <<status, empties, thoughts, user>>
  BY DEF Respond
<1>2. CountInv'
  <2>1. phase' \in {"head", "tools", "ended"} /\ cancelled' = cancelled
        /\ queued' \in {0, queued} /\ inputs' = inputs
    BY <1>1 DEF Finish, Answer, user
  <2>2. requests' = requests /\ late' = late /\ step' = step /\ overflows' = overflows
    BY <1>1 DEF history
  <2>3. requests \in Nat /\ step \in Nat /\ overflows \in Nat /\ late \in Nat /\ late # 1
        /\ inputs \in Nat
    BY <1>1 DEF TypeOK, CountInv, LimitsAssumption
  <2> QED BY <1>1, <2>1, <2>2, <2>3 DEF CountInv
<1>3. r.text \in Texts /\ r.stop \in Stops /\ r.tools \in Seq(Tools)
  <2>1. r \in Responses
    OBVIOUS
  <2>2. r.text \in Texts /\ r.stop \in Stops /\ r.tools \in Batches \cup {<<>>}
    BY <2>1 DEF Responses
  <2>3. <<>> \in Seq(Tools) /\ \A b \in Batches : b \in Seq(Tools)
    BY EmptySeq DEF BatchesAssumption
  <2> HIDE DEF Texts
  <2> QED BY <2>2, <2>3
<1>4. Plain(<<>>) /\ Plain(<<"progress">>) /\ Plain(<<"assistant">>) /\ Plain(<<"nudge">>)
      /\ Plain(<<"progress", "nudge">>)
  <2>1. <<"progress", "nudge">> \in Seq(Roles) /\ <<>> \in Seq(Roles)
    BY DEF Roles
  <2>2. Plain(<<>>)
    BY <2>1 DEF Plain
  <2> DEFINE two == <<"progress", "nudge">>
  <2>3. DOMAIN two = 1..2 /\ two[1] = "progress" /\ two[2] = "nudge"
    OBVIOUS
  <2> HIDE DEF two
  <2>4. \A i \in DOMAIN two : i = 1 \/ i = 2
    BY <2>3
  <2>5. \A i \in DOMAIN two : two[i] \notin {"call", "result"}
    BY <2>3, <2>4
  <2>6. Plain(two)
    BY <2>1, <2>5 DEF Plain, two
  <2> QED BY <2>2, <2>6, OnePlain DEF Roles, two
<1>5. ASSUME NEW t \in {<<"nudge">>, <<"progress", "nudge">>}
      PROVE  Whole(t) /\ Asks(t)
  <2>1. t \in Seq(Roles) /\ t # <<>> /\ t[Len(t)] = "nudge" /\ <<>> \in Seq(Roles)
    <3>1. CASE t = <<"nudge">>
      BY <3>1 DEF Roles
    <3>2. CASE t = <<"progress", "nudge">>
      BY <3>2 DEF Roles
    <3> QED BY <3>1, <3>2
  <2>2. Asks(<<>> \o t)
    BY <2>1, AsksMore
  <2>3. <<>> \o t = t
    BY <2>1
  <2> QED BY <1>4, <2>2, <2>3, PlainWhole
<1>6. ASSUME UNCHANGED <<empties, thoughts, calls, user>>, Cut(r),
             Finish("error", Progress(r) \o <<"assistant">>)
      PROVE  AgentInv'
  <2>1. TypeOK'
    BY <1>1, <1>6 DEF Finish, TypeOK, calls, user, history, Ends
  <2>2. Whole(fresh')
    <3>1. Whole(Progress(r))
      BY <1>4, PlainWhole DEF Progress
    <3> QED BY <1>4, <1>6, <3>1, WholeMore DEF Finish
  <2>3. FreshInv' /\ Running'
    BY <1>6, <2>2 DEF Finish, FreshInv, Running
  <2>4. Ordered' /\ Truthful'
    BY <1>6 DEF Finish, Ordered, Truthful
  <2> QED BY <1>2, <2>1, <2>3, <2>4
<1>7. ASSUME phase' = "head", fresh' \in {<<"nudge">>, <<"progress", "nudge">>},
             empties' \in 0..Empties, thoughts' \in 0..Thoughts, UNCHANGED <<status, calls, user>>
      PROVE  AgentInv'
  <2>1. TypeOK'
    BY <1>1, <1>7 DEF TypeOK, calls, user, history
  <2>2. FreshInv' /\ Running'
    BY <1>1, <1>5, <1>7 DEF FreshInv, Running
  <2>3. Ordered' /\ Truthful'
    BY <1>1, <1>7 DEF Ordered, Truthful, Running
  <2> QED BY <1>2, <2>1, <2>2, <2>3
<1>8. ASSUME Finish("error", <<"assistant">>), UNCHANGED <<empties, thoughts, calls, user>>
      PROVE  AgentInv'
  <2>1. TypeOK'
    BY <1>1, <1>8 DEF Finish, TypeOK, calls, user, history, Ends
  <2>2. FreshInv' /\ Running'
    BY <1>4, <1>8, PlainWhole DEF Finish, FreshInv, Running
  <2>3. Ordered' /\ Truthful'
    BY <1>8 DEF Finish, Ordered, Truthful
  <2> QED BY <1>2, <2>1, <2>2, <2>3
<1>9. ASSUME ~Cut(r), r.tools = <<>>, r.text = "plain", Answer(<<"assistant">>),
             UNCHANGED <<empties, thoughts, calls>>
      PROVE  AgentInv'
  <2>1. CASE queued > 0 /\ ~cancelled
    <3>1. /\ phase' = "head" /\ fresh' = <<"assistant">> \o Steering
          /\ queued' = 0 /\ UNCHANGED <<status, cancelled, inputs>>
      BY <1>9, <2>1 DEF Answer
    <3>2. TypeOK'
      BY <1>1, <1>9, <3>1 DEF TypeOK, calls, history, LimitsAssumption
    <3>3. Plain(Steering) /\ Steering # <<>> /\ Steering[Len(Steering)] = "user"
      <4>1. 1 \in 1..queued /\ queued \in Nat
        BY <2>1 DEF TypeOK, LimitsAssumption
      <4>2. Steering # <<>>
        BY <4>1 DEF Steering
      <4> QED BY <4>2, SteeringPlain
    <3>4. Whole(fresh') /\ Asks(fresh')
      BY <1>4, <3>1, <3>3, PlainWhole, WholeMore, AsksMore DEF Plain
    <3>5. FreshInv' /\ Running'
      BY <1>1, <3>1, <3>4 DEF FreshInv, Running
    <3>6. Ordered' /\ Truthful'
      BY <1>1, <3>1 DEF Ordered, Truthful, Running
    <3> QED BY <1>2, <3>2, <3>5, <3>6
  <2>2. CASE ~(queued > 0 /\ ~cancelled)
    <3>1. Finish("completed", <<"assistant">>) /\ UNCHANGED user
      BY <1>9, <2>2 DEF Answer
    <3>2. TypeOK'
      BY <1>1, <1>9, <3>1 DEF Finish, TypeOK, calls, user, history, Ends
    <3>3. FreshInv' /\ Running'
      BY <1>4, <3>1, PlainWhole DEF Finish, FreshInv, Running
    <3>4. r.stop = "end"
      BY <1>3, <1>9 DEF Cut, Recoverable, IsEmpty
    <3>5. Ordered' /\ Truthful'
      BY <1>1, <1>9, <3>1, <3>4 DEF Finish, Ordered, Truthful
    <3> QED BY <1>2, <3>2, <3>3, <3>5
  <2> QED BY <2>1, <2>2
<1>10. ASSUME ~Cut(r), r.tools # <<>>, batch' = Called(r),
              place' = [k \in DOMAIN batch' |-> "waiting"],
              result' = [k \in DOMAIN batch' |-> "ok"], phase' = "tools",
              fresh' = Before(r) \o [k \in DOMAIN batch' |-> "call"],
              UNCHANGED <<status, empties, thoughts, user>>
       PROVE  AgentInv'
  <2>1. batch' \in Seq(Tools) /\ Len(batch') > 0 /\ DOMAIN batch' = 1..Len(batch')
    BY <1>3, <1>10, CalledTyped
  <2>2. TypeOK'
    BY <1>1, <1>10, <2>1 DEF TypeOK, user, history, Results
  <2>3. Plain(Before(r))
    BY <1>4, OnePlain DEF Before, Progress
  <2>4. FreshInv' /\ Running'
    BY <1>1, <1>10, <2>1, <2>3 DEF FreshInv, Running, Calls
  <2>5. r.stop = "end"
    BY <1>3, <1>10 DEF Cut, Recoverable, IsEmpty
  <2>6. Truthful'
    BY <1>1, <1>10, <2>5 DEF Truthful, Running
  <2>7. Ordered'
    <3>1. \A k \in Calls' : place'[k] = "waiting"
      BY <1>10, <2>1 DEF Calls
    <3>2. Busy' = {}
      BY <3>1 DEF Busy
    <3>3. Cardinality(Busy') <= Parallel
      BY <3>2, FS_EmptySet DEF LimitsAssumption
    <3> QED BY <3>1, <3>3 DEF Ordered
  <2> QED BY <1>2, <2>2, <2>4, <2>6, <2>7
<1>11. empties \in 0..Empties /\ thoughts \in 0..Thoughts
  BY DEF TypeOK
<1>12. CASE /\ Recoverable(r) /\ thoughts < Thoughts /\ thoughts' = thoughts + 1
            /\ phase' = "head" /\ fresh' = <<"progress", "nudge">>
            /\ UNCHANGED <<status, empties, calls, user>>
  BY <1>7, <1>11, <1>12 DEF LimitsAssumption
<1>13. CASE /\ empties < Empties /\ empties' = empties + 1
            /\ phase' = "head" /\ fresh' = <<"nudge">> /\ UNCHANGED status
            /\ UNCHANGED <<thoughts, calls, user>>
  BY <1>7, <1>11, <1>13 DEF LimitsAssumption
<1>14. CASE /\ phase' = "head" /\ fresh' = <<"progress", "nudge">>
            /\ UNCHANGED <<status, empties, thoughts, calls, user>>
  BY <1>7, <1>11, <1>14
<1> QED BY <1>1, <1>6, <1>8, <1>9, <1>10, <1>12, <1>13, <1>14

--------------------------------------------------------------------------------
(* The calls.                                                                  *)

LEMMA PoolKeeps ==
  ASSUME AgentInv, phase = "tools", Ordered',
         place' \in [Calls -> {"waiting", "asked", "running", "done"}], result' \in [Calls -> Results],
         UNCHANGED <<streaming, phase, status, counters, fresh, batch, user, history, reply>>
  PROVE  AgentInv'
<1> USE DEF AgentInv
<1>1. TypeOK'
  BY DEF TypeOK, Calls, counters, user, history
<1>2. FreshInv'
  BY DEF FreshInv, Calls
<1>3. CountInv' /\ Running' /\ Truthful'
  BY DEF CountInv, Running, Truthful, counters, user, history
<1> QED BY <1>1, <1>2, <1>3

LEMMA BusyFinite ==
  ASSUME TypeOK
  PROVE  IsFiniteSet(Busy) /\ Cardinality(Busy) \in Nat /\ Len(batch) \in Nat
<1>1. Len(batch) \in Nat
  BY DEF TypeOK
<1>2. IsFiniteSet(1..Len(batch))
  BY <1>1, FS_Interval
<1>3. Busy \in SUBSET (1..Len(batch))
  BY DEF Busy, Calls
<1>4. IsFiniteSet(Busy)
  BY <1>2, <1>3, FS_Subset
<1> QED BY <1>1, <1>4, FS_CardinalityType

(* A call that goes on from where it is takes no other one's place.            *)
LEMMA OrderedOn ==
  ASSUME LimitsAssumption, AgentInv, phase = "tools", NEW k \in Calls, place[k] \in {"asked", "running"},
         NEW where \in {"running", "done"}, place' = [place EXCEPT ![k] = where],
         UNCHANGED <<phase, batch>>
  PROVE  Ordered'
<1> USE DEF AgentInv
<1>1. place' \in [Calls -> {"waiting", "asked", "running", "done"}] /\ place'[k] = where
      /\ \A j \in Calls : j # k => place'[j] = place[j]
  BY DEF TypeOK, Calls
<1>2. Busy' \in SUBSET Busy
  BY <1>1 DEF Busy, Calls
<1>3. Cardinality(Busy') <= Cardinality(Busy) /\ Cardinality(Busy') \in Nat
  BY <1>2, BusyFinite, FS_Subset, FS_CardinalityType
<1>4. Cardinality(Busy) <= Parallel
  BY DEF Ordered
<1>5. ASSUME NEW i \in Calls, NEW j \in Calls, i < j, place'[j] # "waiting", place'[i] # "done"
      PROVE  \A h \in i..j : batch[h] \in Safe
  <2>1. place[j] # "waiting" /\ place[i] # "done"
    BY <1>1, <1>5
  <2> QED BY <1>5, <2>1 DEF Ordered
<1>6. Calls' = Calls
  BY DEF Calls
<1>7. Cardinality(Busy') <= Parallel
  <2>1. Cardinality(Busy) \in Nat
    BY BusyFinite
  <2> QED BY <1>3, <1>4, <2>1 DEF LimitsAssumption
<1> QED BY <1>5, <1>6, <1>7 DEF Ordered

(* The executor begins calls, asks for them, runs them and tells their         *)
(* results (agent_loop.py _execute_calls_in_order, tooling.py execute).        *)
LEMMA PoolStep ==
  ASSUME ToolsAssumption, LimitsAssumption, AgentInv, Pool
  PROVE  AgentInv'
<1> USE DEF AgentInv
<1>1. place \in [Calls -> {"waiting", "asked", "running", "done"}] /\ result \in [Calls -> Results]
  BY DEF TypeOK, Calls
<1>2. CASE Reject
  <2>1. /\ phase = "tools" /\ place' = [k \in Calls |-> "done"] /\ result' = [k \in Calls |-> "blocked"]
        /\ UNCHANGED <<streaming, phase, status, counters, fresh, batch, user, history, reply>>
    BY <1>2 DEF Reject
  <2>2. Calls' = Calls /\ \A k \in Calls : place'[k] = "done"
    BY <2>1 DEF Calls
  <2>3. Busy' = {}
    BY <2>2 DEF Busy
  <2>4. Cardinality(Busy') <= Parallel
    BY <2>3, FS_EmptySet DEF LimitsAssumption
  <2>5. Ordered'
    BY <2>2, <2>4 DEF Ordered
  <2> QED BY <2>1, <2>5, PoolKeeps DEF Results
<1>3. ASSUME NEW k \in Calls, Begin(k)
      PROVE  AgentInv'
  <2>1. /\ phase = "tools" /\ place[k] = "waiting" /\ Ready(k)
        /\ \/ place' = [place EXCEPT ![k] = "done"] /\ result' = [result EXCEPT ![k] = "cancelled"]
           \/ place' = [place EXCEPT ![k] = "asked"] /\ UNCHANGED result
        /\ UNCHANGED <<streaming, phase, status, counters, fresh, batch, user, history, reply>>
    BY <1>3 DEF Begin
  <2>2. /\ place' \in [Calls -> {"waiting", "asked", "running", "done"}]
        /\ place'[k] \in {"asked", "done"} /\ \A j \in Calls : j # k => place'[j] = place[j]
        /\ result' \in [Calls -> Results] /\ Calls' = Calls
    BY <1>1, <2>1 DEF Results, Calls
  <2>3. Cardinality(Busy') <= Parallel
    <3>1. Busy' \in SUBSET (Busy \cup {k})
      BY <2>2 DEF Busy
    <3>2. IsFiniteSet(Busy \cup {k}) /\ Cardinality(Busy \cup {k}) = Cardinality(Busy) + 1
      <4>1. k \notin Busy
        BY <2>1 DEF Busy
      <4> QED BY <4>1, BusyFinite, FS_AddElement
    <3>3. Cardinality(Busy') <= Cardinality(Busy) + 1 /\ Cardinality(Busy') \in Nat
      BY <3>1, <3>2, FS_Subset, FS_CardinalityType
    <3>4. Cardinality(Busy) < Parallel
      BY <2>1 DEF Ready
    <3> QED BY <3>3, <3>4, BusyFinite DEF LimitsAssumption
  <2>4. ASSUME NEW i \in Calls, NEW j \in Calls, i < j, place'[j] # "waiting", place'[i] # "done"
        PROVE  \A h \in i..j : batch[h] \in Safe
    <3>1. CASE j = k
      <4>1. i \in 1..(k - 1) /\ place[i] # "done"
        BY <2>2, <2>4, <3>1 DEF Calls
      <4> QED BY <2>1, <3>1, <4>1 DEF Ready, Together
    <3>2. CASE j # k
      <4>1. place[j] # "waiting" /\ place[i] # "done"
        BY <2>1, <2>2, <2>4, <3>2
      <4> QED BY <2>1, <2>4, <4>1 DEF Ordered
    <3> QED BY <3>1, <3>2
  <2>5. Ordered'
    BY <2>1, <2>2, <2>3, <2>4 DEF Ordered
  <2> QED BY <2>1, <2>2, <2>5, PoolKeeps
<1>4. ASSUME NEW k \in Calls, Dispatch(k)
      PROVE  AgentInv'
  <2>1. /\ phase = "tools" /\ place[k] = "asked"
        /\ UNCHANGED <<streaming, phase, status, counters, fresh, batch, user, history, reply>>
        /\ \E where \in {"running", "done"} : place' = [place EXCEPT ![k] = where]
        /\ \/ UNCHANGED result
           \/ \E o \in {"cancelled", "blocked"} : result' = [result EXCEPT ![k] = o]
    BY <1>4 DEF Dispatch
  <2>2. place' \in [Calls -> {"waiting", "asked", "running", "done"}] /\ result' \in [Calls -> Results]
    BY <1>1, <2>1 DEF Results
  <2>3. Ordered'
    BY <2>1, OrderedOn
  <2> QED BY <2>1, <2>2, <2>3, PoolKeeps
<1>5. ASSUME NEW k \in Calls, Complete(k)
      PROVE  AgentInv'
  <2>1. /\ phase = "tools" /\ place[k] = "running" /\ place' = [place EXCEPT ![k] = "done"]
        /\ UNCHANGED <<streaming, phase, status, counters, fresh, batch, user, history, reply>>
        /\ \E o \in Results : result' = [result EXCEPT ![k] = o]
    <3>1. Outcomes(k) \subseteq Results
      BY DEF Outcomes, Results
    <3> QED BY <1>5, <3>1 DEF Complete
  <2>2. place' \in [Calls -> {"waiting", "asked", "running", "done"}] /\ result' \in [Calls -> Results]
    BY <1>1, <2>1
  <2>3. Ordered'
    BY <2>1, OrderedOn
  <2> QED BY <2>1, <2>2, <2>3, PoolKeeps
<1>6. ASSUME NEW k \in Calls, CallRaises(k)
      PROVE  AgentInv'
  <2>1. phase = "tools" /\ Raise /\ UNCHANGED <<streaming, counters, calls, user, history, reply>>
    BY <1>6 DEF CallRaises
  <2>2. TypeOK'
    BY <2>1 DEF Raise, TypeOK, counters, calls, user, history, Ends
  <2>3. FreshInv' /\ CountInv' /\ Running'
    BY <2>1 DEF Raise, FreshInv, CountInv, Running, counters, user, history
  <2>4. Ordered' /\ Truthful'
    BY <2>1, CallsKept DEF Raise
  <2> QED BY <2>2, <2>3, <2>4
<1> QED BY <1>2, <1>3, <1>4, <1>5, <1>6 DEF Pool

(* The results in the order of the calls, and what is said after them.         *)
LEMMA RecordStep ==
  ASSUME LimitsAssumption, AgentInv, Record
  PROVE  AgentInv'
<1> USE DEF AgentInv
<1>1. phase = "tools" /\ UNCHANGED <<streaming, counters, user, history, reply>>
  BY DEF Record
<1>2. PICK s : Plain(s) /\ fresh = s \o [k \in Calls |-> "call"]
  BY <1>1 DEF FreshInv
<1>3. Len(batch) \in Nat /\ Len(batch) > 0 /\ Calls = 1..Len(batch)
  BY <1>1 DEF FreshInv, TypeOK, Calls
<1>4. Whole(fresh \o ResultsOfAll)
  BY <1>2, <1>3, WholeCalls DEF ResultsOfAll
<1>5. Asks(fresh \o ResultsOfAll)
  <2>1. ResultsOfAll \in Seq(Roles) /\ ResultsOfAll # <<>> /\ ResultsOfAll[Len(ResultsOfAll)] = "result"
    BY <1>3 DEF ResultsOfAll, Roles
  <2>2. fresh \in Seq(Roles)
    <3>1. [k \in Calls |-> "call"] \in Seq(Roles)
      BY <1>3 DEF Roles
    <3> QED BY <1>2, <3>1 DEF Plain
  <2> QED BY <2>1, <2>2, AsksMore
<1>6. CountInv'
  BY <1>1 DEF Record, Finish, CountInv, counters, user, history
<1>7. CASE \E k \in Calls : result[k] = "await"
  <2>1. Finish("awaiting_user", (fresh \o ResultsOfAll) \o <<"assistant">>) /\ UNCHANGED calls
    BY <1>7 DEF Record
  <2>2. TypeOK'
    BY <1>1, <2>1 DEF Finish, TypeOK, counters, calls, user, history, Ends
  <2>3. Whole(fresh')
    <3>1. Plain(<<"assistant">>)
      BY OnePlain DEF Roles
    <3> QED BY <1>4, <2>1, <3>1, WholeMore DEF Finish
  <2>4. FreshInv' /\ Running'
    BY <2>1, <2>3 DEF Finish, FreshInv, Running
  <2>5. Ordered' /\ Truthful'
    BY <1>1, <1>7, <2>1 DEF Finish, Ordered, Truthful, calls, Calls
  <2> QED BY <1>6, <2>2, <2>4, <2>5
<1>8. CASE ~ \E k \in Calls : result[k] = "await"
  <2>1. /\ phase' = "head" /\ UNCHANGED status /\ batch' = <<>> /\ place' = <<>> /\ result' = <<>>
        /\ fresh' = (fresh \o ResultsOfAll) \o Hint
    BY <1>8 DEF Record
  <2>2. TypeOK'
    <3>1. batch' \in Seq(Tools) /\ Len(batch') = 0 /\ 1..0 = {}
      BY <2>1, EmptySeq
    <3>2. /\ place' \in [1..Len(batch') -> {"waiting", "asked", "running", "done"}]
          /\ result' \in [1..Len(batch') -> Results]
      BY <2>1, <3>1
    <3> QED BY <1>1, <2>1, <3>1, <3>2 DEF TypeOK, counters, user, history
  <2>3. Whole(fresh') /\ Asks(fresh')
    <3>1. CASE Hint = <<>>
      <4>1. fresh \o ResultsOfAll \in Seq(Roles) /\ <<>> \in Seq(Roles) /\ Plain(<<>>)
        BY <1>4, EmptySeq DEF Whole, Plain
      <4> QED BY <1>4, <1>5, <2>1, <3>1, <4>1, WholeMore, AsksMore
    <3>2. CASE Hint = <<"nudge">>
      <4>1. Plain(<<"nudge">>) /\ fresh \o ResultsOfAll \in Seq(Roles) /\ <<"nudge">> \in Seq(Roles)
        BY <1>4, OnePlain DEF Roles, Whole
      <4>2. <<"nudge">> # <<>> /\ <<"nudge">>[Len(<<"nudge">>)] = "nudge"
        OBVIOUS
      <4> QED BY <1>4, <2>1, <3>2, <4>1, <4>2, WholeMore, AsksMore
    <3> QED BY <3>1, <3>2 DEF Hint
  <2>4. FreshInv' /\ Running'
    BY <1>1, <2>1, <2>3 DEF FreshInv, Running
  <2>5. Ordered' /\ Truthful'
    BY <1>1, <2>1 DEF Ordered, Truthful, Running
  <2> QED BY <1>6, <2>2, <2>4, <2>5
<1> QED BY <1>7, <1>8

(* The user says something, or stops the turn.                                 *)
LEMMA UserStep ==
  ASSUME LimitsAssumption, AgentInv, Steer \/ Cancel
  PROVE  AgentInv'
<1> USE DEF AgentInv
<1>1. /\ phase # "ended" /\ UNCHANGED <<streaming, phase, status, counters, fresh, calls, history, reply>>
      /\ \/ inputs < MaxInputs /\ inputs' = inputs + 1 /\ queued' = queued + 1 /\ UNCHANGED cancelled
         \/ cancelled' = TRUE /\ UNCHANGED <<queued, inputs>>
  BY DEF Steer, Cancel
<1>2. queued' \in 0..MaxInputs /\ inputs' \in 0..MaxInputs /\ queued' <= inputs' /\ cancelled' \in BOOLEAN
  <2>1. queued \in Int /\ inputs \in Int /\ 0 <= queued /\ queued <= inputs /\ inputs <= MaxInputs
        /\ MaxInputs \in Nat /\ cancelled \in BOOLEAN
    BY DEF TypeOK, CountInv, LimitsAssumption
  <2>2. CASE inputs < MaxInputs /\ inputs' = inputs + 1 /\ queued' = queued + 1 /\ UNCHANGED cancelled
    BY <2>1, <2>2
  <2>3. CASE cancelled' = TRUE /\ UNCHANGED <<queued, inputs>>
    BY <2>1, <2>3
  <2> QED BY <1>1, <2>2, <2>3
<1>3. TypeOK'
  BY <1>1, <1>2 DEF TypeOK, counters, calls, history
<1>4. FreshInv'
  BY <1>1 DEF FreshInv, calls, Calls
<1>5. CountInv' /\ Running'
  BY <1>1, <1>2 DEF CountInv, Running, counters, history
<1>6. Ordered' /\ Truthful'
  BY <1>1, CallsKept DEF Running
<1> QED BY <1>3, <1>4, <1>5, <1>6

LEMMA AgentAlways ==
  ASSUME ToolsAssumption, BatchesAssumption, LimitsAssumption
  PROVE  Spec => []AgentInv
<1>1. Init => AgentInv
  <2> SUFFICES ASSUME Init PROVE AgentInv
    OBVIOUS
  <2>1. TypeOK
    <3>1. <<>> \in Seq(Tools) /\ Len(<<>>) = 0 /\ 1..0 = {}
      BY EmptySeq
    <3>2. place \in [1..Len(batch) -> {"waiting", "asked", "running", "done"}]
          /\ result \in [1..Len(batch) -> Results]
      BY <3>1 DEF Init
    <3>3. NoReply \in Responses
      BY DEF NoReply, Responses, Texts, Stops
    <3>4. batch \in Seq(Tools) /\ reply \in Responses
      BY <3>1, <3>3 DEF Init
    <3>5. /\ streaming \in BOOLEAN /\ cancelled \in BOOLEAN /\ phase = "head" /\ status = "running"
          /\ step = 0 /\ overflows = 0 /\ empties = 0 /\ thoughts = 0
          /\ queued = 0 /\ inputs = 0 /\ requests = 0 /\ late = 0
      BY DEF Init
    <3> QED BY <3>2, <3>4, <3>5 DEF TypeOK, LimitsAssumption
  <2>2. FreshInv
    <3>1. <<"user">> \in Seq(Roles) /\ <<>> \in Seq(Roles) /\ <<>> \o <<"user">> = <<"user">>
          /\ <<"user">> # <<>> /\ <<"user">>[Len(<<"user">>)] = "user"
      BY DEF Roles
    <3>2. Whole(<<"user">>) /\ Asks(<<"user">>)
      BY <3>1, OnePlain, PlainWhole, AsksMore DEF Roles
    <3> QED BY <3>2 DEF Init, FreshInv
  <2>3. CountInv /\ Ordered /\ Truthful /\ Running
    BY DEF Init, CountInv, Ordered, Truthful, Running
  <2> QED BY <2>1, <2>2, <2>3 DEF AgentInv
<1>2. AgentInv /\ [Next]_vars => AgentInv'
  <2> SUFFICES ASSUME AgentInv, [Next]_vars PROVE AgentInv'
    OBVIOUS
  <2>1. CASE Turn \/ Retry
    BY <2>1, AskStep, RespondStep, RecordStep DEF Turn
  <2>2. CASE Pool
    BY <2>2, PoolStep
  <2>3. CASE Steer \/ Cancel
    BY <2>3, UserStep
  <2>4. CASE UNCHANGED vars
    <3> USE DEF AgentInv, vars, counters, calls, user, history
    <3>1. TypeOK'
      BY <2>4 DEF TypeOK
    <3>2. FreshInv' /\ CountInv' /\ Running'
      BY <2>4 DEF FreshInv, CountInv, Running, Calls
    <3>3. Ordered' /\ Truthful'
      BY <2>4 DEF Ordered, Truthful, Busy, Calls
    <3> QED BY <3>1, <3>2, <3>3
  <2> QED BY <2>1, <2>2, <2>3, <2>4 DEF Next
<1> QED BY <1>1, <1>2, PTL DEF Spec

(* However a turn goes and is stopped: every call has its result, and nothing  *)
(* comes between; only safe neighbours run beside each other, never more than  *)
(* the pool has threads; the model is asked no more often than steps and       *)
(* compactions allow, and at most once after a stop; and what the turn says of *)
(* itself at its end is so (agent_loop.py run_agent_turn,                      *)
(* run_agent_turn_stream, _execute_calls_in_order, cancellation.py).           *)
THEOREM AgentHolds ==
  ASSUME ToolsAssumption, BatchesAssumption, LimitsAssumption
  PROVE  Spec => []AgentSafe
<1>1. AgentInv => AgentSafe
  <2> SUFFICES ASSUME AgentInv PROVE AgentSafe
    OBVIOUS
  <2>1. Answered
    BY DEF AgentInv, FreshInv, Whole, Asks, Answered
  <2>2. Bounded
    BY DEF AgentInv, CountInv, TypeOK, Bounded, LimitsAssumption
  <2> QED BY <2>1, <2>2 DEF AgentInv, AgentSafe
<1> QED BY <1>1, AgentAlways, PTL

================================================================================
