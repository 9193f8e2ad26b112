---------------------------- MODULE ApprovalsProofs ----------------------------
(***************************************************************************)
(* What is proved of approvals (Approvals), for any processes, callers,    *)
(* requests and paths: one prompt at a time, grants of the task that fit   *)
(* what runs on them, and refusals that stand while the file is written by *)
(* one process.  None of the three is inductive: what a caller carries,    *)
(* and what the store knows of each refusal, is kept with it.              *)
(***************************************************************************)
EXTENDS Approvals, FiniteSetTheorems, TLAPS

States == {"idle", "waiting", "asked", "allowed"}

(* What a caller carries: a prompt for a directory is about a path.            *)
IsCaller(s) ==
  /\ DOMAIN s = {"at", "req", "path", "key", "how", "ops"} /\ s = [x \in DOMAIN s |-> s[x]]
  /\ s.at \in States /\ s.req \in Requests
  /\ s.path \in BOOLEAN /\ (s.path = TRUE => s.req.kind \in {"path", "edit", "command"})

CallersTyped ==
  /\ callers = [p \in Procs |-> [c \in Callers |-> callers[p][c]]]
  /\ \A p \in Procs, c \in Callers : IsCaller(callers[p][c])

ModesTyped ==
  /\ mode \in [Procs -> AccessModes \cup {"plan"}] /\ previous \in [Procs -> AccessModes]
  /\ task \in 1..MaxRevision /\ world \in 0..1

(* The lock is held by the callers that are asked, and by one at most.         *)
LockHeld ==
  /\ lock = [p \in Procs |-> lock[p]]
  /\ \A p \in Procs : /\ lock[p] = {c \in Callers : callers[p][c].at = "asked"}
                      /\ \A c, d \in lock[p] : c = d

PromptInv == CallersTyped /\ ModesTyped /\ LockHeld

--------------------------------------------------------------------------------
(* Of a caller that changes.                                                   *)

(* Idle is what a caller is that asks for nothing (permissions.py).            *)
LEMMA IdleIsCaller ==
  ASSUME RequestsAssumption
  PROVE  IsCaller(Idle) /\ Idle.at = "idle"
<1>1. NoRequest \in Requests
  BY DEF NoRequest, RequestsAssumption
<1> QED BY <1>1 DEF IsCaller, Idle, States

(* A verdict leaves a caller idle, waiting or allowed, with its request, and   *)
(* allowed only by that verdict (permissions.py, the checks).                  *)
LEMMA AfterIsCaller ==
  ASSUME RequestsAssumption, NEW p \in Procs, NEW c \in Callers, NEW s, IsCaller(s), NEW v
  PROVE  /\ IsCaller(After(p, c, s, v)) /\ After(p, c, s, v).at # "asked"
         /\ After(p, c, s, v).at = "allowed" =>
              /\ v \notin {"deny", "ask"} /\ After(p, c, s, v).how = v
              /\ After(p, c, s, v).req = s.req
<1>1. CASE v = "deny"
  BY <1>1, IdleIsCaller DEF After
<1>2. CASE v = "ask"
  <2>1. AsksPath(p, s.req) \in BOOLEAN
        /\ (AsksPath(p, s.req) => s.req.kind \in {"path", "edit", "command"})
    BY DEF AsksPath
  <2> DEFINE key == IF s.req.kind = "command" THEN Key(p, c, s.req) ELSE <<>>
             t == [s EXCEPT !.at = "waiting", !.path = AsksPath(p, s.req), !.key = key]
  <2>2. After(p, c, s, v) = t
    BY <1>2 DEF After
  <2> HIDE DEF key
  <2>3. IsCaller(t) /\ t.at = "waiting"
    BY <2>1 DEF IsCaller, States
  <2> QED BY <2>2, <2>3
<1>3. CASE v \notin {"deny", "ask"}
  <2> DEFINE t == [s EXCEPT !.at = "allowed", !.how = v, !.key = <<>>]
  <2>1. After(p, c, s, v) = t
    BY <1>3 DEF After
  <2>2. IsCaller(t) /\ t.at = "allowed" /\ t.how = v /\ t.req = s.req
    BY DEF IsCaller, States
  <2> QED BY <1>3, <2>1, <2>2
<1> QED BY <1>1, <1>2, <1>3

(* So does an answer; what is allowed by it is allowed by the user or by what  *)
(* is said of the command (permissions.py check_command).                      *)
LEMMA AnsweredIsCaller ==
  ASSUME RequestsAssumption, NEW p \in Procs, NEW c \in Callers, NEW s, IsCaller(s), NEW d
  PROVE  /\ IsCaller(Answered(p, c, s, d)) /\ Answered(p, c, s, d).at # "asked"
         /\ Answered(p, c, s, d).at = "allowed" =>
              /\ Answered(p, c, s, d).req = s.req
              /\ \/ Answered(p, c, s, d).how = "user"
                 \/ /\ s.req.kind = "command"
                    /\ CommandVerdict(p, c, s.req) \notin {"deny", "ask"}
                    /\ Answered(p, c, s, d).how = CommandVerdict(p, c, s.req)
<1> DEFINE ops == IF s.path THEN s.ops \cup {<<mode[p], Target(s.req), s.req.intent>>} ELSE s.ops
           t == [s EXCEPT !.ops = ops]
           v == CommandVerdict(p, c, s.req)
           allowing == {"allow_once", "allow_task", "allow_always", "allow_turn", "allow_all_turn"}
<1>1. CASE d \notin allowing
  BY <1>1, IdleIsCaller DEF Answered
<1>2. t = [s EXCEPT !.ops = IF s.path THEN @ \cup {<<mode[p], Target(s.req), s.req.intent>>} ELSE @]
  OBVIOUS
<1>3. IsCaller(t) /\ t.req = s.req /\ t.path = s.path
  <2> HIDE DEF ops
  <2> QED BY DEF IsCaller
<1> HIDE DEF t
<1>4. CASE d \in allowing /\ s.path = TRUE /\ s.req.kind = "command" /\ v = "ask"
  <2> DEFINE u == [t EXCEPT !.at = "waiting", !.path = FALSE, !.key = Key(p, c, s.req)]
  <2>1. Answered(p, c, s, d) = u
    BY <1>2, <1>4 DEF Answered
  <2>2. IsCaller(u) /\ u.at = "waiting"
    BY <1>3 DEF IsCaller, States
  <2> QED BY <2>1, <2>2
<1>5. CASE d \in allowing /\ s.path = TRUE /\ s.req.kind = "command" /\ v # "ask"
  <2>1. Answered(p, c, s, d) = After(p, c, t, v)
    BY <1>2, <1>5 DEF Answered
  <2> HIDE DEF v
  <2>2. /\ IsCaller(After(p, c, t, v)) /\ After(p, c, t, v).at # "asked"
        /\ After(p, c, t, v).at = "allowed" =>
             /\ v \notin {"deny", "ask"} /\ After(p, c, t, v).how = v
             /\ After(p, c, t, v).req = t.req
    BY <1>3, AfterIsCaller
  <2> QED BY <1>3, <1>5, <2>1, <2>2 DEF v
<1>6. CASE d \in allowing /\ ~(s.path = TRUE /\ s.req.kind = "command")
  <2> DEFINE u == [t EXCEPT !.at = "allowed", !.how = "user", !.key = <<>>, !.path = FALSE]
  <2>1. Answered(p, c, s, d) = u
    BY <1>2, <1>6 DEF Answered, IsCaller
  <2>2. IsCaller(u) /\ u.at = "allowed" /\ u.how = "user" /\ u.req = s.req
    BY <1>3 DEF IsCaller, States
  <2> QED BY <2>1, <2>2
<1> QED BY <1>1, <1>4, <1>5, <1>6 DEF IsCaller

(* A step sets one caller and leaves the others as they were.                  *)
LEMMA OneCaller ==
  ASSUME CallersTyped, NEW p \in Procs, NEW c \in Callers, NEW s, IsCaller(s), Set(p, c, s)
  PROVE  /\ CallersTyped' /\ callers'[p][c] = s
         /\ \A q \in Procs, d \in Callers : q # p \/ d # c => callers'[q][d] = callers[q][d]
<1>1. callers' = [callers EXCEPT ![p] = [callers[p] EXCEPT ![c] = s]]
  BY DEF Set
<1>2. callers' = [q \in Procs |-> [d \in Callers |-> callers'[q][d]]]
  BY <1>1 DEF CallersTyped
<1>3. /\ callers'[p][c] = s
      /\ \A q \in Procs, d \in Callers : q # p \/ d # c => callers'[q][d] = callers[q][d]
  BY <1>1 DEF CallersTyped
<1>4. \A q \in Procs, d \in Callers : IsCaller(callers'[q][d])
  BY <1>3 DEF CallersTyped
<1> QED BY <1>2, <1>3, <1>4 DEF CallersTyped, IsCaller

--------------------------------------------------------------------------------
(* One prompt at a time.                                                       *)

(* Most steps leave the callers and the lock as they are (permissions.py).      *)
LEMMA CallersUnchanged ==
  ASSUME CallersTyped, LockHeld, UNCHANGED <<callers, lock>>
  PROVE  CallersTyped' /\ LockHeld'
<1>1. \A p \in Procs, c \in Callers : callers'[p][c] = callers[p][c]
  OBVIOUS
<1>2. CallersTyped'
  <2>1. \A p \in Procs, c \in Callers : IsCaller(callers[p][c]) <=> IsCaller(callers'[p][c])
    BY <1>1
  <2>2. callers' = [p \in Procs |-> [c \in Callers |-> callers'[p][c]]]
    BY DEF CallersTyped
  <2>3. \A p \in Procs, c \in Callers : IsCaller(callers'[p][c])
    BY <2>1 DEF CallersTyped
  <2> QED BY <2>2, <2>3 DEF CallersTyped, IsCaller
<1>3. LockHeld'
  <2>1. \A p \in Procs : lock'[p] = {c \in Callers : callers'[p][c].at = "asked"}
    BY DEF LockHeld
  <2> QED BY <2>1 DEF LockHeld
<1> QED BY <1>2, <1>3

(* A caller that was not asked and is not asked now leaves the lock alone.     *)
LEMMA LockQuiet ==
  ASSUME CallersTyped, LockHeld, NEW p \in Procs, NEW c \in Callers, NEW s, IsCaller(s),
         Set(p, c, s), callers[p][c].at # "asked", s.at # "asked", UNCHANGED lock
  PROVE  LockHeld'
<1>1. /\ callers'[p][c] = s
      /\ \A q \in Procs, d \in Callers : q # p \/ d # c => callers'[q][d] = callers[q][d]
  BY OneCaller
<1>2. \A q \in Procs, d \in Callers : callers'[q][d].at = "asked" <=> callers[q][d].at = "asked"
  BY <1>1
<1>3. \A q \in Procs : {d \in Callers : callers'[q][d].at = "asked"}
                         = {d \in Callers : callers[q][d].at = "asked"}
  BY <1>2
<1> QED BY <1>3 DEF LockHeld

(* A caller that stops being asked, or waiting, gives the lock up.             *)
LEMMA LockFreed ==
  ASSUME CallersTyped, LockHeld, NEW p \in Procs, NEW c \in Callers, NEW s, IsCaller(s),
         Set(p, c, s), s.at # "asked", lock' = [lock EXCEPT ![p] = lock[p] \ {c}]
  PROVE  LockHeld'
<1>1. /\ callers'[p][c] = s
      /\ \A q \in Procs, d \in Callers : q # p \/ d # c => callers'[q][d] = callers[q][d]
  BY OneCaller
<1>2. lock' = [q \in Procs |-> lock'[q]] /\ lock'[p] = lock[p] \ {c}
      /\ \A q \in Procs : q # p => lock'[q] = lock[q]
  BY DEF LockHeld
<1>3. \A q \in Procs : lock'[q] = {d \in Callers : callers'[q][d].at = "asked"}
  <2>1. ASSUME NEW q \in Procs, q # p
        PROVE  lock'[q] = {d \in Callers : callers'[q][d].at = "asked"}
    BY <1>1, <1>2, <2>1 DEF LockHeld
  <2>2. lock'[p] = {d \in Callers : callers'[p][d].at = "asked"}
    BY <1>1, <1>2 DEF LockHeld
  <2> QED BY <2>1, <2>2
<1>4. \A q \in Procs : \A d, e \in lock'[q] : d = e
  BY <1>2 DEF LockHeld
<1> QED BY <1>2, <1>3, <1>4 DEF LockHeld

(* The answer of the one that is asked empties the lock.                       *)
LEMMA LockEmptied ==
  ASSUME CallersTyped, LockHeld, NEW p \in Procs, NEW c \in Callers, NEW s, IsCaller(s),
         Set(p, c, s), callers[p][c].at = "asked", s.at # "asked",
         lock' = [lock EXCEPT ![p] = {}]
  PROVE  LockHeld'
<1>1. lock[p] \ {c} = {}
  BY DEF LockHeld
<1> QED BY <1>1, LockFreed

(* Every check, prompt and answer, change of mode and of turn, and restart.    *)
LEMMA PromptStep ==
  ASSUME RequestsAssumption, ModesAssumption, BoundsAssumption, PromptInv, [Next]_vars
  PROVE  PromptInv'
<1> USE DEF PromptInv
<1>1. ASSUME NEW p \in Procs, NEW c \in Callers, NEW r \in Requests, Check(p, c, r)
      PROVE  PromptInv'
  <2> DEFINE i == [Idle EXCEPT !.req = r]
             s == IF ToolAllowed(p, r) THEN After(p, c, i, Verdict(p, c, r, {})) ELSE Idle
  <2>1. IsCaller(i)
    BY IdleIsCaller DEF IsCaller, Idle, States
  <2>2. Set(p, c, s) /\ callers[p][c].at = "idle"
        /\ UNCHANGED <<mode, previous, lock, task, world>>
    BY <1>1 DEF Check, outside
  <2> HIDE DEF i
  <2>3. IsCaller(s) /\ s.at # "asked"
    BY <2>1, AfterIsCaller, IdleIsCaller
  <2> HIDE DEF s
  <2>4. CallersTyped'
    BY <2>2, <2>3, OneCaller
  <2>5. LockHeld'
    BY <2>2, <2>3, LockQuiet
  <2> QED BY <2>2, <2>4, <2>5 DEF ModesTyped
<1>2. ASSUME NEW p \in Procs, NEW c \in Callers, CheckAgain(p, c)
      PROVE  PromptInv'
  <2> DEFINE i == callers[p][c]
             s == After(p, c, i, Verdict(p, c, i.req, i.ops))
  <2>1. IsCaller(i)
    BY DEF CallersTyped
  <2>2. Set(p, c, s) /\ i.at = "allowed" /\ UNCHANGED <<mode, previous, lock, task, world>>
    BY <1>2 DEF CheckAgain, outside
  <2>3. IsCaller(s) /\ s.at # "asked"
    BY <2>1, AfterIsCaller
  <2> HIDE DEF s
  <2>4. CallersTyped'
    BY <2>2, <2>3, OneCaller
  <2>5. LockHeld'
    BY <2>2, <2>3, LockQuiet
  <2> QED BY <2>2, <2>4, <2>5 DEF ModesTyped
<1>3. ASSUME NEW p \in Procs, NEW c \in Callers, Done(p, c)
      PROVE  PromptInv'
  <2>1. Set(p, c, Idle) /\ callers[p][c].at = "allowed"
        /\ UNCHANGED <<mode, previous, lock, task, world>>
    BY <1>3 DEF Done, outside
  <2>2. CallersTyped' /\ LockHeld'
    BY <2>1, IdleIsCaller, OneCaller, LockQuiet
  <2> QED BY <2>1, <2>2 DEF ModesTyped
<1>4. ASSUME NEW p \in Procs, NEW c \in Callers, Prompt(p, c)
      PROVE  PromptInv'
  <2> DEFINE s == [callers[p][c] EXCEPT !.at = "asked"]
  <2>1. /\ lock[p] = {} /\ lock' = [lock EXCEPT ![p] = {c}]
        /\ callers' = [callers EXCEPT ![p][c] = s] /\ UNCHANGED <<mode, previous, task, world>>
    BY <1>4 DEF Prompt, outside
  <2>2. IsCaller(s) /\ s.at = "asked"
    BY DEF CallersTyped, IsCaller, States
  <2> HIDE DEF s
  <2>3. Set(p, c, s)
    BY <2>1 DEF Set
  <2>4. CallersTyped' /\ callers'[p][c] = s
        /\ \A q \in Procs, d \in Callers : q # p \/ d # c => callers'[q][d] = callers[q][d]
    BY <2>2, <2>3, OneCaller
  <2>5. lock' = [q \in Procs |-> lock'[q]] /\ lock'[p] = {c}
        /\ \A q \in Procs : q # p => lock'[q] = lock[q]
    BY <2>1 DEF LockHeld
  <2>6. \A q \in Procs : lock'[q] = {d \in Callers : callers'[q][d].at = "asked"}
    BY <2>1, <2>2, <2>4, <2>5 DEF LockHeld
  <2>7. LockHeld'
    BY <2>5, <2>6 DEF LockHeld
  <2> QED BY <2>1, <2>4, <2>7 DEF ModesTyped
<1>5. ASSUME NEW p \in Procs, NEW c \in Callers, Unanswered(p, c)
      PROVE  PromptInv'
  <2>1. Set(p, c, Idle) /\ lock' = [lock EXCEPT ![p] = lock[p] \ {c}]
        /\ UNCHANGED <<mode, previous, task, world>>
    BY <1>5 DEF Unanswered, outside
  <2>2. CallersTyped' /\ LockHeld'
    BY <2>1, IdleIsCaller, OneCaller, LockFreed
  <2> QED BY <2>1, <2>2 DEF ModesTyped
<1>6. ASSUME NEW p \in Procs, NEW c \in Callers, NEW d \in Decisions, Answer(p, c, d)
      PROVE  PromptInv'
  <2> DEFINE i == callers[p][c]
             s == IF Stale(p, c, i, d) THEN Idle ELSE Answered(p, c, i, d)
  <2>1. IsCaller(i)
    BY DEF CallersTyped
  <2>2. Set(p, c, s) /\ i.at = "asked" /\ lock' = [lock EXCEPT ![p] = {}]
        /\ UNCHANGED <<mode, previous, task, world>>
    BY <1>6 DEF Answer, outside
  <2>3. IsCaller(s) /\ s.at # "asked"
    BY <2>1, AnsweredIsCaller, IdleIsCaller
  <2> HIDE DEF s
  <2>4. CallersTyped' /\ LockHeld'
    BY <2>2, <2>3, OneCaller, LockEmptied
  <2> QED BY <2>2, <2>4 DEF ModesTyped
<1>7. ASSUME NEW p \in Procs, NEW c \in Callers, NEW d \in Decisions, AnswerUnsaved(p, c, d)
      PROVE  PromptInv'
  <2>1. Set(p, c, Idle) /\ callers[p][c].at = "asked" /\ lock' = [lock EXCEPT ![p] = {}]
        /\ UNCHANGED <<mode, previous, task, world>>
    BY <1>7 DEF AnswerUnsaved
  <2>2. CallersTyped' /\ LockHeld'
    BY <2>1, IdleIsCaller, OneCaller, LockEmptied
  <2> QED BY <2>1, <2>2 DEF ModesTyped
<1>8. ASSUME NEW p \in Procs, NEW c \in Callers, NEW d \in Decisions, AnswerPlan(p, c, d)
      PROVE  PromptInv'
  <2>1. Set(p, c, Idle) /\ callers[p][c].at = "asked" /\ lock' = [lock EXCEPT ![p] = {}]
        /\ mode' \in {mode, [mode EXCEPT ![p] = previous[p]]} /\ UNCHANGED <<previous, task, world>>
    BY <1>8 DEF AnswerPlan, outside
  <2>2. CallersTyped' /\ LockHeld'
    BY <2>1, IdleIsCaller, OneCaller, LockEmptied
  <2> QED BY <2>1, <2>2 DEF ModesTyped
<1>9. ASSUME NEW p \in Procs, NEW m \in Modes, SetMode(p, m)
      PROVE  PromptInv'
  <2>1. UNCHANGED <<callers, lock, task, world>> /\ m \in AccessModes
        /\ \/ previous' = [previous EXCEPT ![p] = m] /\ UNCHANGED mode
           \/ mode' = [mode EXCEPT ![p] = m] /\ UNCHANGED previous
    BY <1>9 DEF SetMode, outside, ModesAssumption
  <2> QED BY <2>1, CallersUnchanged DEF ModesTyped
<1>10. ASSUME NEW p \in Procs, EnterPlan(p) \/ LeavePlan(p)
       PROVE  PromptInv'
  <2>1. UNCHANGED <<callers, lock, task, world>>
        /\ \/ /\ mode[p] # "plan" /\ previous' = [previous EXCEPT ![p] = mode[p]]
              /\ mode' = [mode EXCEPT ![p] = "plan"]
           \/ mode' = [mode EXCEPT ![p] = previous[p]] /\ UNCHANGED previous
    BY <1>10 DEF EnterPlan, LeavePlan, outside
  <2> QED BY <2>1, CallersUnchanged DEF ModesTyped
<1>11. ASSUME NEW p \in Procs, TurnChanges(p)
       PROVE  PromptInv'
  BY <1>11, CallersUnchanged DEF TurnChanges, outside, ModesTyped
<1>12. ASSUME NEW p \in Procs, Restart(p)
       PROVE  PromptInv'
  <2>1. /\ callers' = [callers EXCEPT ![p] = [c \in Callers |-> Idle]]
        /\ lock' = [lock EXCEPT ![p] = {}] /\ UNCHANGED <<mode, previous, task, world>>
    BY <1>12 DEF Restart
  <2>2. /\ callers' = [q \in Procs |-> [c \in Callers |-> callers'[q][c]]]
        /\ \A c \in Callers : callers'[p][c] = Idle
        /\ \A q \in Procs : q # p => callers'[q] = callers[q]
    BY <2>1 DEF CallersTyped
  <2>3. CallersTyped'
    <3>1. \A q \in Procs, c \in Callers : IsCaller(callers'[q][c])
      BY <2>2, IdleIsCaller DEF CallersTyped
    <3> QED BY <2>2, <3>1 DEF CallersTyped, IsCaller
  <2>4. lock' = [q \in Procs |-> lock'[q]] /\ lock'[p] = {}
        /\ \A q \in Procs : q # p => lock'[q] = lock[q]
    BY <2>1 DEF LockHeld
  <2>5. \A q \in Procs : lock'[q] = {d \in Callers : callers'[q][d].at = "asked"}
    <3>1. \A c \in Callers : callers'[p][c].at # "asked"
      BY <2>2, IdleIsCaller
    <3>2. ASSUME NEW q \in Procs, q # p
          PROVE  lock'[q] = {d \in Callers : callers'[q][d].at = "asked"}
      BY <2>2, <2>4, <3>2 DEF LockHeld
    <3>3. lock'[p] = {d \in Callers : callers'[p][d].at = "asked"}
      BY <2>4, <3>1
    <3> QED BY <3>2, <3>3
  <2>6. \A q \in Procs : \A d, e \in lock'[q] : d = e
    BY <2>4 DEF LockHeld
  <2>7. LockHeld'
    BY <2>4, <2>5, <2>6 DEF LockHeld
  <2> QED BY <2>1, <2>3, <2>7 DEF ModesTyped
<1>13. CASE FilesChange \/ Revise
  <2>1. UNCHANGED <<mode, previous, callers, lock>>
    BY <1>13 DEF FilesChange, Revise
  <2>2. task' \in 1..MaxRevision /\ world' \in 0..1
    BY <1>13 DEF FilesChange, Revise, ModesTyped, BoundsAssumption
  <2> QED BY <2>1, <2>2, CallersUnchanged DEF ModesTyped
<1>14. CASE UNCHANGED vars
  BY <1>14, CallersUnchanged DEF vars, outside, ModesTyped
<1> QED
  BY <1>1, <1>2, <1>3, <1>4, <1>5, <1>6, <1>7, <1>8, <1>9, <1>10, <1>11, <1>12, <1>13, <1>14
  DEF Next

LEMMA PromptAlways ==
  ASSUME RequestsAssumption, ModesAssumption, BoundsAssumption
  PROVE  Spec => []PromptInv
<1>1. Init => PromptInv
  <2> SUFFICES ASSUME Init PROVE PromptInv
    OBVIOUS
  <2>1. CallersTyped
    BY IdleIsCaller DEF Init, CallersTyped
  <2>2. LockHeld
    BY IdleIsCaller DEF Init, LockHeld
  <2>3. ModesTyped
    BY DEF Init, ModesTyped, ModesAssumption, BoundsAssumption
  <2> QED BY <2>1, <2>2, <2>3 DEF PromptInv
<1>2. PromptInv /\ [Next]_vars => PromptInv'
  BY PromptStep
<1> QED BY <1>1, <1>2, PTL DEF Spec

(* The types, and that the user is asked one thing at a time by the caller     *)
(* that holds the lock, whatever is checked, cancelled, answered or restarted  *)
(* at the same time (permissions.py _request_approval, approval/store.py).     *)
THEOREM PromptsHold ==
  ASSUME RequestsAssumption, ModesAssumption, BoundsAssumption
  PROVE  Spec => []PromptsSafe
<1>1. PromptInv => PromptsSafe
  <2> SUFFICES ASSUME PromptInv PROVE PromptsSafe
    OBVIOUS
  <2>1. TypeOK
    BY DEF PromptInv, CallersTyped, ModesTyped, IsCaller, States, TypeOK
  <2>2. ASSUME NEW p \in Procs
        PROVE  Cardinality(lock[p]) <= 1
    <3>1. CASE lock[p] = {}
      BY <3>1, FS_EmptySet
    <3>2. CASE \E c \in lock[p] : TRUE
      <4>1. PICK c \in lock[p] : TRUE
        BY <3>2
      <4>2. \A d \in lock[p] : d = c
        BY DEF PromptInv, LockHeld
      <4>3. lock[p] = {c}
        BY <4>2
      <4>4. Cardinality({c}) = 1
        BY FS_Singleton
      <4> QED BY <4>3, <4>4
    <3> QED BY <3>1, <3>2
  <2>3. OnePrompt
    BY <2>2 DEF OnePrompt, PromptInv, LockHeld
  <2> QED BY <2>1, <2>3 DEF PromptsSafe
<1> QED BY <1>1, PromptAlways, PTL

--------------------------------------------------------------------------------
(* What runs on a grant of the task.                                           *)

(* The grants are those of the user since the last turn or mode, and none has  *)
(* the key of a sub-agent, which has none.                                     *)
GrantsInv ==
  /\ grants = [p \in Procs |-> grants[p]] /\ agreed = grants
  /\ \A p \in Procs : <<>> \notin grants[p]

(* What is said of a path names no grant of the task, and nothing but a        *)
(* command goes on with one (permissions.py check_command).                    *)
LEMMA TaskVerdict ==
  ASSUME NEW p \in Procs, NEW c \in Callers, NEW r \in Requests, NEW ops,
         Verdict(p, c, r, ops) = "task"
  PROVE  CommandVerdict(p, c, r) = "task"
<1>1. \A k, t : Lookup(p, k, t) # "task"
  BY DEF Lookup
<1>2. \A t : PathVerdict(p, t, r, ops) # "task"
  BY <1>1 DEF PathVerdict
<1>3. r.kind # "path"
  BY <1>2 DEF Verdict
<1>4. r.kind # "edit"
  <2>1. EditVerdict(p, r, ops) # "task"
    <3>1. CASE mode[p] = "plan"
      BY <3>1 DEF EditVerdict
    <3>2. CASE mode[p] = "read_only"
      BY <3>2 DEF EditVerdict
    <3>3. CASE mode[p] = "full_access"
      BY <3>3 DEF EditVerdict
    <3>4. CASE mode[p] \in {"auto", "trust_commands"} /\ Lookup(p, "edit", r.on) = "ask"
      BY <1>2, <3>4 DEF EditVerdict
    <3>5. CASE /\ mode[p] \notin {"plan", "read_only", "full_access"}
               /\ ~(mode[p] \in {"auto", "trust_commands"} /\ Lookup(p, "edit", r.on) = "ask")
      BY <1>1, <3>5 DEF EditVerdict
    <3> QED BY <3>1, <3>2, <3>3, <3>4, <3>5
  <2> QED BY <2>1 DEF Verdict
<1>5. r.kind \notin {"mcp", "external"}
  <2>1. McpVerdict(p, r) # "task"
    BY <1>1 DEF McpVerdict
  <2> QED BY <2>1 DEF Verdict
<1>6. r.kind # "plan"
  BY DEF Verdict
<1>7. Verdict(p, c, r, ops) =
         IF mode[p] \in {"read_only", "plan"} THEN "deny"
         ELSE IF mode[p] = "full_access" THEN "full"
         ELSE IF PathVerdict(p, r.cwd, r, ops) \in {"deny", "ask"} THEN PathVerdict(p, r.cwd, r, ops)
         ELSE CommandVerdict(p, c, r)
  BY <1>3, <1>4, <1>5, <1>6 DEF Verdict
<1> QED BY <1>7, <1>2

LEMMA CommandOfTask ==
  ASSUME GrantsInv, NEW p \in Procs, NEW c \in Callers, NEW r, CommandVerdict(p, c, r) = "task"
  PROVE  <<Scope(r), task, mode[p], world>> \in agreed[p]
<1>1. Key(p, c, r) \in grants[p]
  BY DEF CommandVerdict, Lookup
<1> QED BY <1>1 DEF Key, GrantsInv

LEMMA GrantsStep ==
  ASSUME GrantsInv, [Next]_vars
  PROVE  GrantsInv'
<1>1. CASE UNCHANGED <<grants, agreed>>
  BY <1>1 DEF GrantsInv
<1>2. ASSUME NEW p \in Procs, ClearGrants(p)
      PROVE  GrantsInv'
  BY <1>2 DEF ClearGrants, GrantsInv
<1>3. ASSUME NEW p \in Procs, NEW c \in Callers, NEW d \in Decisions, Answer(p, c, d)
      PROVE  GrantsInv'
  <2> DEFINE s == callers[p][c]
  <2>1. \/ UNCHANGED <<grants, agreed>>
        \/ d = "allow_task" /\ grants' = With(grants, p, s.key) /\ agreed' = With(agreed, p, s.key)
    BY <1>3 DEF Answer, Record, Remember, store, history
  <2>2. d = "allow_task" => s.key # <<>>
    BY <1>3 DEF Answer, Choices
  <2> HIDE DEF s
  <2>3. ASSUME s.key # <<>>, grants' = With(grants, p, s.key), agreed' = With(agreed, p, s.key)
        PROVE  GrantsInv'
    <3>1. grants' = [grants EXCEPT ![p] = grants[p] \cup {s.key}] /\ agreed' = grants'
      BY <2>3 DEF With, GrantsInv
    <3>2. grants' = [q \in Procs |-> grants'[q]] /\ grants'[p] = grants[p] \cup {s.key}
          /\ \A q \in Procs : q # p => grants'[q] = grants[q]
      BY <3>1 DEF GrantsInv
    <3> QED BY <2>3, <3>1, <3>2 DEF GrantsInv
  <2> QED BY <1>1, <2>1, <2>2, <2>3
<1>4. ASSUME NEW p \in Procs, NEW c \in Callers, NEW d \in Decisions, AnswerUnsaved(p, c, d)
      PROVE  GrantsInv'
  <2>1. UNCHANGED <<grants, agreed>>
    BY <1>4 DEF AnswerUnsaved, Lasting, Record, history
  <2> QED BY <1>1, <2>1
<1>5. ASSUME NEW p \in Procs, NEW c \in Callers,
             \/ \E r \in Requests : Check(p, c, r)
             \/ CheckAgain(p, c) \/ Done(p, c) \/ Prompt(p, c) \/ Unanswered(p, c)
             \/ \E d \in Decisions : AnswerPlan(p, c, d)
      PROVE  GrantsInv'
  BY <1>1, <1>5 DEF Check, CheckAgain, Done, Prompt, Unanswered, AnswerPlan, store, history
<1>6. ASSUME NEW p \in Procs,
             \/ \E m \in Modes : SetMode(p, m)
             \/ EnterPlan(p) \/ LeavePlan(p) \/ TurnChanges(p) \/ Restart(p)
      PROVE  GrantsInv'
  BY <1>2, <1>6 DEF SetMode, EnterPlan, LeavePlan, TurnChanges, Restart
<1>7. CASE FilesChange \/ Revise
  BY <1>1, <1>7 DEF FilesChange, Revise, store, history
<1>8. CASE UNCHANGED vars
  BY <1>1, <1>8 DEF vars, store, history
<1> QED BY <1>3, <1>4, <1>5, <1>6, <1>7, <1>8 DEF Next

(* How a call comes to pass: by a check of what it asks for, or by the answer  *)
(* to its prompt.                                                              *)
LEMMA Passing ==
  ASSUME RequestsAssumption, PromptInv, [Next]_vars, NEW p \in Procs, NEW c \in Callers,
         Passed(p, c)
  PROVE  LET r == callers'[p][c].req
             how == callers'[p][c].how
         IN \/ /\ callers[p][c].at = "idle" /\ ToolAllowed(p, r)
               /\ how = Verdict(p, c, r, {}) /\ how \notin {"deny", "ask"}
            \/ /\ callers[p][c].at = "asked"
               /\ \/ how = "user"
                  \/ /\ r.kind = "command" /\ how = CommandVerdict(p, c, r)
                     /\ how \notin {"deny", "ask"}
<1> USE DEF PromptInv
<1>1. ASSUME NEW q \in Procs, NEW d \in Callers, NEW s, IsCaller(s), Set(q, d, s),
             s.at # "allowed"
      PROVE  FALSE
  BY <1>1, OneCaller DEF Passed
<1>2. ASSUME NEW q \in Procs, NEW d \in Callers, NEW s, IsCaller(s), Set(q, d, s)
      PROVE  q = p /\ d = c /\ callers'[p][c] = s
  BY <1>2, OneCaller DEF Passed
<1>3. ASSUME callers' = callers
      PROVE  FALSE
  BY <1>3 DEF Passed
<1>4. ASSUME NEW q \in Procs, NEW d \in Callers, NEW r \in Requests, Check(q, d, r)
      PROVE  /\ callers[p][c].at = "idle" /\ ToolAllowed(p, r) /\ callers'[p][c].req = r
             /\ callers'[p][c].how = Verdict(p, c, r, {}) /\ Verdict(p, c, r, {}) \notin {"deny", "ask"}
  <2> DEFINE i == [Idle EXCEPT !.req = r]
             v == Verdict(q, d, r, {})
             s == IF ToolAllowed(q, r) THEN After(q, d, i, v) ELSE Idle
  <2>1. IsCaller(i) /\ i.req = r
    BY IdleIsCaller DEF IsCaller, Idle, States
  <2>2. Set(q, d, s) /\ callers[q][d].at = "idle"
    BY <1>4 DEF Check
  <2> HIDE DEF i, v
  <2>3. /\ IsCaller(After(q, d, i, v))
        /\ After(q, d, i, v).at = "allowed" =>
             /\ v \notin {"deny", "ask"} /\ After(q, d, i, v).how = v
             /\ After(q, d, i, v).req = r
    BY <2>1, AfterIsCaller
  <2>4. IsCaller(s) /\ (s.at = "allowed" => ToolAllowed(q, r) /\ s = After(q, d, i, v))
    BY <2>3, IdleIsCaller
  <2> HIDE DEF s
  <2>5. q = p /\ d = c /\ callers'[p][c] = s /\ s.at = "allowed"
    BY <1>2, <2>2, <2>4 DEF Passed
  <2> QED BY <2>2, <2>3, <2>4, <2>5 DEF v
<1>5. ASSUME NEW q \in Procs, NEW d \in Callers, CheckAgain(q, d)
      PROVE  FALSE
  <2> DEFINE i == callers[q][d]
             s == After(q, d, i, Verdict(q, d, i.req, i.ops))
  <2>1. IsCaller(i)
    BY DEF CallersTyped
  <2>2. Set(q, d, s) /\ i.at = "allowed"
    BY <1>5 DEF CheckAgain
  <2>3. IsCaller(s)
    BY <2>1, AfterIsCaller
  <2> HIDE DEF s
  <2>4. q = p /\ d = c
    BY <1>2, <2>2, <2>3
  <2> QED BY <2>2, <2>4 DEF Passed
<1>6. ASSUME NEW q \in Procs, NEW d \in Callers,
             \/ Done(q, d) \/ Unanswered(q, d)
             \/ \E e \in Decisions : AnswerUnsaved(q, d, e) \/ AnswerPlan(q, d, e)
      PROVE  FALSE
  <2>1. Set(q, d, Idle)
    BY <1>6 DEF Done, Unanswered, AnswerUnsaved, AnswerPlan
  <2> QED BY <1>1, <2>1, IdleIsCaller
<1>7. ASSUME NEW q \in Procs, NEW d \in Callers, Prompt(q, d)
      PROVE  FALSE
  <2> DEFINE s == [callers[q][d] EXCEPT !.at = "asked"]
  <2>1. callers' = [callers EXCEPT ![q][d] = s]
    BY <1>7 DEF Prompt
  <2>0. IsCaller(callers[q][d])
    BY DEF CallersTyped
  <2>2. IsCaller(s) /\ s.at = "asked"
    BY <2>0 DEF IsCaller, States
  <2> HIDE DEF s
  <2>3. Set(q, d, s)
    BY <2>1 DEF Set
  <2> QED BY <1>1, <2>2, <2>3
<1>8. ASSUME NEW q \in Procs, NEW d \in Callers, NEW e \in Decisions, Answer(q, d, e)
      PROVE  /\ callers[p][c].at = "asked"
             /\ \/ callers'[p][c].how = "user"
                \/ /\ callers'[p][c].req.kind = "command"
                   /\ callers'[p][c].how = CommandVerdict(p, c, callers'[p][c].req)
                   /\ callers'[p][c].how \notin {"deny", "ask"}
  <2> DEFINE i == callers[q][d]
             s == IF Stale(q, d, i, e) THEN Idle ELSE Answered(q, d, i, e)
  <2>1. IsCaller(i)
    BY DEF CallersTyped
  <2>2. Set(q, d, s) /\ i.at = "asked"
    BY <1>8 DEF Answer
  <2> HIDE DEF i
  <2>3. /\ IsCaller(Answered(q, d, i, e))
        /\ Answered(q, d, i, e).at = "allowed" =>
             /\ Answered(q, d, i, e).req = i.req
             /\ \/ Answered(q, d, i, e).how = "user"
                \/ /\ i.req.kind = "command"
                   /\ CommandVerdict(q, d, i.req) \notin {"deny", "ask"}
                   /\ Answered(q, d, i, e).how = CommandVerdict(q, d, i.req)
    BY <2>1, AnsweredIsCaller
  <2>4. IsCaller(s) /\ (s.at = "allowed" => s = Answered(q, d, i, e))
    BY <2>3, IdleIsCaller
  <2> HIDE DEF s
  <2>5. q = p /\ d = c /\ callers'[p][c] = s /\ s.at = "allowed"
    BY <1>2, <2>2, <2>4 DEF Passed
  <2> QED BY <2>2, <2>3, <2>4, <2>5 DEF i
<1>9. ASSUME NEW q \in Procs, Restart(q)
      PROVE  FALSE
  <2>1. callers' = [callers EXCEPT ![q] = [d \in Callers |-> Idle]]
    BY <1>9 DEF Restart
  <2>2. callers'[p][c] = Idle \/ callers'[p][c] = callers[p][c]
    BY <2>1 DEF CallersTyped
  <2> QED BY <2>2, IdleIsCaller DEF Passed
<1>10. ASSUME NEW q \in Procs,
              \/ \E m \in Modes : SetMode(q, m)
              \/ EnterPlan(q) \/ LeavePlan(q) \/ TurnChanges(q)
       PROVE  FALSE
  BY <1>3, <1>10 DEF SetMode, EnterPlan, LeavePlan, TurnChanges
<1>11. CASE FilesChange \/ Revise \/ UNCHANGED vars
  BY <1>3, <1>11 DEF FilesChange, Revise, vars
<1> QED
  BY <1>4, <1>5, <1>6, <1>7, <1>8, <1>9, <1>10, <1>11 DEF Next

LEMMA GrantsAlways == Spec => []GrantsInv
<1>1. Init => GrantsInv
  BY DEF Init, GrantsInv
<1>2. GrantsInv /\ [Next]_vars => GrantsInv'
  BY GrantsStep
<1> QED BY <1>1, <1>2, PTL DEF Spec

(* A command runs on a grant for the task only if the user gave it for this    *)
(* command, task, mode and contents since the last turn or mode, and a call    *)
(* that asks nobody in plan mode reads, or writes the plan (permissions.py     *)
(* check_command, ensure_tool_allowed, approval/store.py).                     *)
THEOREM GrantsAlwaysFit ==
  ASSUME RequestsAssumption, ModesAssumption, BoundsAssumption
  PROVE  Spec => GrantsFit
<1>1. PromptInv /\ GrantsInv /\ [Next]_vars => PassesGranted
  <2> SUFFICES ASSUME PromptInv, GrantsInv, [Next]_vars,
                      NEW p \in Procs, NEW c \in Callers, Passed(p, c)
               PROVE  /\ callers'[p][c].how = "task"
                           => <<Scope(callers'[p][c].req), task, mode[p], world>> \in agreed[p]
                      /\ callers[p][c].at = "idle" /\ mode[p] = "plan"
                           => Reading(callers'[p][c].req) \/ callers'[p][c].req.on = PlanFile
    BY DEF PassesGranted
  <2> DEFINE r == callers'[p][c].req
             how == callers'[p][c].how
  <2>1. \/ /\ callers[p][c].at = "idle" /\ ToolAllowed(p, r)
           /\ how = Verdict(p, c, r, {}) /\ how \notin {"deny", "ask"}
        \/ /\ callers[p][c].at = "asked"
           /\ \/ how = "user"
              \/ r.kind = "command" /\ how = CommandVerdict(p, c, r) /\ how \notin {"deny", "ask"}
    BY Passing
  <2>2. r \in Requests
    BY PromptStep DEF PromptInv, CallersTyped, IsCaller
  <2> HIDE DEF r, how
  <2>3. how = "task" => CommandVerdict(p, c, r) = "task"
    BY <2>1, <2>2, TaskVerdict
  <2>4. how = "task" => <<Scope(r), task, mode[p], world>> \in agreed[p]
    BY <2>3, CommandOfTask
  <2>5. callers[p][c].at = "idle" /\ mode[p] = "plan" => Reading(r) \/ r.on = PlanFile
    <3> SUFFICES ASSUME callers[p][c].at = "idle", mode[p] = "plan", ~Reading(r)
                 PROVE  r.on = PlanFile
      OBVIOUS
    <3>1. r.kind = "plan" \/ (r.kind = "edit" /\ r.on = PlanFile)
      BY <2>1 DEF ToolAllowed
    <3>2. r.kind = "plan" => Verdict(p, c, r, {}) = "ask"
      BY DEF Verdict
    <3> QED BY <2>1, <3>1, <3>2
  <2> QED BY <2>4, <2>5 DEF r, how
<1> QED BY <1>1, PromptAlways, GrantsAlways, PTL DEF Spec, GrantsFit

--------------------------------------------------------------------------------
(* Refusals that stand, while one process writes the file.                     *)

OneProcess == \A p, q \in Procs : p = q

(* The decisions D answer for the refusal k: they hold it, or that of the      *)
(* directory above the path.                                                   *)
Known(D, k) == k \in D \/ \E t \in Paths : k = <<"path", t>> /\ <<"path", Parent[t]>> \in D

(* What the user refused is known: a lasting refusal in memory and on disk.    *)
RefusalsKnown ==
  \A p \in Procs : \A x \in refused[p] :
    /\ x[1] = <<x[1][1], x[1][2]>>
    /\ x[2] => Known(never[p], x[1]) /\ Known(disk.never, x[1])
    /\ ~x[2] => x[1] \in notNow[p]

RefusalsInv ==
  /\ never = [p \in Procs |-> never[p]] /\ notNow = [p \in Procs |-> notNow[p]]
  /\ refused = [p \in Procs |-> refused[p]]
  /\ RefusalsKnown

LEMMA KnownMore ==
  ASSUME NEW D, NEW k, NEW x, Known(D, k) PROVE Known(D \cup {x}, k)
BY DEF Known

(* With what is remembered of an answer, its refusal is known.                 *)
LEMMA RecordedKnown ==
  ASSUME RequestsAssumption, NEW s, IsCaller(s), NEW D
  PROVE  LET k == IF s.path THEN <<"path", Shown(s)>> ELSE Recorded(s)
         IN k = <<k[1], k[2]>> /\ Known(D \cup {Recorded(s)}, k)
<1>1. CASE s.path = FALSE
  BY <1>1 DEF Recorded, Known
<1>2. CASE s.path = TRUE
  <2>1. Target(s.req) \in Paths
    BY <1>2 DEF IsCaller, RequestsAssumption, Target
  <2>2. Recorded(s) = <<"path", Parent[Target(s.req)]>>
    BY <1>2 DEF Recorded
  <2>3. Shown(s) \in {Target(s.req), Parent[Target(s.req)]}
    BY DEF Shown
  <2> QED BY <1>2, <2>1, <2>2, <2>3 DEF Known
<1> QED BY <1>1, <1>2 DEF IsCaller

(* Nothing refused is forgotten by an answer, nor lost with a restart: what    *)
(* the file says is what the process knew when it wrote it.                    *)
LEMMA RefusalsStep ==
  ASSUME RequestsAssumption, OneProcess, PromptInv, RefusalsInv, [Next]_vars
  PROVE  RefusalsInv'
<1>1. CASE UNCHANGED <<never, notNow, refused, disk>>
  BY <1>1 DEF RefusalsInv, RefusalsKnown
<1>2. ASSUME NEW p \in Procs, NEW c \in Callers, NEW d \in Decisions, Answer(p, c, d)
      PROVE  RefusalsInv'
  <2> DEFINE s == callers[p][c]
             k == IF s.path THEN <<"path", Shown(s)>> ELSE Recorded(s)
  <2>1. IsCaller(s)
    BY DEF PromptInv, CallersTyped
  <2>2. CASE UNCHANGED <<never, notNow, refused, disk>>
    BY <1>1, <2>2
  <2>3. CASE /\ d = "allow_always" /\ UNCHANGED <<never, notNow, refused>>
             /\ disk'.never = never[p]
    <3>1. ASSUME NEW q \in Procs, NEW x \in refused'[q]
          PROVE  /\ x[1] = <<x[1][1], x[1][2]>>
                 /\ x[2] => Known(never'[q], x[1]) /\ Known(disk'.never, x[1])
                 /\ ~x[2] => x[1] \in notNow'[q]
      BY <2>3, OneProcess DEF RefusalsInv, RefusalsKnown, OneProcess
    <3> QED BY <2>3, <3>1 DEF RefusalsInv, RefusalsKnown
  <2>4. CASE /\ d = "deny_once" /\ UNCHANGED <<never, disk>>
             /\ notNow' = With(notNow, p, Once(s))
             /\ refused' = With(refused, p, <<Once(s), FALSE>>)
    <3>1. /\ notNow' = [q \in Procs |-> notNow'[q]] /\ refused' = [q \in Procs |-> refused'[q]]
          /\ notNow'[p] = notNow[p] \cup {Once(s)}
          /\ refused'[p] = refused[p] \cup {<<Once(s), FALSE>>}
      BY <2>4 DEF With, RefusalsInv
    <3>2. Once(s) = <<Once(s)[1], Once(s)[2]>>
      BY DEF Once
    <3> HIDE DEF s
    <3>3. ASSUME NEW q \in Procs, NEW x \in refused'[q]
          PROVE  /\ x[1] = <<x[1][1], x[1][2]>>
                 /\ x[2] => Known(never'[q], x[1]) /\ Known(disk'.never, x[1])
                 /\ ~x[2] => x[1] \in notNow'[q]
      <4>1. q = p
        BY DEF OneProcess
      <4>2. CASE x \in refused[p]
        BY <2>4, <3>1, <4>1, <4>2 DEF RefusalsInv, RefusalsKnown
      <4>3. CASE x = <<Once(s), FALSE>>
        BY <3>1, <3>2, <4>1, <4>3
      <4> QED BY <3>1, <4>1, <4>2, <4>3
    <3> QED BY <2>4, <3>1, <3>3 DEF RefusalsInv, RefusalsKnown
  <2>5. CASE /\ d = "deny_always" /\ UNCHANGED notNow
             /\ never' = With(never, p, Recorded(s)) /\ disk'.never = never'[p]
             /\ refused' = With(refused, p, <<k, TRUE>>)
    <3>1. /\ never' = [q \in Procs |-> never'[q]] /\ refused' = [q \in Procs |-> refused'[q]]
          /\ never'[p] = never[p] \cup {Recorded(s)}
          /\ refused'[p] = refused[p] \cup {<<k, TRUE>>}
      BY <2>5 DEF With, RefusalsInv
    <3>2. k = <<k[1], k[2]>> /\ Known(never[p] \cup {Recorded(s)}, k)
      BY <2>1, RecordedKnown
    <3> HIDE DEF s, k
    <3>3. ASSUME NEW q \in Procs, NEW x \in refused'[q]
          PROVE  /\ x[1] = <<x[1][1], x[1][2]>>
                 /\ x[2] => Known(never'[q], x[1]) /\ Known(disk'.never, x[1])
                 /\ ~x[2] => x[1] \in notNow'[q]
      <4>1. q = p
        BY DEF OneProcess
      <4>2. CASE x \in refused[p]
        <5>1. /\ x[1] = <<x[1][1], x[1][2]>> /\ (x[2] => Known(never[p], x[1]))
              /\ (~x[2] => x[1] \in notNow[p])
          BY <4>2 DEF RefusalsInv, RefusalsKnown
        <5>2. x[2] => Known(never[p] \cup {Recorded(s)}, x[1])
          BY <5>1, KnownMore
        <5> QED BY <2>5, <3>1, <4>1, <5>1, <5>2
      <4>3. CASE x = <<k, TRUE>>
        BY <2>5, <3>1, <3>2, <4>1, <4>3
      <4> QED BY <3>1, <4>1, <4>2, <4>3
    <3> QED BY <2>5, <3>1, <3>3 DEF RefusalsInv, RefusalsKnown
  <2>6. \/ UNCHANGED <<never, notNow, refused, disk>>
        \/ Record(p, s, d) /\ Persist(p, d) /\ Remember(p, s, d)
    BY <1>2 DEF Answer, store, history
  <2> HIDE DEF s
  <2>7. ASSUME Record(p, s, d), Persist(p, d), Remember(p, s, d)
        PROVE  RefusalsInv'
    <3>1. CASE d = "allow_always"
      BY <2>3, <2>7, <3>1 DEF Record, Persist, Remember, Lasting
    <3>2. CASE d = "deny_once"
      BY <2>2, <2>4, <2>7, <3>2 DEF Record, Persist, Remember, Lasting
    <3>3. CASE d = "deny_always"
      BY <2>5, <2>7, <3>3 DEF Record, Persist, Remember, Lasting
    <3>4. CASE d \notin {"allow_always", "deny_once", "deny_always"}
      BY <2>2, <2>7, <3>4 DEF Record, Persist, Remember, Lasting
    <3> QED BY <3>1, <3>2, <3>3, <3>4
  <2> QED BY <2>2, <2>6, <2>7
<1>3. ASSUME NEW p \in Procs, NEW c \in Callers, NEW d \in Decisions, AnswerUnsaved(p, c, d)
      PROVE  RefusalsInv'
  <2> DEFINE s == callers[p][c]
  <2>1. /\ UNCHANGED <<notNow, refused, disk>>
        /\ never' = With(never, p, Recorded(s)) \/ UNCHANGED never
    BY <1>3 DEF AnswerUnsaved, Lasting, Record, history
  <2> HIDE DEF s
  <2>2. ASSUME never' = With(never, p, Recorded(s))
        PROVE  RefusalsInv'
    <3>1. /\ never' = [q \in Procs |-> never'[q]]
          /\ \A q \in Procs : never'[q] \in {never[q], never[q] \cup {Recorded(s)}}
      BY <2>2 DEF With, RefusalsInv
    <3>2. ASSUME NEW q \in Procs, NEW x \in refused[q]
          PROVE  /\ x[1] = <<x[1][1], x[1][2]>>
                 /\ x[2] => Known(never'[q], x[1]) /\ Known(disk.never, x[1])
                 /\ ~x[2] => x[1] \in notNow[q]
      <4>1. /\ x[1] = <<x[1][1], x[1][2]>>
            /\ x[2] => Known(never[q], x[1]) /\ Known(disk.never, x[1])
            /\ ~x[2] => x[1] \in notNow[q]
        BY DEF RefusalsInv, RefusalsKnown
      <4>2. x[2] => Known(never[q] \cup {Recorded(s)}, x[1])
        BY <4>1, KnownMore
      <4> QED BY <3>1, <4>1, <4>2
    <3> QED BY <2>1, <3>1, <3>2 DEF RefusalsInv, RefusalsKnown
  <2> QED BY <1>1, <2>1, <2>2
<1>4. ASSUME NEW p \in Procs, NEW c \in Callers,
             \/ \E r \in Requests : Check(p, c, r)
             \/ CheckAgain(p, c) \/ Done(p, c) \/ Prompt(p, c) \/ Unanswered(p, c)
             \/ \E d \in Decisions : AnswerPlan(p, c, d)
      PROVE  RefusalsInv'
  BY <1>1, <1>4 DEF Check, CheckAgain, Done, Prompt, Unanswered, AnswerPlan, store, history
<1>5. ASSUME NEW p \in Procs,
             \/ \E m \in Modes : SetMode(p, m)
             \/ EnterPlan(p) \/ LeavePlan(p) \/ TurnChanges(p)
      PROVE  RefusalsInv'
  BY <1>1, <1>5 DEF SetMode, EnterPlan, LeavePlan, TurnChanges
<1>6. ASSUME NEW p \in Procs, Restart(p)
      PROVE  RefusalsInv'
  <2>1. /\ never' = [never EXCEPT ![p] = disk.never] /\ notNow' = [notNow EXCEPT ![p] = {}]
        /\ refused' = [refused EXCEPT ![p] = {x \in refused[p] : x[2]}] /\ UNCHANGED disk
    BY <1>6 DEF Restart
  <2>2. /\ never' = [q \in Procs |-> never'[q]] /\ notNow' = [q \in Procs |-> notNow'[q]]
        /\ refused' = [q \in Procs |-> refused'[q]] /\ never'[p] = disk.never
        /\ refused'[p] = {x \in refused[p] : x[2]}
    BY <2>1 DEF RefusalsInv
  <2>3. ASSUME NEW q \in Procs, NEW x \in refused'[q]
        PROVE  /\ x[1] = <<x[1][1], x[1][2]>>
               /\ x[2] => Known(never'[q], x[1]) /\ Known(disk'.never, x[1])
               /\ ~x[2] => x[1] \in notNow'[q]
    <3>1. q = p /\ x \in refused[p] /\ x[2]
      BY <2>2, <2>3 DEF OneProcess
    <3> QED BY <2>1, <2>2, <3>1 DEF RefusalsInv, RefusalsKnown
  <2> QED BY <2>2, <2>3 DEF RefusalsInv, RefusalsKnown
<1>7. CASE FilesChange \/ Revise
  BY <1>1, <1>7 DEF FilesChange, Revise, store, history
<1>8. CASE UNCHANGED vars
  BY <1>1, <1>8 DEF vars, store, history
<1> QED BY <1>2, <1>3, <1>4, <1>5, <1>6, <1>7, <1>8 DEF Next

(* What was refused is found refused again, a path under the directory that    *)
(* was refused too (approval/store.py lookup).                                 *)
LEMMA RefusedIsFound ==
  ASSUME RequestsAssumption, PathsAssumption, RefusalsInv, NEW p \in Procs, NEW r \in Requests,
         WasRefused(p, r)
  PROVE  Refuses(p, r.kind, Scope(r))
<1>1. PICK x \in refused[p] :
        \/ x[1] = <<r.kind, Scope(r)>>
        \/ r.kind = "path" /\ x[2] /\ x[1][1] = "path" /\ x[1][2] \in Above[r.on]
  BY DEF WasRefused
<1>2. /\ x[1] = <<x[1][1], x[1][2]>>
      /\ x[2] => Known(never[p], x[1])
      /\ ~x[2] => x[1] \in notNow[p]
  BY DEF RefusalsInv, RefusalsKnown
<1>3. CASE r.kind # "path"
  <2>1. x[1] = <<r.kind, Scope(r)>>
    BY <1>1, <1>3
  <2>2. Known(never[p], <<r.kind, Scope(r)>>) => <<r.kind, Scope(r)>> \in never[p]
    BY <1>3 DEF Known
  <2> QED BY <1>2, <1>3, <2>1, <2>2 DEF Refuses, Decided
<1>4. CASE r.kind = "path"
  <2>1. Scope(r) = r.on /\ r.on \in Paths /\ r.on \in Above[r.on]
    BY <1>4 DEF Scope, RequestsAssumption, PathsAssumption
  <2>2. CASE ~x[2]
    BY <1>1, <1>2, <1>4, <2>1, <2>2 DEF Refuses
  <2>3. CASE x[2]
    <3> DEFINE t == x[1][2]
    <3>1. x[1] = <<"path", t>> /\ t \in Above[r.on]
      BY <1>1, <1>2, <1>4, <2>1
    <3>2. Known(never[p], <<"path", t>>)
      BY <1>2, <2>3, <3>1
    <3> HIDE DEF t
    <3>3. <<"path", t>> \in never[p] \/ <<"path", Parent[t]>> \in never[p]
      BY <3>2 DEF Known
    <3>4. Parent[t] \in Above[r.on]
      BY <2>1, <3>1 DEF PathsAssumption
    <3>5. \E e \in Above[r.on] : <<"path", e>> \in never[p]
      BY <3>1, <3>3, <3>4
    <3> QED BY <1>4, <2>1, <3>5 DEF Refuses, Decided
  <2> QED BY <2>2, <2>3
<1> QED BY <1>3, <1>4

(* Nothing passes on what the store says, on a grant or on trust, that is      *)
(* found refused (permissions.py check_path_access, check_command, check_edit, *)
(* check_mcp_tool).                                                            *)
LEMMA VerdictUnrefused ==
  ASSUME RequestsAssumption, NEW p \in Procs, NEW c \in Callers, NEW r \in Requests, NEW ops,
         Verdict(p, c, r, ops) \in {"store", "task", "trust"}
  PROVE  ~Refuses(p, r.kind, Scope(r))
<1>1. \A k, t : Lookup(p, k, t) \notin {"task", "trust"}
                /\ (Lookup(p, k, t) # "deny" => ~Refuses(p, k, t))
  BY DEF Lookup
<1>2. \A t : PathVerdict(p, t, r, ops) \in {"store", "task", "trust"}
               => PathVerdict(p, t, r, ops) = Lookup(p, "path", t)
  BY DEF PathVerdict
<1>3. CASE r.kind = "path"
  <2>1. Verdict(p, c, r, ops) = PathVerdict(p, r.on, r, ops) /\ Scope(r) = r.on
    BY <1>3 DEF Verdict, Scope
  <2> QED BY <1>1, <1>2, <1>3, <2>1
<1>4. CASE r.kind = "edit"
  <2>1. Verdict(p, c, r, ops) = EditVerdict(p, r, ops) /\ Scope(r) = r.on
    BY <1>4 DEF Verdict, Scope
  <2>2. CASE mode[p] = "plan"
    BY <2>1, <2>2 DEF EditVerdict
  <2>3. CASE mode[p] = "read_only"
    BY <2>1, <2>3 DEF EditVerdict
  <2>4. CASE mode[p] = "full_access"
    BY <2>1, <2>4 DEF EditVerdict
  <2>5. CASE mode[p] \in {"auto", "trust_commands"} /\ Lookup(p, "edit", r.on) = "ask"
    BY <1>1, <1>4, <2>1, <2>5
  <2>6. CASE /\ mode[p] \notin {"plan", "read_only", "full_access"}
             /\ ~(mode[p] \in {"auto", "trust_commands"} /\ Lookup(p, "edit", r.on) = "ask")
    <3>1. EditVerdict(p, r, ops) = Lookup(p, "edit", r.on)
      BY <2>6 DEF EditVerdict
    <3> QED BY <1>1, <1>4, <2>1, <3>1
  <2> QED BY <2>2, <2>3, <2>4, <2>5, <2>6
<1>5. CASE r.kind \in {"mcp", "external"}
  <2>1. Verdict(p, c, r, ops) = McpVerdict(p, r) /\ Scope(r) = r.on
    BY <1>5 DEF Verdict, Scope
  <2>2. r.kind = "mcp" /\ McpVerdict(p, r) = Lookup(p, "mcp", r.on)
    BY <1>5, <2>1 DEF McpVerdict
  <2> QED BY <1>1, <2>1, <2>2
<1>6. CASE r.kind = "plan"
  BY <1>6 DEF Verdict
<1>7. CASE r.kind = "command"
  <2>1. Verdict(p, c, r, ops) =
          IF mode[p] \in {"read_only", "plan"} THEN "deny"
          ELSE IF mode[p] = "full_access" THEN "full"
          ELSE IF PathVerdict(p, r.cwd, r, ops) \in {"deny", "ask"} THEN PathVerdict(p, r.cwd, r, ops)
          ELSE CommandVerdict(p, c, r)
    BY <1>7 DEF Verdict
  <2>2. CommandVerdict(p, c, r) # "deny"
    BY <2>1
  <2> QED BY <1>7, <2>2 DEF CommandVerdict
<1> QED BY <1>3, <1>4, <1>5, <1>6, <1>7 DEF RequestsAssumption, Kinds

LEMMA RefusalsAlways ==
  ASSUME RequestsAssumption, ModesAssumption, BoundsAssumption, OneProcess
  PROVE  Spec => []RefusalsInv
<1>1. Init => RefusalsInv
  BY DEF Init, RefusalsInv, RefusalsKnown
<1>2. PromptInv /\ RefusalsInv /\ [Next]_vars => RefusalsInv'
  BY RefusalsStep
<1> QED BY <1>1, <1>2, PromptAlways, PTL DEF Spec

(* A refusal stands against every grant made before or after it, through the   *)
(* answers that could not be saved and through restarts, as long as one        *)
(* process writes the file (approval/store.py record, lookup, permissions.py). *)
THEOREM RefusalsAlwaysStand ==
  ASSUME RequestsAssumption, PathsAssumption, ModesAssumption, BoundsAssumption, OneProcess
  PROVE  Spec => RefusalsStand
<1>1. PromptInv /\ PromptInv' /\ RefusalsInv /\ [Next]_vars => PassesUnrefused
  <2> SUFFICES ASSUME PromptInv, PromptInv', RefusalsInv, [Next]_vars,
                      NEW p \in Procs, NEW c \in Callers, Passed(p, c),
                      callers'[p][c].how \in {"store", "task", "trust"}
               PROVE  ~WasRefused(p, callers'[p][c].req)
    BY DEF PassesUnrefused
  <2> DEFINE r == callers'[p][c].req
             how == callers'[p][c].how
  <2>1. \/ how = Verdict(p, c, r, {})
        \/ r.kind = "command" /\ how = CommandVerdict(p, c, r) /\ how \notin {"deny", "ask"}
    BY Passing
  <2>2. r \in Requests
    BY DEF PromptInv, CallersTyped, IsCaller
  <2>3. how \in {"store", "task", "trust"}
    OBVIOUS
  <2> HIDE DEF r, how
  <2>4. ~Refuses(p, r.kind, Scope(r))
    <3>1. CASE how = Verdict(p, c, r, {})
      BY <2>2, <2>3, <3>1, VerdictUnrefused
    <3>2. CASE r.kind = "command" /\ how = CommandVerdict(p, c, r) /\ how \notin {"deny", "ask"}
      BY <3>2 DEF CommandVerdict
    <3> QED BY <2>1, <3>1, <3>2
  <2>5. ~WasRefused(p, r)
    BY <2>2, <2>4, RefusedIsFound
  <2> QED BY <2>5 DEF r
<1> QED BY <1>1, PromptAlways, RefusalsAlways, PTL DEF Spec, RefusalsStand

================================================================================
