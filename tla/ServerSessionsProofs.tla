------------------------- MODULE ServerSessionsProofs -------------------------
(***************************************************************************)
(* What one connection of the application server keeps, for any threads    *)
(* that ask and any bounds (ServerSessions).  That a worker's tools are    *)
(* not disposed of under it is not inductive: it rests on how registries   *)
(* are numbered, and on what closing leaves of a turn.                     *)
(***************************************************************************)
EXTENDS ServerSessions, TLAPS

(* A registry in use is the newest but for those made for sessions that were   *)
(* not kept, and is disposed of only with its connection.                      *)
Registries ==
  /\ tools <= made /\ disposed \subseteq 1..made
  /\ session # 0 => tools # 0
  /\ drain # "done" => tools \notin disposed

(* A turn that has begun has a session and no worker yet; what cleans up after *)
(* a closed connection waits for both, and no other turn comes.                *)
Phases ==
  /\ turn = "begun" => session # 0 /\ ~worker
  /\ drain # "none" => closing
  /\ drain = "done" => turn = "none" /\ ~worker

ServerInv == TypeOK /\ StopReachesPrompts /\ ThinkingEnds /\ Registries /\ Phases

ModesTyped == plan \in BOOLEAN /\ stale \in BOOLEAN /\ plans \in 0..MaxPlans

(* Plan mode is entered and left by few steps; the others leave it alone.       *)
LEMMA ModesStep ==
  ASSUME BoundsAssumption, ModesTyped, [Next]_vars
  PROVE  ModesTyped'
<1> USE DEF ModesTyped, modes, BoundsAssumption
<1>1. CASE Create \/ Resume \/ Configure
  <2>1. CASE Create
    BY <2>1 DEF Create, Initialize, NewModes
  <2>2. CASE Resume
    BY <2>2 DEF Resume, Initialize, NewModes, Restored
  <2>3. CASE Configure
    BY <2>3 DEF Configure, Access
  <2> QED BY <1>1, <2>1, <2>2, <2>3
<1>2. CASE Branch \/ RunTurn \/ Cancel
  BY <1>2 DEF Branch, RunTurn, Cancel
<1>3. CASE PlanEnter \/ PlanExit \/ PlanApprove
  <2>1. CASE PlanEnter
    BY <2>1 DEF PlanEnter
  <2>2. CASE PlanExit
    BY <2>2 DEF PlanExit
  <2>3. CASE PlanApprove
    <3>1. plans' \in 0..MaxPlans
      BY <2>3 DEF PlanApprove
    <3> QED BY <2>3, <3>1 DEF PlanApprove
  <2> QED BY <1>3, <2>1, <2>2, <2>3
<1>4. CASE Command
  BY <1>4 DEF Command, Access
<1>5. CASE Declines \/ Begin \/ CommandDone \/ Work \/ Worked \/ Saved \/ Answered
  BY <1>5 DEF Declines, Begin, CommandDone, Work, Worked, Saved, Answered
<1>6. CASE Loop \/ WorkDone \/ Think
  BY <1>6 DEF Loop, BranchDone, CancelPending, PlanDone, Close, WorkDone, Think
<1>7. CASE \E a \in Askers : Timeout(a) \/ Ask(a) \/ Show(a) \/ Approve(a)
  BY <1>7 DEF Timeout, Ask, Show, Approve
<1>8. CASE \E a \in Askers : Use(a)
  BY <1>8 DEF Use
<1>9. CASE Disconnect \/ CancelTasks \/ Dispose
  BY <1>9 DEF Disconnect, CancelTasks, Dispose
<1>10. CASE UNCHANGED vars
  BY <1>10 DEF vars
<1> QED
  BY <1>1, <1>2, <1>3, <1>4, <1>5, <1>6, <1>7, <1>8, <1>9, <1>10
  DEF Next, Requests, Task, Worker

(* Every request, step of the task, of the worker and of the clean-up, one by   *)
(* one.                                                                         *)
LEMMA InvStep ==
  ASSUME BoundsAssumption, ServerInv, [Next]_vars
  PROVE  ServerInv'
<1>0. ModesTyped'
  BY ModesStep DEF ServerInv, TypeOK, ModesTyped
<1> USE <1>0 DEF ModesTyped
<1> USE DEF ServerInv, TypeOK, StopReachesPrompts, ThinkingEnds, Registries, Phases,
            sessions, prompts, ending, Held, Turns, Asking, BoundsAssumption
<1>1. CASE Create
  BY <1>1 DEF Create, Bindable, Locked, Busy, Request, Initialize, NewModes
<1>2. CASE Resume
  BY <1>2 DEF Resume, Bindable, Locked, Busy, Request, Initialize, NewModes, Restored
<1>3. CASE Branch
  BY <1>3 DEF Branch, Branched, Bindable, Locked, Busy, Request
<1>4. CASE Configure
  <2> USE DEF Configure, Access, Locked, Busy, Request
  <2>1. settings' \in 0..MaxSettings /\ ~worker /\ session # 0 /\ turn # "begun" /\ ~closing
    BY <1>4
  <2>2. CASE UNCHANGED <<made, tools, disposed>>
    BY <1>4, <2>1, <2>2
  <2>3. CASE /\ made < MaxSessions
             /\ made' = made + 1 /\ tools' = made + 1 /\ disposed' = disposed \cup {tools}
    <3>1. /\ made' \in 0..MaxSessions /\ tools' \in 0..MaxSessions /\ tools' = made'
          /\ disposed' \subseteq 1..made /\ tools' \notin disposed' /\ tools' # 0
      BY <2>1, <2>3
    <3>2. disposed' \subseteq 1..made' /\ disposed' \subseteq 1..MaxSessions
      BY <3>1, <2>3
    <3> QED BY <1>4, <2>1, <3>1, <3>2
  <2> QED BY <1>4, <2>2, <2>3
<1>5. CASE RunTurn
  <2> USE DEF RunTurn, Locked, Request
  <2>1. turns' \in 0..MaxTurns /\ turn' \in Turns /\ intended' \in 0..MaxSessions
    BY <1>5
  <2>2. cancelled' \in BOOLEAN /\ accepting' \in BOOLEAN
    BY <1>5
  <2>3. TypeOK'
    BY <1>5, <2>1, <2>2
  <2>4. StopReachesPrompts' /\ ThinkingEnds'
    BY <1>5
  <2>5. Registries' /\ Phases'
    BY <1>5
  <2> QED BY <2>3, <2>4, <2>5
<1>6. CASE Cancel
  BY <1>6 DEF Cancel, Request
<1>7. CASE Declines
  <2>1. TypeOK'
    BY <1>7 DEF Declines, Leaves
  <2>2. StopReachesPrompts' /\ ThinkingEnds'
    BY <1>7 DEF Declines, Leaves
  <2>3. Registries' /\ Phases'
    BY <1>7 DEF Declines, Leaves
  <2> QED BY <2>1, <2>2, <2>3
<1>8. CASE Begin
  BY <1>8 DEF Begin
<1>9. CASE Command
  BY <1>9 DEF Command, Branched, Bindable, Access
<1>10. CASE CommandDone
  <2>1. TypeOK'
    BY <1>10 DEF CommandDone, Leaves
  <2>2. StopReachesPrompts' /\ ThinkingEnds'
    BY <1>10 DEF CommandDone, Leaves
  <2>3. Registries' /\ Phases'
    BY <1>10 DEF CommandDone, Leaves
  <2> QED BY <2>1, <2>2, <2>3
<1>11. CASE Work
  BY <1>11 DEF Work
<1>12. CASE Worked
  <2>1. TypeOK'
    BY <1>12 DEF Worked, Leaves
  <2>2. StopReachesPrompts' /\ ThinkingEnds'
    BY <1>12 DEF Worked, Leaves
  <2>3. Registries' /\ Phases'
    BY <1>12 DEF Worked, Leaves
  <2> QED BY <2>1, <2>2, <2>3
<1>13. CASE Saved
  <2>1. TypeOK'
    BY <1>13 DEF Saved, Leaves
  <2>2. StopReachesPrompts' /\ ThinkingEnds'
    BY <1>13 DEF Saved, Leaves
  <2>3. Registries' /\ Phases'
    BY <1>13 DEF Saved, Leaves
  <2> QED BY <2>1, <2>2, <2>3
<1>14. CASE Answered
  BY <1>14 DEF Answered
<1>15. CASE BranchDone
  BY <1>15 DEF BranchDone
<1>16. CASE CancelPending
  BY <1>16 DEF CancelPending, Pending
<1>17. CASE Close
  BY <1>17 DEF Close, Pending
<1>18. CASE WorkDone
  <2>1. TypeOK'
    BY <1>18 DEF WorkDone
  <2>2. StopReachesPrompts' /\ ThinkingEnds'
    BY <1>18 DEF WorkDone
  <2>3. Registries' /\ Phases'
    BY <1>18 DEF WorkDone
  <2> QED BY <2>1, <2>2, <2>3
<1>19. CASE Think
  BY <1>19 DEF Think
<1>20. CASE Disconnect
  <2> USE DEF Disconnect
  <2>1. connected' \in BOOLEAN
    BY <1>20
  <2>2. TypeOK'
    BY <1>20, <2>1
  <2>3. StopReachesPrompts' /\ ThinkingEnds'
    BY <1>20
  <2>4. Registries' /\ Phases'
    BY <1>20
  <2> QED BY <2>2, <2>3, <2>4
<1>21. CASE CancelTasks
  BY <1>21 DEF CancelTasks
<1>22. CASE Dispose
  BY <1>22 DEF Dispose, Idle
<1>23. ASSUME NEW a \in Askers, Timeout(a)
       PROVE  ServerInv'
  BY <1>23 DEF Timeout
<1>24. ASSUME NEW a \in Askers, Use(a)
       PROVE  ServerInv'
  BY <1>24 DEF Use
<1>25. ASSUME NEW a \in Askers, Ask(a)
       PROVE  ServerInv'
  <2> USE DEF Ask, Refusing
  <2>1. asked' \in [Askers -> 0..MaxAsks]
    BY <1>25
  <2>2. prompt' \in [Askers -> Asking] /\ known' \subseteq Askers
    BY <1>25
  <2>3. thinking' \in BOOLEAN
    BY <1>25
  <2>4. TypeOK'
    BY <1>25, <2>1, <2>2, <2>3
  <2>5. StopReachesPrompts' /\ ThinkingEnds'
    BY <1>25
  <2>6. Registries' /\ Phases'
    BY <1>25
  <2> QED BY <2>4, <2>5, <2>6
<1>26. ASSUME NEW a \in Askers, Show(a)
       PROVE  ServerInv'
  BY <1>26 DEF Show
<1>27. ASSUME NEW a \in Askers, Approve(a)
       PROVE  ServerInv'
  BY <1>27 DEF Approve
<1>28. CASE PlanEnter
  BY <1>28 DEF PlanEnter, Request
<1>29. CASE PlanExit
  BY <1>29 DEF PlanExit, Request
<1>30. CASE PlanApprove
  BY <1>30 DEF PlanApprove, Request
<1>31. CASE PlanDone
  BY <1>31 DEF PlanDone
<1>32. CASE UNCHANGED vars
  BY <1>32 DEF vars
<1> QED
  BY <1>1, <1>2, <1>3, <1>4, <1>5, <1>6, <1>7, <1>8, <1>9, <1>10, <1>11, <1>12,
     <1>13, <1>14, <1>15, <1>16, <1>17, <1>18, <1>19, <1>20, <1>21, <1>22,
     <1>23, <1>24, <1>25, <1>26, <1>27, <1>28, <1>29, <1>30, <1>31, <1>32
  DEF Next, Requests, Task, Loop, Worker

LEMMA InvAlways == ASSUME BoundsAssumption PROVE Spec => []ServerInv
<1>1. Init => ServerInv
  <2> SUFFICES ASSUME Init PROVE ServerInv
    OBVIOUS
  <2> USE DEF Init
  <2>1. prompt \in [Askers -> Asking] /\ asked \in [Askers -> 0..MaxAsks]
    BY DEF Asking, BoundsAssumption
  <2>2. /\ connected \in BOOLEAN /\ accepting \in BOOLEAN /\ worker \in BOOLEAN
        /\ failed \in BOOLEAN /\ cancelled \in BOOLEAN /\ thinking \in BOOLEAN
        /\ closing \in BOOLEAN /\ plan \in BOOLEAN /\ stale \in BOOLEAN
    OBVIOUS
  <2>3. TypeOK
    BY <2>1, <2>2 DEF TypeOK, Turns, BoundsAssumption
  <2>4. StopReachesPrompts /\ ThinkingEnds /\ Registries /\ Phases
    BY DEF StopReachesPrompts, ThinkingEnds, Registries, Phases
  <2> QED BY <2>3, <2>4 DEF ServerInv
<1>2. ServerInv /\ [Next]_vars => ServerInv'
  BY InvStep
<1> QED BY <1>1, <1>2, PTL DEF Spec

(* A stop or a closed connection reaches every prompt of the worker, no worker *)
(* has tools that were disposed of, and no block of thinking outlives its      *)
(* worker (server/app.py turn/cancel, _close_session, drain).                  *)
THEOREM ServerHolds == ASSUME BoundsAssumption PROVE Spec => []ServerSafe
<1>1. ServerInv => ServerSafe
  BY DEF ServerInv, ServerSafe, ToolsLive, Registries, Phases
<1> QED BY <1>1, InvAlways, PTL

(* While a turn holds the lock or a worker runs, no request of the client, no  *)
(* lost connection and no clean-up changes the session, the tools, the queue   *)
(* or the model under it, and the access mode only a plan/exit of a session    *)
(* that is not in plan mode (server/app.py, the guards on _turn_lock and       *)
(* _worker_active, and the plan requests, which have none).                    *)
THEOREM NoTurnDisturbed == ASSUME BoundsAssumption PROVE Spec => TurnUndisturbed
<1>1. ServerInv /\ [Next]_vars => Undisturbed
  <2> SUFFICES ASSUME ServerInv, [Next]_vars, turn \in Held \/ worker,
                      ~(turn = "begun" /\ turn' = "command") \/ worker
               PROVE  /\ UNCHANGED <<session, tools, inbox>>
                      /\ UNCHANGED settings \/ (stale /\ ~stale' /\ ~plan')
    BY DEF Undisturbed
  <2> USE DEF sessions
  <2>1. Busy
    BY DEF Busy, Locked
  <2>2. ~Create /\ ~Resume /\ ~Branch /\ ~Configure
    BY <2>1 DEF Create, Resume, Branch, Configure
  <2>3. ~Command
    BY DEF Command, ServerInv, Phases
  <2>4. CASE RunTurn \/ Cancel \/ PlanEnter \/ PlanApprove
    BY <2>4 DEF RunTurn, Cancel, PlanEnter, PlanApprove
  <2>5. CASE PlanExit
    BY <2>5 DEF PlanExit
  <2>6. CASE Task
    BY <2>3, <2>6 DEF Task, Declines, Begin, CommandDone, Work, Worked, Saved, Answered
  <2>7. CASE Loop
    BY <2>7 DEF Loop, BranchDone, CancelPending, PlanDone, Close
  <2>8. CASE Worker \/ Think
    BY <2>8 DEF Worker, WorkDone, Timeout, Use, Think
  <2>9. CASE \E a \in Askers : Ask(a) \/ Show(a) \/ Approve(a)
    BY <2>9 DEF Ask, Show, Approve
  <2>10. CASE Disconnect \/ CancelTasks \/ Dispose
    BY <2>10 DEF Disconnect, CancelTasks, Dispose
  <2>11. CASE UNCHANGED vars
    BY <2>11 DEF vars
  <2> QED
    BY <2>2, <2>4, <2>5, <2>6, <2>7, <2>8, <2>9, <2>10, <2>11 DEF Next, Requests
<1> QED BY <1>1, InvAlways, PTL DEF Spec, TurnUndisturbed

================================================================================
