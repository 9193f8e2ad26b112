---------------------------- MODULE MCTask ----------------------------
(* A task for TLC: an action; a restriction while it runs, or is accepted; a   *)
(* task that follows; "continue" later; changes of the workspace; and a        *)
(* cancellation or a crash.                                                    *)
EXTENDS TaskContract

MCMode == <<"run", "steer", "follow_up", "run">>
MCWord == <<"do", "only", "fix", "continue">>

ASSUME TaskAssumption == MessagesAssumption /\ BoundsAssumption

(* Bound: the user stops a turn or the process dies, once.                     *)
OneStop == cancels + crashes <= 1
=======================================================================
