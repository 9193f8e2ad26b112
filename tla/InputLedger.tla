------------------------------ MODULE InputLedger ------------------------------
(***************************************************************************)
(* What the input queue of a running task promises its users, without      *)
(* queues, disks or workers (pepsicode/core/input_queue.py, class          *)
(* TurnInputQueue: "so accepted input cannot vanish").                     *)
(*                                                                         *)
(* An input is new until it is accepted; an accepted input is held until   *)
(* it is settled, once, in one of two ways: delivered to the agent's       *)
(* conversation, or returned to the user as a draft.                       *)
(***************************************************************************)
CONSTANT Inputs

VARIABLE status

Status == {"new", "held", "delivered", "returned"}

LedgerInit == status = [i \in Inputs |-> "new"]

Held == {i \in Inputs : status[i] = "held"}

Settle(S, how) ==
  /\ S \subseteq Held
  /\ status' = [i \in Inputs |-> IF i \in S THEN how ELSE status[i]]

Accept(i) ==
  /\ status[i] = "new"
  /\ status' = [status EXCEPT ![i] = "held"]

Deliver == \E S \in SUBSET Inputs : Settle(S, "delivered")

Return == \E S \in SUBSET Inputs : Settle(S, "returned")

LedgerNext == (\E i \in Inputs : Accept(i)) \/ Deliver \/ Return

LedgerSpec == LedgerInit /\ [][LedgerNext]_status
================================================================================
