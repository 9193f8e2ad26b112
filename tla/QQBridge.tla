-------------------------------- MODULE QQBridge --------------------------------
(***************************************************************************)
(* The private chat bridge: how the owner's messages become turns.         *)
(*                                                                         *)
(*   integrations/qq/src/bridge.js  start, connectGateway, receive,        *)
(*                                  command, backendEvent, pump, close     *)
(*   integrations/qq/src/store.js   StateStore                             *)
(*   integrations/qq/src/main.js    shutdown, reconnect                    *)
(*                                                                         *)
(* The bridge is one event loop: an action is what runs between two awaits.*)
(* The tasks that interleave are the chain of received packets, the pump,  *)
(* connectGateway and the events of the agent server, over a state that is *)
(* saved to a file and restored after a crash.  The replies are the matter *)
(* of QQOutbox; here saying something may find the outbox full, which      *)
(* pauses the queue, and may refuse a message.  Approvals are left out.    *)
(***************************************************************************)
EXTENDS Naturals, Sequences, SequencesExt, FiniteSets

CONSTANTS
  Messages,     \* texts of the owner, by message id
  QueueSize,    \* limits.queueSize
  MaxFailures   \* bound: saves that fail

None == "none"
(* What session/resume tells of the task of the last turn: nothing is open, it
   waits for the user (waiting_user, blocked), or it is a chat that was blocked
   only for want of a snapshot (verification_snapshot_unavailable).           *)
Tasks == {"done", "waiting", "snapshot"}

QueueAssumption == QueueSize \in Nat \ {0} /\ MaxFailures \in Nat
NoneAssumption == None \notin Messages

VARIABLES
  mem,         \* state: inbox, inFlight and recentIds
  disk,        \* the same in private.json
  phase,       \* "up", "closing" once stopping is set, "down"
  gateway,     \* gatewayReady
  connecting,  \* connectGateway: "flush" awaits the flush; "failed" its save threw
  busy, paused, awaiting,   \* busy, paused, awaitingReply
  pump,        \* pumping: "none", "turn" awaits turn/run, "ending" its finally
  command,     \* request the received command awaits: "none", "stop", "new"
  turn,        \* the turn on the server: "idle", "running", "ended"
  task,        \* the task it left, one of Tasks
  failures,
  arrived,     \* history: messages in the order they last entered the queue
  accepted,    \* history: those that were saved
  answers,     \* history: those that were taken for an answer
  started,     \* history: messages in the order they were given to turn/run
  dropped,     \* history: messages /stop and /new took out of the queue
  cleared,     \* history: those of which the user was told
  held         \* history: messages a restart left for the user to continue

bridge == <<gateway, connecting, command>>
history == <<arrived, accepted, answers, dropped, cleared, held>>
vars == <<mem, disk, phase, bridge, busy, paused, awaiting, pump, turn, task,
          failures, started, history>>

Init ==
  /\ mem = [inbox |-> <<>>, inFlight |-> None, recent |-> {}] /\ disk = mem
  /\ phase = "down" /\ gateway = FALSE /\ connecting = "none"
  /\ busy = FALSE /\ paused = FALSE /\ awaiting = FALSE
  /\ pump = "none" /\ command = "none" /\ turn = "idle" /\ task = "done"
  /\ failures = 0
  /\ arrived = <<>> /\ accepted = {} /\ answers = {} /\ started = <<>> /\ held = {}
  /\ dropped = {} /\ cleared = {}
-----------------------------------------------------------------------------
(* store.save() writes the whole state; when it throws, the handler ends there
   and fail() stops the bridge with what it has changed in memory.            *)
Saved(m) == mem' = m /\ disk' = m /\ UNCHANGED <<phase, failures>>

Unsaved(m) ==
  /\ failures < MaxFailures /\ failures' = failures + 1
  /\ mem' = m /\ disk' = disk /\ phase' = "closing"

(* The condition of the loop of pumpLoop. *)
Runs(m, p) == phase = "up" /\ gateway /\ ~p /\ m.inbox # <<>>

(* Mutant: the message leaves the queue when it is done. *)
PeekedAt(m) == [m EXCEPT !.inFlight = Head(m.inbox)]

Shifted(m) == [m EXCEPT !.inFlight = Head(m.inbox), !.inbox = Tail(m.inbox)]

(* Its next round: the message is saved as in flight and given to turn/run. *)
Begin(m) ==
  LET r == Shifted(m) IN
    /\ busy' = TRUE
    /\ \/ /\ Saved(r)
          /\ pump' = "turn" /\ turn' = "running" /\ started' = Append(started, r.inFlight)
       \/ /\ failures < MaxFailures /\ failures' = failures + 1
          /\ mem' = r /\ disk' = m /\ phase' = "closing"
          /\ pump' = "none" /\ turn' = "idle" /\ started' = started

(* pump(): runs the loop up to its first await, unless one is on its way. *)
Pump(m, p) ==
  IF pump = "none" /\ Runs(m, p) THEN Begin(m)
  ELSE Saved(m) /\ UNCHANGED <<busy, pump, turn, started>>

(* The loop goes round after a turn, or ends. *)
Loop(m, p) ==
  IF Runs(m, p) THEN Begin(m)
  ELSE /\ Saved(m)
       /\ busy' = FALSE /\ pump' = "ending" /\ turn' = "idle" /\ started' = started
-----------------------------------------------------------------------------
(* What start keeps of the saved state: what was in flight is not run again. *)
Restored == [disk EXCEPT !.inFlight = None]

(* What is left to do waits for the user. *)
Waits == disk.inFlight # None \/ disk.inbox # <<>>

(* start: the saved session is resumed.  The queue goes on by itself only after
   a chat that lacked a snapshot.                                             *)
Start ==
  LET resumes == disk.inFlight = None /\ task = "snapshot"
  IN /\ phase = "down" /\ phase' = "up"
     /\ mem' = Restored /\ disk' = mem'
     /\ awaiting' = (~resumes /\ task # "done")
     /\ paused' \in {~resumes /\ Waits, TRUE}
     /\ held' = IF resumes THEN {} ELSE Range(disk.inbox)
     /\ UNCHANGED <<bridge, busy, pump, turn, task, failures, arrived, accepted,
                    answers, started, dropped, cleared>>

(* connectGateway: when the save of the account throws, the gateway counts as
   ready and neither the outbox nor the queue is taken up.                    *)
Connect ==
  /\ phase = "up" /\ ~gateway /\ connecting # "flush"
  /\ gateway' = TRUE
  /\ \/ connecting' = "flush" /\ failures' = failures
     \/ connecting' = "failed" /\ failures < MaxFailures /\ failures' = failures + 1
  /\ UNCHANGED <<mem, disk, phase, command, busy, paused, awaiting, pump, turn, task,
                 started, history>>

(* The outbox is flushed, or the flush gave up; then the queue is pumped. *)
Connected ==
  /\ phase = "up" /\ connecting = "flush" /\ connecting' = "none"
  /\ Pump(mem, paused)
  /\ UNCHANGED <<gateway, command, paused, awaiting, task, history>>

(* The connection breaks, or a message cannot be sent. *)
GatewayLost ==
  /\ phase = "up" /\ gateway /\ gateway' = FALSE
  /\ connecting' = IF connecting = "failed" THEN "none" ELSE connecting
  /\ UNCHANGED <<mem, disk, phase, command, busy, paused, awaiting, pump, turn, task,
                 failures, started, history>>
-----------------------------------------------------------------------------
(* receive: packets are handled one after the other, each with the command it
   holds; a message that was seen before is ignored.                          *)
Receiving(m) == phase = "up" /\ gateway /\ command = "none" /\ m \notin mem.recent
Noted(m) == [mem EXCEPT !.recent = @ \cup {m}]

(* A message that cannot be read or is too long, or a queue or outbox that is
   full.                                                                      *)
Refuse(m) ==
  /\ Receiving(m)
  /\ \/ Saved(Noted(m)) /\ paused' \in {paused, TRUE}
     \/ Unsaved(Noted(m)) /\ paused' = paused
  /\ UNCHANGED <<bridge, busy, awaiting, pump, turn, task, started, history>>

Room == Len(mem.inbox) < QueueSize

(* An answer takes precedence over what is queued. *)
Placed(m, queue) == IF awaiting THEN <<m>> \o queue ELSE Append(queue, m)

(* A message for the queue; what is taken for an answer goes first and ends the
   pause.                                                                     *)
Accept(m) ==
  LET n == [Noted(m) EXCEPT !.inbox = Placed(m, @)]
      p == paused /\ ~awaiting
  IN /\ Receiving(m) /\ Room
     /\ awaiting' = FALSE /\ arrived' = Append(Remove(arrived, m), m)
     /\ answers' = IF awaiting THEN answers \cup {m} ELSE answers \ {m}
     /\ \/ /\ paused' \in IF busy \/ p THEN {p, TRUE} ELSE {p}
           /\ Pump(n, paused')
           /\ accepted' = accepted \cup {m}
           /\ held' = IF awaiting THEN {} ELSE held
        \/ /\ Unsaved(n) /\ paused' = p
           /\ UNCHANGED <<busy, pump, turn, started, accepted, held>>
     /\ UNCHANGED <<bridge, task, dropped, cleared>>

(* Mutant: the emptied queue is not saved. *)
ClearUnsaved(request) ==
  /\ dropped' = dropped \cup Range(mem.inbox)
  /\ mem' = [mem EXCEPT !.inbox = <<>>] /\ command' = request
  /\ cleared' = cleared \cup Range(mem.inbox) /\ held' = {}
  /\ UNCHANGED <<disk, phase, failures>>

(* /stop and /new empty the queue. *)
Clear(request) ==
  LET n == [mem EXCEPT !.inbox = <<>>] IN
  /\ dropped' = dropped \cup Range(mem.inbox)
  /\ \/ /\ Saved(n) /\ command' = request
        /\ cleared' = cleared \cup Range(mem.inbox) /\ held' = {}
     \/ Unsaved(n) /\ UNCHANGED <<command, cleared, held>>

Stop ==
  /\ phase = "up" /\ gateway /\ command = "none"
  /\ paused' = TRUE /\ awaiting' = FALSE
  /\ Clear(IF busy THEN "stop" ELSE "none")
  /\ UNCHANGED <<gateway, connecting, busy, pump, turn, task, started, arrived,
                 accepted, answers>>

New ==
  /\ phase = "up" /\ gateway /\ command = "none" /\ ~busy
  /\ Clear("new")
  /\ UNCHANGED <<gateway, connecting, busy, paused, awaiting, pump, turn, task, started,
                 arrived, accepted, answers>>

(* turn/cancel is answered, or session/create is and the session saved; when a
   request fails or times out, the bridge stops.                              *)
CommandReturns ==
  /\ phase = "up" /\ command # "none" /\ command' = "none"
  /\ \/ /\ command = "stop" /\ phase' = phase /\ UNCHANGED <<paused, awaiting, task>>
     \/ /\ command = "new" /\ phase' = phase
        /\ paused' \in BOOLEAN /\ awaiting' = FALSE /\ task' = "done"
     \/ phase' = "closing" /\ UNCHANGED <<paused, awaiting, task>>
  /\ UNCHANGED <<mem, disk, gateway, connecting, busy, pump, turn, failures, started, history>>

Continue ==
  /\ phase = "up" /\ gateway /\ command = "none"
  /\ paused' \in BOOLEAN
  /\ Pump(mem, paused')
  /\ held' = {}
  /\ UNCHANGED <<bridge, awaiting, task, arrived, accepted, answers, dropped, cleared>>
-----------------------------------------------------------------------------
(* backendEvent: the turn ends.  "limit" is budget_exhausted. *)
TurnEnds(status) ==
  /\ turn = "running" /\ phase # "down" /\ turn' = "ended"
  /\ task' = IF status = "limit" THEN "done" ELSE status
  /\ paused' \in {paused \/ status # "done", TRUE}
  /\ awaiting' = (status \in {"waiting", "snapshot"})
  /\ UNCHANGED <<mem, disk, phase, bridge, busy, pump, failures, started, history>>

(* pumpLoop: turn/run is answered.  If the save throws, the catch saves again. *)
Landed == [mem EXCEPT !.inFlight = None]

Reply ==
  /\ turn = "ended" /\ phase # "down"
  /\ \/ paused' \in {paused, TRUE} /\ Loop(Landed, paused')
     \/ /\ failures < MaxFailures /\ failures' = failures + 1
        /\ mem' = Landed /\ disk' = Landed /\ phase' = phase
        /\ paused' = TRUE /\ busy' = FALSE /\ pump' = "ending" /\ turn' = "idle"
        /\ started' = started
     \/ /\ failures + 1 < MaxFailures /\ failures' = failures + 2
        /\ mem' = Landed /\ disk' = disk /\ phase' = "closing"
        /\ paused' = TRUE /\ busy' = FALSE /\ pump' = "none" /\ turn' = "idle"
        /\ started' = started
  /\ UNCHANGED <<bridge, awaiting, task, history>>

(* turn/run fails: the server refuses it, the turn raises, or the connection is
   closed and the turn goes on unseen.  It is not run again.                  *)
Reject ==
  /\ turn \in {"running", "ended"} /\ phase # "down" /\ turn' = "idle"
  /\ task' \in Tasks
  /\ paused' = TRUE /\ busy' = FALSE
  /\ \/ Saved(Landed) /\ pump' = "ending"
     \/ Unsaved(Landed) /\ pump' = "none"
  /\ UNCHANGED <<bridge, awaiting, started, history>>

(* The finally of pump(): what came after the loop had ended is taken up. *)
PumpEnds ==
  /\ pump = "ending" /\ phase # "down"
  /\ IF Runs(mem, paused) THEN Begin(mem)
     ELSE pump' = "none" /\ UNCHANGED <<mem, disk, phase, failures, busy, turn, started>>
  /\ UNCHANGED <<bridge, paused, awaiting, task, history>>
-----------------------------------------------------------------------------
(* fail() and the signals: the server is gone, a reply cannot be saved, or the
   user ends the bridge.                                                      *)
Fail ==
  /\ phase = "up" /\ phase' = "closing"
  /\ UNCHANGED <<mem, disk, bridge, busy, paused, awaiting, pump, turn, task, failures,
                 started, history>>

(* The process ends: after close() has waited for the pump, or at any time. *)
Down ==
  /\ phase' = "down" /\ mem' = disk
  /\ gateway' = FALSE /\ connecting' = "none" /\ command' = "none"
  /\ busy' = FALSE /\ paused' = FALSE /\ awaiting' = FALSE /\ pump' = "none"
  /\ turn' = "idle" /\ task' \in (IF turn = "running" THEN Tasks ELSE {task})
  /\ UNCHANGED <<disk, failures, started, history>>
Exit  == phase = "closing" /\ pump # "turn" /\ Down
Crash == phase # "down" /\ Down

Next ==
  \/ Start \/ Connect \/ Connected \/ GatewayLost
  \/ \E m \in Messages : Refuse(m) \/ Accept(m)
  \/ Stop \/ New \/ CommandReturns \/ Continue
  \/ \E status \in Tasks \cup {"limit"} : TurnEnds(status)
  \/ Reply \/ Reject \/ PumpEnds
  \/ Fail \/ Exit \/ Crash

Spec == Init /\ [][Next]_vars
-----------------------------------------------------------------------------
State == [inbox : UNION {[1..n -> Messages] : n \in 0..QueueSize},
          inFlight : Messages \cup {None}, recent : SUBSET Messages]

TypeOK ==
  /\ mem \in State /\ disk \in State
  /\ phase \in {"up", "closing", "down"} /\ gateway \in BOOLEAN
  /\ connecting \in {"none", "flush", "failed"} /\ command \in {"none", "stop", "new"}
  /\ busy \in BOOLEAN /\ paused \in BOOLEAN /\ awaiting \in BOOLEAN
  /\ pump \in {"none", "turn", "ending"} /\ turn \in {"idle", "running", "ended"}
  /\ task \in Tasks /\ failures \in 0..MaxFailures
  /\ arrived \in Seq(Messages) /\ started \in Seq(Messages)
  /\ accepted \subseteq Messages /\ answers \subseteq Messages /\ cleared \subseteq dropped /\ dropped \subseteq Messages
  /\ held \subseteq Messages

(* However often the gateway delivers a message, and whatever stops the bridge,
   it is given to the agent once ("不会自动重跑").                              *)
RunOnce == IsInjective(started)

(* A message that was accepted is on disk until it is run or the user takes it
   out of the queue.                                                          *)
AcceptedIsKept ==
  \A m \in accepted :
    \/ m \in Range(started) \/ m \in dropped
    \/ m \in Range(disk.inbox) \/ m = disk.inFlight

(* What the user was told /stop or /new took out is never run, not even after a
   crash.                                                                     *)
RunsUncleared == Len(started') > Len(started) => Last(started') \notin cleared'
ClearedStays == [][RunsUncleared]_vars

(* Messages that were not taken for an answer run in the order they came. *)
Queued(s) == SelectSeq(s, LAMBDA m : m \notin answers)
RunInOrder ==
  \A i, j \in DOMAIN Queued(started) : i < j =>
    SelectInSeq(arrived, LAMBDA m : m = Queued(started)[i]) <
    SelectInSeq(arrived, LAMBDA m : m = Queued(started)[j])

(* No wake-up is lost: when a message can run, something will run it, unless
   the save of connectGateway threw.                                          *)
PumpWakes ==
  pump = "none" /\ Runs(mem, paused) => connecting \in {"flush", "failed"}

(* What a restart left in the queue runs only after the user said something. *)
RunsResumed == Len(started') > Len(started) => Last(started') \notin held'
UserResumes == [][RunsResumed]_vars

(* A message that comes while a turn runs waits for its turn behind the others
   ("忙时会顺序排队").                                                         *)
BusyQueuesInOrder ==
  [][turn = "running" /\ Len(mem'.inbox) > Len(mem.inbox)
       => mem'.inbox = Append(mem.inbox, Last(mem'.inbox))]_vars
================================================================================
