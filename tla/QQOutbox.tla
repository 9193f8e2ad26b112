-------------------------------- MODULE QQOutbox --------------------------------
(***************************************************************************)
(* The private chat bridge: how its replies reach the owner.               *)
(*                                                                         *)
(*   integrations/qq/src/bridge.js  say, flush, flushLoop, connectGateway, *)
(*                                  command (/resend, /discard)            *)
(*   integrations/qq/src/store.js   StateStore                             *)
(*   integrations/qq/src/main.js    reconnect                              *)
(*                                                                         *)
(* say() may be called by anything that runs, so here it is called at any  *)
(* time, with a text of any number of chunks.  A loop of flushLoop sends   *)
(* the first pending chunk, waits, and goes on; this.flushing is the       *)
(* promise of the loop started last.  Whether a chunk that was sent has    *)
(* arrived is known only when the gateway answers.                         *)
(***************************************************************************)
EXTENDS Naturals, Sequences, SequencesExt, FiniteSets, FiniteSetsExt

CONSTANTS
  OutboxSize,     \* limits.outboxSize
  MaxChunks,      \* bound: chunks of a text
  MaxSaid,        \* bound: chunks said
  MaxOverflows,   \* bound: texts that find the outbox full
  MaxResends,     \* bound: /resend
  MaxFailures     \* bound: saves that fail

SizesAssumption ==
  /\ OutboxSize \in Nat /\ MaxChunks \in Nat /\ MaxSaid \in Nat
  /\ MaxOverflows \in Nat /\ MaxResends \in Nat /\ MaxFailures \in Nat

VARIABLES
  mem,        \* state: outbox, outputOverflow, and how many chunks were pushed:
              \* a chunk is known by its number
  disk,       \* the same in private.json
  phase,      \* "up", "closing" once stopping is set, "down"
  gateway,    \* gatewayReady
  skipped,    \* connectGateway threw after it set gatewayReady
  flushing,   \* this.flushing is a promise
  delaying,   \* loops that wait between two chunks
  ending,     \* loops that are over and whose finally is still to run
  overflows, failures,
  attempts,   \* history: times each chunk was given to the gateway
  tried,      \* history: chunks that were marked as being sent
  resent,     \* history: the chunks of each /resend
  settled     \* history: chunks that were acknowledged or discarded

loops == <<flushing, delaying, ending>>
sends == <<attempts, tried>>
bounds == <<overflows, failures>>
vars == <<mem, disk, phase, gateway, skipped, loops, bounds, sends, resent, settled>>

Chunks == 1..(MaxSaid + MaxOverflows)
Status == {"pending", "sending", "uncertain"}

Init ==
  /\ mem = [outbox |-> <<>>, overflow |-> FALSE, said |-> 0] /\ disk = mem
  /\ phase = "down" /\ gateway = FALSE /\ skipped = FALSE
  /\ flushing = FALSE /\ delaying = 0 /\ ending = 0
  /\ overflows = 0 /\ failures = 0
  /\ attempts = [c \in Chunks |-> 0] /\ tried = {}
  /\ resent = <<>> /\ settled = {}
-----------------------------------------------------------------------------
Places(m, status) == {k \in DOMAIN m.outbox : m.outbox[k].status = status}
In(m, status) == {m.outbox[k].id : k \in Places(m, status)}
Ids(m) == {m.outbox[k].id : k \in DOMAIN m.outbox}

Marked(m, c, status) ==
  [m EXCEPT !.outbox = [k \in DOMAIN @ |->
     IF @[k].id = c THEN [@[k] EXCEPT !.status = status] ELSE @[k]]]
Without(m, c) == [m EXCEPT !.outbox = SelectSeq(@, LAMBDA item : item.id # c)]

Pushed(m, n) ==
  [m EXCEPT !.said = @ + n,
            !.outbox = @ \o [k \in 1..n |-> [id |-> m.said + k, status |-> "pending"]]]

(* store.save(): when it throws, fail() stops the bridge.  d is what the file
   then holds.                                                                *)
Saved(m) == mem' = m /\ disk' = m /\ UNCHANGED <<phase, failures>>
Throws(m, d) ==
  /\ failures < MaxFailures /\ failures' = failures + 1
  /\ mem' = m /\ disk' = d /\ phase' = "closing"

FirstPending(m) == m.outbox[Min(Places(m, "pending"))].id

(* One round of the loop: a chunk is saved as being sent before it is sent. *)
Send(m, over) ==
  LET c == FirstPending(m) r == Marked(m, c, "sending") IN
    /\ tried' = tried \cup {c}
    /\ \/ Saved(r) /\ attempts' = [attempts EXCEPT ![c] = @ + 1] /\ ending' = over
       \/ Throws(r, m) /\ attempts' = attempts /\ ending' = over + 1

Goes(m) == phase = "up" /\ gateway' /\ Places(m, "pending") # {}
Tells(m) == m.overflow /\ gateway' /\ Len(m.outbox) < OutboxSize - 1
Notice(m) == [Pushed(m, 1) EXCEPT !.overflow = FALSE]

(* flushLoop from its condition on: the next chunk, or an end, which first tells
   of an overflow.  That say() starts a second loop when this.flushing is not
   set, as it is while flush() is still on the stack.  d is what the file holds,
   over the number of loops that are over.                                    *)
Loop(m, d, unset, over) ==
  \/ Goes(m) /\ Send(m, over)
  \/ /\ ~Goes(m) /\ Tells(m)
     /\ \/ unset /\ phase = "up" /\ Send(Notice(m), over + 1)
        \/ ~(unset /\ phase = "up") /\ Saved(Notice(m)) /\ ending' = over + 1 /\ UNCHANGED sends
        \/ Throws(Notice(m), d) /\ ending' = over + 1 /\ UNCHANGED sends
  \/ /\ ~Goes(m) /\ ~Tells(m)
     /\ mem' = m /\ disk' = d /\ ending' = over + 1 /\ UNCHANGED <<phase, failures, sends>>

(* flush(): one loop at a time, as far as this.flushing knows. *)
Flush(m) ==
  /\ flushing' = TRUE
  /\ IF flushing THEN Saved(m) /\ ending' = ending /\ UNCHANGED sends
     ELSE Loop(m, m, TRUE, ending)

Full(m, n) == Len(m.outbox) + n > OutboxSize

(* say(): n chunks are pushed, saved and flushed, or all are dropped.  d is what
   the file holds before.                                                     *)
Speak(m, n, d) ==
  IF Full(m, n)
  THEN /\ overflows' = overflows + 1
       /\ LET o == [m EXCEPT !.overflow = TRUE] IN Saved(o) \/ Throws(o, d)
       /\ UNCHANGED <<flushing, ending, sends>>
  ELSE /\ overflows' = overflows
       /\ \/ Flush(Pushed(m, n))
          \/ Throws(Pushed(m, n), d) /\ UNCHANGED <<flushing, ending, sends>>

(* The bounds on what is said. *)
MaySay(n) ==
  /\ mem.said + n <= MaxSaid
  /\ Full(mem, n) => overflows < MaxOverflows
-----------------------------------------------------------------------------
Say(n) ==
  /\ phase # "down" /\ MaySay(n) /\ gateway' = gateway
  /\ Speak(mem, n, disk)
  /\ UNCHANGED <<skipped, delaying, resent, settled>>

(* What the answer leaves of a chunk. *)
Answered(c, ok) == IF ok THEN Without(mem, c) ELSE Marked(mem, c, "uncertain")

(* A request of a loop returns: the chunk is acknowledged, or nobody knows and
   the loop ends.                                                             *)
Returns(c, ok) ==
  /\ phase # "down" /\ c \in In(mem, "sending")
  /\ gateway' = (gateway /\ ok)
  /\ settled' = IF ok THEN settled \cup {c} ELSE settled
  /\ LET m == Answered(c, ok) IN
       \/ gateway' /\ Saved(m) /\ delaying' = delaying + 1 /\ ending' = ending
       \/ ~gateway' /\ Saved(m) /\ delaying' = delaying /\ ending' = ending + 1
       \/ Throws(m, disk) /\ delaying' = delaying /\ ending' = ending + 1
  /\ UNCHANGED <<skipped, flushing, overflows, sends, resent>>

(* The delay of a loop is over. *)
GoesOn ==
  /\ phase # "down" /\ delaying > 0 /\ delaying' = delaying - 1 /\ gateway' = gateway
  /\ flushing' = (flushing \/ (~Goes(mem) /\ Tells(mem)))
  /\ Loop(mem, disk, ~flushing, ending)
  /\ UNCHANGED <<skipped, overflows, resent, settled>>

(* The finally of a loop: what was pushed after it had ended is taken up. *)
Ends ==
  /\ phase # "down" /\ ending > 0 /\ gateway' = gateway
  /\ IF Goes(mem)
     THEN flushing' = TRUE /\ Loop(mem, disk, TRUE, ending - 1)
     ELSE /\ flushing' = FALSE /\ ending' = ending - 1
          /\ UNCHANGED <<mem, disk, phase, failures, sends>>
  /\ UNCHANGED <<skipped, delaying, overflows, resent, settled>>
-----------------------------------------------------------------------------
(* The connection breaks: requests on their way will be rejected. *)
GatewayLost ==
  /\ phase = "up" /\ gateway /\ gateway' = FALSE /\ skipped' = FALSE
  /\ UNCHANGED <<mem, disk, phase, loops, bounds, sends, resent, settled>>

(* reconnect: the old socket is closed, which rejects what was on its way.  When
   the save of the account throws, gatewayReady is set and nothing flushes.   *)
Connect ==
  /\ phase = "up" /\ ~gateway /\ gateway' = TRUE /\ In(mem, "sending") = {}
  /\ \/ /\ skipped' = FALSE /\ Flush(mem)
     \/ /\ skipped' = TRUE /\ failures < MaxFailures /\ failures' = failures + 1
        /\ UNCHANGED <<mem, disk, phase, flushing, ending, sends>>
  /\ UNCHANGED <<delaying, overflows, resent, settled>>

(* /resend and /discard of a chunk with unknown outcome, and their answer. *)
Resend(c) ==
  /\ phase = "up" /\ gateway /\ gateway' = gateway /\ c \in In(mem, "uncertain")
  /\ Len(resent) < MaxResends /\ MaySay(1)
  /\ LET m == Marked(mem, c, "pending") IN
       \/ Speak(m, 1, m)
       \/ Throws(m, disk) /\ UNCHANGED <<flushing, ending, overflows, sends>>
  /\ resent' = Append(resent, c)
  /\ UNCHANGED <<skipped, delaying, settled>>

Discard(c) ==
  /\ phase = "up" /\ gateway /\ gateway' = gateway /\ c \in In(mem, "uncertain")
  /\ mem.said < MaxSaid
  /\ LET m == Without(mem, c) IN
       \/ Speak(m, 1, m)
       \/ Throws(m, disk) /\ UNCHANGED <<flushing, ending, overflows, sends>>
  /\ settled' = settled \cup {c}
  /\ UNCHANGED <<skipped, delaying, resent>>
-----------------------------------------------------------------------------
(* fail() and the signals. *)
Fail ==
  /\ phase = "up" /\ phase' = "closing"
  /\ UNCHANGED <<mem, disk, gateway, skipped, loops, bounds, sends, resent, settled>>

(* The process ends, in order or not. *)
Down ==
  /\ phase # "down" /\ phase' = "down" /\ mem' = disk
  /\ gateway' = FALSE /\ skipped' = FALSE
  /\ flushing' = FALSE /\ delaying' = 0 /\ ending' = 0
  /\ UNCHANGED <<disk, bounds, sends, resent, settled>>

(* StateStore: the outcome of what was being sent is unknown. *)
Restored ==
  [disk EXCEPT !.outbox = [k \in DOMAIN @ |->
     IF @[k].status = "sending" THEN [@[k] EXCEPT !.status = "uncertain"] ELSE @[k]]]

Start ==
  /\ phase = "down" /\ phase' = "up" /\ mem' = Restored /\ disk' = mem'
  /\ UNCHANGED <<gateway, skipped, loops, bounds, sends, resent, settled>>

Next ==
  \/ Start \/ Connect \/ GatewayLost
  \/ \E n \in 1..MaxChunks : Say(n)
  \/ \E c \in Chunks : Resend(c) \/ Discard(c) \/ \E ok \in BOOLEAN : Returns(c, ok)
  \/ GoesOn \/ Ends
  \/ Fail \/ Down

Spec == Init /\ [][Next]_vars
-----------------------------------------------------------------------------
Resends(c) == Cardinality({k \in DOMAIN resent : resent[k] = c})

TypeOK ==
  /\ \A m \in {mem, disk} :
       /\ m.overflow \in BOOLEAN /\ m.said \in 0..(MaxSaid + MaxOverflows)
       /\ m.outbox \in Seq([id : Chunks, status : Status]) /\ Len(m.outbox) <= OutboxSize
  /\ phase \in {"up", "closing", "down"} /\ gateway \in BOOLEAN /\ skipped \in BOOLEAN
  /\ flushing \in BOOLEAN /\ delaying \in Nat /\ ending \in Nat
  /\ overflows \in 0..MaxOverflows /\ failures \in 0..MaxFailures
  /\ attempts \in [Chunks -> Nat] /\ tried \subseteq Chunks /\ settled \subseteq Chunks
  /\ resent \in Seq(Chunks)

(* A chunk is sent once and once more for every /resend of the user, whatever
   connection or process fails in between.                                    *)
SentOnce == \A c \in Chunks : attempts[c] <= 1 + Resends(c)

(* A chunk that was saved stays in the outbox until the gateway acknowledges it
   or the user discards it.                                                   *)
KeepsUnsettled == Ids(disk) \ Ids(disk') \subseteq settled'
Kept == [][KeepsUnsettled]_vars

(* No chunk overtakes an earlier one that nobody tried to send. *)
InOrder ==
  \A c \in tried : \A k \in Places(mem, "pending") :
    mem.outbox[k].id < c => mem.outbox[k].id \in tried

(* No wake-up is lost: with the gateway ready, a pending chunk has a loop that
   will come to it, unless connectGateway threw, or a /resend found the outbox
   full.                                                                      *)
FlushWakes ==
  phase = "up" /\ gateway /\ Places(mem, "pending") # {} =>
    \/ In(mem, "sending") # {} \/ delaying > 0 \/ ending > 0
    \/ skipped \/ Len(mem.outbox) = OutboxSize
================================================================================
