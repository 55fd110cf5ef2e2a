------------------------------- MODULE IoQueue -------------------------------
(***************************************************************************)
(* The first I/O queue of a member (struct rc_nvme_io_queue of              *)
(* src/src/rc_linux.h, the rc_nvme_sq_*, rc_nvme_io_* functions of          *)
(* src/src/rc_nvme.c): a submission and a completion ring shared with the   *)
(* controller, the count of reserved submission slots, and the handshake by *)
(* which one synchronous command at a time gets its status from whichever   *)
(* of the interrupt handler and its own polling sees the answer first.      *)
(*                                                                          *)
(* Sharing the queue are the requests of one hardware context, by tag, the  *)
(* synchronous commands of the resync thread, and the reset of the          *)
(* controller, which wipes both rings.                                      *)
(*                                                                          *)
(* A step is what happens under one hold of q->lock, for the interrupt      *)
(* handler one entry of it.                                                 *)
(***************************************************************************)
EXTENDS Integers, FiniteSets

CONSTANTS
  Depth,       \* sq_depth = cq_depth
  Tags,        \* the tags of the hardware context
  SeqValues,   \* values of the sequence in the CID of a synchronous command
  MaxSync,     \* bound: synchronous commands
  MaxTimeouts, \* bound: how many of them time out
  MaxResets,   \* bound: resets
  ResetRaces   \* a reset may come between the reservation and the submission
               \* of a synchronous command

ASSUME QueueOK ==
  /\ Depth \in Nat /\ Depth >= 2 /\ SeqValues \in Nat \ {0}
  /\ IsFiniteSet(Tags) /\ MaxSync \in Nat /\ MaxTimeouts \in Nat
  /\ MaxResets \in Nat /\ ResetRaces \in BOOLEAN

VARIABLES
  sq,        \* the submission ring
  sqTail,    \* sq_tail
  cq,        \* the completion ring
  cqHead,    \* cq_head
  cqPhase,   \* cq_phase
  inflight,  \* sq_inflight
  hs,        \* the handshake: sync_pending, sync_cid, sync_sc, sync_seq
  waiter,    \* the caller of rc_nvme_io_cmd_sync
  tag,       \* each request: free, with a reservation, or submitted
  ctl,       \* the controller: its view of the rings
  exec,      \* commands it is executing
  dead,      \* nvme.dead
  reset,     \* where rc_nvme_reset_controller is
  timeouts, resets  \* bounded counters

ringVars == <<sq, sqTail, cq, cqHead, cqPhase>>
vars == <<sq, sqTail, cq, cqHead, cqPhase, inflight, hs, waiter, tag, ctl, exec,
          dead, reset, timeouts, resets>>

Slots == 0 .. Depth - 1
Next1(i) == (i + 1) % Depth

\* A command: a request's, named by its tag, or the n-th synchronous one.
Commands == [kind : {"tag"}, n : Tags] \cup [kind : {"sync"}, n : 1 .. MaxSync]
Blank == [kind |-> "blank", n |-> 0]
Zero == [c |-> Blank, ok |-> FALSE, phase |-> 0]

\* The CID of the n-th synchronous command: RC_VOLUME_SYNC_CID_BASE and the low
\* byte of sync_seq.
Cid(n) == n % SeqValues

TypeOK ==
  /\ sq \in [Slots -> Commands \cup {Blank}] /\ sqTail \in Slots
  /\ cq \in [Slots -> [c : Commands \cup {Blank}, ok : BOOLEAN, phase : {0, 1}]]
  /\ cqHead \in Slots /\ cqPhase \in {0, 1}
  /\ inflight \in 0 .. Depth - 1
  /\ hs \in [pending : BOOLEAN, cid : 0 .. SeqValues - 1, ok : BOOLEAN,
             by : 0 .. MaxSync, seq : 0 .. MaxSync]
  /\ waiter \in [pc : {"idle", "armed", "wait", "late"}, n : 0 .. MaxSync,
                 result : {"none", "ok", "error", "timeout"}, by : 0 .. MaxSync]
  /\ tag \in [Tags -> {"free", "reserved", "submitted"}]
  /\ ctl \in [up : BOOLEAN, head : Slots, doorbell : Slots, cqTail : Slots,
              cqPhase : {0, 1}]
  /\ exec \in SUBSET Commands
  /\ dead \in BOOLEAN /\ reset \in {"none", "quiesced", "drained", "zeroed"}
  /\ timeouts \in 0 .. MaxTimeouts /\ resets \in 0 .. MaxResets

FreshController == [up |-> TRUE, head |-> 0, doorbell |-> 0, cqTail |-> 0,
                    cqPhase |-> 1]

Init ==
  /\ sq = [i \in Slots |-> Blank] /\ sqTail = 0
  /\ cq = [i \in Slots |-> Zero] /\ cqHead = 0 /\ cqPhase = 1
  /\ inflight = 0
  /\ hs = [pending |-> FALSE, cid |-> 0, ok |-> FALSE, by |-> 0, seq |-> 0]
  /\ waiter = [pc |-> "idle", n |-> 0, result |-> "none", by |-> 0]
  /\ tag = [t \in Tags |-> "free"]
  /\ ctl = FreshController /\ exec = {} /\ dead = FALSE /\ reset = "none"
  /\ timeouts = 0 /\ resets = 0

-----------------------------------------------------------------------------
(* Reserving and submitting.                                                *)

\* Mutant: an NVMe ring taken to hold as many commands as it has slots.
CanReserveAll == inflight <= Depth

\* A ring of Depth slots is full with Depth - 1 commands in it.
CanReserve == inflight <= Depth - 2

\* rc_nvme_sq_reserve by queue_rq, which checked nvme.dead before.
Reserve(t) ==
  /\ tag[t] = "free" /\ ~dead /\ reset = "none"
  /\ CanReserve
  /\ inflight' = inflight + 1
  /\ tag' = [tag EXCEPT ![t] = "reserved"]
  /\ UNCHANGED <<ringVars, hs, waiter, ctl, exec, dead, reset, timeouts, resets>>

\* rc_nvme_sq_unreserve: the queue of another member was full, or mapping failed.
Unreserve(t) ==
  /\ tag[t] = "reserved"
  /\ inflight' = IF inflight >= 1 THEN inflight - 1 ELSE 0
  /\ tag' = [tag EXCEPT ![t] = "free"]
  /\ UNCHANGED <<ringVars, hs, waiter, ctl, exec, dead, reset, timeouts, resets>>

\* rc_nvme_io_submit: the entry is written at the tail and the doorbell rung,
\* which a controller that has not (yet) got this queue does not notice.
IoSubmit(c) ==
  /\ sq' = [sq EXCEPT ![sqTail] = c]
  /\ sqTail' = Next1(sqTail)
  /\ ctl' = IF ctl.up THEN [ctl EXCEPT !.doorbell = Next1(sqTail)] ELSE ctl
  /\ UNCHANGED <<cq, cqHead, cqPhase>>

SubmitTag(t) ==
  /\ tag[t] = "reserved"
  /\ IoSubmit([kind |-> "tag", n |-> t])
  /\ tag' = [tag EXCEPT ![t] = "submitted"]
  /\ UNCHANGED <<inflight, hs, waiter, exec, dead, reset, timeouts, resets>>

-----------------------------------------------------------------------------
(* The controller.                                                          *)

Fetch ==
  /\ ctl.up /\ ctl.head # ctl.doorbell
  /\ exec' = exec \cup ({sq[ctl.head]} \ {Blank})
  /\ ctl' = [ctl EXCEPT !.head = Next1(@)]
  /\ UNCHANGED <<ringVars, inflight, hs, waiter, tag, dead, reset, timeouts, resets>>

\* It answers in any order, as long as there is room in the completion ring.  The
\* status of a request is RequestCompletion's matter.
Post(c, ok) ==
  /\ ctl.up /\ c \in exec /\ Next1(ctl.cqTail) # cqHead
  /\ c.kind = "tag" => ok
  /\ cq' = [cq EXCEPT ![ctl.cqTail] = [c |-> c, ok |-> ok, phase |-> ctl.cqPhase]]
  /\ ctl' = [ctl EXCEPT !.cqTail = Next1(@),
                        !.cqPhase = IF Next1(ctl.cqTail) = 0 THEN 1 - @ ELSE @]
  /\ exec' = exec \ {c}
  /\ UNCHANGED <<sq, sqTail, cqHead, cqPhase, inflight, hs, waiter, tag, dead, reset,
                 timeouts, resets>>

-----------------------------------------------------------------------------
(* Consuming completions.                                                   *)

\* An entry of the present lap is at the head.
Posted == cq[cqHead].phase = cqPhase

\* Mutant: the phase is not flipped at the end of the lap.
ConsumeOneLap ==
  /\ inflight' = IF inflight > 0 THEN inflight - 1 ELSE 0
  /\ cqHead' = Next1(cqHead)
  /\ UNCHANGED cqPhase

\* One entry consumed is one submission slot free; head and phase advance.
ConsumeEntry ==
  /\ inflight' = IF inflight > 0 THEN inflight - 1 ELSE 0
  /\ cqHead' = Next1(cqHead)
  /\ cqPhase' = IF Next1(cqHead) = 0 THEN 1 - cqPhase ELSE cqPhase

\* Mutant: the sequence is not compared.
AnyAnswer(e) == hs.pending /\ e.c.kind = "sync"

\* The entry answers the synchronous command now waited for.
Answers(e) == hs.pending /\ Cid(e.c.n) = hs.cid

\* rc_nvme_io_queue_irq: a synchronous answer is recorded for the waiter or, with
\* another sequence, dropped; a request is completed.
IsrConsume ==
  /\ reset \notin {"drained", "zeroed"}
  /\ Posted
  /\ LET e == cq[cqHead] IN
       IF e.c.kind = "sync"
       THEN /\ hs' = IF Answers(e)
                     THEN [hs EXCEPT !.pending = FALSE, !.ok = e.ok, !.by = e.c.n]
                     ELSE hs
            /\ UNCHANGED tag
       ELSE /\ tag' = [tag EXCEPT ![e.c.n] = "free"]
            /\ UNCHANGED hs
  /\ ConsumeEntry
  /\ UNCHANGED <<sq, sqTail, cq, waiter, ctl, exec, dead, reset, timeouts, resets>>

-----------------------------------------------------------------------------
(* rc_nvme_io_cmd_sync.                                                     *)

\* A slot is reserved and the handshake armed under the lock ...
SyncArm ==
  /\ waiter.pc = "idle" /\ hs.seq < MaxSync
  /\ CanReserve
  /\ inflight' = inflight + 1
  /\ LET n == hs.seq + 1 IN
       /\ hs' = [hs EXCEPT !.seq = n, !.cid = Cid(n), !.pending = TRUE, !.ok = FALSE,
                           !.by = 0]
       /\ waiter' = [pc |-> "armed", n |-> n, result |-> "none", by |-> 0]
  /\ UNCHANGED <<ringVars, tag, ctl, exec, dead, reset, timeouts, resets>>

\* ... the command submitted under another ...
SyncSubmit ==
  /\ waiter.pc = "armed"
  /\ IoSubmit([kind |-> "sync", n |-> waiter.n])
  /\ waiter' = [waiter EXCEPT !.pc = "wait"]
  /\ UNCHANGED <<inflight, hs, tag, exec, dead, reset, timeouts, resets>>

Return(result, by) ==
  waiter' = [waiter EXCEPT !.pc = "idle", !.result = result, !.by = by]

\* ... and waited for: the interrupt handler has recorded the status ...
SyncClaimed ==
  /\ waiter.pc = "wait" /\ ~hs.pending
  /\ Return(IF hs.ok THEN "ok" ELSE "error", hs.by)
  /\ UNCHANGED <<ringVars, inflight, hs, tag, ctl, exec, dead, reset, timeouts, resets>>

\* ... or the waiter finds an entry of the synchronous range itself, its own or a
\* stale one; a request's it leaves to the handler.
SyncPoll ==
  /\ waiter.pc = "wait" /\ hs.pending
  /\ Posted /\ cq[cqHead].c.kind = "sync"
  /\ LET e == cq[cqHead] IN
       IF Answers(e)
       THEN /\ hs' = [hs EXCEPT !.pending = FALSE]
            /\ Return(IF e.ok THEN "ok" ELSE "error", e.c.n)
       ELSE UNCHANGED <<hs, waiter>>
  /\ ConsumeEntry
  /\ UNCHANGED <<sq, sqTail, cq, tag, ctl, exec, dead, reset, timeouts, resets>>

\* Time is up ...
SyncExpire ==
  /\ waiter.pc = "wait" /\ hs.pending /\ timeouts < MaxTimeouts
  /\ timeouts' = timeouts + 1
  /\ waiter' = [waiter EXCEPT !.pc = "late"]
  /\ UNCHANGED <<ringVars, inflight, hs, tag, ctl, exec, dead, reset, resets>>

\* ... and the handshake is disarmed; the slot stays with the command.
SyncDisarm ==
  /\ waiter.pc = "late"
  /\ hs' = [hs EXCEPT !.pending = FALSE]
  /\ Return("timeout", 0)
  /\ UNCHANGED <<ringVars, inflight, tag, ctl, exec, dead, reset, timeouts, resets>>

-----------------------------------------------------------------------------
(* rc_nvme_reset_controller, of a controller that works or has died.        *)

\* The controller stops by itself.
Die ==
  /\ ctl.up
  /\ ctl' = [ctl EXCEPT !.up = FALSE]
  /\ exec' = {}
  /\ UNCHANGED <<ringVars, inflight, hs, waiter, tag, dead, reset, timeouts, resets>>

ResetBegin ==
  /\ reset = "none" /\ resets < MaxResets
  /\ resets' = resets + 1
  /\ dead' = TRUE /\ reset' = "quiesced"
  /\ UNCHANGED <<ringVars, inflight, hs, waiter, tag, ctl, exec, timeouts>>

\* blk_mq_quiesce_queue has waited for every queue_rq; the drain disables the
\* controller and ends what was submitted; interrupts are disabled.
ResetDrain ==
  /\ reset = "quiesced" /\ \A t \in Tags : tag[t] # "reserved"
  /\ ctl' = [ctl EXCEPT !.up = FALSE]
  /\ exec' = {}
  /\ tag' = [t \in Tags |-> "free"]
  /\ reset' = "drained"
  /\ UNCHANGED <<ringVars, inflight, hs, waiter, dead, timeouts, resets>>

\* The rings are wiped under the lock, and every reservation with them.
ResetZero ==
  /\ reset = "drained"
  /\ ResetRaces \/ waiter.pc # "armed"
  /\ sq' = [i \in Slots |-> Blank] /\ sqTail' = 0
  /\ cq' = [i \in Slots |-> Zero] /\ cqHead' = 0 /\ cqPhase' = 1
  /\ inflight' = 0
  /\ reset' = "zeroed"
  /\ UNCHANGED <<hs, waiter, tag, ctl, exec, dead, timeouts, resets>>

\* The controller is enabled and given its queues; requests flow again.
ResetCreate ==
  /\ reset = "zeroed"
  /\ ctl' = FreshController
  /\ dead' = FALSE /\ reset' = "none"
  /\ UNCHANGED <<ringVars, inflight, hs, waiter, tag, exec, timeouts, resets>>

\* A step of it fails: the member stays dead.
ResetFail ==
  /\ reset \in {"drained", "zeroed"}
  /\ reset' = "none"
  /\ UNCHANGED <<ringVars, inflight, hs, waiter, tag, ctl, exec, dead, timeouts, resets>>

-----------------------------------------------------------------------------
Next ==
  \/ \E t \in Tags : Reserve(t) \/ Unreserve(t) \/ SubmitTag(t)
  \/ Fetch \/ Die \/ \E c \in exec, ok \in BOOLEAN : Post(c, ok)
  \/ IsrConsume
  \/ SyncArm \/ SyncSubmit \/ SyncClaimed \/ SyncPoll \/ SyncExpire \/ SyncDisarm
  \/ ResetBegin \/ ResetDrain \/ ResetZero \/ ResetCreate \/ ResetFail

Spec == Init /\ [][Next]_vars

-----------------------------------------------------------------------------
(* Properties.                                                              *)

\* The slots submitted and not fetched, and the entries posted and not consumed.
Unfetched == {i \in Slots : (i - ctl.head) % Depth < (sqTail - ctl.head) % Depth}
Unconsumed == {i \in Slots : (i - cqHead) % Depth < (ctl.cqTail - cqHead) % Depth}

\* Where a command of the present life of the controller may be.
Outstanding == ({sq[i] : i \in Unfetched} \cup exec \cup {cq[i].c : i \in Unconsumed})
                 \ {Blank}

\* A submitted request of a working controller is waiting in the submission ring,
\* being executed, or waiting in the completion ring.
NothingLost ==
  ctl.up /\ ~dead =>
    \A t \in Tags : tag[t] = "submitted" => [kind |-> "tag", n |-> t] \in Outstanding

\* sq_inflight "counts every SQE submitted-but-not-yet-completed on this queue,
\* regardless of origin", and what is reserved.
InflightCovers ==
  ctl.up => inflight >= Cardinality(Outstanding)
                          + Cardinality({t \in Tags : tag[t] = "reserved"})
                          + (IF waiter.pc = "armed" THEN 1 ELSE 0)

\* A stale answer "can never be misattributed to the CURRENT command": the status
\* a synchronous command returns is its own.
StatusOwn == waiter.result \in {"ok", "error"} => waiter.by = waiter.n

\* The two consumers of the completion ring, the interrupt handler and the waiter,
\* keep in step with the controller: the entries they take for posted are those it
\* has posted, in every lap and after every reset.
ConsumersInStep ==
  ctl.up /\ reset = "none" =>
    \A i \in Slots :
      LET lap == IF i >= cqHead THEN cqPhase ELSE 1 - cqPhase
      IN cq[i].phase = lap <=> i \in Unconsumed

\* The rings and their accounts agree.
RingExact == NothingLost /\ InflightCovers /\ ConsumersInStep
=============================================================================
