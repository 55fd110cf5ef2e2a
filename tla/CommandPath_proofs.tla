-------------------------- MODULE CommandPath_proofs --------------------------
(***************************************************************************)
(* Proofs about the way of a request to the drives: its fan-out into one    *)
(* command for each member (StripeFanout), and the queue that carries a     *)
(* member's commands (IoQueue).  The two share no state.                    *)
(*                                                                          *)
(* Of the queue, for every size of the ring and every number of tags and    *)
(* commands: the type invariant; that the handshake never gives the caller  *)
(* of rc_nvme_io_cmd_sync the status of another command; and that the       *)
(* rings, the count of reservations and the two consumers stay in step with *)
(* the controller, in every lap and across every reset.                     *)
(*                                                                          *)
(* Of the fan-out, and of the copy of a rebuild: that they put every sector *)
(* at its place, leave none out and reach nothing else, for volumes of any  *)
(* number of members, any stripe, any request and any cutting of its        *)
(* buffer, reads of several stripes with both copies of a column live       *)
(* excepted.                                                                *)
(***************************************************************************)
EXTENDS IoQueue, StripeFanout, FiniteSetTheorems, TLAPS

\* What the handshake relies on.  While it is armed it waits for the CID of the
\* last sequence number; the caller in the course of a command is the one that
\* took that number; what the interrupt handler has recorded for it had its CID.
HandshakeOwn ==
  /\ hs.pending => hs.cid = Cid(hs.seq)
  /\ waiter.pc # "idle" =>
       waiter.n = hs.seq /\ waiter.n \in 1 .. MaxSync /\ waiter.result = "none"
  /\ waiter.pc \in {"armed", "wait"} /\ ~hs.pending =>
       hs.by \in 1 .. MaxSync /\ Cid(hs.by) = Cid(hs.seq)

\* What the caller has been given had the CID of its command.
ResultOwn ==
  waiter.result \in {"ok", "error"} =>
    waiter.by \in 1 .. MaxSync /\ waiter.n \in 1 .. MaxSync
      /\ Cid(waiter.by) = Cid(waiter.n)

HandshakeInv == TypeOK /\ HandshakeOwn /\ ResultOwn

-----------------------------------------------------------------------------
(* The rings.  RingExact needs to know of the whole life of the queue: how   *)
(* far each index is ahead of the next, what the count of reservations owes  *)
(* to each of them, and what a reset leaves behind.                          *)

\* How far index a is ahead of index b.
Ahead(a, b) == (a - b) % Depth

Reserved == {t \in Tags : tag[t] = "reserved"}
Armed == IF waiter.pc = "armed" THEN 1 ELSE 0

\* The controller has been told of no more than was submitted.
Rung == ctl.up => Ahead(ctl.doorbell, ctl.head) <= Ahead(sqTail, ctl.head)

\* The phase of the entries tells the laps apart, the next entry's as well.
Laps ==
  ctl.up =>
    /\ ctl.cqPhase = IF ctl.cqTail >= cqHead THEN cqPhase ELSE 1 - cqPhase
    /\ \A i \in Slots :
         cq[i].phase = (IF i >= cqHead THEN cqPhase ELSE 1 - cqPhase)
           <=> Ahead(i, cqHead) < Ahead(ctl.cqTail, cqHead)

\* The count covers each entry of both rings, each command being executed, and
\* each reservation.
Covered ==
  /\ IsFiniteSet(exec)
  /\ ctl.up => inflight >= Ahead(sqTail, ctl.head) + Cardinality(exec)
                             + Ahead(ctl.cqTail, cqHead) + Cardinality(Reserved) + Armed

\* Between the drain and the new queues the controller is off and no request has
\* even a reservation.
Still ==
  reset \in {"drained", "zeroed"} =>
    ~ctl.up /\ exec = {} /\ \A t \in Tags : tag[t] = "free"

\* Wiped rings hold nothing but what synchronous commands have put there since.
Wiped ==
  reset = "zeroed" =>
    /\ cq = [i \in Slots |-> Zero] /\ cqHead = 0 /\ cqPhase = 1
    /\ inflight >= sqTail + Armed

\* A submitted request of a controller that is up is in one of its three places.
Kept ==
  ctl.up =>
    \A t \in Tags : tag[t] = "submitted" => [kind |-> "tag", n |-> t] \in Outstanding

RingInv == HandshakeInv /\ Rung /\ Laps /\ Covered /\ Still /\ Wiped /\ Kept

-----------------------------------------------------------------------------
(* The index arithmetic of the rings.                                       *)

\* A CID is one of the SeqValues (the low byte of sync_seq).
LEMMA CidType == \A n \in Nat : Cid(n) \in 0 .. SeqValues - 1
BY QueueOK DEF Cid

\* Advancing an index stays inside the ring (the wrap of sq_tail and cq_head).
LEMMA Next1Type == \A i \in Slots : Next1(i) \in Slots
BY QueueOK DEF Next1, Slots

-----------------------------------------------------------------------------
(* Type correctness.                                                        *)

\* The queues as they are created.
LEMMA TypeInit == Init => TypeOK
<1> SUFFICES ASSUME Init PROVE TypeOK
  OBVIOUS
<1>1. 0 \in Slots /\ 0 \in 0 .. SeqValues - 1 /\ 0 \in 0 .. MaxSync /\ 0 \in 0 .. Depth - 1
        /\ 0 \in 0 .. MaxTimeouts /\ 0 \in 0 .. MaxResets
  BY QueueOK DEF Slots
<1> QED
BY <1>1
   DEF Init, TypeOK, Zero, FreshController

\* Every step keeps the types.
LEMMA TypeNext == ASSUME TypeOK, HandshakeOwn, [Next]_vars PROVE TypeOK'
<1>1. ASSUME NEW t \in Tags, Reserve(t) PROVE TypeOK'
  BY <1>1, QueueOK, CidType, Next1Type DEF Reserve, ringVars, CanReserve, TypeOK
<1>2. ASSUME NEW t \in Tags, Unreserve(t) PROVE TypeOK'
  BY <1>2, QueueOK, CidType, Next1Type DEF Unreserve, ringVars, TypeOK
<1>3. ASSUME NEW t \in Tags, SubmitTag(t) PROVE TypeOK'
  <2>0. [kind |-> "tag", n |-> t] \in Commands
    BY DEF Commands
  <2>1. sq' \in [Slots -> Commands \cup {Blank}]
    BY <1>3, <2>0 DEF SubmitTag, IoSubmit, TypeOK
  <2>2. sqTail' \in Slots
    BY <1>3, Next1Type DEF SubmitTag, IoSubmit, TypeOK
  <2>3. ctl' \in [up : BOOLEAN, head : Slots, doorbell : Slots, cqTail : Slots,
                    cqPhase : {0, 1}]
    BY <1>3, Next1Type DEF SubmitTag, IoSubmit, TypeOK
  <2>4. tag' \in [Tags -> {"free", "reserved", "submitted"}]
    BY <1>3 DEF SubmitTag, TypeOK
  <2> QED
    BY <1>3, <2>1, <2>2, <2>3, <2>4 DEF SubmitTag, IoSubmit, TypeOK
<1>4. ASSUME Fetch PROVE TypeOK'
  BY <1>4, QueueOK, CidType, Next1Type DEF Fetch, ringVars, TypeOK
<1>5. ASSUME Die PROVE TypeOK'
  <2>1. ctl' = [ctl EXCEPT !.up = FALSE] /\ exec' = {}
        /\ UNCHANGED <<sq, sqTail, cq, cqHead, cqPhase, inflight, hs, waiter, tag, dead, reset,
                       timeouts, resets>>
    BY <1>5 DEF Die, ringVars
  <2>2. ctl' \in [up : BOOLEAN, head : Slots, doorbell : Slots, cqTail : Slots,
                  cqPhase : {0, 1}]
    BY <2>1 DEF TypeOK
  <2> QED
    BY <2>1, <2>2 DEF TypeOK
<1>6. ASSUME NEW c \in exec, NEW ok \in BOOLEAN, Post(c, ok) PROVE TypeOK'
  <2>0. \A p \in {0, 1} : 1 - p \in {0, 1}
    OBVIOUS
  <2>1. cq' \in [Slots -> [c : Commands \cup {Blank}, ok : BOOLEAN, phase : {0, 1}]]
    BY <1>6 DEF Post, TypeOK
  <2>2. ctl' \in [up : BOOLEAN, head : Slots, doorbell : Slots, cqTail : Slots,
                    cqPhase : {0, 1}]
    BY <1>6, <2>0, Next1Type DEF Post, TypeOK
  <2>3. exec' \in SUBSET Commands
    BY <1>6 DEF Post, TypeOK
  <2> QED
    BY <1>6, <2>1, <2>2, <2>3 DEF Post, ringVars, TypeOK
<1>7. ASSUME IsrConsume PROVE TypeOK'
  <2>0. cq[cqHead].c.kind = "sync" => cq[cqHead].c.n \in 1 .. MaxSync
    BY DEF TypeOK, Commands, Blank
  <2>a. \/ hs' = [hs EXCEPT !.pending = FALSE, !.ok = cq[cqHead].ok, !.by = cq[cqHead].c.n]
          /\ cq[cqHead].c.kind = "sync"
        \/ hs' = hs
    BY <1>7 DEF IsrConsume
  <2>b. cq[cqHead].ok \in BOOLEAN
    BY DEF TypeOK
  <2>1. inflight' \in 0 .. Depth - 1
    BY <1>7, QueueOK DEF IsrConsume, ConsumeEntry, TypeOK
  <2>2. cqHead' \in Slots
    BY <1>7, Next1Type DEF IsrConsume, ConsumeEntry, TypeOK
  <2>3. cqPhase' \in {0, 1}
    BY <1>7 DEF IsrConsume, ConsumeEntry, TypeOK
  <2>4. hs' \in [pending : BOOLEAN, cid : 0 .. SeqValues - 1, ok : BOOLEAN,
                   by : 0 .. MaxSync, seq : 0 .. MaxSync]
    <3> DEFINE N == 0 .. MaxSync
    <3> DEFINE C == 0 .. SeqValues - 1
    <3>1. hs \in [pending : BOOLEAN, cid : C, ok : BOOLEAN,
                   by : N, seq : N]
      BY DEF TypeOK
    <3>2. cq[cqHead].c.kind = "sync" => cq[cqHead].c.n \in N
      BY <2>0, QueueOK
    <3> HIDE DEF N, C
    <3>3. hs' \in [pending : BOOLEAN, cid : C, ok : BOOLEAN,
                     by : N, seq : N]
      BY <3>1, <2>a, <2>b, <3>2
    <3> QED
      BY <3>3 DEF N, C
  <2>5. tag' \in [Tags -> {"free", "reserved", "submitted"}]
    BY <1>7 DEF IsrConsume, TypeOK
  <2> QED
    BY <1>7, <2>1, <2>2, <2>3, <2>4, <2>5 DEF IsrConsume, ConsumeEntry, TypeOK
<1>8. ASSUME SyncArm PROVE TypeOK'
  <2>0. hs.seq + 1 \in 1 .. MaxSync /\ Cid(hs.seq + 1) \in 0 .. SeqValues - 1
    BY <1>8, QueueOK, CidType DEF SyncArm, TypeOK
  <2>a. hs' = [hs EXCEPT !.seq = hs.seq + 1, !.cid = Cid(hs.seq + 1), !.pending = TRUE,
                        !.ok = FALSE, !.by = 0]
    BY <1>8 DEF SyncArm
  <2>b. waiter' = [pc |-> "armed", n |-> hs.seq + 1, result |-> "none", by |-> 0]
    BY <1>8 DEF SyncArm
  <2>1. inflight' \in 0 .. Depth - 1
    BY <1>8, QueueOK DEF SyncArm, CanReserve, TypeOK
  <2>2. hs' \in [pending : BOOLEAN, cid : 0 .. SeqValues - 1, ok : BOOLEAN,
                   by : 0 .. MaxSync, seq : 0 .. MaxSync]
    <3> DEFINE N == 0 .. MaxSync
    <3> DEFINE C == 0 .. SeqValues - 1
    <3>1. hs \in [pending : BOOLEAN, cid : C, ok : BOOLEAN,
                   by : N, seq : N]
      BY DEF TypeOK
    <3>2. hs.seq + 1 \in N /\ 0 \in N
      BY <2>0, QueueOK
    <3>3. Cid(hs.seq + 1) \in C
      BY <2>0
    <3> HIDE DEF N, C
    <3>4. hs' \in [pending : BOOLEAN, cid : C, ok : BOOLEAN,
                     by : N, seq : N]
      BY <3>1, <2>a, <3>2, <3>3
    <3> QED
      BY <3>4 DEF N, C
  <2>3. waiter' \in [pc : {"idle", "armed", "wait", "late"}, n : 0 .. MaxSync,
                       result : {"none", "ok", "error", "timeout"}, by : 0 .. MaxSync]
    BY <1>8, <2>0, <2>b, QueueOK DEF TypeOK
  <2> QED
    BY <1>8, <2>1, <2>2, <2>3 DEF SyncArm, ringVars, TypeOK
<1>9. ASSUME SyncSubmit PROVE TypeOK'
  <2>0. [kind |-> "sync", n |-> waiter.n] \in Commands
    BY <1>9, QueueOK DEF SyncSubmit, TypeOK, Commands, HandshakeOwn
  <2>1. sq' \in [Slots -> Commands \cup {Blank}]
    BY <1>9, <2>0 DEF SyncSubmit, IoSubmit, TypeOK
  <2>2. sqTail' \in Slots
    BY <1>9, Next1Type DEF SyncSubmit, IoSubmit, TypeOK
  <2>3. ctl' \in [up : BOOLEAN, head : Slots, doorbell : Slots, cqTail : Slots,
                    cqPhase : {0, 1}]
    BY <1>9, Next1Type DEF SyncSubmit, IoSubmit, TypeOK
  <2>4. waiter' \in [pc : {"idle", "armed", "wait", "late"}, n : 0 .. MaxSync,
                       result : {"none", "ok", "error", "timeout"}, by : 0 .. MaxSync]
    BY <1>9 DEF SyncSubmit, TypeOK
  <2> QED
    BY <1>9, <2>1, <2>2, <2>3, <2>4 DEF SyncSubmit, IoSubmit, TypeOK
<1>10. ASSUME SyncClaimed PROVE TypeOK'
  BY <1>10, QueueOK, CidType, Next1Type DEF SyncClaimed, ringVars, Return, TypeOK
<1>11. ASSUME SyncPoll PROVE TypeOK'
  <2>0. cq[cqHead].c.kind = "sync" => cq[cqHead].c.n \in 1 .. MaxSync
    BY DEF TypeOK, Commands, Blank
  <2>a. \/ \E r \in {"ok", "error"} :
              waiter' = [waiter EXCEPT !.pc = "idle", !.result = r, !.by = cq[cqHead].c.n]
          /\ cq[cqHead].c.kind = "sync"
        \/ waiter' = waiter
    BY <1>11 DEF SyncPoll, Return
  <2>1. inflight' \in 0 .. Depth - 1
    BY <1>11, QueueOK DEF SyncPoll, ConsumeEntry, TypeOK
  <2>2. cqHead' \in Slots
    BY <1>11, Next1Type DEF SyncPoll, ConsumeEntry, TypeOK
  <2>3. cqPhase' \in {0, 1}
    BY <1>11 DEF SyncPoll, ConsumeEntry, TypeOK
  <2>4. hs' \in [pending : BOOLEAN, cid : 0 .. SeqValues - 1, ok : BOOLEAN,
                   by : 0 .. MaxSync, seq : 0 .. MaxSync]
    <3>1. hs' = [hs EXCEPT !.pending = FALSE] \/ hs' = hs
      BY <1>11 DEF SyncPoll
    <3> QED
      BY <3>1 DEF TypeOK
  <2>5. waiter' \in [pc : {"idle", "armed", "wait", "late"}, n : 0 .. MaxSync,
                       result : {"none", "ok", "error", "timeout"}, by : 0 .. MaxSync]
    <3> DEFINE N == 0 .. MaxSync
    <3> DEFINE C == 0 .. SeqValues - 1
    <3>1. waiter \in [pc : {"idle", "armed", "wait", "late"}, n : N,
                       result : {"none", "ok", "error", "timeout"}, by : N]
      BY DEF TypeOK
    <3>2. cq[cqHead].c.kind = "sync" => cq[cqHead].c.n \in N
      BY <2>0, QueueOK
    <3> HIDE DEF N, C
    <3>3. waiter' \in [pc : {"idle", "armed", "wait", "late"}, n : N,
                         result : {"none", "ok", "error", "timeout"}, by : N]
      BY <3>1, <2>a, <3>2
    <3> QED
      BY <3>3 DEF N, C
  <2> QED
    BY <1>11, <2>1, <2>2, <2>3, <2>4, <2>5 DEF SyncPoll, ConsumeEntry, TypeOK
<1>12. ASSUME SyncExpire PROVE TypeOK'
  BY <1>12, QueueOK, CidType, Next1Type DEF SyncExpire, ringVars, TypeOK
<1>13. ASSUME SyncDisarm PROVE TypeOK'
  <2>a. waiter' = [waiter EXCEPT !.pc = "idle", !.result = "timeout", !.by = 0]
    BY <1>13 DEF SyncDisarm, Return
  <2>0. 0 \in 0 .. MaxSync
    BY QueueOK
  <2>1. hs' \in [pending : BOOLEAN, cid : 0 .. SeqValues - 1, ok : BOOLEAN,
                   by : 0 .. MaxSync, seq : 0 .. MaxSync]
    BY <1>13 DEF SyncDisarm, TypeOK
  <2>2. waiter' \in [pc : {"idle", "armed", "wait", "late"}, n : 0 .. MaxSync,
                       result : {"none", "ok", "error", "timeout"}, by : 0 .. MaxSync]
    BY <1>13, <2>0, <2>a DEF TypeOK
  <2> QED
    BY <1>13, <2>1, <2>2 DEF SyncDisarm, ringVars, TypeOK
<1>14. ASSUME ResetBegin PROVE TypeOK'
  BY <1>14, QueueOK, CidType, Next1Type DEF ResetBegin, ringVars, TypeOK
<1>15. ASSUME ResetDrain PROVE TypeOK'
  <2>1. ctl' \in [up : BOOLEAN, head : Slots, doorbell : Slots, cqTail : Slots,
                    cqPhase : {0, 1}]
    BY <1>15 DEF ResetDrain, TypeOK
  <2>2. exec' \in SUBSET Commands
    BY <1>15 DEF ResetDrain
  <2>3. tag' \in [Tags -> {"free", "reserved", "submitted"}]
    BY <1>15 DEF ResetDrain
  <2> QED
    BY <1>15, <2>1, <2>2, <2>3 DEF ResetDrain, ringVars, TypeOK
<1>16. ASSUME ResetZero PROVE TypeOK'
  <2>0. 0 \in Slots /\ Zero \in [c : Commands \cup {Blank}, ok : BOOLEAN, phase : {0, 1}]
    BY QueueOK DEF Slots, Zero
  <2>1. sq' \in [Slots -> Commands \cup {Blank}]
    BY <1>16 DEF ResetZero
  <2>2. sqTail' \in Slots
    BY <1>16, <2>0 DEF ResetZero
  <2>3. cq' \in [Slots -> [c : Commands \cup {Blank}, ok : BOOLEAN, phase : {0, 1}]]
    BY <1>16, <2>0 DEF ResetZero
  <2>4. cqHead' \in Slots
    BY <1>16, <2>0 DEF ResetZero
  <2>5. cqPhase' \in {0, 1}
    BY <1>16 DEF ResetZero
  <2>6. inflight' \in 0 .. Depth - 1
    BY <1>16, QueueOK DEF ResetZero
  <2> QED
    BY <1>16, <2>1, <2>2, <2>3, <2>4, <2>5, <2>6 DEF ResetZero, TypeOK
<1>17. ASSUME ResetCreate PROVE TypeOK'
  <2>1. ctl' \in [up : BOOLEAN, head : Slots, doorbell : Slots, cqTail : Slots,
                    cqPhase : {0, 1}]
    BY <1>17, QueueOK DEF ResetCreate, FreshController, Slots
  <2> QED
    BY <1>17, <2>1 DEF ResetCreate, ringVars, TypeOK
<1>18. ASSUME ResetFail PROVE TypeOK'
  BY <1>18, QueueOK, CidType, Next1Type DEF ResetFail, ringVars, TypeOK
<1>19. CASE UNCHANGED vars
  BY <1>19, QueueOK, CidType, Next1Type DEF vars, ringVars, TypeOK
<1> QED
  BY <1>1, <1>2, <1>3, <1>4, <1>5, <1>6, <1>7, <1>8, <1>9, <1>10, <1>11, <1>12, <1>13,
     <1>14, <1>15, <1>16, <1>17, <1>18, <1>19 DEF Next

\* Every step keeps what the handshake relies on: arming takes a new sequence number
\* and its CID at once, and only an answer with that CID is recorded.
LEMMA HandshakeNext == ASSUME HandshakeInv, [Next]_vars PROVE HandshakeOwn'
<1>1. ASSUME NEW t \in Tags, Reserve(t) PROVE HandshakeOwn'
  BY <1>1 DEF Reserve, HandshakeInv, HandshakeOwn
<1>2. ASSUME NEW t \in Tags, Unreserve(t) PROVE HandshakeOwn'
  BY <1>2 DEF Unreserve, HandshakeInv, HandshakeOwn
<1>3. ASSUME NEW t \in Tags, SubmitTag(t) PROVE HandshakeOwn'
  BY <1>3 DEF SubmitTag, HandshakeInv, HandshakeOwn
<1>4. ASSUME Fetch PROVE HandshakeOwn'
  BY <1>4 DEF Fetch, HandshakeInv, HandshakeOwn
<1>5. ASSUME Die PROVE HandshakeOwn'
  BY <1>5 DEF Die, HandshakeInv, HandshakeOwn
<1>6. ASSUME NEW c \in exec, NEW ok \in BOOLEAN, Post(c, ok) PROVE HandshakeOwn'
  BY <1>6 DEF Post, HandshakeInv, HandshakeOwn
<1>7. ASSUME IsrConsume PROVE HandshakeOwn'
  <2>1. cq[cqHead].c.kind = "sync" => cq[cqHead].c.n \in 1 .. MaxSync
    BY DEF HandshakeInv, TypeOK, Commands, Blank
  <2>2. waiter' = waiter
    BY <1>7 DEF IsrConsume
  <2>3. CASE hs' = hs
    BY <2>2, <2>3 DEF HandshakeInv, HandshakeOwn
  <2>4. CASE hs' # hs
    <3>1. /\ hs' = [hs EXCEPT !.pending = FALSE, !.ok = cq[cqHead].ok, !.by = cq[cqHead].c.n]
          /\ cq[cqHead].c.kind = "sync" /\ Answers(cq[cqHead])
      BY <1>7, <2>4 DEF IsrConsume
    <3>2. hs'.pending = FALSE /\ hs'.by = cq[cqHead].c.n /\ hs'.seq = hs.seq
      BY <3>1 DEF HandshakeInv, TypeOK
    <3>3. Cid(cq[cqHead].c.n) = Cid(hs.seq)
      BY <3>1 DEF Answers, HandshakeInv, HandshakeOwn
    <3> QED
      BY <2>1, <2>2, <3>1, <3>2, <3>3 DEF HandshakeInv, HandshakeOwn
  <2> QED
    BY <2>3, <2>4
<1>8. ASSUME SyncArm PROVE HandshakeOwn'
  <2>1. /\ hs' = [hs EXCEPT !.seq = hs.seq + 1, !.cid = Cid(hs.seq + 1), !.pending = TRUE,
                           !.ok = FALSE, !.by = 0]
        /\ waiter' = [pc |-> "armed", n |-> hs.seq + 1, result |-> "none", by |-> 0]
        /\ hs.seq < MaxSync
    BY <1>8 DEF SyncArm
  <2>2. hs'.pending /\ hs'.seq = hs.seq + 1 /\ hs'.cid = Cid(hs.seq + 1)
    BY <2>1 DEF HandshakeInv, TypeOK
  <2>3. hs.seq + 1 \in 1 .. MaxSync
    BY <2>1, QueueOK DEF HandshakeInv, TypeOK
  <2> QED
    BY <2>1, <2>2, <2>3 DEF HandshakeOwn
<1>9. ASSUME SyncSubmit PROVE HandshakeOwn'
  BY <1>9 DEF SyncSubmit, HandshakeInv, HandshakeOwn
<1>10. ASSUME SyncClaimed PROVE HandshakeOwn'
  BY <1>10 DEF SyncClaimed, Return, HandshakeInv, HandshakeOwn
<1>11. ASSUME SyncPoll PROVE HandshakeOwn'
  <2>1. CASE hs' = hs /\ waiter' = waiter
    BY <2>1 DEF HandshakeInv, HandshakeOwn
  <2>2. CASE ~(hs' = hs /\ waiter' = waiter)
    <3>1. hs' = [hs EXCEPT !.pending = FALSE] /\ waiter'.pc = "idle"
      BY <1>11, <2>2 DEF SyncPoll, Return, HandshakeInv, TypeOK
    <3> QED
      BY <3>1 DEF HandshakeInv, HandshakeOwn
  <2> QED
    BY <2>1, <2>2
<1>12. ASSUME SyncExpire PROVE HandshakeOwn'
  BY <1>12 DEF SyncExpire, HandshakeInv, HandshakeOwn
<1>13. ASSUME SyncDisarm PROVE HandshakeOwn'
  BY <1>13 DEF SyncDisarm, Return, HandshakeInv, HandshakeOwn
<1>14. ASSUME ResetBegin PROVE HandshakeOwn'
  BY <1>14 DEF ResetBegin, HandshakeInv, HandshakeOwn
<1>15. ASSUME ResetDrain PROVE HandshakeOwn'
  BY <1>15 DEF ResetDrain, HandshakeInv, HandshakeOwn
<1>16. ASSUME ResetZero PROVE HandshakeOwn'
  BY <1>16 DEF ResetZero, HandshakeInv, HandshakeOwn
<1>17. ASSUME ResetCreate PROVE HandshakeOwn'
  BY <1>17 DEF ResetCreate, HandshakeInv, HandshakeOwn
<1>18. ASSUME ResetFail PROVE HandshakeOwn'
  BY <1>18 DEF ResetFail, HandshakeInv, HandshakeOwn
<1>19. CASE UNCHANGED vars
  BY <1>19 DEF vars, ringVars, HandshakeInv, HandshakeOwn
<1> QED
  BY <1>1, <1>2, <1>3, <1>4, <1>5, <1>6, <1>7, <1>8, <1>9, <1>10, <1>11, <1>12, <1>13,
     <1>14, <1>15, <1>16, <1>17, <1>18, <1>19 DEF Next

\* Every step keeps what the caller has been given.
LEMMA ResultNext == ASSUME HandshakeInv, [Next]_vars PROVE ResultOwn'
<1>1. ASSUME NEW t \in Tags, Reserve(t) PROVE ResultOwn'
  BY <1>1 DEF Reserve, HandshakeInv, ResultOwn
<1>2. ASSUME NEW t \in Tags, Unreserve(t) PROVE ResultOwn'
  BY <1>2 DEF Unreserve, HandshakeInv, ResultOwn
<1>3. ASSUME NEW t \in Tags, SubmitTag(t) PROVE ResultOwn'
  BY <1>3 DEF SubmitTag, HandshakeInv, ResultOwn
<1>4. ASSUME Fetch PROVE ResultOwn'
  BY <1>4 DEF Fetch, HandshakeInv, ResultOwn
<1>5. ASSUME Die PROVE ResultOwn'
  BY <1>5 DEF Die, HandshakeInv, ResultOwn
<1>6. ASSUME NEW c \in exec, NEW ok \in BOOLEAN, Post(c, ok) PROVE ResultOwn'
  BY <1>6 DEF Post, HandshakeInv, ResultOwn
<1>7. ASSUME IsrConsume PROVE ResultOwn'
  BY <1>7 DEF IsrConsume, HandshakeInv, ResultOwn
<1>8. ASSUME SyncArm PROVE ResultOwn'
  BY <1>8 DEF SyncArm, HandshakeInv, ResultOwn
<1>9. ASSUME SyncSubmit PROVE ResultOwn'
  BY <1>9 DEF SyncSubmit, HandshakeInv, ResultOwn
<1>10. ASSUME SyncClaimed PROVE ResultOwn'
  BY <1>10 DEF SyncClaimed, Return, TypeOK, HandshakeOwn, HandshakeInv, ResultOwn
<1>11. ASSUME SyncPoll PROVE ResultOwn'
  <2>1. cq[cqHead].c.kind = "sync" => cq[cqHead].c.n \in 1 .. MaxSync
    BY DEF HandshakeInv, TypeOK, Commands, Blank
  <2>2. CASE waiter' = waiter
    BY <2>2 DEF HandshakeInv, ResultOwn
  <2>3. CASE waiter' # waiter
    <3>1. /\ \E r \in {"ok", "error"} :
               waiter' = [waiter EXCEPT !.pc = "idle", !.result = r, !.by = cq[cqHead].c.n]
          /\ cq[cqHead].c.kind = "sync" /\ Answers(cq[cqHead]) /\ waiter.pc = "wait"
      BY <1>11, <2>3 DEF SyncPoll, Return
    <3>2. waiter'.by = cq[cqHead].c.n /\ waiter'.n = waiter.n
      BY <3>1 DEF HandshakeInv, TypeOK
    <3>3. waiter.n = hs.seq /\ waiter.n \in 1 .. MaxSync
      BY <3>1 DEF HandshakeInv, HandshakeOwn
    <3>4. Cid(cq[cqHead].c.n) = Cid(hs.seq)
      BY <3>1 DEF Answers, HandshakeInv, HandshakeOwn
    <3> QED
      BY <2>1, <3>1, <3>2, <3>3, <3>4 DEF ResultOwn
  <2> QED
    BY <2>2, <2>3
<1>12. ASSUME SyncExpire PROVE ResultOwn'
  BY <1>12 DEF SyncExpire, HandshakeInv, ResultOwn
<1>13. ASSUME SyncDisarm PROVE ResultOwn'
  BY <1>13 DEF SyncDisarm, Return, HandshakeInv, ResultOwn
<1>14. ASSUME ResetBegin PROVE ResultOwn'
  BY <1>14 DEF ResetBegin, HandshakeInv, ResultOwn
<1>15. ASSUME ResetDrain PROVE ResultOwn'
  BY <1>15 DEF ResetDrain, HandshakeInv, ResultOwn
<1>16. ASSUME ResetZero PROVE ResultOwn'
  BY <1>16 DEF ResetZero, HandshakeInv, ResultOwn
<1>17. ASSUME ResetCreate PROVE ResultOwn'
  BY <1>17 DEF ResetCreate, HandshakeInv, ResultOwn
<1>18. ASSUME ResetFail PROVE ResultOwn'
  BY <1>18 DEF ResetFail, HandshakeInv, ResultOwn
<1>19. CASE UNCHANGED vars
  BY <1>19 DEF vars, ringVars, HandshakeInv, ResultOwn
<1> QED
  BY <1>1, <1>2, <1>3, <1>4, <1>5, <1>6, <1>7, <1>8, <1>9, <1>10, <1>11, <1>12, <1>13,
     <1>14, <1>15, <1>16, <1>17, <1>18, <1>19 DEF Next

\* The three together are inductive.
LEMMA HandshakeInductive == Spec => []HandshakeInv
<1>1. Init => HandshakeInv
  BY TypeInit DEF Init, HandshakeInv, HandshakeOwn, ResultOwn
<1>2. HandshakeInv /\ [Next]_vars => HandshakeInv'
  BY TypeNext, HandshakeNext, ResultNext DEF HandshakeInv
<1> QED
  BY <1>1, <1>2, PTL DEF Spec

-----------------------------------------------------------------------------
(* Distances in a ring.                                                     *)

\* The next index wraps at the end of the ring.
LEMMA Next1Is == \A i \in Slots : Next1(i) = IF i = Depth - 1 THEN 0 ELSE i + 1
BY QueueOK DEF Next1, Slots

\* The distance without the remainder.
LEMMA AheadIs ==
  \A a, b \in Slots : Ahead(a, b) = IF a >= b THEN a - b ELSE a - b + Depth
<1> SUFFICES ASSUME NEW a \in Slots, NEW b \in Slots
             PROVE  Ahead(a, b) = IF a >= b THEN a - b ELSE a - b + Depth
  OBVIOUS
<1>1. a \in Int /\ b \in Int /\ a - b > -Depth /\ a - b < Depth
  BY QueueOK DEF Slots
<1>2. CASE a >= b
  BY <1>1, <1>2, QueueOK DEF Ahead
<1>3. CASE a < b
  <2>1. (a - b) % Depth = (a - b + Depth) % Depth
    BY <1>1, QueueOK
  <2>2. (a - b + Depth) % Depth = a - b + Depth
    BY <1>1, <1>3, QueueOK
  <2> QED
    BY <1>1, <1>3, <2>1, <2>2 DEF Ahead
<1> QED
  BY <1>1, <1>2, <1>3

\* It is a number of entries, none exactly between an index and itself.
LEMMA AheadRange ==
  \A a, b \in Slots : Ahead(a, b) \in 0 .. Depth - 1 /\ (Ahead(a, b) = 0 <=> a = b)
BY AheadIs, QueueOK DEF Slots

\* An index that does not run into another moves away from it ...
LEMMA AheadNext ==
  \A a, b \in Slots :
    /\ Next1(a) # b <=> Ahead(a, b) < Depth - 1
    /\ Next1(a) # b => Ahead(Next1(a), b) = Ahead(a, b) + 1
<1> SUFFICES ASSUME NEW a \in Slots, NEW b \in Slots
             PROVE  /\ Next1(a) # b <=> Ahead(a, b) < Depth - 1
                    /\ Next1(a) # b => Ahead(Next1(a), b) = Ahead(a, b) + 1
  OBVIOUS
<1>1. Next1(a) \in Slots /\ Next1(a) = IF a = Depth - 1 THEN 0 ELSE a + 1
  BY Next1Is, Next1Type
<1>2. Ahead(a, b) = IF a >= b THEN a - b ELSE a - b + Depth
  BY AheadIs, Next1Type
<1>3. Ahead(Next1(a), b) = IF Next1(a) >= b THEN Next1(a) - b ELSE Next1(a) - b + Depth
  BY AheadIs, Next1Type
<1> QED
  BY <1>1, <1>2, <1>3, QueueOK DEF Slots

\* ... and one behind gets nearer.
LEMMA AheadPast ==
  \A a, b \in Slots : a # b => Ahead(a, Next1(b)) = Ahead(a, b) - 1
<1> SUFFICES ASSUME NEW a \in Slots, NEW b \in Slots
             PROVE  a # b => Ahead(a, Next1(b)) = Ahead(a, b) - 1
  OBVIOUS
<1>1. Next1(b) \in Slots /\ Next1(b) = IF b = Depth - 1 THEN 0 ELSE b + 1
  BY Next1Is, Next1Type
<1>2. Ahead(a, b) = IF a >= b THEN a - b ELSE a - b + Depth
  BY AheadIs, Next1Type
<1>3. Ahead(a, Next1(b)) = IF a >= Next1(b) THEN a - Next1(b) ELSE a - Next1(b) + Depth
  BY AheadIs, Next1Type
<1> QED
  BY <1>1, <1>2, <1>3, QueueOK DEF Slots

\* What is between two indices stays between them when the first moves on, and the
\* index it has left is between them too.
LEMMA BetweenNext ==
  \A a, b, i \in Slots :
    Next1(a) # b =>
      (Ahead(i, b) < Ahead(Next1(a), b) <=> Ahead(i, b) < Ahead(a, b) \/ i = a)
<1> SUFFICES ASSUME NEW a \in Slots, NEW b \in Slots, NEW i \in Slots
             PROVE  Next1(a) # b =>
                      (Ahead(i, b) < Ahead(Next1(a), b)
                         <=> Ahead(i, b) < Ahead(a, b) \/ i = a)
  OBVIOUS
<1>1. Next1(a) \in Slots /\ Next1(a) = IF a = Depth - 1 THEN 0 ELSE a + 1
  BY Next1Is, Next1Type
<1>2. Ahead(a, b) = IF a >= b THEN a - b ELSE a - b + Depth
  BY AheadIs, Next1Type
<1>3. Ahead(i, b) = IF i >= b THEN i - b ELSE i - b + Depth
  BY AheadIs, Next1Type
<1>4. Ahead(Next1(a), b) = IF Next1(a) >= b THEN Next1(a) - b ELSE Next1(a) - b + Depth
  BY AheadIs, Next1Type
<1> QED
  BY <1>1, <1>2, <1>3, <1>4, QueueOK DEF Slots

\* When the second moves on, only the index it leaves is no longer between them.
LEMMA BetweenPast ==
  \A a, b, i \in Slots :
    a # b =>
      (Ahead(i, Next1(b)) < Ahead(a, Next1(b)) <=> Ahead(i, b) < Ahead(a, b) /\ i # b)
<1> SUFFICES ASSUME NEW a \in Slots, NEW b \in Slots, NEW i \in Slots
             PROVE  a # b =>
                      (Ahead(i, Next1(b)) < Ahead(a, Next1(b))
                         <=> Ahead(i, b) < Ahead(a, b) /\ i # b)
  OBVIOUS
<1>1. Next1(b) \in Slots /\ Next1(b) = IF b = Depth - 1 THEN 0 ELSE b + 1
  BY Next1Is, Next1Type
<1>2. Ahead(a, b) = IF a >= b THEN a - b ELSE a - b + Depth
  BY AheadIs, Next1Type
<1>3. Ahead(i, b) = IF i >= b THEN i - b ELSE i - b + Depth
  BY AheadIs, Next1Type
<1>4. Ahead(a, Next1(b)) = IF a >= Next1(b) THEN a - Next1(b) ELSE a - Next1(b) + Depth
  BY AheadIs, Next1Type
<1>5. Ahead(i, Next1(b)) = IF i >= Next1(b) THEN i - Next1(b) ELSE i - Next1(b) + Depth
  BY AheadIs, Next1Type
<1> QED
  BY <1>1, <1>2, <1>3, <1>4, <1>5, QueueOK DEF Slots

-----------------------------------------------------------------------------
(* What the steps do to the rings.                                          *)

\* rc_nvme_io_submit writes one entry and moves the tail.
LEMMA SubmitFields ==
  ASSUME TypeOK, NEW c, IoSubmit(c)
  PROVE  /\ sqTail' = Next1(sqTail)
         /\ \A i \in Slots : sq'[i] = IF i = sqTail THEN c ELSE sq[i]
         /\ ctl'.up = ctl.up /\ ctl'.head = ctl.head
         /\ ctl'.cqTail = ctl.cqTail /\ ctl'.cqPhase = ctl.cqPhase
         /\ ctl.up => ctl'.doorbell = Next1(sqTail)
         /\ cq' = cq /\ cqHead' = cqHead /\ cqPhase' = cqPhase
<1>1. sqTail' = Next1(sqTail) /\ cq' = cq /\ cqHead' = cqHead /\ cqPhase' = cqPhase
  BY DEF IoSubmit
<1>2. \A i \in Slots : sq'[i] = IF i = sqTail THEN c ELSE sq[i]
  BY DEF IoSubmit, TypeOK
<1>3. /\ ctl'.up = ctl.up /\ ctl'.head = ctl.head
      /\ ctl'.cqTail = ctl.cqTail /\ ctl'.cqPhase = ctl.cqPhase
      /\ ctl.up => ctl'.doorbell = Next1(sqTail)
  BY DEF IoSubmit, TypeOK
<1> QED
  BY <1>1, <1>2, <1>3

\* The controller fetches the entry at its head.
LEMMA FetchFields ==
  ASSUME TypeOK, Fetch
  PROVE  /\ ctl.up /\ ctl.head # ctl.doorbell
         /\ ctl'.up = ctl.up /\ ctl'.head = Next1(ctl.head)
         /\ ctl'.doorbell = ctl.doorbell
         /\ ctl'.cqTail = ctl.cqTail /\ ctl'.cqPhase = ctl.cqPhase
         /\ exec' = exec \cup ({sq[ctl.head]} \ {Blank})
         /\ sq' = sq /\ sqTail' = sqTail
         /\ cq' = cq /\ cqHead' = cqHead /\ cqPhase' = cqPhase
<1>1. /\ ctl.up /\ ctl.head # ctl.doorbell
      /\ exec' = exec \cup ({sq[ctl.head]} \ {Blank})
      /\ sq' = sq /\ sqTail' = sqTail
      /\ cq' = cq /\ cqHead' = cqHead /\ cqPhase' = cqPhase
  BY DEF Fetch, ringVars
<1>2. ctl' = [ctl EXCEPT !.head = Next1(ctl.head)]
  BY DEF Fetch
<1> QED
  BY <1>1, <1>2 DEF TypeOK

\* It posts an entry of its present lap, in a slot the consumers have left.
LEMMA PostFields ==
  ASSUME TypeOK, NEW c \in exec, NEW ok \in BOOLEAN, Post(c, ok)
  PROVE  /\ ctl.up /\ Next1(ctl.cqTail) # cqHead
         /\ ctl'.up = ctl.up /\ ctl'.head = ctl.head
         /\ ctl'.doorbell = ctl.doorbell
         /\ ctl'.cqTail = Next1(ctl.cqTail)
         /\ ctl'.cqPhase = IF Next1(ctl.cqTail) = 0 THEN 1 - ctl.cqPhase ELSE ctl.cqPhase
         /\ \A i \in Slots :
              cq'[i] = IF i = ctl.cqTail
                       THEN [c |-> c, ok |-> ok, phase |-> ctl.cqPhase] ELSE cq[i]
         /\ exec' = exec \ {c}
         /\ sq' = sq /\ sqTail' = sqTail /\ cqHead' = cqHead /\ cqPhase' = cqPhase
<1>1. /\ ctl.up /\ Next1(ctl.cqTail) # cqHead /\ exec' = exec \ {c}
      /\ sq' = sq /\ sqTail' = sqTail /\ cqHead' = cqHead /\ cqPhase' = cqPhase
  BY DEF Post
<1>2. /\ ctl'.up = ctl.up /\ ctl'.head = ctl.head
      /\ ctl'.doorbell = ctl.doorbell
      /\ ctl'.cqTail = Next1(ctl.cqTail)
      /\ ctl'.cqPhase = IF Next1(ctl.cqTail) = 0 THEN 1 - ctl.cqPhase ELSE ctl.cqPhase
  BY DEF Post, TypeOK
<1>3. \A i \in Slots :
        cq'[i] = IF i = ctl.cqTail
                 THEN [c |-> c, ok |-> ok, phase |-> ctl.cqPhase] ELSE cq[i]
  BY DEF Post, TypeOK
<1> QED
  BY <1>1, <1>2, <1>3

\* Of a controller that is up, the entry taken for posted is one it has posted.
LEMMA PostedIs ==
  ASSUME TypeOK, Laps, ctl.up
  PROVE  Posted <=> ctl.cqTail # cqHead
<1>1. cqHead \in Slots /\ ctl.cqTail \in Slots
  BY DEF TypeOK
<1>2. /\ Ahead(cqHead, cqHead) = 0
      /\ Ahead(ctl.cqTail, cqHead) \in 0 .. Depth - 1
      /\ Ahead(ctl.cqTail, cqHead) = 0 <=> ctl.cqTail = cqHead
  BY <1>1, AheadRange
<1>3. cq[cqHead].phase = cqPhase <=> Ahead(cqHead, cqHead) < Ahead(ctl.cqTail, cqHead)
  BY <1>1, QueueOK DEF Laps, Slots
<1> QED
  BY <1>2, <1>3, QueueOK DEF Posted

\* The two that consume, the interrupt handler and the waiter, take one entry.
LEMMA ConsumeFields ==
  ASSUME TypeOK, Still, Wiped, IsrConsume \/ SyncPoll
  PROVE  /\ Posted /\ reset # "zeroed" /\ ConsumeEntry
         /\ sq' = sq /\ sqTail' = sqTail /\ cq' = cq
         /\ ctl' = ctl /\ exec' = exec /\ reset' = reset
         /\ \A t \in Tags :
              /\ tag'[t] \in {tag[t], "free"}
              /\ cq[cqHead].c = [kind |-> "tag", n |-> t] => tag'[t] = "free"
<1>1. /\ Posted /\ ConsumeEntry
      /\ sq' = sq /\ sqTail' = sqTail /\ cq' = cq
      /\ ctl' = ctl /\ exec' = exec /\ reset' = reset
  BY DEF IsrConsume, SyncPoll
<1>2. reset # "zeroed"
  <2>1. CASE IsrConsume
    BY <2>1 DEF IsrConsume
  <2>2. CASE SyncPoll /\ reset = "zeroed"
    <3>1. cq[cqHead].phase = 0 /\ cqPhase = 1
      BY <2>2 DEF Wiped, Zero, TypeOK
    <3>2. cq[cqHead].phase = cqPhase
      BY <1>1, Zenon DEF Posted
    <3> QED
      BY <3>1, <3>2
  <2> QED
    BY <2>1, <2>2
<1>3. ASSUME NEW t \in Tags
      PROVE  /\ tag'[t] \in {tag[t], "free"}
             /\ cq[cqHead].c = [kind |-> "tag", n |-> t] => tag'[t] = "free"
  <2>1. CASE IsrConsume /\ cq[cqHead].c.kind # "sync"
    <3>1. tag' = [tag EXCEPT ![cq[cqHead].c.n] = "free"]
      BY <2>1 DEF IsrConsume
    <3> QED
      BY <3>1 DEF TypeOK
  <2>2. CASE SyncPoll \/ cq[cqHead].c.kind = "sync"
    <3>1. tag' = tag /\ cq[cqHead].c.kind = "sync"
      BY <2>2 DEF IsrConsume, SyncPoll
    <3> QED
      BY <3>1
  <2> QED
    BY <2>1, <2>2
<1> QED
  BY <1>1, <1>2, <1>3

\* A reservation is room in the submission ring.
LEMMA Room ==
  ASSUME TypeOK, Covered, ctl.up, Reserved # {} \/ waiter.pc = "armed"
  PROVE  Next1(sqTail) # ctl.head
<1>1. sqTail \in Slots /\ ctl.head \in Slots /\ cqHead \in Slots /\ ctl.cqTail \in Slots
  BY DEF TypeOK
<1>2. Ahead(sqTail, ctl.head) \in Nat /\ Ahead(ctl.cqTail, cqHead) \in Nat
  BY <1>1, AheadRange
<1>3. Cardinality(exec) \in Nat
  BY FS_CardinalityType DEF Covered
<1>4. IsFiniteSet(Reserved)
  BY FS_Subset, QueueOK DEF Reserved
<1>5. Cardinality(Reserved) \in Nat /\ (Cardinality(Reserved) = 0 <=> Reserved = {})
  BY <1>4, FS_CardinalityType, FS_EmptySet
<1>6. Cardinality(Reserved) + Armed >= 1
  BY <1>5 DEF Armed
<1>7. Armed \in Nat
  BY DEF Armed
<1>8. inflight <= Depth - 1 /\ inflight \in Int
  BY QueueOK DEF TypeOK
<1>9. Ahead(sqTail, ctl.head) < Depth - 1
  BY <1>2, <1>3, <1>5, <1>6, <1>7, <1>8, QueueOK DEF Covered
<1> QED
  BY <1>1, <1>9, AheadNext

\* The tag of a request to be submitted, or the armed waiter, is the reservation.
LEMMA SubmitHasRoom ==
  ASSUME TypeOK, Covered, ctl.up, (\E t \in Tags : SubmitTag(t)) \/ SyncSubmit
  PROVE  Next1(sqTail) # ctl.head
BY Room DEF Reserved, SubmitTag, SyncSubmit

\* Most steps leave both rings and the controller alone.
LEMMA StepKinds ==
  ASSUME [Next]_vars
  PROVE  \/ \E c : IoSubmit(c) /\ ((\E t \in Tags : SubmitTag(t)) \/ SyncSubmit)
         \/ Fetch \/ \E c \in exec, ok \in BOOLEAN : Post(c, ok)
         \/ IsrConsume \/ SyncPoll
         \/ ResetCreate \/ Die \/ ResetDrain \/ ResetZero
         \/ UNCHANGED <<ringVars, ctl, exec>>
<1> DEFINE Quiet == UNCHANGED <<ringVars, ctl, exec>>
<1>1. ASSUME NEW t \in Tags, Reserve(t) \/ Unreserve(t) PROVE Quiet
  BY <1>1 DEF Reserve, Unreserve
<1>2. SyncArm \/ SyncClaimed \/ SyncExpire \/ SyncDisarm => Quiet
  BY DEF SyncArm, SyncClaimed, SyncExpire, SyncDisarm
<1>3. ResetBegin \/ ResetFail => Quiet
  BY DEF ResetBegin, ResetFail
<1>4. UNCHANGED vars => Quiet
  BY DEF vars, ringVars
<1>5. ASSUME NEW t \in Tags, SubmitTag(t) PROVE IoSubmit([kind |-> "tag", n |-> t])
  BY <1>5 DEF SubmitTag
<1>6. SyncSubmit => IoSubmit([kind |-> "sync", n |-> waiter.n])
  BY DEF SyncSubmit
<1> HIDE DEF Quiet
<1>7. ASSUME Next
      PROVE  \/ \E c : IoSubmit(c) /\ ((\E t \in Tags : SubmitTag(t)) \/ SyncSubmit)
             \/ Fetch \/ \E c \in exec, ok \in BOOLEAN : Post(c, ok)
             \/ IsrConsume \/ SyncPoll
             \/ ResetCreate \/ Die \/ ResetDrain \/ ResetZero
             \/ Quiet
  <2>1. CASE \E t \in Tags : Reserve(t) \/ Unreserve(t) \/ SubmitTag(t)
    BY <1>1, <1>5, <2>1
  <2>2. CASE SyncSubmit
    BY <1>6, <2>2
  <2> QED
    BY <1>2, <1>3, <1>7, <2>1, <2>2 DEF Next
<1> QED
  BY <1>4, <1>7 DEF Quiet

-----------------------------------------------------------------------------
(* Each part of the invariant is kept.                                      *)

\* The doorbell stays between the controller's head and the tail.
LEMMA RungNext == ASSUME TypeOK, Covered, Rung, Still, Wiped, [Next]_vars PROVE Rung'
<1>0. /\ sqTail \in Slots /\ ctl.head \in Slots /\ ctl.doorbell \in Slots /\ 0 \in Slots
      /\ cqHead \in Slots /\ ctl.cqTail \in Slots
  BY QueueOK DEF TypeOK, Slots
<1>1. ASSUME NEW c, IoSubmit(c), (\E t \in Tags : SubmitTag(t)) \/ SyncSubmit
      PROVE  Rung'
  <2>1. CASE ctl.up
    <3>1. ctl'.doorbell = sqTail' /\ ctl'.head = ctl.head
      BY <1>1, <2>1, SubmitFields
    <3>2. Ahead(sqTail', ctl.head) \in Int
      BY <1>0, <1>1, SubmitFields, Next1Type, AheadRange
    <3> QED
      BY <3>1, <3>2 DEF Rung
  <2>2. CASE ~ctl.up
    BY <1>1, <2>2, SubmitFields DEF Rung
  <2> QED
    BY <2>1, <2>2
<1>2. CASE Fetch
  <2>1. Ahead(ctl.doorbell, ctl.head) <= Ahead(sqTail, ctl.head)
    BY <1>2, FetchFields DEF Rung
  <2>2. Ahead(ctl.doorbell, ctl.head) \in Nat \ {0} /\ Ahead(sqTail, ctl.head) \in Nat
    BY <1>0, <1>2, FetchFields, AheadRange
  <2>3. sqTail # ctl.head
    BY <1>0, <2>1, <2>2, AheadRange
  <2>4. /\ Ahead(ctl.doorbell, Next1(ctl.head)) = Ahead(ctl.doorbell, ctl.head) - 1
        /\ Ahead(sqTail, Next1(ctl.head)) = Ahead(sqTail, ctl.head) - 1
    BY <1>0, <1>2, <2>3, FetchFields, AheadPast
  <2> QED
    BY <1>2, <2>1, <2>2, <2>4, FetchFields DEF Rung
<1>3. ASSUME NEW c \in exec, NEW ok \in BOOLEAN, Post(c, ok) PROVE Rung'
  BY <1>3, PostFields DEF Rung
<1>4. CASE ResetCreate
  <2>1. ctl'.doorbell = 0 /\ ctl'.head = 0 /\ sqTail' = sqTail
    BY <1>4 DEF ResetCreate, FreshController, ringVars
  <2>2. Ahead(0, 0) = 0 /\ Ahead(sqTail, 0) \in Nat
    BY <1>0, AheadRange
  <2> QED
    BY <2>1, <2>2 DEF Rung
<1>5. CASE Die \/ ResetDrain
  <2>1. ctl'.up = FALSE
    BY <1>5 DEF Die, ResetDrain, TypeOK
  <2> QED
    BY <2>1 DEF Rung
<1>6. CASE ResetZero
  <2>1. ctl'.up = FALSE
    BY <1>6 DEF ResetZero, Still, TypeOK
  <2> QED
    BY <2>1 DEF Rung
<1>7. CASE ctl' = ctl /\ sqTail' = sqTail
  BY <1>7 DEF Rung
<1>8. UNCHANGED <<ringVars, ctl, exec>> \/ IsrConsume \/ SyncPoll
        => ctl' = ctl /\ sqTail' = sqTail
  BY DEF ringVars, IsrConsume, SyncPoll
<1> QED
  BY <1>1, <1>2, <1>3, <1>4, <1>5, <1>6, <1>7, <1>8, StepKinds

\* The phases stay in step: posting marks an entry of the lap that is now the
\* consumers', consuming leaves one that is of the next.
LEMMA LapsNext == ASSUME TypeOK, Covered, Laps, Still, Wiped, [Next]_vars PROVE Laps'
<1>0. /\ cqHead \in Slots /\ ctl.cqTail \in Slots /\ 0 \in Slots
      /\ cqPhase \in {0, 1} /\ ctl.cqPhase \in {0, 1}
  BY QueueOK DEF TypeOK, Slots
<1>1. ASSUME ctl'.cqTail = ctl.cqTail, ctl'.cqPhase = ctl.cqPhase, ctl'.up => ctl.up,
             cq' = cq, cqHead' = cqHead, cqPhase' = cqPhase
      PROVE  Laps'
  BY <1>1 DEF Laps
<1>2. ASSUME NEW c \in exec, NEW ok \in BOOLEAN, Post(c, ok) PROVE Laps'
  <2>1. SUFFICES ASSUME NEW i \in Slots
                 PROVE  /\ ctl'.cqPhase = IF ctl'.cqTail >= cqHead THEN cqPhase ELSE 1 - cqPhase
                        /\ cq'[i].phase = (IF i >= cqHead THEN cqPhase ELSE 1 - cqPhase)
                             <=> Ahead(i, cqHead) < Ahead(ctl'.cqTail, cqHead)
    <3>1. cqHead' = cqHead /\ cqPhase' = cqPhase
      BY <1>2, PostFields
    <3> QED
      BY <1>0, <3>1 DEF Laps
  <2>2. /\ ctl.cqPhase = IF ctl.cqTail >= cqHead THEN cqPhase ELSE 1 - cqPhase
        /\ cq[i].phase = (IF i >= cqHead THEN cqPhase ELSE 1 - cqPhase)
             <=> Ahead(i, cqHead) < Ahead(ctl.cqTail, cqHead)
    BY <1>2, PostFields DEF Laps
  <2>3. Ahead(i, cqHead) < Ahead(ctl'.cqTail, cqHead)
          <=> Ahead(i, cqHead) < Ahead(ctl.cqTail, cqHead) \/ i = ctl.cqTail
    BY <1>0, <1>2, PostFields, BetweenNext
  <2>4. cq'[i].phase = IF i = ctl.cqTail THEN ctl.cqPhase ELSE cq[i].phase
    <3>1. cq'[i] = IF i = ctl.cqTail
                   THEN [c |-> c, ok |-> ok, phase |-> ctl.cqPhase] ELSE cq[i]
      BY <1>2, PostFields
    <3> QED
      BY <3>1
  <2>5. ctl'.cqTail = IF ctl.cqTail = Depth - 1 THEN 0 ELSE ctl.cqTail + 1
    BY <1>0, <1>2, PostFields, Next1Is
  <2>6. ctl'.cqPhase = IF ctl'.cqTail = 0 THEN 1 - ctl.cqPhase ELSE ctl.cqPhase
    BY <1>2, PostFields
  <2>7. ctl'.cqTail # cqHead
    BY <1>2, PostFields
  <2>8. ctl'.cqPhase = IF ctl'.cqTail >= cqHead THEN cqPhase ELSE 1 - cqPhase
    BY <1>0, <2>2, <2>5, <2>6, <2>7, QueueOK DEF Slots
  <2> QED
    BY <2>2, <2>3, <2>4, <2>8
<1>3. CASE IsrConsume \/ SyncPoll
  <2>1. /\ Posted /\ cqHead' = Next1(cqHead)
        /\ cqPhase' = IF Next1(cqHead) = 0 THEN 1 - cqPhase ELSE cqPhase
        /\ ctl' = ctl /\ cq' = cq
    BY <1>3, ConsumeFields DEF ConsumeEntry
  <2>2. SUFFICES ASSUME ctl.up, NEW i \in Slots
                 PROVE  /\ ctl.cqPhase = IF ctl.cqTail >= cqHead' THEN cqPhase' ELSE 1 - cqPhase'
                        /\ cq[i].phase = (IF i >= cqHead' THEN cqPhase' ELSE 1 - cqPhase')
                             <=> Ahead(i, cqHead') < Ahead(ctl.cqTail, cqHead')
    BY <1>0, <2>1 DEF Laps
  <2>3. ctl.cqTail # cqHead
    BY <2>1, <2>2, PostedIs
  <2>4. /\ ctl.cqPhase = IF ctl.cqTail >= cqHead THEN cqPhase ELSE 1 - cqPhase
        /\ cq[i].phase = (IF i >= cqHead THEN cqPhase ELSE 1 - cqPhase)
             <=> Ahead(i, cqHead) < Ahead(ctl.cqTail, cqHead)
    BY <2>2 DEF Laps
  <2>5. Ahead(i, cqHead') < Ahead(ctl.cqTail, cqHead')
          <=> Ahead(i, cqHead) < Ahead(ctl.cqTail, cqHead) /\ i # cqHead
    BY <1>0, <2>1, <2>3, BetweenPast
  <2>6. cqHead' = IF cqHead = Depth - 1 THEN 0 ELSE cqHead + 1
    BY <1>0, <2>1, Next1Is
  <2>7. cqPhase' = IF cqHead' = 0 THEN 1 - cqPhase ELSE cqPhase
    BY <2>1
  <2>8. ctl.cqPhase = IF ctl.cqTail >= cqHead' THEN cqPhase' ELSE 1 - cqPhase'
    BY <1>0, <2>3, <2>4, <2>6, <2>7, QueueOK DEF Slots
  <2>9. i # cqHead =>
          (IF i >= cqHead' THEN cqPhase' ELSE 1 - cqPhase')
            = (IF i >= cqHead THEN cqPhase ELSE 1 - cqPhase)
    BY <1>0, <2>6, <2>7, QueueOK DEF Slots
  <2>10. i = cqHead =>
           cqPhase = 1 - (IF i >= cqHead' THEN cqPhase' ELSE 1 - cqPhase')
    BY <1>0, <2>6, <2>7, QueueOK DEF Slots
  <2>11. i = cqHead => cq[i].phase = cqPhase
    BY <2>1 DEF Posted
  <2>12. i = cqHead => cq[i].phase # (IF i >= cqHead' THEN cqPhase' ELSE 1 - cqPhase')
    BY <1>0, <2>10, <2>11
  <2> QED
    BY <2>4, <2>5, <2>8, <2>9, <2>12
<1>4. CASE ResetCreate
  <2>1. /\ ctl' = FreshController /\ cq' = cq /\ cqHead' = cqHead /\ cqPhase' = cqPhase
        /\ cq = [i \in Slots |-> Zero] /\ cqHead = 0 /\ cqPhase = 1
    BY <1>4 DEF ResetCreate, ringVars, Wiped
  <2>2. ctl'.cqTail = 0 /\ ctl'.cqPhase = 1
    BY <2>1 DEF FreshController
  <2>3. \A i \in Slots : i >= 0 /\ cq'[i].phase = 0
    BY <2>1 DEF Zero, Slots
  <2>4. Ahead(0, 0) = 0 /\ \A i \in Slots : Ahead(i, 0) \in Nat
    BY <1>0, AheadRange
  <2>5. \A i \in Slots : ~(Ahead(i, 0) < Ahead(0, 0))
    BY <2>4
  <2> QED
    BY <2>1, <2>2, <2>3, <2>5 DEF Laps
<1>5. CASE Die \/ ResetDrain
  <2>1. ctl'.up = FALSE
    BY <1>5 DEF Die, ResetDrain, TypeOK
  <2> QED
    BY <2>1 DEF Laps
<1>6. CASE ResetZero
  <2>1. ctl'.up = FALSE
    BY <1>6 DEF ResetZero, Still, TypeOK
  <2> QED
    BY <2>1 DEF Laps
<1>7. CASE UNCHANGED <<ringVars, ctl, exec>>
  BY <1>1, <1>7 DEF ringVars
<1>8. ASSUME NEW c, IoSubmit(c) PROVE Laps'
  BY <1>1, <1>8, SubmitFields
<1>9. CASE Fetch
  BY <1>1, <1>9, FetchFields
<1> QED
  BY <1>2, <1>3, <1>4, <1>5, <1>6, <1>7, <1>8, <1>9, StepKinds

\* The drain leaves a controller that is off and requests that hold nothing, until
\* the queues are created anew: Reserve and the submission of a request stay out.
LEMMA StillNext == ASSUME TypeOK, Still, [Next]_vars PROVE Still'
<1>1. CASE reset \notin {"drained", "zeroed"} /\ ~ResetDrain
  <2>1. reset' \notin {"drained", "zeroed"}
    BY <1>1
       DEF Next, vars, ringVars, Reserve, Unreserve, SubmitTag, Fetch, Post, Die,
           IsrConsume, SyncArm,
         SyncSubmit, SyncClaimed, SyncPoll, SyncExpire, SyncDisarm, ResetBegin, ResetZero,
         ResetCreate, ResetFail
  <2> QED
    BY <2>1 DEF Still
<1>2. CASE ResetDrain
  BY <1>2 DEF ResetDrain, TypeOK, Still
<1>3. CASE reset \in {"drained", "zeroed"} /\ ~ResetDrain
  <2>0. ctl.up = FALSE /\ exec = {} /\ \A t \in Tags : tag[t] = "free"
    BY <1>3 DEF Still, TypeOK
  <2>1. ASSUME NEW t \in Tags PROVE ~Reserve(t) /\ ~Unreserve(t) /\ ~SubmitTag(t)
    BY <1>3, <2>0 DEF Reserve, Unreserve, SubmitTag
  <2>2. ~Fetch /\ ~Die /\ ~\E c \in exec, ok \in BOOLEAN : Post(c, ok)
    BY <2>0 DEF Fetch, Die
  <2>3. ~IsrConsume
    BY <1>3 DEF IsrConsume
  <2>4. CASE SyncSubmit
    <3>1. ctl'.up = ctl.up /\ exec' = exec /\ tag' = tag
      BY <2>4, SubmitFields DEF SyncSubmit
    <3> QED
      BY <2>0, <3>1 DEF Still
  <2>5. CASE SyncArm \/ SyncClaimed \/ SyncPoll \/ SyncExpire \/ SyncDisarm \/ ResetBegin
             \/ ResetZero \/ UNCHANGED vars
    <3>1. ctl' = ctl /\ exec' = exec /\ tag' = tag
      BY <2>5
         DEF SyncArm, SyncClaimed, SyncPoll, SyncExpire, SyncDisarm, ResetBegin,
             ResetZero,
           vars
    <3> QED
      BY <2>0, <3>1 DEF Still
  <2>6. CASE ResetCreate \/ ResetFail
    <3>1. reset' = "none"
      BY <2>6 DEF ResetCreate, ResetFail
    <3> QED
      BY <3>1 DEF Still
  <2> QED
    BY <1>3, <2>1, <2>2, <2>3, <2>4, <2>5, <2>6 DEF Next
<1> QED
  BY <1>1, <1>2, <1>3

\* Between the wiping and the new queues only a synchronous command may take a slot,
\* and what it submits stays behind the tail the controller will start from.
LEMMA WipedNext ==
  ASSUME ResetRaces = FALSE, TypeOK, Still, Wiped, [Next]_vars PROVE Wiped'
<1>0. /\ sqTail \in Slots /\ inflight \in 0 .. Depth - 1
  BY DEF TypeOK
<1>1. CASE reset # "zeroed" /\ ~ResetZero
  <2>1. reset' # "zeroed"
    BY <1>1
       DEF Next, vars, ringVars, Reserve, Unreserve, SubmitTag, Fetch, Post, Die,
           IsrConsume, SyncArm,
         SyncSubmit, SyncClaimed, SyncPoll, SyncExpire, SyncDisarm, ResetBegin, ResetDrain,
         ResetCreate, ResetFail
  <2> QED
    BY <2>1 DEF Wiped
<1>2. CASE ResetZero
  <2>1. waiter.pc # "armed" /\ waiter' = waiter
    BY <1>2 DEF ResetZero
  <2>2. Armed' = 0
    BY <2>1 DEF Armed
  <2> QED
    BY <1>2, <2>2 DEF ResetZero, Wiped
<1>3. CASE reset = "zeroed" /\ ~ResetZero
  <2>0. /\ ctl.up = FALSE /\ exec = {} /\ \A t \in Tags : tag[t] = "free"
        /\ cq = [i \in Slots |-> Zero] /\ cqHead = 0 /\ cqPhase = 1
        /\ inflight >= sqTail + Armed
    BY <1>3 DEF Still, Wiped, TypeOK
  <2>1. ASSUME NEW t \in Tags PROVE ~Reserve(t) /\ ~Unreserve(t) /\ ~SubmitTag(t)
    BY <1>3, <2>0 DEF Reserve, Unreserve, SubmitTag
  <2>2. ~Fetch /\ ~Die /\ ~\E c \in exec, ok \in BOOLEAN : Post(c, ok)
    BY <2>0 DEF Fetch, Die
  <2>3. ~IsrConsume /\ ~SyncPoll
    BY <1>3, ConsumeFields
  <2>4. CASE SyncSubmit
    <3>1. Armed = 1 /\ Armed' = 0 /\ inflight' = inflight
      BY <2>4 DEF SyncSubmit, Armed, TypeOK
    <3>2. sqTail' = Next1(sqTail) /\ cq' = cq /\ cqHead' = cqHead /\ cqPhase' = cqPhase
      BY <2>4, SubmitFields DEF SyncSubmit
    <3>3. sqTail' = sqTail + 1
      BY <1>0, <2>0, <3>1, <3>2, Next1Is, QueueOK DEF Slots
    <3>4. inflight' >= sqTail' + Armed'
      BY <1>0, <2>0, <3>1, <3>3 DEF Slots
    <3> QED
      BY <2>0, <3>2, <3>4 DEF Wiped
  <2>5. CASE SyncArm
    <3>1. /\ inflight' = inflight + 1 /\ sqTail' = sqTail
          /\ cq' = cq /\ cqHead' = cqHead /\ cqPhase' = cqPhase
          /\ waiter.pc = "idle" /\ waiter'.pc = "armed"
      BY <2>5 DEF SyncArm, ringVars
    <3>2. Armed = 0 /\ Armed' = 1
      BY <3>1 DEF Armed
    <3>3. inflight' >= sqTail' + Armed'
      BY <1>0, <2>0, <3>1, <3>2 DEF Slots
    <3> QED
      BY <2>0, <3>1, <3>3 DEF Wiped
  <2>6. CASE SyncClaimed \/ SyncExpire \/ SyncDisarm \/ ResetBegin \/ ResetDrain
               \/ UNCHANGED vars
    <3>1. /\ inflight' = inflight /\ sqTail' = sqTail
          /\ cq' = cq /\ cqHead' = cqHead /\ cqPhase' = cqPhase
      BY <2>6
         DEF SyncClaimed, SyncExpire, SyncDisarm, ResetBegin, ResetDrain, vars,
             ringVars
    <3>2. Armed' = Armed
      BY <2>6
         DEF SyncClaimed, SyncExpire, SyncDisarm, ResetBegin, ResetDrain, vars, Return,
           Armed, TypeOK
    <3> QED
      BY <2>0, <3>1, <3>2 DEF Wiped
  <2>7. CASE ResetCreate \/ ResetFail
    <3>1. reset' = "none"
      BY <2>7 DEF ResetCreate, ResetFail
    <3> QED
      BY <3>1 DEF Wiped
  <2> QED
    BY <1>3, <2>1, <2>2, <2>3, <2>4, <2>5, <2>6, <2>7 DEF Next
<1> QED
  BY <1>1, <1>2, <1>3

\* Every reservation is added with its slot and given back once: by the handler, the
\* waiter or rc_nvme_sq_unreserve.
LEMMA CoveredNext ==
  ASSUME TypeOK, Covered, Rung, Laps, Still, Wiped, [Next]_vars PROVE Covered'
<1> DEFINE S == Ahead(sqTail, ctl.head)
<1> DEFINE C == Ahead(ctl.cqTail, cqHead)
<1> DEFINE E == Cardinality(exec)
<1> DEFINE R == Cardinality(Reserved)
<1>0. /\ sqTail \in Slots /\ ctl.head \in Slots /\ ctl.doorbell \in Slots /\ 0 \in Slots
      /\ cqHead \in Slots /\ ctl.cqTail \in Slots /\ inflight \in Nat
  BY QueueOK DEF TypeOK, Slots
<1>a. S \in Nat /\ C \in Nat
  BY <1>0, AheadRange
<1>b. IsFiniteSet(exec) /\ E \in Nat
  BY FS_CardinalityType DEF Covered
<1>c. IsFiniteSet(Reserved)
  BY FS_Subset, QueueOK DEF Reserved
<1>d. R \in Nat
  BY <1>c, FS_CardinalityType
<1>e. Armed \in {0, 1}
  BY DEF Armed
<1>f. ctl.up => inflight >= S + E + C + R + Armed
  BY DEF Covered
<1>g. ASSUME IsFiniteSet(exec'), ctl'.up =>
               inflight' >= S' + Cardinality(exec') + C' + Cardinality(Reserved') + Armed'
      PROVE  Covered'
  BY <1>g DEF Covered
<1> HIDE DEF S, C, E, R
\* What a step does not touch.
<1>r. tag' = tag => Cardinality(Reserved') = R
  BY DEF Reserved, R
<1>w. waiter' = waiter => Armed' = Armed
  BY DEF Armed
<1>q. UNCHANGED <<ringVars, ctl, exec>> =>
        S' = S /\ C' = C /\ Cardinality(exec') = E /\ IsFiniteSet(exec') /\ ctl'.up = ctl.up
  BY <1>b DEF ringVars, S, C, E
<1>1. ASSUME NEW t \in Tags, Reserve(t) PROVE Covered'
  <2>1. tag[t] # "reserved" /\ tag' = [tag EXCEPT ![t] = "reserved"]
    BY <1>1 DEF Reserve
  <2>2. Reserved' = Reserved \cup {t} /\ t \notin Reserved
    BY <2>1 DEF Reserved, TypeOK
  <2>3. Cardinality(Reserved') = R + 1
    BY <1>c, <2>2, FS_AddElement DEF R
  <2>4. /\ inflight' = inflight + 1 /\ waiter' = waiter
        /\ UNCHANGED <<ringVars, ctl, exec>>
    BY <1>1 DEF Reserve
  <2> QED
    BY <1>0, <1>a, <1>b, <1>d, <1>e, <1>f, <1>g, <1>w, <1>q, <2>3, <2>4
<1>2. ASSUME NEW t \in Tags, Unreserve(t) PROVE Covered'
  <2>1. tag[t] = "reserved" /\ tag' = [tag EXCEPT ![t] = "free"]
    BY <1>2 DEF Unreserve
  <2>2. Reserved' = Reserved \ {t} /\ t \in Reserved
    BY <2>1 DEF Reserved, TypeOK
  <2>3. Cardinality(Reserved') = R - 1
    BY <1>c, <2>2, FS_RemoveElement DEF R
  <2>4. /\ inflight' = (IF inflight >= 1 THEN inflight - 1 ELSE 0) /\ waiter' = waiter
        /\ UNCHANGED <<ringVars, ctl, exec>>
    BY <1>2 DEF Unreserve
  <2> QED
    BY <1>0, <1>a, <1>b, <1>d, <1>e, <1>f, <1>g, <1>w, <1>q, <2>3, <2>4
<1>3. ASSUME NEW c, IoSubmit(c), inflight' = inflight, exec' = exec,
             (\E t \in Tags : SubmitTag(t)) \/ SyncSubmit,
             Cardinality(Reserved') + Armed' = R + Armed - 1
      PROVE  Covered'
  <2>1. /\ sqTail' = Next1(sqTail) /\ ctl'.up = ctl.up /\ ctl'.head = ctl.head
        /\ ctl'.cqTail = ctl.cqTail /\ cqHead' = cqHead
    BY <1>3, SubmitFields
  <2>2. ctl.up => S' = S + 1
    BY <1>0, <1>3, <2>1, SubmitHasRoom, AheadNext DEF S
  <2>3. C' = C /\ Cardinality(exec') = E /\ IsFiniteSet(exec')
    BY <1>b, <1>3, <2>1 DEF C, E
  <2>4. Cardinality(Reserved') + Armed' = R + Armed - 1 /\ inflight' = inflight
    BY <1>3
  <2>5. ctl'.up => inflight' >= S' + Cardinality(exec') + C' + (Cardinality(Reserved') + Armed')
    BY <1>0, <1>a, <1>b, <1>d, <1>e, <1>f, <2>1, <2>2, <2>3, <2>4
  <2>6. Cardinality(Reserved') \in Nat /\ Armed' \in Nat /\ (ctl'.up => S' \in Nat /\ C' \in Nat)
    <3>1. IsFiniteSet(Reserved')
      BY FS_Subset, QueueOK DEF Reserved
    <3>2. Armed' \in Nat
      BY DEF Armed
    <3> QED
      BY <1>a, <2>1, <2>2, <2>3, <3>1, <3>2, FS_CardinalityType
  <2>7. ctl'.up =>
          inflight' >= S' + Cardinality(exec') + C' + Cardinality(Reserved') + Armed'
    BY <1>b, <2>3, <2>5, <2>6
  <2> QED
    BY <1>g, <2>3, <2>7
<1>4. ASSUME NEW t \in Tags, SubmitTag(t) PROVE Covered'
  <2>1. /\ tag[t] = "reserved" /\ tag' = [tag EXCEPT ![t] = "submitted"]
        /\ IoSubmit([kind |-> "tag", n |-> t]) /\ inflight' = inflight /\ exec' = exec
        /\ waiter' = waiter
    BY <1>4 DEF SubmitTag
  <2>2. Reserved' = Reserved \ {t} /\ t \in Reserved
    BY <2>1 DEF Reserved, TypeOK
  <2>3. Cardinality(Reserved') = R - 1
    BY <1>c, <2>2, FS_RemoveElement DEF R
  <2> QED
    BY <1>3, <1>4, <1>w, <1>d, <1>e, <2>1, <2>3
<1>5. CASE SyncSubmit
  <2>1. /\ waiter.pc = "armed" /\ waiter' = [waiter EXCEPT !.pc = "wait"]
        /\ IoSubmit([kind |-> "sync", n |-> waiter.n])
        /\ inflight' = inflight /\ exec' = exec /\ tag' = tag
    BY <1>5 DEF SyncSubmit
  <2>2. Armed = 1 /\ Armed' = 0
    BY <2>1 DEF Armed, TypeOK
  <2> QED
    BY <1>3, <1>5, <1>r, <1>d, <2>1, <2>2
<1>6. CASE Fetch
  <2>1. Ahead(ctl.doorbell, ctl.head) <= S
    BY <1>6, FetchFields DEF Rung, S
  <2>2. Ahead(ctl.doorbell, ctl.head) \in Nat \ {0}
    BY <1>0, <1>6, FetchFields, AheadRange
  <2>3. sqTail # ctl.head
    BY <1>0, <1>a, <2>1, <2>2, AheadRange DEF S
  <2>4. S' = S - 1
    BY <1>0, <1>6, <2>3, FetchFields, AheadPast DEF S
  <2>5. IsFiniteSet(exec') /\ Cardinality(exec') <= E + 1 /\ Cardinality(exec') \in Nat
    <3>1. exec' = exec \cup {sq[ctl.head]} \/ exec' = exec
      BY <1>6, FetchFields
    <3>2. /\ IsFiniteSet(exec \cup {sq[ctl.head]})
          /\ Cardinality(exec \cup {sq[ctl.head]}) \in {E, E + 1}
      BY <1>b, FS_AddElement DEF E
    <3> QED
      BY <1>b, <3>1, <3>2 DEF E
  <2>6. /\ inflight' = inflight /\ tag' = tag /\ waiter' = waiter
        /\ ctl'.up = ctl.up /\ C' = C
    BY <1>6, FetchFields DEF Fetch, C
  <2> QED
    BY <1>0, <1>a, <1>b, <1>d, <1>e, <1>f, <1>g, <1>r, <1>w, <2>4, <2>5, <2>6
<1>7. ASSUME NEW c \in exec, NEW ok \in BOOLEAN, Post(c, ok) PROVE Covered'
  <2>0. /\ Next1(ctl.cqTail) # cqHead /\ ctl'.cqTail = Next1(ctl.cqTail)
        /\ cqHead' = cqHead /\ exec' = exec \ {c}
    BY <1>7, PostFields
  <2>1. C' = C + 1
    BY <1>0, <2>0, AheadNext DEF C
  <2>2. IsFiniteSet(exec') /\ Cardinality(exec') = E - 1
    BY <1>b, <2>0, FS_RemoveElement DEF E
  <2>3. /\ inflight' = inflight /\ tag' = tag /\ waiter' = waiter
        /\ ctl'.up = ctl.up /\ S' = S
    BY <1>7, PostFields DEF Post, S
  <2> QED
    BY <1>0, <1>a, <1>b, <1>d, <1>e, <1>f, <1>g, <1>r, <1>w, <2>1, <2>2, <2>3
<1>8. CASE IsrConsume \/ SyncPoll
  <2>1. /\ Posted /\ ConsumeEntry /\ sqTail' = sqTail /\ ctl' = ctl /\ exec' = exec
        /\ \A t \in Tags : tag'[t] \in {tag[t], "free"}
    BY <1>8, ConsumeFields
  <2>2. /\ cqHead' = Next1(cqHead)
        /\ inflight' = IF inflight > 0 THEN inflight - 1 ELSE 0
    BY <2>1 DEF ConsumeEntry
  <2>3. ctl.up => C' = C - 1 /\ C >= 1
    <3>1. ctl.up => ctl.cqTail # cqHead
      BY <2>1, PostedIs
    <3>2. ctl.up => C' = C - 1
      BY <1>0, <2>1, <2>2, <3>1, AheadPast DEF C
    <3>3. ctl.up => C >= 1
      BY <1>0, <1>a, <3>1, AheadRange DEF C
    <3> QED
      BY <3>2, <3>3
  <2>4. Reserved' \in SUBSET Reserved
    BY <2>1 DEF Reserved
  <2>5. Cardinality(Reserved') <= R /\ Cardinality(Reserved') \in Nat
    BY <1>c, <2>4, FS_Subset, FS_CardinalityType DEF R
  <2>6. Armed' \in {0, 1} /\ Armed' <= Armed
    <3>1. waiter' = waiter \/ waiter'.pc # "armed"
      BY <1>8 DEF IsrConsume, SyncPoll, Return, TypeOK
    <3> QED
      BY <3>1 DEF Armed
  <2>7. S' = S /\ Cardinality(exec') = E /\ IsFiniteSet(exec') /\ ctl'.up = ctl.up
    BY <1>b, <2>1 DEF S, E
  <2> QED
    BY <1>0, <1>a, <1>b, <1>d, <1>e, <1>f, <1>g, <2>2, <2>3, <2>5, <2>6, <2>7
<1>9. CASE SyncArm
  <2>1. /\ waiter.pc = "idle" /\ waiter'.pc = "armed"
        /\ inflight' = inflight + 1 /\ tag' = tag /\ UNCHANGED <<ringVars, ctl, exec>>
    BY <1>9 DEF SyncArm
  <2>2. Armed = 0 /\ Armed' = 1
    BY <2>1 DEF Armed
  <2> QED
    BY <1>0, <1>a, <1>b, <1>d, <1>f, <1>g, <1>r, <1>q, <2>1, <2>2
<1>10. CASE SyncClaimed \/ SyncExpire \/ SyncDisarm
  <2>1. /\ waiter.pc # "armed" /\ waiter'.pc # "armed"
        /\ inflight' = inflight /\ tag' = tag /\ UNCHANGED <<ringVars, ctl, exec>>
    BY <1>10 DEF SyncClaimed, SyncExpire, SyncDisarm, Return, TypeOK
  <2>2. Armed = 0 /\ Armed' = 0
    BY <2>1 DEF Armed
  <2> QED
    BY <1>0, <1>a, <1>b, <1>d, <1>f, <1>g, <1>r, <1>q, <2>1, <2>2
<1>11. CASE ResetBegin \/ ResetFail \/ UNCHANGED vars
  <2>1. /\ waiter' = waiter
        /\ inflight' = inflight /\ tag' = tag /\ UNCHANGED <<ringVars, ctl, exec>>
    BY <1>11 DEF ResetBegin, ResetFail, vars, ringVars
  <2> QED
    BY <1>0, <1>a, <1>b, <1>d, <1>f, <1>g, <1>r, <1>w, <1>q, <2>1
<1>12. CASE Die \/ ResetDrain \/ ResetZero
  <2>1. ctl'.up = FALSE /\ IsFiniteSet(exec')
    BY <1>12, <1>b, FS_EmptySet DEF Die, ResetDrain, ResetZero, Still, TypeOK
  <2> QED
    BY <1>g, <2>1
<1>13. CASE ResetCreate
  <2>1. /\ ctl'.head = 0 /\ ctl'.cqTail = 0 /\ sqTail' = sqTail /\ cqHead' = 0
        /\ exec' = {} /\ inflight' = inflight /\ waiter' = waiter
        /\ inflight >= sqTail + Armed /\ tag' = tag /\ \A t \in Tags : tag[t] = "free"
    BY <1>13 DEF ResetCreate, FreshController, Still, Wiped, ringVars
  <2>2. S' = sqTail /\ C' = 0
    <3>1. Ahead(sqTail, 0) = sqTail /\ Ahead(0, 0) = 0
      BY <1>0, AheadIs DEF Slots
    <3> QED
      BY <2>1, <3>1 DEF S, C
  <2>3. Reserved' = {}
    BY <2>1 DEF Reserved
  <2>4. Cardinality(exec') = 0 /\ IsFiniteSet(exec') /\ Cardinality(Reserved') = 0
    BY <2>1, <2>3, FS_EmptySet
  <2>5. sqTail \in Nat
    BY <1>0 DEF Slots
  <2> QED
    BY <1>0, <1>e, <1>g, <1>w, <2>1, <2>2, <2>4, <2>5
<1> QED
  BY <1>1, <1>2, <1>4, <1>5, <1>6, <1>7, <1>8, <1>9, <1>10, <1>11, <1>12, <1>13
     DEF Next

\* Whether a command that is not blank waits in the one ring, or in the other.
InSq(c) ==
  \E i \in Slots : Ahead(i, ctl.head) < Ahead(sqTail, ctl.head) /\ sq[i] = c
InCq(c) ==
  \E i \in Slots : Ahead(i, cqHead) < Ahead(ctl.cqTail, cqHead) /\ cq[i].c = c

\* These and execution are the places NothingLost and InflightCovers count.
LEMMA OutstandingIs ==
  ASSUME NEW c, c # Blank
  PROVE  c \in Outstanding <=> InSq(c) \/ c \in exec \/ InCq(c)
BY DEF Outstanding, Unfetched, Unconsumed, InSq, InCq, Ahead

\* The same of the next state.
LEMMA OutstandingThen ==
  ASSUME NEW c, c # Blank
  PROVE  c \in Outstanding' <=> InSq(c)' \/ c \in exec' \/ InCq(c)'
BY DEF Outstanding, Unfetched, Unconsumed, InSq, InCq, Ahead

\* Submitting puts one command into the submission ring and loses none.
LEMMA SubmitKeeps ==
  ASSUME TypeOK, Covered, ctl.up, NEW c, IoSubmit(c), exec' = exec,
         (\E t \in Tags : SubmitTag(t)) \/ SyncSubmit, NEW d, d # Blank
  PROVE  d \in Outstanding' <=> d \in Outstanding \/ d = c
<1>0. sqTail \in Slots /\ ctl.head \in Slots
  BY DEF TypeOK
<1>1. /\ Next1(sqTail) # ctl.head /\ sqTail' = Next1(sqTail) /\ ctl'.head = ctl.head
      /\ \A i \in Slots : sq'[i] = IF i = sqTail THEN c ELSE sq[i]
  BY SubmitHasRoom, SubmitFields
<1>2. \A i \in Slots : Ahead(i, ctl.head) < Ahead(Next1(sqTail), ctl.head)
                         <=> Ahead(i, ctl.head) < Ahead(sqTail, ctl.head) \/ i = sqTail
  BY <1>0, <1>1, BetweenNext
<1>3. ~(Ahead(sqTail, ctl.head) < Ahead(sqTail, ctl.head))
  BY <1>0, AheadRange
<1>4. InSq(d)' <=> InSq(d) \/ d = c
  BY <1>0, <1>1, <1>2, <1>3 DEF InSq
<1>5. InCq(d)' <=> InCq(d)
  BY SubmitFields DEF InCq
<1> QED
  BY <1>4, <1>5, OutstandingIs, OutstandingThen

\* Fetching moves a command from the submission ring to execution.
LEMMA FetchKeeps ==
  ASSUME TypeOK, Rung, Fetch, NEW d, d # Blank
  PROVE  d \in Outstanding' <=> d \in Outstanding
<1>0. sqTail \in Slots /\ ctl.head \in Slots /\ ctl.doorbell \in Slots
  BY DEF TypeOK
<1>1. /\ ctl.head # ctl.doorbell /\ ctl'.head = Next1(ctl.head)
      /\ exec' = exec \cup ({sq[ctl.head]} \ {Blank})
      /\ sq' = sq /\ sqTail' = sqTail
  BY FetchFields
<1>2. sqTail # ctl.head
  <2>1. /\ Ahead(ctl.doorbell, ctl.head) <= Ahead(sqTail, ctl.head)
        /\ Ahead(ctl.doorbell, ctl.head) \in Nat \ {0}
    BY <1>0, <1>1, FetchFields, AheadRange DEF Rung
  <2> QED
    BY <1>0, <2>1, AheadRange
<1>3. \A i \in Slots :
        Ahead(i, Next1(ctl.head)) < Ahead(sqTail, Next1(ctl.head))
          <=> Ahead(i, ctl.head) < Ahead(sqTail, ctl.head) /\ i # ctl.head
  BY <1>0, <1>2, BetweenPast
<1>4. Ahead(ctl.head, ctl.head) < Ahead(sqTail, ctl.head)
  <2>1. /\ Ahead(ctl.head, ctl.head) = 0 /\ Ahead(sqTail, ctl.head) \in Nat
        /\ Ahead(sqTail, ctl.head) # 0
    BY <1>0, <1>2, AheadRange
  <2> QED
    BY <2>1
<1>5. InSq(d) \/ d \in exec <=> InSq(d)' \/ d \in exec'
  BY <1>0, <1>1, <1>3, <1>4 DEF InSq
<1>6. InCq(d)' <=> InCq(d)
  BY FetchFields DEF InCq
<1> QED
  BY <1>5, <1>6, OutstandingIs, OutstandingThen

\* Posting moves it from execution to the completion ring.
LEMMA PostKeeps ==
  ASSUME TypeOK, NEW c \in exec, NEW ok \in BOOLEAN, Post(c, ok), NEW d, d # Blank
  PROVE  d \in Outstanding' <=> d \in Outstanding
<1>0. cqHead \in Slots /\ ctl.cqTail \in Slots
  BY DEF TypeOK
<1>1. /\ Next1(ctl.cqTail) # cqHead /\ ctl'.cqTail = Next1(ctl.cqTail)
      /\ cqHead' = cqHead /\ exec' = exec \ {c}
  BY PostFields
<1>2. \A i \in Slots : cq'[i].c = IF i = ctl.cqTail THEN c ELSE cq[i].c
  <2>1. \A i \in Slots :
          cq'[i] = IF i = ctl.cqTail
                   THEN [c |-> c, ok |-> ok, phase |-> ctl.cqPhase] ELSE cq[i]
    BY PostFields
  <2> QED
    BY <2>1
<1>3. \A i \in Slots :
        Ahead(i, cqHead) < Ahead(Next1(ctl.cqTail), cqHead)
          <=> Ahead(i, cqHead) < Ahead(ctl.cqTail, cqHead) \/ i = ctl.cqTail
  BY <1>0, <1>1, BetweenNext
<1>4. ~(Ahead(ctl.cqTail, cqHead) < Ahead(ctl.cqTail, cqHead))
  BY <1>0, AheadRange
<1>5. InCq(d)' <=> InCq(d) \/ d = c
  BY <1>0, <1>1, <1>2, <1>3, <1>4 DEF InCq
<1>6. InSq(d)' <=> InSq(d)
  BY PostFields DEF InSq
<1>7. d \in exec' \/ d = c <=> d \in exec
  BY <1>1
<1> QED
  BY <1>5, <1>6, <1>7, OutstandingIs, OutstandingThen

\* Consuming takes out the entry at the head and no other.
LEMMA ConsumeKeeps ==
  ASSUME TypeOK, Laps, Still, Wiped, ctl.up, IsrConsume \/ SyncPoll, NEW d, d # Blank
  PROVE  d \in Outstanding => d \in Outstanding' \/ d = cq[cqHead].c
<1>0. cqHead \in Slots /\ ctl.cqTail \in Slots
  BY DEF TypeOK
<1>1. /\ ctl.cqTail # cqHead /\ cqHead' = Next1(cqHead) /\ ctl' = ctl /\ cq' = cq
      /\ sq' = sq /\ sqTail' = sqTail /\ exec' = exec
  BY ConsumeFields, PostedIs DEF ConsumeEntry
<1>2. \A i \in Slots :
        Ahead(i, Next1(cqHead)) < Ahead(ctl.cqTail, Next1(cqHead))
          <=> Ahead(i, cqHead) < Ahead(ctl.cqTail, cqHead) /\ i # cqHead
  BY <1>0, <1>1, BetweenPast
<1>3. InCq(d) => InCq(d)' \/ d = cq[cqHead].c
  BY <1>0, <1>1, <1>2 DEF InCq
<1>4. InSq(d)' <=> InSq(d)
  BY <1>1 DEF InSq
<1> QED
  BY <1>1, <1>3, <1>4, OutstandingIs, OutstandingThen

\* No step loses a submitted request.
LEMMA KeptNext ==
  ASSUME TypeOK, Covered, Rung, Laps, Still, Wiped, Kept, [Next]_vars PROVE Kept'
<1>1. SUFFICES ASSUME ctl'.up, NEW t \in Tags, tag'[t] = "submitted"
               PROVE  [kind |-> "tag", n |-> t] \in Outstanding'
  BY DEF Kept
<1> DEFINE d == [kind |-> "tag", n |-> t]
<1>2. d # Blank
  BY DEF Blank
<1>3. ctl.up /\ tag[t] = "submitted" => d \in Outstanding
  BY DEF Kept
<1> HIDE DEF d
<1>4. CASE UNCHANGED <<ringVars, ctl, exec>>
  <2>1. Outstanding' = Outstanding /\ ctl'.up = ctl.up
    BY <1>4 DEF ringVars, Outstanding, Unfetched, Unconsumed
  <2>2. tag[t] = "submitted"
    <3>1. ~\E u \in Tags : SubmitTag(u)
      <4>1. ASSUME NEW u \in Tags, SubmitTag(u) PROVE FALSE
        <5>1. sqTail' = Next1(sqTail) /\ sqTail' = sqTail /\ sqTail \in Slots
          BY <1>4, <4>1 DEF SubmitTag, IoSubmit, ringVars, TypeOK
        <5>2. Next1(sqTail) = IF sqTail = Depth - 1 THEN 0 ELSE sqTail + 1
          BY <5>1, Next1Is
        <5>3. sqTail \in Int /\ Depth \in Int /\ Depth >= 2
          BY <5>1, QueueOK DEF Slots
        <5>4. Next1(sqTail) = sqTail
          BY <5>1, Zenon
        <5>5. Next1(sqTail) # sqTail
          BY <5>2, <5>3
        <5> QED
          BY <5>4, <5>5
      <4> QED
        BY <4>1
    <3>2. ASSUME NEW u \in Tags, Reserve(u) \/ Unreserve(u) PROVE tag[t] = "submitted"
      BY <1>1, <3>2 DEF Reserve, Unreserve, TypeOK
    <3>3. CASE IsrConsume \/ SyncPoll
      BY <1>1, <3>3, ConsumeFields
    <3>4. CASE ResetDrain
      BY <1>1, <3>4 DEF ResetDrain
    <3>5. CASE ~(\E u \in Tags : Reserve(u) \/ Unreserve(u) \/ SubmitTag(u))
                 /\ ~IsrConsume /\ ~SyncPoll /\ ~ResetDrain
      <4>1. tag' = tag
        BY <3>5 DEF Next, vars, Fetch, Die, Post, SyncArm, SyncSubmit, SyncClaimed,
             SyncExpire, SyncDisarm, ResetBegin, ResetZero, ResetCreate, ResetFail
      <4> QED
        BY <1>1, <4>1
    <3> QED
      BY <3>1, <3>2, <3>3, <3>4, <3>5
  <2> QED
    BY <1>1, <1>3, <2>1, <2>2 DEF d
<1>5. ASSUME NEW c, IoSubmit(c), (\E u \in Tags : SubmitTag(u)) \/ SyncSubmit
      PROVE  d \in Outstanding'
  <2>1. ctl.up /\ exec' = exec
    BY <1>1, <1>5, SubmitFields DEF SubmitTag, SyncSubmit
  <2>2. d \in Outstanding' <=> d \in Outstanding \/ d = c
    BY <1>2, <1>5, <2>1, SubmitKeeps
  <2>3. CASE SyncSubmit
    BY <1>1, <1>3, <2>1, <2>2, <2>3 DEF SyncSubmit
  <2>4. ASSUME NEW u \in Tags, SubmitTag(u) PROVE d \in Outstanding'
    <3>1. /\ tag' = [tag EXCEPT ![u] = "submitted"]
          /\ IoSubmit([kind |-> "tag", n |-> u])
      BY <2>4 DEF SubmitTag
    <3>2. CASE u = t
      <4>1. d \in Outstanding' <=> d \in Outstanding \/ d = [kind |-> "tag", n |-> u]
        BY <1>2, <2>1, <2>4, <3>1, SubmitKeeps
      <4> QED
        BY <3>2, <4>1 DEF d
    <3>3. CASE u # t
      <4>1. tag[t] = "submitted"
        BY <1>1, <3>1, <3>3 DEF TypeOK
      <4> QED
        BY <1>3, <2>1, <2>2, <4>1
    <3> QED
      BY <3>2, <3>3
  <2> QED
    BY <1>5, <2>3, <2>4
<1>6. CASE Fetch
  <2>1. ctl.up /\ tag' = tag
    BY <1>6 DEF Fetch
  <2>2. d \in Outstanding' <=> d \in Outstanding
    BY <1>2, <1>6, FetchKeeps
  <2> QED
    BY <1>1, <1>3, <2>1, <2>2 DEF d
<1>7. ASSUME NEW c \in exec, NEW ok \in BOOLEAN, Post(c, ok) PROVE d \in Outstanding'
  BY <1>1, <1>2, <1>3, <1>7, PostFields, PostKeeps DEF Post
<1>8. CASE IsrConsume \/ SyncPoll
  <2>1. ctl' = ctl /\ tag'[t] \in {tag[t], "free"} /\ (cq[cqHead].c = d => tag'[t] = "free")
    BY <1>8, ConsumeFields DEF d
  <2> QED
    <3>1. d \in Outstanding => d \in Outstanding' \/ d = cq[cqHead].c
      BY <1>1, <1>2, <1>8, <2>1, ConsumeKeeps
    <3> QED
      BY <1>1, <1>3, <2>1, <3>1 DEF d
<1>9. CASE ResetCreate
  BY <1>1, <1>9 DEF ResetCreate, Still
<1>10. CASE Die \/ ResetDrain \/ ResetZero
  BY <1>1, <1>10 DEF Die, ResetDrain, ResetZero, Still, TypeOK
<1> QED
  BY <1>4, <1>5, <1>6, <1>7, <1>8, <1>9, <1>10, StepKinds DEF d

-----------------------------------------------------------------------------
(* What the three properties of the rings say.                              *)

\* The indices ahead of one index and behind another are no more than the distance
\* of the two.
LEMMA BetweenCount ==
  ASSUME NEW a \in Slots, NEW b \in Slots
  PROVE  LET I == {i \in Slots : Ahead(i, b) < Ahead(a, b)}
         IN  IsFiniteSet(I) /\ Cardinality(I) <= Ahead(a, b)
<1> DEFINE I == {i \in Slots : Ahead(i, b) < Ahead(a, b)}
<1> DEFINE D == 0 .. Ahead(a, b) - 1
<1> DEFINE f == [i \in I |-> Ahead(i, b)]
<1>1. Ahead(a, b) \in Nat
  BY AheadRange
<1>2. f \in [I -> D]
  BY <1>1, AheadRange
<1>3. \A i, j \in I : f[i] = f[j] => i = j
  <2> SUFFICES ASSUME NEW i \in I, NEW j \in I, f[i] = f[j] PROVE i = j
    OBVIOUS
  <2>1. Ahead(i, b) = Ahead(j, b) /\ i \in Slots /\ j \in Slots
    OBVIOUS
  <2>2. /\ Ahead(i, b) = IF i >= b THEN i - b ELSE i - b + Depth
        /\ Ahead(j, b) = IF j >= b THEN j - b ELSE j - b + Depth
    BY <2>1, AheadIs
  <2> QED
    BY <2>1, <2>2, QueueOK DEF Slots
<1>4. f \in Injection(I, D)
  BY <1>2, <1>3 DEF Injection, IsInjective
<1>5. IsFiniteSet(D) /\ Cardinality(D) = Ahead(a, b)
  BY <1>1, FS_Interval
<1> HIDE DEF I, D, f
<1>6. IsFiniteSet(I) /\ Cardinality(I) <= Cardinality(D)
  BY <1>4, <1>5, FS_Injection
<1> QED
  BY <1>5, <1>6 DEF I

\* A set of what some slots hold has no more elements than there are slots.
LEMMA ImageCount ==
  ASSUME NEW I, IsFiniteSet(I), NEW f, DOMAIN f = I
  PROVE  LET T == {f[i] : i \in I}
         IN  IsFiniteSet(T) /\ Cardinality(T) <= Cardinality(I)
<1> DEFINE T == {f[i] : i \in I}
<1> DEFINE g == [i \in I |-> f[i]]
<1>1. g \in Surjection(I, T)
  BY DEF Surjection
<1> HIDE DEF T, g
<1> QED
  BY <1>1, FS_Surjection DEF T

\* The outstanding commands are no more than the entries of both rings and the
\* commands being executed.
LEMMA OutstandingCount ==
  ASSUME TypeOK, Covered
  PROVE  /\ Cardinality(Outstanding) \in Nat
         /\ Cardinality(Outstanding)
              <= Ahead(sqTail, ctl.head) + Cardinality(exec) + Ahead(ctl.cqTail, cqHead)
<1> DEFINE f == [i \in Unfetched |-> sq[i]]
<1> DEFINE g == [i \in Unconsumed |-> cq[i].c]
<1> DEFINE A == {f[i] : i \in Unfetched}
<1> DEFINE B == {g[i] : i \in Unconsumed}
<1>0. /\ sqTail \in Slots /\ ctl.head \in Slots /\ cqHead \in Slots /\ ctl.cqTail \in Slots
  BY DEF TypeOK
<1>1. /\ Unfetched = {i \in Slots : Ahead(i, ctl.head) < Ahead(sqTail, ctl.head)}
      /\ Unconsumed = {i \in Slots : Ahead(i, cqHead) < Ahead(ctl.cqTail, cqHead)}
  BY DEF Unfetched, Unconsumed, Ahead
<1>2. /\ IsFiniteSet(Unfetched) /\ Cardinality(Unfetched) <= Ahead(sqTail, ctl.head)
  BY <1>0, <1>1, BetweenCount
<1>3. /\ IsFiniteSet(Unconsumed) /\ Cardinality(Unconsumed) <= Ahead(ctl.cqTail, cqHead)
  BY <1>0, <1>1, BetweenCount
<1>4. DOMAIN f = Unfetched /\ DOMAIN g = Unconsumed
  OBVIOUS
<1>5. Outstanding = (A \cup exec \cup B) \ {Blank}
  BY DEF Outstanding
<1> HIDE DEF f, g
<1>6. IsFiniteSet(A) /\ Cardinality(A) <= Cardinality(Unfetched)
  BY <1>2, <1>4, ImageCount
<1>7. IsFiniteSet(B) /\ Cardinality(B) <= Cardinality(Unconsumed)
  BY <1>3, <1>4, ImageCount
<1>8. IsFiniteSet(exec)
  BY DEF Covered
<1> HIDE DEF A, B
<1>9. /\ IsFiniteSet(A \cup exec)
      /\ Cardinality(A \cup exec) <= Cardinality(A) + Cardinality(exec)
  <2>1. Cardinality(A \cap exec) \in Nat
    BY <1>6, FS_Intersection, FS_CardinalityType
  <2>2. /\ IsFiniteSet(A \cup exec)
        /\ Cardinality(A \cup exec)
             = Cardinality(A) + Cardinality(exec) - Cardinality(A \cap exec)
    BY <1>6, <1>8, FS_Union
  <2>3. Cardinality(A) \in Nat /\ Cardinality(exec) \in Nat
    BY <1>6, <1>8, FS_CardinalityType
  <2> QED
    BY <2>1, <2>2, <2>3
<1>10. /\ IsFiniteSet(A \cup exec \cup B)
       /\ Cardinality(A \cup exec \cup B) <= Cardinality(A \cup exec) + Cardinality(B)
  <2>1. Cardinality((A \cup exec) \cap B) \in Nat
    BY <1>9, FS_Intersection, FS_CardinalityType
  <2>2. /\ IsFiniteSet(A \cup exec \cup B)
        /\ Cardinality(A \cup exec \cup B)
             = Cardinality(A \cup exec) + Cardinality(B) - Cardinality((A \cup exec) \cap B)
    BY <1>7, <1>9, FS_Union
  <2>3. Cardinality(A \cup exec) \in Nat /\ Cardinality(B) \in Nat
    BY <1>7, <1>9, FS_CardinalityType
  <2> QED
    BY <2>1, <2>2, <2>3
<1>11. Cardinality(Outstanding) <= Cardinality(A \cup exec \cup B)
  <2>1. Outstanding \in SUBSET (A \cup exec \cup B)
    BY <1>5
  <2> QED
    BY <1>10, <2>1, FS_Subset
<1>12. IsFiniteSet(Outstanding)
  BY <1>5, <1>10, FS_Subset
<1>13. /\ Cardinality(A) \in Nat /\ Cardinality(B) \in Nat /\ Cardinality(exec) \in Nat
       /\ Cardinality(Unfetched) \in Nat /\ Cardinality(Unconsumed) \in Nat
       /\ Cardinality(A \cup exec) \in Nat /\ Cardinality(A \cup exec \cup B) \in Nat
       /\ Cardinality(Outstanding) \in Nat
  BY <1>2, <1>3, <1>6, <1>7, <1>8, <1>9, <1>10, <1>12, FS_CardinalityType
<1>14. Ahead(sqTail, ctl.head) \in Nat /\ Ahead(ctl.cqTail, cqHead) \in Nat
  BY <1>0, AheadRange
<1> QED
  BY <1>2, <1>3, <1>6, <1>7, <1>9, <1>10, <1>11, <1>13, <1>14

\* The invariant has what the runs check of the rings.
LEMMA ExactFromInv == RingInv => RingExact
<1> SUFFICES ASSUME RingInv PROVE RingExact
  OBVIOUS
<1> USE DEF RingInv, HandshakeInv
<1>0. /\ sqTail \in Slots /\ ctl.head \in Slots /\ cqHead \in Slots /\ ctl.cqTail \in Slots
      /\ inflight \in Nat
  BY QueueOK DEF TypeOK
<1>1. NothingLost
  BY DEF Kept, NothingLost
<1>2. InflightCovers
  <2>1. SUFFICES ASSUME ctl.up
                 PROVE  inflight >= Cardinality(Outstanding) + Cardinality(Reserved) + Armed
    BY DEF InflightCovers, Reserved, Armed
  <2>2. inflight >= Ahead(sqTail, ctl.head) + Cardinality(exec)
                      + Ahead(ctl.cqTail, cqHead) + Cardinality(Reserved) + Armed
    BY <2>1 DEF Covered
  <2>3. Cardinality(Outstanding)
          <= Ahead(sqTail, ctl.head) + Cardinality(exec) + Ahead(ctl.cqTail, cqHead)
    BY OutstandingCount
  <2>4. Cardinality(Reserved) \in Nat /\ Armed \in Nat
    <3>1. IsFiniteSet(Reserved)
      BY FS_Subset, QueueOK DEF Reserved
    <3> QED
      BY <3>1, FS_CardinalityType DEF Armed
  <2>5. /\ Ahead(sqTail, ctl.head) \in Nat /\ Ahead(ctl.cqTail, cqHead) \in Nat
        /\ Cardinality(exec) \in Nat
    <3>1. Cardinality(exec) \in Nat
      BY FS_CardinalityType DEF Covered
    <3> QED
      BY <1>0, <3>1, AheadRange
  <2>6. Cardinality(Outstanding) \in Nat
    BY OutstandingCount
  <2> QED
    BY <1>0, <2>2, <2>3, <2>4, <2>5, <2>6
<1>3. ConsumersInStep
  BY DEF Laps, ConsumersInStep, Unconsumed, Ahead
<1> QED
  BY <1>1, <1>2, <1>3 DEF RingExact

\* Nothing is in a ring that has just been set up.
LEMMA RingInit == Init => RingInv
<1> SUFFICES ASSUME Init PROVE RingInv
  OBVIOUS
<1>1. HandshakeInv
  BY TypeInit DEF Init, HandshakeInv, HandshakeOwn, ResultOwn
<1>2. /\ sqTail = 0 /\ cqHead = 0 /\ cqPhase = 1 /\ inflight = 0 /\ exec = {}
      /\ ctl.up = TRUE /\ ctl.head = 0 /\ ctl.doorbell = 0 /\ ctl.cqTail = 0 /\ ctl.cqPhase = 1
      /\ reset = "none" /\ waiter.pc = "idle" /\ \A i \in Slots : cq[i].phase = 0
      /\ \A t \in Tags : tag[t] = "free"
  BY DEF Init, FreshController, Zero
<1>3. 0 \in Slots /\ Ahead(0, 0) = 0 /\ \A i \in Slots : Ahead(i, 0) \in Nat /\ i >= 0
  <2>1. 0 \in Slots /\ \A i \in Slots : i >= 0
    BY QueueOK DEF Slots
  <2> QED
    BY <2>1, AheadRange
<1>4. Rung
  BY <1>2, <1>3 DEF Rung
<1>5. Laps
  <2>1. \A i \in Slots : ~(Ahead(i, 0) < Ahead(0, 0))
    BY <1>3
  <2> QED
    BY <1>2, <1>3, <2>1 DEF Laps
<1>6. Covered
  <2>1. Reserved = {}
    BY <1>2 DEF Reserved
  <2>2. Cardinality(exec) = 0 /\ IsFiniteSet(exec) /\ Cardinality(Reserved) = 0
    BY <1>2, <2>1, FS_EmptySet
  <2>3. Armed = 0
    BY <1>2 DEF Armed
  <2> QED
    BY <1>2, <1>3, <2>2, <2>3 DEF Covered
<1>7. Still /\ Wiped /\ Kept
  BY <1>2 DEF Still, Wiped, Kept
<1> QED
  BY <1>1, <1>4, <1>5, <1>6, <1>7 DEF RingInv

\* As long as no reset comes between the reservation and the submission of a
\* synchronous command, the whole is inductive.
LEMMA RingInductive == ASSUME ResetRaces = FALSE PROVE Spec => []RingInv
<1>1. RingInv /\ [Next]_vars => RingInv'
  <2> SUFFICES ASSUME RingInv, [Next]_vars PROVE RingInv'
    OBVIOUS
  <2>1. HandshakeInv /\ TypeOK /\ Rung /\ Laps /\ Covered /\ Still /\ Wiped /\ Kept
    BY DEF RingInv, HandshakeInv
  <2>2. HandshakeInv'
    BY <2>1, TypeNext, HandshakeNext, ResultNext DEF HandshakeInv
  <2>3. Rung' /\ Laps' /\ Covered' /\ Kept'
    BY <2>1, RungNext, LapsNext, CoveredNext, KeptNext
  <2>4. Still' /\ Wiped'
    BY <2>1, StillNext, WipedNext
  <2> QED
    BY <2>2, <2>3, <2>4 DEF RingInv
<1> QED
  BY RingInit, <1>1, PTL DEF Spec

-----------------------------------------------------------------------------
(* Theorems.                                                                *)

\* Every field, index and account of the queue stays within its range, whatever
\* the size of the ring and the number of tags and commands.
THEOREM QueueTypeCorrect == Spec => []TypeOK
<1>1. HandshakeInv => TypeOK
  BY DEF HandshakeInv
<1> QED
  BY <1>1, HandshakeInductive, PTL

\* The CIDs of the synchronous commands are a byte of their sequence number: what
\* rc_nvme_io_cmd_sync returns as the status of its command is always one that came
\* with the CID of that command.
THEOREM StatusHasItsCid ==
  Spec => [](waiter.result \in {"ok", "error"} => Cid(waiter.by) = Cid(waiter.n))
<1>1. HandshakeInv =>
        (waiter.result \in {"ok", "error"} => Cid(waiter.by) = Cid(waiter.n))
  BY DEF HandshakeInv, ResultOwn
<1> QED
  BY <1>1, HandshakeInductive, PTL

\* As long as the sequence has not wrapped, the CID names the command: the status a
\* synchronous command returns is its own, never that of one that timed out before.
THEOREM StatusAlwaysOwn == ASSUME MaxSync <= SeqValues PROVE Spec => []StatusOwn
<1>1. \A n \in 1 .. MaxSync : Cid(n) = IF n = SeqValues THEN 0 ELSE n
  BY QueueOK DEF Cid
<1>2. HandshakeInv => StatusOwn
  BY <1>1 DEF HandshakeInv, ResultOwn, StatusOwn
<1> QED
  BY <1>2, HandshakeInductive, PTL

\* The rings and their accounts agree, for rings of every depth: a submitted request of
\* a working controller is in one of its three places, sq_inflight covers every
\* command in them and every reservation, and the entries the consumers take for
\* posted are those the controller has posted, in every lap and after every reset.
\* (A reset between the reservation and the submission of a synchronous command is
\* outside of it: rc_nvme_reset_controller does not wait for that caller.)
THEOREM RingAlwaysExact == ASSUME ResetRaces = FALSE PROVE Spec => []RingExact
<1>1. RingInv => RingExact
  BY ExactFromInv
<1> QED
  BY <1>1, RingInductive, PTL

-----------------------------------------------------------------------------
(* The fan-out.                                                             *)

-----------------------------------------------------------------------------
(* Division.                                                                *)

\* Quotient and remainder are determined by the equation they satisfy.
LEMMA DivUnique ==
  ASSUME NEW d \in Nat \ {0}, NEW q \in Nat, NEW r \in 0 .. d - 1
  PROVE  (d * q + r) \div d = q /\ (d * q + r) % d = r
<1> DEFINE a == d * q + r
           p == a \div d
           s == a % d
<1>1. a \in Nat
  BY SMT
<1>2. p \in Int /\ s \in 0 .. d - 1 /\ d * q + r = d * p + s
  BY <1>1, SMT
<1> HIDE DEF p, s
<1>3. d * (q - p) = s - r
  BY <1>2, SMT
<1>4. CASE q > p
  <2>1. d * (q - p) >= d
    BY <1>2, <1>4, SMT
  <2> QED
    BY <2>1, <1>2, <1>3, SMT
<1>5. CASE q < p
  <2>1. d * (p - q) >= d
    BY <1>2, <1>5, SMT
  <2> QED
    BY <2>1, <1>2, <1>3, SMT
<1>6. CASE q = p
  BY <1>2, <1>3, <1>6, SMT DEF p, s
<1> QED
  BY <1>2, <1>4, <1>5, <1>6, SMT

\* A number is its quotient and its remainder.
LEMMA DivMod ==
  ASSUME NEW a \in Nat, NEW d \in Nat \ {0}
  PROVE  /\ a \div d \in Nat /\ a % d \in 0 .. d - 1
         /\ a = d * (a \div d) + (a % d)
<1>1. a \div d \in Int /\ a % d \in 0 .. d - 1
  BY SMT
<1>2. a = d * (a \div d) + (a % d)
  BY SMT
<1>3. a \div d \in Nat
  BY <1>1, <1>2, SMT
<1> QED
  BY <1>1, <1>2, <1>3

\* Inside a stripe only the remainder grows.
LEMMA Within ==
  ASSUME NEW x \in Nat, NEW d \in Nat \ {0}, NEW n \in Nat, n < d - (x % d)
  PROVE  (x + n) \div d = x \div d /\ (x + n) % d = (x % d) + n
<1> DEFINE q == x \div d
           r == x % d
<1>1. q \in Nat /\ r \in 0 .. d - 1 /\ x = d * q + r
  BY DivMod
<1>2. n < d - r
  OBVIOUS
<1> HIDE DEF q, r
<1>3. r + n \in 0 .. d - 1 /\ x + n = d * q + (r + n)
  BY <1>1, <1>2, SMT
<1>4. (d * q + (r + n)) \div d = q /\ (d * q + (r + n)) % d = r + n
  BY <1>1, <1>3, DivUnique
<1>5. (x + n) \div d = q /\ (x + n) % d = r + n
  BY <1>3, <1>4
<1> QED
  BY <1>5 DEF q, r

\* At its end the next one begins.
LEMMA Across ==
  ASSUME NEW x \in Nat, NEW d \in Nat \ {0}
  PROVE  /\ (x + (d - (x % d))) \div d = (x \div d) + 1
         /\ (x + (d - (x % d))) % d = 0
<1> DEFINE q == x \div d
           r == x % d
<1>1. q \in Nat /\ r \in 0 .. d - 1 /\ x = d * q + r
  BY DivMod
<1> HIDE DEF q, r
<1>2. x + (d - r) = d * (q + 1) + 0
  BY <1>1, SMT
<1>3. (d * (q + 1) + 0) \div d = q + 1 /\ (d * (q + 1) + 0) % d = 0
  BY <1>1, DivUnique
<1>4. (x + (d - r)) \div d = q + 1 /\ (x + (d - r)) % d = 0
  BY <1>2, <1>3
<1> QED
  BY <1>4 DEF q, r

-----------------------------------------------------------------------------
(* Strips.                                                                  *)

\* The sectors of column c before sector x.
Below(c, x) ==
  ((x \div geo.stripe) \div Cols) * geo.stripe
    + (IF Column(x) > c THEN geo.stripe
       ELSE IF Column(x) = c THEN x % geo.stripe ELSE 0)

\* Inside a strip the column stays and the address advances by one.
LEMMA StripInside ==
  ASSUME geo.stripe \in Nat \ {0}, Cols \in Nat \ {0},
         NEW x \in Nat, NEW i \in Nat, i < geo.stripe - (x % geo.stripe),
         NEW m, Base[m] \in Nat
  PROVE  /\ Column(x + i) = Column(x)
         /\ PhysForMember(m, x + i) = PhysForMember(m, x) + i
<1>1. (x + i) \div geo.stripe = x \div geo.stripe
      /\ (x + i) % geo.stripe = (x % geo.stripe) + i
  BY Within
<1>2. x \div geo.stripe \in Nat /\ x % geo.stripe \in Nat
  <2>1. x \div geo.stripe \in Nat /\ x % geo.stripe \in 0 .. geo.stripe - 1
    BY DivMod
  <2> QED
    BY <2>1, SMT
<1>3. (x \div geo.stripe) \div Cols \in Nat
  BY <1>2, DivMod
<1> DEFINE k == ((x \div geo.stripe) \div Cols) * geo.stripe
<1>4. k \in Nat
  BY <1>3, SMT
<1>5. PhysForMember(m, x) = k + (x % geo.stripe) + Base[m]
      /\ PhysForMember(m, x + i) = k + ((x % geo.stripe) + i) + Base[m]
  BY <1>1 DEF PhysForMember
<1> HIDE DEF k
<1>6. PhysForMember(m, x + i) = PhysForMember(m, x) + i
  BY <1>2, <1>4, <1>5, SMT
<1> QED
  BY <1>1, <1>6 DEF Column

\* The address of a sector is the number of sectors of its column before it.
LEMMA PhysIsBelow ==
  ASSUME geo.stripe \in Nat \ {0}, Cols \in Nat \ {0}, NEW x \in Nat, NEW m
  PROVE  PhysForMember(m, x) = Below(Column(x), x) + Base[m]
<1>1. Column(x) \in Int
  <2>1. x \div geo.stripe \in Nat
    BY DivMod
  <2> QED
    BY <2>1, DivMod DEF Column
<1>2. Below(Column(x), x) = ((x \div geo.stripe) \div Cols) * geo.stripe + (x % geo.stripe)
  BY <1>1 DEF Below
<1> QED
  BY <1>2 DEF PhysForMember

\* A strip adds its length to its own column and nothing to the others.
LEMMA StripAdvance ==
  ASSUME geo.stripe \in Nat \ {0}, Cols \in Nat \ {0},
         NEW x \in Nat, NEW n \in Nat, n <= geo.stripe - (x % geo.stripe),
         NEW c \in 0 .. Cols - 1
  PROVE  Below(c, x + n) = Below(c, x) + (IF c = Column(x) THEN n ELSE 0)
<1> DEFINE S == geo.stripe
           k == x \div S
           o == x % S
           q == k \div Cols
           r == k % Cols
<1>1. k \in Nat /\ o \in 0 .. S - 1
  BY DivMod
<1>2. q \in Nat /\ r \in 0 .. Cols - 1
  BY <1>1, DivMod
<1>3. Column(x) = r
  BY DEF Column
<1>4. Below(c, x) = q * S + (IF r > c THEN S ELSE IF r = c THEN o ELSE 0)
  BY DEF Below, Column
<1>5. CASE n < S - o
  <2>1. (x + n) \div S = k /\ (x + n) % S = o + n
    BY <1>5, Within
  <2>2. Below(c, x + n) = q * S + (IF r > c THEN S ELSE IF r = c THEN o + n ELSE 0)
    BY <2>1 DEF Below, Column
  <2>3. q * S \in Nat /\ S \in Nat
    BY <1>2, SMT
  <2> HIDE DEF S, k, o, q, r
  <2> QED
    BY <1>1, <1>2, <1>3, <1>4, <2>2, <2>3, SMT
<1>6. CASE n = S - o
  <2>1. (x + n) \div S = k + 1 /\ (x + n) % S = 0
    BY <1>6, Across
  <2>2. CASE r + 1 < Cols
    <3>0. 1 < Cols - (k % Cols)
      BY <1>1, <1>2, <2>2, SMT
    <3>1. (k + 1) \div Cols = q /\ (k + 1) % Cols = r + 1
      <4> HIDE DEF k
      <4>1. (k + 1) \div Cols = k \div Cols /\ (k + 1) % Cols = (k % Cols) + 1
        BY <1>1, <3>0, Within, 1 \in Nat
      <4> QED
        BY <4>1
    <3>2. Below(c, x + n) = q * S + (IF r + 1 > c THEN S ELSE IF r + 1 = c THEN 0 ELSE 0)
      BY <2>1, <3>1 DEF Below, Column
    <3>3. q * S \in Nat
      BY <1>2, SMT
    <3>4. S \in Nat
      OBVIOUS
    <3> HIDE DEF S, k, o, q, r
    <3> QED
      BY <1>1, <1>2, <1>3, <1>4, <1>6, <3>2, <3>3, <3>4, SMT
  <2>3. CASE r + 1 = Cols
    <3>1. (k + (Cols - r)) \div Cols = q + 1 /\ (k + (Cols - r)) % Cols = 0
      BY <1>1, Across
    <3>2. Cols - r = 1
      BY <1>2, <2>3, SMT
    <3>3. (k + 1) \div Cols = q + 1 /\ (k + 1) % Cols = 0
      BY <3>1, <3>2
    <3>4. Below(c, x + n) = (q + 1) * S + (IF 0 > c THEN S ELSE IF 0 = c THEN 0 ELSE 0)
      BY <2>1, <3>3 DEF Below, Column
    <3>5. S \in Nat
      OBVIOUS
    <3> HIDE DEF S, k, o, q, r
    <3>6. (q + 1) * S = q * S + S /\ q * S \in Nat
      BY <1>2, <3>5, SMT
    <3> QED
      BY <1>1, <1>2, <1>3, <1>4, <1>6, <2>3, <3>4, <3>5, <3>6, SMT
  <2> QED
    BY <1>2, <2>2, <2>3, SMT
<1> QED
  BY <1>1, <1>5, <1>6, SMT

-----------------------------------------------------------------------------
(* The invariant of the fan-out.                                            *)

\* The members that get every strip of their column.
Serving == IF req.op = "write" THEN wmask ELSE live

\* No column is read from two copies.
Sole == \A m, n \in live : ColOf(m) = ColOf(n) => m = n

Typed ==
  /\ geo \in Geometries
  /\ live \subseteq wmask /\ wmask \subseteq Members
  /\ req.pos \in Nat /\ req.nr \in Nat /\ cur \in Nat /\ seg \in Nat
  /\ sg \in [Members -> Seq(Nat)] /\ start \in [Members -> Int]

\* Before the walk the lists are empty.
Fresh ==
  pc = "new" => /\ req.op \in {"read", "write", "discard"}
                /\ cur = req.pos /\ req.nr > 0
                /\ \A m \in Members : sg[m] = <<>>

\* A request that is walked is a write, or a read of several stripes, which are not
\* read from both copies of a column.
Walked ==
  /\ pc \in {"new", "walk"} /\ req.op = "read" /\ Multi => Sole
  /\ pc = "walk" => req.op = "write" \/ (req.op = "read" /\ Multi)

\* What is in a list is consecutive on its member, from start on ...
Listed ==
  \A m \in Members : \A k \in 1 .. Len(sg[m]) :
    m \in Copies(sg[m][k]) /\ start[m] + k - 1 = PhysForMember(m, sg[m][k])

\* ... and the next sector of its column that the walk meets goes on from there.
GoesOn ==
  pc = "walk" =>
    \A m \in Members :
      sg[m] # <<>> => /\ m \in Serving
                      /\ start[m] + Len(sg[m]) = Below(ColOf(m), cur) + Base[m]

Sent ==
  pc = "submitted" /\ req.op # "discard" =>
    cmd = [m \in Members |-> [slba |-> start[m], nlb |-> Len(sg[m])]]

FanInv == Typed /\ Fresh /\ Walked /\ Listed /\ GoesOn /\ Sent

\* What the volume's shape gives.
LEMMA Shape ==
  ASSUME geo \in Geometries
  PROVE  /\ geo.stripe \in Nat \ {0} /\ Cols \in Nat \ {0}
         /\ geo.level \in {"RAID0", "RAID10"} /\ geo.nm \in Nat /\ geo.nm >= 2
         /\ geo.level = "RAID10" => geo.nm = 2 * Cols
         /\ \A m \in Members : Base[m] \in Nat /\ m \in Nat /\ ColOf(m) \in 0 .. Cols - 1
<1>1. /\ geo.level \in {"RAID0", "RAID10"} /\ geo.nm \in Nat /\ geo.nm >= 2
      /\ geo.level = "RAID10" => geo.nm % 2 = 0
      /\ geo.stripe \in Nat \ {0}
      /\ \A m \in 0 .. geo.nm - 1 : Base[m] \in Nat
  BY FanoutOK
<1>2. CASE geo.level = "RAID10"
  <2>1. geo.nm = 2 * (geo.nm \div 2) /\ geo.nm \div 2 \in Nat \ {0}
    BY <1>1, <1>2, SMT
  <2>2. ASSUME NEW m \in 0 .. geo.nm - 1
        PROVE  m \div 2 \in 0 .. geo.nm \div 2 - 1
    BY <1>1, <2>1, SMT
  <2> QED
    BY <1>1, <1>2, <2>1, <2>2, SMT DEF Cols, ColOf, Members
<1>3. CASE geo.level = "RAID0"
  BY <1>1, <1>3, SMT DEF Cols, ColOf, Members
<1> QED
  BY <1>1, <1>2, <1>3

\* The volume and the request stay what they are.
LEMMA Frame ==
  ASSUME UNCHANGED <<geo, req, live, wmask>>
  PROVE  /\ Members' = Members /\ Cols' = Cols /\ Serving' = Serving
         /\ Sole' = Sole /\ Multi' = Multi /\ End' = End
         /\ \A m : ColOf(m)' = ColOf(m)
         /\ \A x : Copies(x)' = Copies(x) /\ Column(x)' = Column(x)
         /\ \A m, x : PhysForMember(m, x)' = PhysForMember(m, x)
         /\ \A c, x : Below(c, x)' = Below(c, x)
  BY DEF Members, Cols, Serving, Sole, Multi, MultiStripe, End, ColOf, Copies, Column,
         PhysForMember, Below

-----------------------------------------------------------------------------
(* It holds at the beginning.                                               *)

\* Without two live copies of a column no two live members share one.
LEMMA NotWholeIsSole ==
  ASSUME geo \in Geometries, geo.level = "RAID10", live \subseteq Members,
         ~Whole(live, geo.nm)
  PROVE  Sole
<1>1. geo.nm \in Nat /\ geo.nm = 2 * Cols /\ Cols \in Nat \ {0} /\ Cols = geo.nm \div 2
  BY Shape DEF Cols
<1>2. SUFFICES ASSUME NEW m \in live, NEW n \in live, ColOf(m) = ColOf(n), m # n
               PROVE  FALSE
  BY DEF Sole
<1>3. m \in 0 .. 2 * Cols - 1 /\ n \in 0 .. 2 * Cols - 1 /\ m \div 2 = n \div 2
  BY <1>1, <1>2 DEF Members, ColOf
<1> DEFINE c == m \div 2
<1>4. c \in 0 .. Cols - 1 /\ {2 * c, 2 * c + 1} = {m, n}
  <2>1. c \in 0 .. Cols - 1
    BY <1>1, <1>3, SMT
  <2>2. (m = 2 * c /\ n = 2 * c + 1) \/ (n = 2 * c /\ m = 2 * c + 1)
    BY <1>2, <1>3, SMT
  <2> QED
    BY <2>1, <2>2
<1>5. Whole(live, geo.nm)
  BY <1>1, <1>4 DEF Whole
<1> QED
  BY <1>5

\* The masks name members, and live ones are written to.
LEMMA MasksInside ==
  ASSUME FanoutInit
  PROVE  live \subseteq wmask /\ wmask \subseteq Members
<1>1. PICK k \in Masks(geo) : live = k.l /\ wmask = k.w
  BY DEF FanoutInit
<1>2. k.l \subseteq k.w /\ k.w \subseteq 0 .. geo.nm - 1
  <2>1. CASE geo.level = "RAID0"
    <3>1. k \in {[l |-> 0 .. geo.nm - 1, w |-> 0 .. geo.nm - 1]}
      BY <1>1, <2>1 DEF Masks
    <3>2. k.l = 0 .. geo.nm - 1 /\ k.w = 0 .. geo.nm - 1
      BY <3>1
    <3> QED
      BY <3>2
  <2>2. CASE geo.level # "RAID0"
    <3>1. k \in [l : SUBSET (0 .. geo.nm - 1), w : SUBSET (0 .. geo.nm - 1)]
          /\ k.l \subseteq k.w
      BY <1>1, <2>2 DEF Masks
    <3> QED
      BY <3>1
  <2> QED
    BY <2>1, <2>2
<1> QED
  BY <1>1, <1>2 DEF Members

\* No member has a list, and a read that needs several stripes meets no whole column.
LEMMA FanInit ==
  ASSUME ~ReadBoth, FanoutInit
  PROVE  FanInv
<1>1. geo \in Geometries /\ Idle
  BY DEF FanoutInit
<1>2. live \subseteq wmask /\ wmask \subseteq Members
  BY MasksInside
<1>3. \A m \in Members : sg[m] = <<>> /\ start[m] = 0
  BY <1>1 DEF Idle
<1>4. sg \in [Members -> Seq(Nat)] /\ start \in [Members -> Int]
  BY <1>1 DEF Idle
<1>5. Listed
  BY <1>3, SMT DEF Listed
<1>6. CASE InitRequest
  <2>1. Capacity \in Int /\ MaxSectors \in Int
    <3>1. geo.stripe \in Nat /\ Cols \in Nat /\ Rows \in Nat /\ Rest \in Nat
      BY <1>1, Shape, FanoutOK
    <3> QED
      BY <3>1, FanoutOK, SMT DEF Capacity
  <2>2. req.op \in {"read", "write", "discard"} /\ req.pos \in Nat /\ req.nr \in Nat
        /\ req.nr > 0 /\ pc = "new" /\ cur = req.pos
    BY <1>6, <2>1, SMT DEF InitRequest
  <2>3. Typed
    BY <1>1, <1>2, <1>4, <2>2 DEF Typed, Idle
  <2>4. Walked
    <3>1. SUFFICES ASSUME req.op = "read", Multi PROVE Sole
      BY <2>2 DEF Walked
    <3>2. CASE geo.level = "RAID10" /\ ~ReadBoth
      <4>1. ~Whole(live, geo.nm)
        BY <1>6, <3>1, <3>2 DEF InitRequest
      <4> QED
        BY <1>1, <1>2, <3>2, <4>1, NotWholeIsSole
    <3>3. CASE geo.level = "RAID0"
      BY <3>3 DEF Sole, ColOf
    <3> QED
      BY <1>1, <3>2, <3>3, Shape
  <2> QED
    BY <1>3, <1>5, <2>2, <2>3, <2>4 DEF FanInv, Fresh, GoesOn, Sent
<1>7. CASE InitRebuild
  <2>1. req.op = "rebuild" /\ req.pos \in wmask /\ req.nr = 0 /\ pc = "copy" /\ cur = 0
    BY <1>7 DEF InitRebuild
  <2>2. req.pos \in Nat
    BY <1>1, <1>2, <2>1, Shape
  <2>3. Typed
    BY <1>1, <1>2, <1>4, <2>1, <2>2 DEF Typed, Idle
  <2> QED
    BY <1>5, <2>1, <2>3 DEF FanInv, Fresh, Walked, GoesOn, Sent
<1> QED
  BY <1>6, <1>7 DEF FanoutInit

-----------------------------------------------------------------------------
(* Every step keeps it.                                                     *)

\* Steps that leave the lists alone.
LEMMA ListsKept ==
  ASSUME FanInv, UNCHANGED <<geo, req, live, wmask, sg, start>>,
         cur' \in Nat, seg' \in Nat
  PROVE  Typed' /\ Listed'
<1>1. Typed'
  BY Frame DEF FanInv, Typed
<1>2. Listed'
  <2>1. SUFFICES ASSUME NEW m \in Members, NEW k \in 1 .. Len(sg[m])
                 PROVE  m \in Copies(sg[m][k])' /\ start[m] + k - 1 = PhysForMember(m, sg[m][k])'
    BY Frame DEF Listed
  <2>2. m \in Copies(sg[m][k]) /\ start[m] + k - 1 = PhysForMember(m, sg[m][k])
    BY DEF FanInv, Listed
  <2> QED
    BY <2>2, Frame DEF Copies, Members, ColOf, Column, Cols, PhysForMember
<1> QED
  BY <1>1, <1>2

\* The address of a sector is a number, that of the next cursor too.
LEMMA Numbers ==
  ASSUME geo \in Geometries, NEW x \in Nat, NEW m \in Members
  PROVE  PhysForMember(m, x) \in Nat /\ Column(x) \in 0 .. Cols - 1
<1>1. geo.stripe \in Nat \ {0} /\ Cols \in Nat \ {0} /\ Base[m] \in Nat
  BY Shape
<1>2. x \div geo.stripe \in Nat /\ x % geo.stripe \in 0 .. geo.stripe - 1
  BY <1>1, DivMod
<1>3. (x \div geo.stripe) \div Cols \in Nat /\ Column(x) \in 0 .. Cols - 1
  BY <1>1, <1>2, DivMod DEF Column
<1>4. ((x \div geo.stripe) \div Cols) * geo.stripe \in Nat
  BY <1>1, <1>3, SMT
<1>5. x % geo.stripe \in Nat
  BY <1>1, <1>2, SMT
<1> QED
  BY <1>1, <1>3, <1>4, <1>5, SMT DEF PhysForMember

\* So is the number of sectors before it.
LEMMA BelowIsInt ==
  ASSUME geo \in Geometries, NEW x \in Nat, NEW c
  PROVE  Below(c, x) \in Int
<1>1. geo.stripe \in Nat \ {0} /\ Cols \in Nat \ {0}
  BY Shape
<1>2. x \div geo.stripe \in Nat /\ x % geo.stripe \in 0 .. geo.stripe - 1
  BY <1>1, DivMod
<1>3. (x \div geo.stripe) \div Cols \in Nat
  BY <1>1, <1>2, DivMod
<1>4. ((x \div geo.stripe) \div Cols) * geo.stripe \in Nat
  BY <1>1, <1>3, SMT
<1>5. x % geo.stripe \in Nat
  BY <1>1, <1>2, SMT
<1>6. Below(c, x) \in {((x \div geo.stripe) \div Cols) * geo.stripe + geo.stripe,
                      ((x \div geo.stripe) \div Cols) * geo.stripe + (x % geo.stripe),
                      ((x \div geo.stripe) \div Cols) * geo.stripe + 0}
  BY DEF Below
<1> QED
  BY <1>1, <1>4, <1>5, <1>6, SMT

\* A list with another behind it.
LEMMA Appended ==
  ASSUME NEW s \in Seq(Nat), NEW t \in Seq(Nat)
  PROVE  /\ s \o t \in Seq(Nat) /\ Len(s \o t) = Len(s) + Len(t)
         /\ \A k \in 1 .. Len(s) : (s \o t)[k] = s[k]
         /\ \A i \in 1 .. Len(t) : (s \o t)[Len(s) + i] = t[i]
  OBVIOUS

\* A strip ends with the segment or with the stripe.
LEMMA StripLenOk ==
  ASSUME geo \in Geometries, cur \in Nat, seg \in Nat, cur < seg
  PROVE  StripLen \in Nat /\ StripLen > 0 /\ StripLen <= geo.stripe - (cur % geo.stripe)
<1> DEFINE S == geo.stripe
           q == cur \div S
           r == cur % S
<1>1. S \in Nat \ {0}
  BY Shape
<1>2. q \in Nat /\ r \in 0 .. S - 1 /\ cur = S * q + r
  BY <1>1, DivMod
<1>3. StripLen = IF seg <= (q + 1) * S THEN seg - cur ELSE (q + 1) * S - cur
  BY DEF StripLen
<1> HIDE DEF S, q, r
<1>4. (q + 1) * S - cur = S - r /\ (q + 1) * S \in Nat
  BY <1>1, <1>2, SMT
<1>5. StripLen \in Nat /\ StripLen > 0 /\ StripLen <= S - r
  BY <1>1, <1>2, <1>3, <1>4, SMT
<1> QED
  BY <1>5 DEF S, r

\* The walk: one strip more.
LEMMA StripKeeps ==
  ASSUME FanInv, NEW targets \in Targets, Strip(targets)
  PROVE  FanInv'
<1> DEFINE n == StripLen
           strip == [i \in 1 .. n |-> cur + i - 1]
<1>1. /\ pc = "walk" /\ pc' = "walk" /\ cur < seg /\ cur' = cur + n
      /\ UNCHANGED <<geo, req, live, wmask, seg, cmd>>
      /\ start' = [m \in Members |->
                     IF m \in targets /\ sg[m] = <<>> THEN PhysForMember(m, cur)
                     ELSE start[m]]
      /\ sg' = [m \in Members |-> IF m \in targets THEN sg[m] \o strip ELSE sg[m]]
  BY DEF Strip
<1>2. /\ geo \in Geometries /\ cur \in Nat /\ seg \in Nat
      /\ sg \in [Members -> Seq(Nat)] /\ start \in [Members -> Int]
      /\ live \subseteq Members /\ wmask \subseteq Members
  BY DEF FanInv, Typed
<1>3. n \in Nat /\ n > 0 /\ n <= geo.stripe - (cur % geo.stripe)
  BY <1>1, <1>2, StripLenOk
<1>4. geo.stripe \in Nat \ {0} /\ Cols \in Nat \ {0}
      /\ \A m \in Members : Base[m] \in Nat /\ ColOf(m) \in 0 .. Cols - 1
  BY <1>2, Shape
<1>5. \A m \in Members : PhysForMember(m, cur) \in Nat
  BY <1>2, Numbers
<1>6. targets \subseteq Copies(cur) \cap Serving
      /\ \A m \in Serving : ColOf(m) = Column(cur) => m \in targets
  <2>1. CASE req.op = "write"
    BY <1>2, <2>1 DEF Targets, Serving, Copies
  <2>2. CASE req.op # "write"
    <3>1. Sole
      BY <1>1, <2>2 DEF FanInv, Walked
    <3>2. PICK t \in Copies(cur) \cap live : targets = {t}
      BY <2>2 DEF Targets, MapLba
    <3>3. ASSUME NEW m \in live, ColOf(m) = Column(cur) PROVE m = t
      BY <3>1, <3>2, <3>3 DEF Sole, Copies
    <3> QED
      BY <2>2, <3>2, <3>3 DEF Serving
  <2> QED
    BY <2>1, <2>2
<1> HIDE DEF n
<1>7. strip \in Seq(Nat) /\ Len(strip) = n /\ \A i \in 1 .. n : strip[i] = cur + i - 1
  BY <1>2, <1>3, SMT
<1>8. \A i \in 1 .. n : \A m \in Members :
        /\ Column(cur + i - 1) = Column(cur)
        /\ PhysForMember(m, cur + i - 1) = PhysForMember(m, cur) + i - 1
  <2>1. SUFFICES ASSUME NEW i \in 1 .. n, NEW m \in Members
                 PROVE  /\ Column(cur + i - 1) = Column(cur)
                        /\ PhysForMember(m, cur + i - 1) = PhysForMember(m, cur) + i - 1
    OBVIOUS
  <2> DEFINE j == i - 1
             rest == geo.stripe - (cur % geo.stripe)
             phys == PhysForMember(m, cur)
  <2>a. phys \in Nat /\ i \in 1 .. n /\ n \in Nat /\ n <= rest /\ cur \in Nat
    BY <1>2, <1>3, <1>5
  <2>b. rest \in Int
    <3>1. cur % geo.stripe \in 0 .. geo.stripe - 1 /\ geo.stripe \in Nat
      BY <1>2, <1>4, DivMod
    <3> QED
      BY <3>1, SMT
  <2> HIDE DEF rest, phys
  <2>c. j \in Nat /\ j < rest /\ cur + i - 1 = cur + j /\ phys + i - 1 = phys + j
    BY <2>a, <2>b, SMT
  <2>2. j \in Nat /\ j < geo.stripe - (cur % geo.stripe) /\ cur + i - 1 = cur + j
        /\ PhysForMember(m, cur) + i - 1 = PhysForMember(m, cur) + j
    BY <2>c DEF rest, phys
  <2>3. Base[m] \in Nat
    BY <1>4
  <2> HIDE DEF j
  <2>4. Column(cur + j) = Column(cur) /\ PhysForMember(m, cur + j) = PhysForMember(m, cur) + j
    BY <1>2, <1>4, <2>2, <2>3, StripInside
  <2> QED
    BY <2>2, <2>4
<1>9. \A m \in Members :
        /\ m \in targets => sg'[m] = sg[m] \o strip
        /\ m \notin targets => sg'[m] = sg[m]
        /\ m \in targets /\ sg[m] = <<>> => start'[m] = PhysForMember(m, cur)
        /\ ~(m \in targets /\ sg[m] = <<>>) => start'[m] = start[m]
  BY <1>1
<1>10. Typed'
  <2>1. sg' \in [Members -> Seq(Nat)]
    <3> HIDE DEF strip
    <3>1. \A m \in Members : sg[m] \o strip \in Seq(Nat)
      BY <1>2, <1>7, Appended
    <3> QED
      BY <1>1, <1>2, <3>1
  <2>2. start' \in [Members -> Int]
    BY <1>1, <1>2, <1>5
  <2>3. cur' \in Nat
    BY <1>1, <1>2, <1>3
  <2> QED
    BY <1>1, <2>1, <2>2, <2>3, Frame DEF FanInv, Typed
<1> HIDE DEF strip
<1>11. ASSUME NEW m \in Members, m \in targets
       PROVE  /\ \A k \in 1 .. Len(sg'[m]) :
                   m \in Copies(sg'[m][k]) /\ start'[m] + k - 1 = PhysForMember(m, sg'[m][k])
              /\ m \in Serving
              /\ start'[m] + Len(sg'[m]) = Below(ColOf(m), cur + n) + Base[m]
  <2>1. sg[m] \in Seq(Nat) /\ sg'[m] = sg[m] \o strip /\ start[m] \in Int
    BY <1>2, <1>9, <1>11
  <2>2. m \in Copies(cur) /\ m \in Serving /\ ColOf(m) = Column(cur)
    BY <1>6, <1>11 DEF Copies
  <2>3. /\ Len(sg'[m]) = Len(sg[m]) + n /\ Len(sg[m]) \in Nat
        /\ \A k \in 1 .. Len(sg[m]) : sg'[m][k] = sg[m][k]
        /\ \A i \in 1 .. n : sg'[m][Len(sg[m]) + i] = strip[i]
    <3> DEFINE s == sg[m]
    <3>1. s \in Seq(Nat) /\ strip \in Seq(Nat) /\ Len(strip) = n /\ sg'[m] = s \o strip
      BY <1>7, <2>1
    <3> HIDE DEF s
    <3>2. /\ Len(s \o strip) = Len(s) + n
          /\ \A k \in 1 .. Len(s) : (s \o strip)[k] = s[k]
          /\ \A i \in 1 .. n : (s \o strip)[Len(s) + i] = strip[i]
      BY <3>1, Appended
    <3>3. Len(s) \in Nat
      BY <3>1
    <3>4. /\ Len(sg'[m]) = Len(s) + n
          /\ \A k \in 1 .. Len(s) : sg'[m][k] = s[k]
          /\ \A i \in 1 .. n : sg'[m][Len(s) + i] = strip[i]
      BY <3>1, <3>2
    <3> QED
      BY <3>3, <3>4 DEF s
  <2>4. PhysForMember(m, cur) = Below(ColOf(m), cur) + Base[m]
    BY <1>2, <1>4, <2>2, PhysIsBelow
  <2>5. start'[m] + Len(sg[m]) = PhysForMember(m, cur)
    <3>1. CASE sg[m] = <<>>
      BY <1>5, <1>9, <1>11, <3>1
    <3>2. CASE sg[m] # <<>>
      BY <1>1, <1>9, <2>4, <3>2 DEF FanInv, GoesOn
    <3> QED
      BY <3>1, <3>2
  <2>6. start'[m] \in Int
    BY <1>5, <1>9, <1>11, <2>1
  <2>7. Below(ColOf(m), cur + n) = Below(ColOf(m), cur) + n
    BY <1>2, <1>3, <1>4, <2>2, StripAdvance
  <2>8. Below(ColOf(m), cur) \in Int /\ Base[m] \in Nat
    BY <1>2, <1>4, BelowIsInt
  <2>9. ASSUME NEW k \in 1 .. Len(sg'[m])
        PROVE  m \in Copies(sg'[m][k]) /\ start'[m] + k - 1 = PhysForMember(m, sg'[m][k])
    <3>1. CASE k <= Len(sg[m])
      <4>1. k \in 1 .. Len(sg[m]) /\ sg'[m][k] = sg[m][k] /\ sg[m] # <<>>
        <5>1. k \in 1 .. Len(sg[m])
          BY <2>3, <2>9, <3>1, SMT
        <5> QED
          BY <2>1, <2>3, <5>1
      <4>2. start'[m] = start[m]
        BY <1>9, <4>1
      <4> QED
        BY <4>1, <4>2 DEF FanInv, Listed
    <3>2. CASE k > Len(sg[m])
      <4> DEFINE i == k - Len(sg[m])
      <4>1. i \in 1 .. n /\ sg'[m][k] = strip[i]
        <5>1. i \in 1 .. n /\ k = Len(sg[m]) + i
          BY <1>3, <2>3, <2>9, <3>2, SMT
        <5> QED
          BY <2>3, <5>1
      <4>2. sg'[m][k] = cur + i - 1
        BY <1>7, <4>1
      <4>3. Column(cur + i - 1) = Column(cur)
            /\ PhysForMember(m, cur + i - 1) = PhysForMember(m, cur) + i - 1
        BY <1>8, <4>1
      <4>4. start'[m] + k - 1 = PhysForMember(m, cur) + i - 1
        BY <1>5, <2>3, <2>5, <2>6, SMT
      <4> QED
        BY <2>2, <4>2, <4>3, <4>4 DEF Copies
    <3> QED
      BY <2>3, <2>9, <3>1, <3>2, SMT
  <2>10. start'[m] + Len(sg'[m]) = Below(ColOf(m), cur + n) + Base[m]
    <3> DEFINE low == Below(ColOf(m), cur)
               l == Len(sg[m])
               b == Base[m]
               a == start'[m]
    <3>1. a + l = low + b /\ a \in Int /\ l \in Nat /\ low \in Int /\ b \in Nat /\ n \in Nat
      BY <1>3, <2>3, <2>4, <2>5, <2>6, <2>8
    <3>2. Len(sg'[m]) = l + n /\ Below(ColOf(m), cur + n) = low + n
      BY <2>3, <2>7
    <3> HIDE DEF low, l, b, a
    <3>3. a + (l + n) = (low + n) + b
      BY <3>1, SMT
    <3> QED
      BY <3>2, <3>3 DEF a, b
  <2> QED
    BY <2>2, <2>9, <2>10
<1>12. ASSUME NEW m \in Members, m \notin targets
       PROVE  /\ \A k \in 1 .. Len(sg'[m]) :
                   m \in Copies(sg'[m][k]) /\ start'[m] + k - 1 = PhysForMember(m, sg'[m][k])
              /\ sg'[m] # <<>> =>
                   /\ m \in Serving
                   /\ start'[m] + Len(sg'[m]) = Below(ColOf(m), cur + n) + Base[m]
  <2>1. sg'[m] = sg[m] /\ start'[m] = start[m]
    BY <1>9, <1>12
  <2>2. ASSUME sg[m] # <<>>
        PROVE  /\ m \in Serving
               /\ start[m] + Len(sg[m]) = Below(ColOf(m), cur + n) + Base[m]
    <3>1. m \in Serving /\ start[m] + Len(sg[m]) = Below(ColOf(m), cur) + Base[m]
      BY <1>1, <2>2 DEF FanInv, GoesOn
    <3>2. ColOf(m) # Column(cur) /\ ColOf(m) \in 0 .. Cols - 1
      BY <1>4, <1>6, <1>12, <3>1
    <3>3. Below(ColOf(m), cur + n) = Below(ColOf(m), cur) + 0
      BY <1>2, <1>3, <1>4, <3>2, StripAdvance
    <3>4. Below(ColOf(m), cur) \in Int
      BY <1>2, BelowIsInt
    <3> QED
      BY <3>1, <3>3, <3>4, SMT
  <2> QED
    BY <2>1, <2>2 DEF FanInv, Listed
<1>13. Listed' /\ GoesOn'
  <2>1. \A m \in Members : \A k \in 1 .. Len(sg'[m]) :
          m \in Copies(sg'[m][k]) /\ start'[m] + k - 1 = PhysForMember(m, sg'[m][k])
    BY <1>11, <1>12
  <2>2. \A m \in Members : sg'[m] # <<>> =>
          m \in Serving /\ start'[m] + Len(sg'[m]) = Below(ColOf(m), cur') + Base[m]
    BY <1>1, <1>11, <1>12
  <2>3. Listed'
    <3>1. SUFFICES ASSUME NEW m \in Members, NEW k \in 1 .. Len(sg'[m])
                   PROVE  m \in Copies(sg[m][k])' /\ start'[m] + k - 1 = PhysForMember(m, sg[m][k])'
      BY <1>1, Frame DEF Listed
    <3>2. m \in Copies(sg'[m][k]) /\ start'[m] + k - 1 = PhysForMember(m, sg'[m][k])
      BY <2>1
    <3> QED
      BY <1>1, <3>2 DEF Copies, Members, ColOf, Column, Cols, PhysForMember
  <2>4. GoesOn'
    BY <1>1, <2>2, Frame DEF GoesOn, Serving, Members, ColOf, Column, Cols, Below
  <2> QED
    BY <2>3, <2>4
<1>14. Fresh' /\ Walked' /\ Sent'
  BY <1>1, Frame DEF FanInv, Fresh, Walked, Sent
<1> QED
  BY <1>10, <1>13, <1>14 DEF FanInv

\* A request inside one stripe: one list, all of it in the strip of its first sector.
LEMMA SingleKeeps ==
  ASSUME FanInv, NEW m \in Members, Single(m)
  PROVE  FanInv'
<1> DEFINE n == req.nr
           strip == [i \in 1 .. n |-> cur + i - 1]
<1>1. /\ pc = "new" /\ pc' = "built" /\ ~Multi /\ m \in Copies(cur)
      /\ UNCHANGED <<geo, req, live, wmask>> /\ cur' = End /\ seg' = End
      /\ start' = [start EXCEPT ![m] = PhysForMember(m, cur)]
      /\ sg' = [sg EXCEPT ![m] = strip]
  BY DEF Single, MapLba
<1>2. /\ geo \in Geometries /\ cur \in Nat /\ cur = req.pos /\ n \in Nat /\ n > 0
      /\ sg \in [Members -> Seq(Nat)] /\ start \in [Members -> Int]
      /\ \A k \in Members : sg[k] = <<>>
  BY <1>1 DEF FanInv, Typed, Fresh
<1>3. geo.stripe \in Nat \ {0} /\ Cols \in Nat \ {0} /\ Base[m] \in Nat
  BY <1>2, Shape
<1>4. PhysForMember(m, cur) \in Nat
  BY <1>2, Numbers
<1>5. n <= geo.stripe - (cur % geo.stripe) /\ cur % geo.stripe \in Int
  <2> DEFINE S == geo.stripe
             q == cur \div S
             r == cur % S
             t == (cur + n - 1) % S
  <2>1. q \in Nat /\ r \in 0 .. S - 1 /\ cur = S * q + r
    BY <1>2, <1>3, DivMod
  <2>2. cur + n - 1 \in Nat
    BY <1>2, SMT
  <2>3. t \in 0 .. S - 1 /\ cur + n - 1 = S * ((cur + n - 1) \div S) + t
    BY <1>3, <2>2, DivMod
  <2>4. (cur + n - 1) \div S = q
    BY <1>1, <1>2 DEF Multi, MultiStripe
  <2>5. cur + n - 1 = S * q + t /\ S \in Nat
    BY <1>3, <2>3, <2>4
  <2> HIDE DEF S, q, r, t, n
  <2>6. n <= S - r /\ r \in Int
    BY <1>2, <2>1, <2>3, <2>5, SMT
  <2> QED
    BY <2>6 DEF S, r
<1> HIDE DEF n
<1>6. strip \in Seq(Nat) /\ Len(strip) = n /\ \A i \in 1 .. n : strip[i] = cur + i - 1
  BY <1>2, SMT
<1>7. ASSUME NEW i \in 1 .. n
      PROVE  m \in Copies(cur + i - 1)
             /\ PhysForMember(m, cur) + i - 1 = PhysForMember(m, cur + i - 1)
  <2> DEFINE j == i - 1
             rest == geo.stripe - (cur % geo.stripe)
             phys == PhysForMember(m, cur)
  <2>1. phys \in Nat /\ n \in Nat /\ n <= rest /\ cur \in Nat
    BY <1>2, <1>4, <1>5
  <2>2. rest \in Int
    BY <1>3, <1>5, SMT
  <2> HIDE DEF rest, phys
  <2>3. j \in Nat /\ j < rest /\ cur + i - 1 = cur + j /\ phys + i - 1 = phys + j
    BY <2>1, <2>2, SMT
  <2>4. j \in Nat /\ j < geo.stripe - (cur % geo.stripe) /\ cur + i - 1 = cur + j
        /\ PhysForMember(m, cur) + i - 1 = PhysForMember(m, cur) + j
    BY <2>3 DEF rest, phys
  <2> HIDE DEF j
  <2>5. Column(cur + j) = Column(cur) /\ PhysForMember(m, cur + j) = PhysForMember(m, cur) + j
    BY <1>2, <1>3, <2>4, StripInside
  <2> QED
    BY <1>1, <2>4, <2>5 DEF Copies
<1> HIDE DEF strip
<1>8. Typed'
  <2>1. End \in Nat
    BY <1>2 DEF End, n
  <2> QED
    BY <1>1, <1>2, <1>4, <1>6, <2>1, Frame DEF FanInv, Typed
<1>9. Listed'
  <2>1. SUFFICES ASSUME NEW k \in Members, NEW l \in 1 .. Len(sg'[k])
                 PROVE  k \in Copies(sg[k][l])' /\ start'[k] + l - 1 = PhysForMember(k, sg[k][l])'
    BY <1>1, Frame DEF Listed
  <2>2. k = m /\ l \in 1 .. n
    <3>1. CASE k = m
      BY <1>1, <1>2, <1>6, <3>1
    <3>2. CASE k # m
      <4>1. sg'[k] = <<>>
        BY <1>1, <1>2, <3>2
      <4> QED
        BY <4>1, SMT
    <3> QED
      BY <3>1, <3>2
  <2>3. sg'[m] = strip /\ start'[m] = PhysForMember(m, cur)
    BY <1>1, <1>2
  <2>4. k \in Copies(sg'[k][l]) /\ start'[k] + l - 1 = PhysForMember(k, sg'[k][l])
    BY <1>6, <1>7, <2>2, <2>3
  <2> QED
    BY <1>1, <2>4 DEF Copies, Members, ColOf, Column, Cols, PhysForMember
<1>10. Fresh' /\ Walked' /\ GoesOn' /\ Sent'
  BY <1>1 DEF Fresh, Walked, GoesOn, Sent
<1> QED
  BY <1>8, <1>9, <1>10 DEF FanInv

\* The steps that leave the lists alone, up to the commands.
LEMMA OthersKeep ==
  ASSUME FanInv,
         \/ OutOfBounds \/ StartWalk \/ (\E n \in 1 .. Page : TakeSegment(n))
         \/ EndWalk \/ Unexpressible \/ Submit \/ DiscardFanout
         \/ (\E m \in Members : DiscardSingle(m))
  PROVE  FanInv'
<1>1. geo \in Geometries /\ cur \in Nat /\ seg \in Nat
  BY DEF FanInv, Typed
<1>2. CASE OutOfBounds \/ Unexpressible
  <2>1. pc' = "refused" /\ UNCHANGED <<geo, req, live, wmask, sg, start, cur, seg>>
    BY <1>2 DEF OutOfBounds, Unexpressible, Refuse
  <2>2. Typed' /\ Listed'
    BY <1>1, <2>1, ListsKept
  <2> QED
    BY <2>1, <2>2 DEF FanInv, Fresh, Walked, GoesOn, Sent
<1>3. CASE StartWalk
  <2>1. /\ pc = "new" /\ pc' = "walk" /\ req.op # "discard"
        /\ Multi \/ req.op = "write"
        /\ UNCHANGED <<geo, req, live, wmask, sg, start, cur, seg>>
    BY <1>3 DEF StartWalk
  <2>2. Typed' /\ Listed'
    BY <1>1, <2>1, ListsKept
  <2>3. req.op \in {"read", "write"} /\ \A m \in Members : sg[m] = <<>>
    BY <2>1 DEF FanInv, Fresh
  <2>4. Walked'
    BY <2>1, <2>3, Frame DEF FanInv, Walked
  <2>5. GoesOn' /\ Fresh' /\ Sent'
    BY <2>1, <2>3, Frame DEF GoesOn, Fresh, Sent
  <2> QED
    BY <2>2, <2>4, <2>5 DEF FanInv
<1>4. CASE \E n \in 1 .. Page : TakeSegment(n)
  <2>1. PICK n \in 1 .. Page : TakeSegment(n)
    BY <1>4
  <2>2. /\ pc = "walk" /\ pc' = "walk" /\ seg' = cur + n
        /\ UNCHANGED <<geo, req, live, wmask, sg, start, cur>>
    BY <2>1 DEF TakeSegment
  <2>3. seg' \in Nat
    BY <1>1, <2>2, SMT
  <2>4. Typed' /\ Listed'
    BY <1>1, <2>2, <2>3, ListsKept
  <2>5. Walked' /\ Fresh' /\ Sent'
    BY <2>2, Frame DEF FanInv, Walked, Fresh, Sent
  <2>6. GoesOn'
    BY <2>2, Frame DEF FanInv, GoesOn, Serving, Members, ColOf, Below, Column, Cols
  <2> QED
    BY <2>4, <2>5, <2>6 DEF FanInv
<1>5. CASE EndWalk
  <2>1. /\ pc' \in {"lonely", "built"}
        /\ UNCHANGED <<geo, req, live, wmask, sg, start, cur, seg>>
    BY <1>5 DEF EndWalk
  <2>2. Typed' /\ Listed'
    BY <1>1, <2>1, ListsKept
  <2> QED
    BY <2>1, <2>2 DEF FanInv, Fresh, Walked, GoesOn, Sent
<1>6. CASE Submit
  <2>1. /\ pc' = "submitted" /\ UNCHANGED <<geo, req, live, wmask, sg, start, cur, seg>>
        /\ cmd' = [m \in Members |-> [slba |-> start[m], nlb |-> Len(sg[m])]]
    BY <1>6 DEF Submit
  <2>2. Typed' /\ Listed'
    BY <1>1, <2>1, ListsKept
  <2>3. Sent'
    BY <2>1 DEF Sent, Members
  <2> QED
    BY <2>1, <2>2, <2>3 DEF FanInv, Fresh, Walked, GoesOn
<1>7. CASE DiscardFanout \/ \E m \in Members : DiscardSingle(m)
  <2>1. /\ pc' = "submitted" /\ req.op = "discard"
        /\ UNCHANGED <<geo, req, live, wmask, sg, start, cur, seg>>
    BY <1>7 DEF DiscardFanout, DiscardSingle
  <2>2. Typed' /\ Listed'
    BY <1>1, <2>1, ListsKept
  <2> QED
    BY <2>1, <2>2 DEF FanInv, Fresh, Walked, GoesOn, Sent
<1> QED
  BY <1>2, <1>3, <1>4, <1>5, <1>6, <1>7

\* A rebuild has no lists.
LEMMA RebuildKeeps ==
  ASSUME FanInv, CopyChunk \/ CopyDone
  PROVE  FanInv'
<1>1. /\ pc = "copy" /\ pc' \in {"copy", "promoted"}
      /\ UNCHANGED <<geo, req, live, wmask, sg, start, seg>>
  BY DEF CopyChunk, CopyDone
<1>2. geo \in Geometries /\ cur \in Nat /\ seg \in Nat
  BY DEF FanInv, Typed
<1>3. cur' \in Nat
  <2>1. CASE CopyDone
    BY <1>2, <2>1 DEF CopyDone
  <2>2. CASE CopyChunk
    <3>1. geo.stripe \in Nat \ {0} /\ Cols \in Nat \ {0} /\ Rows \in Nat /\ Rest \in Nat
          /\ Xfer \in Nat
      BY <1>2, Shape, FanoutOK
    <3>2. Capacity \in Nat
      <4>1. Rows * geo.stripe * Cols \in Nat
        BY <3>1, SMT
      <4> QED
        BY <3>1, <4>1 DEF Capacity
    <3>3. PerMemberSectors \in Nat
      BY <3>1, <3>2, DivMod DEF PerMemberSectors
    <3>4. cur % geo.stripe \in 0 .. geo.stripe - 1 /\ cur < PerMemberSectors
          /\ cur' = cur + CopyLen
      BY <1>2, <2>2, <3>1, DivMod DEF CopyChunk
    <3>5. geo.stripe - (cur % geo.stripe) \in Nat
      BY <3>1, <3>4, SMT
    <3>6. PerMemberSectors - cur \in Nat
      BY <1>2, <3>3, <3>4, SMT
    <3>7. CopyLen \in {Xfer, geo.stripe - (cur % geo.stripe), PerMemberSectors - cur}
      BY DEF CopyLen, MinOf
    <3> QED
      BY <1>2, <3>1, <3>4, <3>5, <3>6, <3>7
  <2> QED
    BY <2>1, <2>2
<1>4. Typed' /\ Listed'
  BY <1>1, <1>2, <1>3, ListsKept
<1> QED
  BY <1>1, <1>4 DEF FanInv, Fresh, Walked, GoesOn, Sent

\* Every step keeps the invariant of the fan-out.
LEMMA FanNext ==
  ASSUME FanInv, [FanoutNext]_fanoutVars
  PROVE  FanInv'
<1>1. CASE \E targets \in Targets : Strip(targets)
  BY <1>1, StripKeeps
<1>2. CASE \E m \in Members : Single(m)
  BY <1>2, SingleKeeps
<1>3. CASE \/ OutOfBounds \/ StartWalk \/ (\E n \in 1 .. Page : TakeSegment(n))
           \/ EndWalk \/ Unexpressible \/ Submit \/ DiscardFanout
           \/ (\E m \in Members : DiscardSingle(m))
  BY <1>3, OthersKeep
<1>4. CASE CopyChunk \/ CopyDone
  BY <1>4, RebuildKeeps
<1>5. CASE UNCHANGED fanoutVars
  <2>1. UNCHANGED <<geo, req, live, wmask, sg, start, cur, seg, pc, cmd>>
    BY <1>5 DEF fanoutVars
  <2>2. Typed' /\ Listed'
    <3>1. cur' \in Nat /\ seg' \in Nat
      BY <2>1 DEF FanInv, Typed
    <3> QED
      BY <2>1, <3>1, ListsKept
  <2>3. Walked' /\ Fresh' /\ Sent'
    BY <2>1, Frame DEF FanInv, Walked, Fresh, Sent
  <2>4. GoesOn'
    BY <2>1, Frame DEF FanInv, GoesOn, Serving, Members, ColOf, Below, Column, Cols
  <2> QED
    BY <2>2, <2>3, <2>4 DEF FanInv
<1> QED
  BY <1>1, <1>2, <1>3, <1>4, <1>5 DEF FanoutNext

-----------------------------------------------------------------------------
(* Theorems.                                                                *)

\* Every command of every request that is read or written, whatever the number of
\* members, the stripe, the limits and the pieces of the buffer, takes each of its
\* sectors to the place that sector has on that member - as long as no read of more
\* than one stripe of a RAID10 volume meets a column with both copies live.
THEOREM PlacedRight ==
  ASSUME ~ReadBoth
  PROVE  FanoutSpec => []RightPlace
<1>1. FanoutInit => FanInv
  BY FanInit
<1>2. FanInv /\ [FanoutNext]_fanoutVars => FanInv'
  BY FanNext
<1>3. FanInv => RightPlace
  <2>1. SUFFICES ASSUME FanInv, pc = "submitted", req.op # "discard", NEW m \in Members,
                        NEW k \in 1 .. cmd[m].nlb
                 PROVE  m \in Copies(sg[m][k])
                        /\ cmd[m].slba + k - 1 = PhysForMember(m, sg[m][k])
    BY DEF RightPlace
  <2>2. cmd[m].slba = start[m] /\ cmd[m].nlb = Len(sg[m])
    BY <2>1 DEF FanInv, Sent
  <2> QED
    BY <2>1, <2>2 DEF FanInv, Listed
<1> QED
  BY <1>1, <1>2, <1>3, PTL DEF FanoutSpec

-----------------------------------------------------------------------------
(* The copy of a rebuild.                                                   *)

CopyInv ==
  /\ geo \in Geometries
  /\ req.op = "rebuild" => /\ pc \in {"copy", "promoted"} /\ geo.level = "RAID10"
                           /\ req.pos \in Members /\ cur \in Nat
  /\ CopyAligned

\* The sector the cursor stands for is the one at that place of the column, and the
\* partner is a member of it.
LEMMA CursorPlace ==
  ASSUME geo \in Geometries, geo.level = "RAID10", req.pos \in Members, cur \in Nat,
         NEW logical,
         logical = (cur \div geo.stripe) * (geo.stripe * Cols)
                     + (req.pos \div 2) * geo.stripe + (cur % geo.stripe)
  PROVE  /\ logical \in Nat /\ logical % geo.stripe = cur % geo.stripe
         /\ Partner(req.pos) \in Members
         /\ \A m \in {req.pos, Partner(req.pos)} :
              m \in Copies(logical) /\ PhysForMember(m, logical) = cur + Base[m]
<1> DEFINE S == geo.stripe
           C == Cols
           p == req.pos
           c == p \div 2
           q == cur \div S
           r == cur % S
<1>1. S \in Nat \ {0} /\ C \in Nat \ {0} /\ geo.nm = 2 * C
      /\ \A m \in Members : Base[m] \in Nat
  BY Shape
<1>2. p \in Nat /\ p <= 2 * C - 1
  BY <1>1, SMT DEF Members
<1>3. c \in 0 .. C - 1 /\ p \in {2 * c, 2 * c + 1}
  <2> HIDE DEF p, C
  <2> QED
    BY <1>1, <1>2, SMT
<1>4. q \in Nat /\ r \in 0 .. S - 1 /\ cur = S * q + r
  BY <1>1, DivMod
<1>5. Partner(p) \in {2 * c, 2 * c + 1} /\ Partner(p) \in Nat /\ Partner(p) <= 2 * C - 1
  <2> HIDE DEF p, C, c
  <2>1. c \in Nat /\ c <= C - 1 /\ C \in Nat
    BY <1>1, <1>3, SMT
  <2>2. (p = 2 * c /\ p % 2 = 0) \/ (p = 2 * c + 1 /\ p % 2 = 1)
    BY <1>3, <2>1, SMT
  <2> QED
    BY <2>1, <2>2, SMT DEF Partner
<1>6. Partner(p) \in Members
  BY <1>1, <1>5, SMT DEF Members
<1>7. \A m \in {2 * c, 2 * c + 1} : m \div 2 = c
  <2> HIDE DEF c
  <2> QED
    BY <1>1, <1>3, SMT
<1>8. \A m \in {p, Partner(p)} : ColOf(m) = c
  BY <1>3, <1>5, <1>7 DEF ColOf
<1> DEFINE k == C * q + c
<1>9. logical = q * (S * C) + c * S + r
  OBVIOUS
<1> HIDE DEF S, C, p, c, q, r
<1>10. k \in Nat /\ logical = S * k + r
  <2>1. S \in Nat /\ C \in Nat /\ c \in Nat /\ r \in Nat
    BY <1>1, <1>3, <1>4, SMT
  <2>2. C * q \in Nat
    BY <1>4, <2>1, SMT
  <2>3. q * (S * C) = S * (C * q) /\ c * S = S * c
    BY <1>4, <2>1, SMT
  <2>4. S * (C * q + c) = S * (C * q) + S * c /\ S * (C * q) \in Nat /\ S * c \in Nat
    BY <2>1, <2>2, SMT
  <2> QED
    BY <1>9, <2>1, <2>2, <2>3, <2>4, SMT
<1>11. logical \div S = k /\ logical % S = r
  <2> HIDE DEF k
  <2>1. (S * k + r) \div S = k /\ (S * k + r) % S = r
    BY <1>1, <1>4, <1>10, DivUnique
  <2> QED
    BY <1>10, <2>1
<1>12. k \div C = q /\ k % C = c
  BY <1>1, <1>3, <1>4, DivUnique
<1>13. Column(logical) = c
  BY <1>11, <1>12 DEF Column, S, C
<1>14. ASSUME NEW m
       PROVE  PhysForMember(m, logical) = cur + Base[m]
  <2>1. PhysForMember(m, logical) = q * S + r + Base[m]
    BY <1>11, <1>12 DEF PhysForMember, S, C
  <2>2. q * S + r = cur
    <3>1. S \in Nat /\ r \in Nat
      BY <1>1, <1>4, SMT
    <3> QED
      BY <1>4, <3>1, SMT
  <2> QED
    BY <2>1, <2>2
<1>15. logical \in Nat
  <2> HIDE DEF k
  <2>1. S \in Nat /\ r \in Nat
    BY <1>1, <1>4, SMT
  <2> QED
    BY <1>10, <2>1, SMT
<1>16. p \in Members
  BY DEF p
<1>17. \A m \in {p, Partner(p)} : m \in Copies(logical)
  BY <1>6, <1>8, <1>13, <1>16 DEF Copies
<1> QED
  BY <1>6, <1>11, <1>14, <1>15, <1>17 DEF S, p, r

\* A chunk is a piece of one strip.
LEMMA ChunkAligned ==
  ASSUME CopyInv, CopyChunk, req.op = "rebuild"
  PROVE  CopyAligned' /\ cur' \in Nat
<1> DEFINE p == req.pos
           n == CopyLen
           logical == (cur \div geo.stripe) * (geo.stripe * Cols)
                        + (req.pos \div 2) * geo.stripe + (cur % geo.stripe)
<1>1. /\ geo \in Geometries /\ geo.level = "RAID10" /\ p \in Members /\ cur \in Nat
      /\ cur < PerMemberSectors /\ UNCHANGED <<geo, req>>
      /\ cur' = cur + n
      /\ chunk' = [logical |-> logical, srv |-> cur + Base[Partner(p)],
                   tgt |-> cur + Base[p], nlb |-> n]
  BY DEF CopyInv, CopyChunk
<1>2. geo.stripe \in Nat \ {0} /\ Cols \in Nat \ {0} /\ Rows \in Nat /\ Rest \in Nat
      /\ Xfer \in Nat /\ \A m \in Members : Base[m] \in Nat
  BY <1>1, Shape, FanoutOK
<1>3. n \in Nat /\ n <= Xfer /\ n <= geo.stripe - (cur % geo.stripe)
      /\ geo.stripe - (cur % geo.stripe) \in Nat
  <2>1. Capacity \in Nat
    <3>1. Rows * geo.stripe * Cols \in Nat
      BY <1>2, SMT
    <3> QED
      BY <1>2, <3>1 DEF Capacity
  <2>2. PerMemberSectors \in Nat
    BY <1>2, <2>1, DivMod DEF PerMemberSectors
  <2>3. cur % geo.stripe \in 0 .. geo.stripe - 1
    BY <1>1, <1>2, DivMod
  <2>4. geo.stripe - (cur % geo.stripe) \in Nat
    BY <1>2, <2>3, SMT
  <2>5. PerMemberSectors - cur \in Nat
    BY <1>1, <2>2, SMT
  <2> DEFINE a == geo.stripe - (cur % geo.stripe)
             b == PerMemberSectors - cur
  <2>6. n = MinOf(MinOf(Xfer, a), b)
    BY DEF CopyLen
  <2> HIDE DEF a, b, n
  <2>7. n \in Nat /\ n <= Xfer /\ n <= a
    <3>1. Xfer \in Nat /\ a \in Nat /\ b \in Nat
      BY <1>2, <2>4, <2>5 DEF a, b
    <3> QED
      BY <2>6, <3>1, SMT DEF MinOf
  <2> QED
    BY <2>4, <2>7 DEF a
<1>4. /\ logical \in Nat /\ logical % geo.stripe = cur % geo.stripe
      /\ Partner(p) \in Members
      /\ \A m \in {p, Partner(p)} :
           m \in Copies(logical) /\ PhysForMember(m, logical) = cur + Base[m]
  BY <1>1, CursorPlace
<1> HIDE DEF n, logical, p
<1>5. ASSUME NEW i \in 0 .. n - 1, NEW m \in {p, Partner(p)}
      PROVE  /\ i < Xfer /\ m \in Copies(logical + i)
             /\ cur + Base[m] + i = PhysForMember(m, logical + i)
  <2>1. m \in Members /\ Base[m] \in Nat
    BY <1>1, <1>2, <1>4
  <2>2. i \in Nat /\ i < Xfer /\ i < geo.stripe - (logical % geo.stripe)
    <3> DEFINE a == geo.stripe - (cur % geo.stripe)
    <3>1. a \in Nat /\ n <= a /\ geo.stripe - (logical % geo.stripe) = a
      BY <1>3, <1>4
    <3> HIDE DEF a
    <3>2. i \in Nat /\ i < Xfer /\ i < a
      BY <1>2, <1>3, <3>1, SMT
    <3> QED
      BY <3>1, <3>2
  <2>3. /\ Column(logical + i) = Column(logical)
        /\ PhysForMember(m, logical + i) = PhysForMember(m, logical) + i
    BY <1>2, <1>4, <2>1, <2>2, StripInside
  <2>4. m \in Copies(logical + i)
    BY <1>4, <2>3 DEF Copies
  <2> QED
    BY <1>4, <2>2, <2>3, <2>4
<1>6. CopyAligned'
  <2>1. SUFFICES ASSUME NEW i \in 0 .. n - 1
                 PROVE  /\ i < Xfer
                        /\ p \in Copies(logical + i)
                        /\ cur + Base[p] + i = PhysForMember(p, logical + i)
                        /\ cur + Base[Partner(p)] + i = PhysForMember(Partner(p), logical + i)
    <3>1. /\ chunk'.logical = logical /\ chunk'.srv = cur + Base[Partner(p)]
          /\ chunk'.tgt = cur + Base[p] /\ chunk'.nlb = n
      BY <1>1
    <3> QED
      BY <1>1, <3>1 DEF CopyAligned, p, Copies, Members, ColOf, Column, Cols, PhysForMember,
         Partner
  <2> QED
    BY <1>5
<1>7. cur' \in Nat
  BY <1>1, <1>3
<1> QED
  BY <1>6, <1>7

\* It holds at the beginning, when nothing has been copied ...
LEMMA CopyInit ==
  ASSUME FanoutInit
  PROVE  CopyInv
<1>1. chunk.nlb = 0 /\ geo \in Geometries
  BY DEF FanoutInit, Idle
<1>2. CopyAligned
  BY <1>1, SMT DEF CopyAligned
<1>3. CASE InitRequest
  BY <1>1, <1>2, <1>3 DEF CopyInv, InitRequest
<1>4. CASE InitRebuild
  <2>1. wmask \subseteq Members
    BY MasksInside
  <2> QED
    BY <1>1, <1>2, <1>4, <2>1 DEF CopyInv, InitRebuild
<1> QED
  BY <1>3, <1>4 DEF FanoutInit

\* ... and every step keeps it.
LEMMA CopyNext ==
  ASSUME CopyInv, [FanoutNext]_fanoutVars
  PROVE  CopyInv'
<1>1. CASE req.op = "rebuild"
  <2>1. pc \in {"copy", "promoted"}
    BY <1>1 DEF CopyInv
  <2>2. CopyChunk \/ CopyDone \/ UNCHANGED fanoutVars
    BY <2>1 DEF FanoutNext, OutOfBounds, StartWalk, TakeSegment, Strip, EndWalk, Single,
       DiscardSingle, Unexpressible, Submit, DiscardFanout
  <2>3. CASE CopyChunk
    <3>1. UNCHANGED <<geo, req, pc>>
      BY <2>3 DEF CopyChunk
    <3>2. CopyAligned' /\ cur' \in Nat
      BY <1>1, <2>3, ChunkAligned
    <3> QED
      BY <3>1, <3>2 DEF CopyInv, Members
  <2>4. CASE CopyDone \/ UNCHANGED fanoutVars
    <3>1. UNCHANGED <<geo, req, chunk, cur>> /\ pc' \in {pc, "promoted"}
      BY <2>4 DEF CopyDone, fanoutVars
    <3> QED
      BY <3>1 DEF CopyInv, CopyAligned, Members, Copies, ColOf, Column, Cols,
         PhysForMember, Partner
  <2> QED
    BY <2>2, <2>3, <2>4
<1>2. CASE req.op # "rebuild"
  <2>1. UNCHANGED <<geo, req>>
    BY DEF FanoutNext, fanoutVars, OutOfBounds, Refuse, StartWalk, TakeSegment, Strip, EndWalk,
       Single, DiscardSingle, Unexpressible, Submit, DiscardFanout, CopyChunk, CopyDone
  <2> QED
    BY <1>2, <2>1 DEF CopyInv, CopyAligned
<1> QED
  BY <1>1, <1>2

\* A rebuild of a RAID10 volume of any shape copies, at every step, the sectors it
\* announces as its window, from and to the place they have on the two copies.
THEOREM CopiedRight == FanoutSpec => []CopyAligned
<1>1. FanoutInit => CopyInv
  BY CopyInit
<1>2. CopyInv /\ [FanoutNext]_fanoutVars => CopyInv'
  BY CopyNext
<1> QED
  BY <1>1, <1>2, PTL DEF FanoutSpec, CopyInv

-----------------------------------------------------------------------------
(* The layout as a numbering: the sectors of a column, in order.             *)

\* A product grows by at least one factor.
LEMMA Steps ==
  ASSUME NEW d \in Nat \ {0}, NEW a \in Int, NEW b \in Int, a < b
  PROVE  d * a + d <= d * b
<1>1. b - a - 1 \in Nat
  BY SMT
<1>2. d * (b - a - 1) >= 0
  BY <1>1, SMT
<1>3. d * (b - a - 1) = d * b - d * a - d
  BY SMT
<1> QED
  BY <1>2, <1>3, SMT

\* Numbers are ordered by their quotients, then by their remainders.
LEMMA Lexical ==
  ASSUME NEW d \in Nat \ {0}, NEW u \in Int, NEW v \in Int,
         NEW b \in 0 .. d - 1, NEW o \in 0 .. d - 1
  PROVE  d * u + b < d * v + o <=> u < v \/ (u = v /\ b < o)
<1>0. d * u \in Int /\ d * v \in Int
  BY SMT
<1>1. CASE u < v
  <2>1. d * u + d <= d * v
    BY <1>1, Steps
  <2> QED
    BY <1>0, <1>1, <2>1, SMT
<1>2. CASE v < u
  <2>1. d * v + d <= d * u
    BY <1>2, Steps
  <2> QED
    BY <1>0, <1>2, <2>1, SMT
<1>3. CASE u = v
  BY <1>0, <1>3, SMT
<1> QED
  BY <1>1, <1>2, <1>3, SMT

\* The sector of column c that has j others before it.
Nth(c, j) == geo.stripe * (Cols * (j \div geo.stripe) + c) + (j % geo.stripe)

\* It lies in the column, and its address says that it is that one.
LEMMA NthPlace ==
  ASSUME geo \in Geometries, NEW c \in 0 .. Cols - 1, NEW j \in Nat
  PROVE  /\ Nth(c, j) \in Nat /\ Column(Nth(c, j)) = c
         /\ Nth(c, j) \div geo.stripe = Cols * (j \div geo.stripe) + c
         /\ Nth(c, j) % geo.stripe = j % geo.stripe
         /\ Below(c, Nth(c, j)) = j
<1> DEFINE S == geo.stripe
           C == Cols
           a == j \div S
           b == j % S
           k == C * a + c
<1>1. S \in Nat \ {0} /\ C \in Nat \ {0}
  BY Shape
<1>2. a \in Nat /\ b \in 0 .. S - 1 /\ j = S * a + b
  BY <1>1, DivMod
<1>3. Nth(c, j) = S * k + b
  BY DEF Nth
<1> HIDE DEF S, C, a, b
<1>4. k \in Nat
  <2>1. C * a \in Nat
    BY <1>1, <1>2, SMT
  <2> QED
    BY <1>1, <2>1, SMT DEF C
<1> HIDE DEF k
<1>5. (S * k + b) \div S = k /\ (S * k + b) % S = b
  BY <1>1, <1>2, <1>4, DivUnique
<1>6. k \div C = a /\ k % C = c
  BY <1>1, <1>2, DivUnique DEF k, C
<1>7. S * k + b \in Nat
  <2>1. S * k \in Nat
    BY <1>1, <1>4, SMT
  <2> QED
    BY <1>1, <1>2, <2>1, SMT
<1>8. Column(Nth(c, j)) = c
  BY <1>3, <1>5, <1>6 DEF Column, S, C
<1>9. Below(c, Nth(c, j)) = a * S + b
  <2>1. Nth(c, j) \div S = k /\ Nth(c, j) % S = b
    BY <1>3, <1>5
  <2>2. c \in Int
    BY SMT
  <2> QED
    BY <1>6, <1>8, <2>1, <2>2 DEF Below, S, C
<1>10. a * S + b = j
  BY <1>1, <1>2, SMT
<1> QED
  BY <1>3, <1>5, <1>7, <1>8, <1>9, <1>10 DEF S, C, a, b, k

\* There is no other in the column.
LEMMA EveryNth ==
  ASSUME geo \in Geometries, NEW x \in Nat
  PROVE  Below(Column(x), x) \in Nat /\ x = Nth(Column(x), Below(Column(x), x))
<1> DEFINE S == geo.stripe
           C == Cols
           k == x \div S
           o == x % S
           q == k \div C
           r == k % C
           j == q * S + o
<1>1. S \in Nat \ {0} /\ C \in Nat \ {0}
  BY Shape
<1>2. k \in Nat /\ o \in 0 .. S - 1 /\ x = S * k + o
  BY <1>1, DivMod
<1>3. q \in Nat /\ r \in 0 .. C - 1 /\ k = C * q + r
  BY <1>1, <1>2, DivMod
<1>4. Column(x) = r /\ Below(r, x) = j
  <2>1. Column(x) = r
    BY DEF Column
  <2>2. r \in Int
    BY <1>1, <1>3, SMT
  <2> QED
    BY <2>1, <2>2 DEF Below
<1>5. Nth(r, j) = S * (C * (j \div S) + r) + (j % S)
  BY DEF Nth
<1> HIDE DEF S, C, k, o, q, r
<1>6. j = S * q + o /\ j \in Nat
  <2>1. S * q \in Nat /\ q * S = S * q
    BY <1>1, <1>3, SMT
  <2> QED
    BY <1>1, <1>2, <2>1, SMT
<1>7. j \div S = q /\ j % S = o
  <2> HIDE DEF j
  <2>1. (S * q + o) \div S = q /\ (S * q + o) % S = o
    BY <1>1, <1>2, <1>3, DivUnique
  <2> QED
    BY <1>6, <2>1
<1> QED
  BY <1>2, <1>3, <1>4, <1>5, <1>6, <1>7

\* The sectors of a column before sector x are the first ones of the column, and
\* Below counts them.
LEMMA NthBefore ==
  ASSUME geo \in Geometries, NEW c \in 0 .. Cols - 1, NEW j \in Nat, NEW x \in Nat
  PROVE  Nth(c, j) < x <=> j < Below(c, x)
<1> DEFINE S == geo.stripe
           C == Cols
           a == j \div S
           b == j % S
           k == x \div S
           o == x % S
           q == k \div C
           r == k % C
<1>1. S \in Nat \ {0} /\ C \in Nat \ {0}
  BY Shape
<1>2. a \in Nat /\ b \in 0 .. S - 1 /\ j = S * a + b
  BY <1>1, DivMod
<1>3. k \in Nat /\ o \in 0 .. S - 1 /\ x = S * k + o
  BY <1>1, DivMod
<1>4. q \in Nat /\ r \in 0 .. C - 1 /\ k = C * q + r
  BY <1>1, <1>3, DivMod
<1>5. Nth(c, j) = S * (C * a + c) + b
  BY DEF Nth
<1>6. Below(c, x) = q * S + (IF r > c THEN S ELSE IF r = c THEN o ELSE 0)
  BY DEF Below, Column
<1>7. c \in 0 .. C - 1
  OBVIOUS
<1> HIDE DEF S, C, a, b, k, o, q, r
<1>8. C * a + c \in Int
  BY <1>1, <1>2, <1>7, SMT
<1>9. Nth(c, j) < x <=> C * a + c < k \/ (C * a + c = k /\ b < o)
  BY <1>1, <1>2, <1>3, <1>5, <1>8, Lexical
<1>10. C * a + c < k <=> a < q \/ (a = q /\ c < r)
  BY <1>1, <1>2, <1>4, <1>7, Lexical
<1>11. C * a + c = k <=> a = q /\ c = r
  <2>1. C * q + r < C * a + c <=> q < a \/ (q = a /\ r < c)
    BY <1>1, <1>2, <1>4, <1>7, Lexical
  <2> QED
    BY <1>1, <1>2, <1>3, <1>4, <1>7, <1>8, <1>10, <2>1, SMT
<1>12. S * a + b < S * q + o <=> a < q \/ (a = q /\ b < o)
  BY <1>1, <1>2, <1>3, <1>4, Lexical
<1>13. S * a + b < S * q + 0 <=> a < q \/ (a = q /\ b < 0)
  <2>1. 0 \in 0 .. S - 1
    BY <1>1, SMT
  <2> QED
    BY <1>1, <1>2, <1>4, <2>1, Lexical
<1>14. S * a + b < S * (q + 1) + 0 <=> a < q + 1 \/ (a = q + 1 /\ b < 0)
  <2>1. 0 \in 0 .. S - 1 /\ q + 1 \in Int
    BY <1>1, <1>4, SMT
  <2> QED
    BY <1>1, <1>2, <2>1, Lexical
<1>15. q * S = S * q /\ S * (q + 1) = S * q + S /\ S * q \in Int
  BY <1>1, <1>4, SMT
<1> QED
  <2>1. a \in Int /\ q \in Int /\ b \in Int /\ b >= 0 /\ o \in Int /\ r \in Int /\ c \in Int
    BY <1>1, <1>2, <1>3, <1>4, <1>7, SMT
  <2>2. CASE r > c
    <3>1. Below(c, x) = S * (q + 1) + 0 /\ j = S * a + b /\ b \in Nat
      BY <1>1, <1>2, <1>6, <1>15, <2>1, <2>2, SMT
    <3>2. j < Below(c, x) <=> a < q + 1
      BY <1>14, <2>1, <3>1, SMT
    <3> QED
      BY <1>9, <1>10, <1>11, <2>1, <2>2, <3>2, SMT
  <2>3. CASE r = c
    <3>1. j < Below(c, x) <=> a < q \/ (a = q /\ b < o)
      BY <1>2, <1>6, <1>12, <1>15, <2>1, <2>3, SMT
    <3> QED
      BY <1>9, <1>10, <1>11, <2>1, <2>3, <3>1, SMT
  <2>4. CASE r < c
    <3>1. j < Below(c, x) <=> a < q
      BY <1>2, <1>6, <1>13, <1>15, <2>1, <2>4, SMT
    <3> QED
      BY <1>9, <1>10, <1>11, <2>1, <2>4, <3>1, SMT
  <2> QED
    BY <2>1, <2>2, <2>3, <2>4, SMT

\* How many sectors of a column come before an address is a number.
LEMMA BelowIsNat ==
  ASSUME geo \in Geometries, NEW x \in Nat, NEW c
  PROVE  Below(c, x) \in Nat
<1>1. geo.stripe \in Nat \ {0} /\ Cols \in Nat \ {0}
  BY Shape
<1>2. x \div geo.stripe \in Nat /\ x % geo.stripe \in 0 .. geo.stripe - 1
  BY <1>1, DivMod
<1>3. (x \div geo.stripe) \div Cols \in Nat
  BY <1>1, <1>2, DivMod
<1>4. ((x \div geo.stripe) \div Cols) * geo.stripe \in Nat
  BY <1>1, <1>3, SMT
<1>5. x % geo.stripe \in Nat
  BY <1>1, <1>2, SMT
<1>6. Below(c, x) \in {((x \div geo.stripe) \div Cols) * geo.stripe + geo.stripe,
                      ((x \div geo.stripe) \div Cols) * geo.stripe + (x % geo.stripe),
                      ((x \div geo.stripe) \div Cols) * geo.stripe + 0}
  BY DEF Below
<1> QED
  BY <1>1, <1>4, <1>5, <1>6, SMT

\* Below(c, x) is indeed how many sectors of column c lie before x: the numbering
\* of the column counts them.
LEMMA BelowCounts ==
  ASSUME geo \in Geometries, NEW c \in 0 .. Cols - 1, NEW x \in Nat
  PROVE  Cardinality({y \in 0 .. x - 1 : Column(y) = c}) = Below(c, x)
<1> DEFINE n == Below(c, x)
           T == {y \in 0 .. x - 1 : Column(y) = c}
           f == [i \in 1 .. n |-> Nth(c, i - 1)]
<1>1. n \in Nat
  BY BelowIsNat
<1>2. ASSUME NEW i \in 1 .. n
      PROVE  Nth(c, i - 1) \in T /\ Below(c, Nth(c, i - 1)) = i - 1
  <2>1. i - 1 \in Nat /\ i - 1 < Below(c, x)
    BY <1>1, SMT
  <2>2. Nth(c, i - 1) \in Nat /\ Column(Nth(c, i - 1)) = c /\ Below(c, Nth(c, i - 1)) = i - 1
    BY <2>1, NthPlace
  <2>3. Nth(c, i - 1) < x
    BY <2>1, NthBefore
  <2>4. Nth(c, i - 1) \in 0 .. x - 1
    BY <2>2, <2>3, SMT
  <2> QED
    BY <2>2, <2>4
<1>3. ASSUME NEW y \in T
      PROVE  \E i \in 1 .. n : Nth(c, i - 1) = y
  <2>1. y \in Nat /\ y < x /\ Column(y) = c
    BY <1>3, SMT
  <2>2. Below(c, y) \in Nat /\ y = Nth(c, Below(c, y))
    BY <2>1, EveryNth
  <2>3. Below(c, y) < n
    BY <2>1, <2>2, NthBefore
  <2> DEFINE i == Below(c, y) + 1
  <2>4. i \in 1 .. n /\ i - 1 = Below(c, y)
    BY <1>1, <2>2, <2>3, SMT
  <2> QED
    BY <2>2, <2>4
<1>4. f \in [1 .. n -> T] /\ \A i \in 1 .. n : f[i] = Nth(c, i - 1)
  BY <1>2
<1> HIDE DEF f, n, T
<1>5. \A i, j \in 1 .. n : f[i] = f[j] => i = j
  <2>1. ASSUME NEW i \in 1 .. n, NEW j \in 1 .. n, f[i] = f[j]
        PROVE  i = j
    <3>1. i - 1 = j - 1
      BY <1>2, <1>4, <2>1
    <3> QED
      BY <1>1, <3>1, SMT
  <2> QED
    BY <2>1
<1>6. \A y \in T : \E i \in 1 .. n : f[i] = y
  BY <1>3, <1>4
<1>7. f \in Bijection(1 .. n, T)
  BY <1>4, <1>5, <1>6 DEF Bijection, Injection, Surjection, IsInjective
<1>8. ExistsBijection(1 .. n, T)
  BY <1>7 DEF ExistsBijection
<1>9. Cardinality(T) = n
  BY <1>1, <1>8, FS_CountingElements
<1> QED
  BY <1>9 DEF T, n

\* The maps agree at every sector.
LEMMA MapsAgree ==
  ASSUME geo \in Geometries, cur \in Nat
  PROVE  MapPacked
<1> DEFINE x == cur
           S == geo.stripe
           c == Column(x)
<1>1. /\ S \in Nat \ {0} /\ Cols \in Nat \ {0}
      /\ geo.level \in {"RAID0", "RAID10"} /\ geo.level = "RAID10" => geo.nm = 2 * Cols
  BY Shape
<1>2. SUFFICES ASSUME NEW m \in Copies(x)
               PROVE  /\ PhysForMember(m, x) - Base[m] = Cardinality({y \in 0 .. x - 1 : Column(y) = c})
                      /\ geo.level = "RAID10" =>
                           /\ ColOf(NestedMember(x, geo.nm)) = ColOf(m)
                           /\ NestedLba(x, geo.nm) = PhysForMember(m, x) - Base[m]
  BY DEF MapPacked
<1>3. m \in Members /\ ColOf(m) = c /\ Base[m] \in Nat /\ PhysForMember(m, x) \in Nat
      /\ c \in 0 .. Cols - 1
  <2>1. m \in Members /\ ColOf(m) = c
    BY <1>2 DEF Copies
  <2> QED
    BY <2>1, Shape, Numbers
<1>4. PhysForMember(m, x) - Base[m] = Below(c, x)
  <2>1. PhysForMember(m, x) = Below(c, x) + Base[m] /\ Below(c, x) \in Int
    BY <1>1, PhysIsBelow, BelowIsInt
  <2> QED
    BY <1>3, <2>1, SMT
<1>5. Cardinality({y \in 0 .. x - 1 : Column(y) = c}) = Below(c, x)
  BY <1>3, BelowCounts
<1>6. ASSUME geo.level = "RAID10"
      PROVE  /\ ColOf(NestedMember(x, geo.nm)) = c
             /\ NestedLba(x, geo.nm) = Below(c, x)
  <2>1. geo.nm \div 2 = Cols
    BY <1>6 DEF Cols
  <2>2. NestedMember(x, geo.nm) = 2 * c
    BY <2>1 DEF NestedMember, Column
  <2>3. (2 * c) \div 2 = c
    BY <1>1, <1>3, SMT
  <2>4. Below(c, x) = ((x \div S) \div Cols) * S + (x % S)
    <3>1. c \in Int
      BY <1>1, <1>3, SMT
    <3> QED
      BY <3>1 DEF Below
  <2> QED
    BY <1>6, <2>1, <2>2, <2>3, <2>4 DEF ColOf, NestedLba
<1> QED
  BY <1>3, <1>4, <1>5, <1>6

-----------------------------------------------------------------------------
(* What a rebuild has copied.                                                *)

\* A capacity of whole rows gives every column the same share.
LEMMA Shares ==
  ASSUME Rest = 0, geo \in Geometries, NEW c \in 0 .. Cols - 1
  PROVE  Capacity \in Nat /\ Below(c, Capacity) = PerMemberSectors /\ PerMemberSectors \in Nat
<1> DEFINE S == geo.stripe
           C == Cols
           K == Capacity
<1>1. S \in Nat \ {0} /\ C \in Nat \ {0} /\ Rows \in Nat
  BY Shape, FanoutOK
<1>2. K = Rows * S * C + Rest
  BY DEF Capacity
<1>3. PerMemberSectors = K \div C
  BY DEF PerMemberSectors
<1>4. Below(c, K) = ((K \div S) \div C) * S
                      + (IF (K \div S) % C > c THEN S ELSE IF (K \div S) % C = c THEN K % S ELSE 0)
  BY DEF Below, Column
<1>5. c \in Int /\ c >= 0
  BY SMT
<1> HIDE DEF S, C, K
<1>6. 0 \in 0 .. S - 1 /\ 0 \in 0 .. C - 1
  BY <1>1, SMT
<1>7. Rows * S \in Nat /\ C * Rows \in Nat
  BY <1>1, SMT
<1>8. K = S * (C * Rows) + 0 /\ K = C * (Rows * S) + 0
  <2>1. Rows * S * C = S * (C * Rows) /\ Rows * S * C = C * (Rows * S)
    BY <1>1, SMT
  <2>2. S * (C * Rows) \in Int
    BY <1>1, <1>7, SMT
  <2> QED
    BY <1>2, <2>1, <2>2, SMT
<1>9. K \div S = C * Rows /\ K % S = 0
  BY <1>1, <1>6, <1>7, <1>8, DivUnique
<1>10. (C * Rows + 0) \div C = Rows /\ (C * Rows + 0) % C = 0
  BY <1>1, <1>6, DivUnique
<1>11. C * Rows + 0 = C * Rows
  BY <1>7, SMT
<1>12. K \div C = Rows * S
  BY <1>1, <1>6, <1>7, <1>8, DivUnique
<1>13. K \in Nat
  <2>1. S * (C * Rows) \in Nat
    BY <1>1, <1>7, SMT
  <2> QED
    BY <1>8, <2>1, SMT
<1>14. Below(c, K) = Rows * S
  BY <1>1, <1>4, <1>5, <1>7, <1>9, <1>10, <1>11, SMT
<1> QED
  BY <1>3, <1>7, <1>12, <1>13, <1>14 DEF K

\* Every sector of the column that comes before the cursor has been copied.
CopiedInv ==
  /\ req.op = "rebuild" => \A j \in Nat : j < cur => Nth(req.pos \div 2, j) \in copied
  /\ pc = "promoted" => cur >= PerMemberSectors
  /\ req.op # "rebuild" => pc \notin {"copy", "promoted"}

\* Inside a strip the numbering advances with the sectors.
LEMMA NthAdvance ==
  ASSUME geo \in Geometries, NEW c \in 0 .. Cols - 1, NEW j \in Nat, NEW i \in Nat,
         i < geo.stripe - (j % geo.stripe)
  PROVE  Nth(c, j + i) = Nth(c, j) + i
<1> DEFINE S == geo.stripe
           k == S * (Cols * (j \div S) + c)
<1>1. S \in Nat \ {0} /\ Cols \in Nat \ {0}
  BY Shape
<1>2. (j + i) \div S = j \div S /\ (j + i) % S = (j % S) + i
  BY <1>1, Within
<1>3. j \div S \in Nat /\ j % S \in 0 .. S - 1
  BY <1>1, DivMod
<1>4. k \in Int
  <2>1. Cols * (j \div S) \in Int /\ c \in Int
    BY <1>1, <1>3, SMT
  <2>2. Cols * (j \div S) + c \in Int
    BY <2>1, SMT
  <2> QED
    BY <1>1, <2>2, SMT
<1>5. Nth(c, j) = k + (j % S) /\ Nth(c, j + i) = k + ((j % S) + i)
  BY <1>2 DEF Nth
<1>6. j % S \in Int
  BY <1>1, <1>3, SMT
<1> HIDE DEF S, k
<1> QED
  BY <1>4, <1>5, <1>6, SMT

\* The length of a copy.
LEMMA CopyLenOk ==
  ASSUME geo \in Geometries, cur \in Nat, cur < PerMemberSectors
  PROVE  CopyLen \in Nat /\ CopyLen <= geo.stripe - (cur % geo.stripe)
         /\ geo.stripe - (cur % geo.stripe) \in Nat
<1> DEFINE a == geo.stripe - (cur % geo.stripe)
           b == PerMemberSectors - cur
<1>1. geo.stripe \in Nat \ {0} /\ Cols \in Nat \ {0} /\ Rows \in Nat /\ Rest \in Nat
      /\ Xfer \in Nat
  BY Shape, FanoutOK
<1>2. Capacity \in Nat
  <2>1. Rows * geo.stripe * Cols \in Nat
    BY <1>1, SMT
  <2> QED
    BY <1>1, <2>1 DEF Capacity
<1>3. PerMemberSectors \in Nat
  BY <1>1, <1>2, DivMod DEF PerMemberSectors
<1>4. cur % geo.stripe \in 0 .. geo.stripe - 1
  BY <1>1, DivMod
<1>5. a \in Nat /\ b \in Nat
  BY <1>1, <1>3, <1>4, SMT
<1>6. CopyLen = MinOf(MinOf(Xfer, a), b)
  BY DEF CopyLen
<1> HIDE DEF a, b
<1>7. CopyLen \in Nat /\ CopyLen <= a
  BY <1>1, <1>5, <1>6, SMT DEF MinOf
<1> QED
  BY <1>5, <1>7 DEF a

\* A chunk goes on where the last one ended.
LEMMA ChunkCopied ==
  ASSUME CopyInv, CopiedInv, CopyChunk
  PROVE  CopiedInv'
<1> DEFINE c == req.pos \div 2
           n == CopyLen
           logical == (cur \div geo.stripe) * (geo.stripe * Cols)
                        + (req.pos \div 2) * geo.stripe + (cur % geo.stripe)
<1>1. /\ pc = "copy" /\ pc' = "copy" /\ cur < PerMemberSectors /\ UNCHANGED <<geo, req>>
      /\ cur' = cur + n /\ copied' = copied \cup (logical .. logical + n - 1)
  BY DEF CopyChunk
<1>2. req.op = "rebuild"
  BY <1>1 DEF CopiedInv
<1>3. geo \in Geometries /\ geo.level = "RAID10" /\ req.pos \in Members /\ cur \in Nat
  BY <1>2 DEF CopyInv
<1>4. /\ geo.stripe \in Nat \ {0} /\ Cols \in Nat \ {0} /\ c \in 0 .. Cols - 1
  BY <1>3, Shape DEF ColOf
<1>5. n \in Nat /\ n <= geo.stripe - (cur % geo.stripe) /\ geo.stripe - (cur % geo.stripe) \in Nat
  BY <1>1, <1>3, CopyLenOk
<1>6. logical = Nth(c, cur)
  <2> DEFINE S == geo.stripe
             q == cur \div S
             r == cur % S
  <2>1. q \in Nat /\ r \in 0 .. S - 1
    BY <1>3, <1>4, DivMod
  <2>2. logical = q * (S * Cols) + c * S + r /\ Nth(c, cur) = S * (Cols * q + c) + r
    BY DEF Nth
  <2> HIDE DEF S, q, r, c, logical
  <2>3. S \in Nat /\ Cols \in Nat /\ c \in Nat /\ r \in Nat
    BY <1>4, <2>1, SMT DEF S
  <2>4. q * (S * Cols) = S * (Cols * q) /\ c * S = S * c /\ Cols * q \in Nat
    BY <2>1, <2>3, SMT
  <2>5. S * (Cols * q + c) = S * (Cols * q) + S * c
    BY <2>3, <2>4, SMT
  <2> QED
    BY <2>2, <2>4, <2>5
<1>7. logical \in Nat
  BY <1>3, <1>4, <1>6, NthPlace
<1> HIDE DEF c, n, logical
<1>8. ASSUME NEW j \in Nat, j < cur + n
      PROVE  Nth(c, j) \in copied'
  <2>1. CASE j < cur
    BY <1>1, <1>2, <2>1 DEF CopiedInv, c
  <2>2. CASE j >= cur
    <3> DEFINE i == j - cur
    <3>1. i \in Nat /\ i < n /\ j = cur + i
      BY <1>3, <1>5, <1>8, <2>2, SMT
    <3>2. i < geo.stripe - (cur % geo.stripe)
      BY <1>5, <3>1, SMT
    <3> HIDE DEF i
    <3>3. Nth(c, j) = logical + i
      BY <1>3, <1>4, <1>6, <3>1, <3>2, NthAdvance
    <3>4. Nth(c, j) \in logical .. logical + n - 1
      BY <1>5, <1>7, <3>1, <3>3, SMT
    <3> QED
      BY <1>1, <3>4
  <2> QED
    BY <1>3, <2>1, <2>2, SMT
<1>9. \A j : (Nth(req.pos \div 2, j))' = Nth(req.pos \div 2, j)
  BY <1>1 DEF Nth, Cols
<1>10. \A j \in Nat : j < cur' => (Nth(req.pos \div 2, j))' \in copied'
  BY <1>1, <1>8, <1>9 DEF c
<1> QED
  BY <1>1, <1>2, <1>10 DEF CopiedInv

\* Nothing else copies, and a member is only promoted behind the end.
LEMMA CopiedNext ==
  ASSUME CopyInv, CopiedInv, [FanoutNext]_fanoutVars
  PROVE  CopiedInv'
<1>1. CASE CopyChunk
  BY <1>1, ChunkCopied
<1>2. CASE CopyDone
  <2>1. UNCHANGED <<geo, req, cur, copied>> /\ cur >= PerMemberSectors /\ pc = "copy"
    BY <1>2 DEF CopyDone
  <2>2. PerMemberSectors' = PerMemberSectors /\ \A c, j : (Nth(c, j))' = Nth(c, j)
    BY <2>1 DEF PerMemberSectors, Capacity, Cols, Nth
  <2> QED
    BY <2>1, <2>2 DEF CopiedInv
<1>3. CASE ~CopyChunk /\ ~CopyDone
  <2>1. UNCHANGED <<geo, req, copied>>
        /\ (UNCHANGED <<pc, cur>> \/ (pc \notin {"copy", "promoted"} /\ pc' \notin {"copy", "promoted"}))
    BY <1>3 DEF FanoutNext, fanoutVars, OutOfBounds, Refuse, StartWalk, TakeSegment, Strip, EndWalk,
       Single, DiscardSingle, Unexpressible, Submit, DiscardFanout
  <2>2. PerMemberSectors' = PerMemberSectors /\ \A c, j : (Nth(c, j))' = Nth(c, j)
    BY <2>1 DEF PerMemberSectors, Capacity, Cols, Nth
  <2>3. req.op = "rebuild" => pc \in {"copy", "promoted"}
    BY DEF CopyInv
  <2> QED
    BY <2>1, <2>2, <2>3 DEF CopiedInv
<1> QED
  BY <1>1, <1>2, <1>3

\* What a promotion finds.
LEMMA NoneLeftOut ==
  ASSUME Rest = 0, CopyInv, CopiedInv
  PROVE  CopyComplete
<1>1. SUFFICES ASSUME pc = "promoted", NEW x \in 0 .. Capacity - 1, req.pos \in Copies(x)
               PROVE  x \in copied
  BY DEF CopyComplete
<1> DEFINE c == Column(x)
<1>2. req.op = "rebuild" /\ geo \in Geometries /\ geo.level = "RAID10" /\ cur \in Nat
      /\ cur >= PerMemberSectors
  BY <1>1 DEF CopyInv, CopiedInv
<1>3. c = req.pos \div 2 /\ c \in 0 .. Cols - 1
  <2>1. c = ColOf(req.pos) /\ req.pos \in Members
    BY <1>1 DEF Copies
  <2> QED
    BY <1>2, <2>1, Shape DEF ColOf
<1>4. /\ Capacity \in Nat /\ Below(c, Capacity) = PerMemberSectors
      /\ PerMemberSectors \in Nat
  BY <1>2, <1>3, Shares
<1>5. x \in Nat /\ x < Capacity
  BY <1>1, <1>4, SMT
<1>6. Below(c, x) \in Nat /\ x = Nth(c, Below(c, x))
  BY <1>2, <1>5, EveryNth
<1>7. Below(c, x) < PerMemberSectors
  BY <1>2, <1>3, <1>4, <1>5, <1>6, NthBefore
<1>8. Below(c, x) < cur
  BY <1>2, <1>4, <1>6, <1>7, SMT
<1> QED
  BY <1>2, <1>3, <1>6, <1>8 DEF CopiedInv

-----------------------------------------------------------------------------
(* The closed formula of the discards.                                       *)

\* The first stripe of a column from pos on, and the address of its first sector
\* there: as many sectors as the column has before pos.
LEMMA FirstIs ==
  ASSUME geo \in Geometries, NEW c \in 0 .. Cols - 1, req.pos \in Nat
  PROVE  \E F \in Nat :
           /\ FirstOwned(c) = Cols * F + c /\ FirstOwned(c) \div Cols = F
           /\ Below(c, req.pos) =
                F * geo.stripe + (IF FirstOwned(c) = req.pos \div geo.stripe
                                  THEN req.pos % geo.stripe ELSE 0)
           /\ req.pos \div geo.stripe <= FirstOwned(c)
<1> DEFINE S == geo.stripe
           C == Cols
           k == req.pos \div S
           o == req.pos % S
           q == k \div C
           r == k % C
           FO == FirstOwned(c)
<1>1. S \in Nat \ {0} /\ C \in Nat \ {0}
  BY Shape
<1>2. k \in Nat /\ o \in 0 .. S - 1
  BY <1>1, DivMod
<1>3. q \in Nat /\ r \in 0 .. C - 1 /\ k = C * q + r
  BY <1>1, <1>2, DivMod
<1>4. FO = k + ((c + C - r) % C)
  BY DEF FirstOwned
<1>5. Below(c, req.pos) = q * S + (IF r > c THEN S ELSE IF r = c THEN o ELSE 0)
  BY DEF Below, Column
<1>6. c \in 0 .. C - 1
  OBVIOUS
<1>7. SUFFICES \E F \in Nat : /\ FO = C * F + c /\ FO \div C = F
                              /\ Below(c, req.pos) = F * S + (IF FO = k THEN o ELSE 0)
                              /\ k <= FO
  OBVIOUS
<1> HIDE DEF S, C, k, o, q, r, FO
<1>8. q * S \in Nat /\ C * q \in Nat /\ (q + 1) * S = q * S + S /\ C * (q + 1) = C * q + C
  BY <1>1, <1>3, SMT
<1>9. CASE r <= c
  <2>1. c - r \in 0 .. C - 1 /\ c + C - r = C * 1 + (c - r)
    BY <1>1, <1>3, <1>6, <1>9, SMT
  <2>2. (C * 1 + (c - r)) % C = c - r
    BY <1>1, <2>1, DivUnique
  <2>3. FO = C * q + c
    BY <1>1, <1>3, <1>4, <1>6, <1>8, <2>1, <2>2, SMT
  <2>4. (C * q + c) \div C = q
    BY <1>1, <1>3, <1>6, DivUnique
  <2>5. FO = k <=> r = c
    BY <1>3, <1>6, <1>8, <2>3, SMT
  <2>6. k <= FO
    BY <1>3, <1>6, <1>8, <1>9, <2>3, SMT
  <2>7. Below(c, req.pos) = q * S + (IF FO = k THEN o ELSE 0)
    BY <1>1, <1>3, <1>5, <1>6, <1>9, <2>5, SMT
  <2> QED
    BY <1>3, <2>3, <2>4, <2>6, <2>7
<1>10. CASE r > c
  <2>1. c + C - r \in 0 .. C - 1 /\ c + C - r = C * 0 + (c + C - r)
    BY <1>1, <1>3, <1>6, <1>10, SMT
  <2>2. (C * 0 + (c + C - r)) % C = c + C - r
    BY <1>1, <2>1, DivUnique
  <2>3. FO = C * (q + 1) + c
    BY <1>1, <1>3, <1>4, <1>6, <1>8, <2>1, <2>2, SMT
  <2>a. q + 1 \in Nat
    BY <1>3, SMT
  <2>b. (C * (q + 1) + c) \div C = q + 1
    BY <1>1, <1>6, <2>a, DivUnique
  <2>4. q + 1 \in Nat /\ (C * (q + 1) + c) \div C = q + 1
    BY <2>a, <2>b
  <2>5. FO # k /\ k <= FO
    BY <1>1, <1>3, <1>6, <1>8, <2>3, SMT
  <2>6. Below(c, req.pos) = (q + 1) * S + 0
    BY <1>1, <1>3, <1>5, <1>6, <1>8, <1>10, SMT
  <2> QED
    BY <2>3, <2>4, <2>5, <2>6
<1> QED
  BY <1>1, <1>3, <1>6, <1>9, <1>10, SMT

\* What a column has before the end of the request.
LEMMA EndBelow ==
  ASSUME geo \in Geometries, NEW c \in 0 .. Cols - 1, req.pos \in Nat, req.nr \in Nat, req.nr > 0
  PROVE  \E q, r, o \in Nat :
           /\ r \in 0 .. Cols - 1 /\ LastStripe = Cols * q + r
           /\ o = (End - 1) % geo.stripe /\ o <= geo.stripe - 1
           /\ End \in Nat
           /\ Below(c, End) = q * geo.stripe
                + (IF r > c THEN geo.stripe ELSE IF r = c THEN o + 1 ELSE 0)
<1> DEFINE S == geo.stripe
           C == Cols
           x == End - 1
           k == x \div S
           o == x % S
           q == k \div C
           r == k % C
<1>1. S \in Nat \ {0} /\ C \in Nat \ {0}
  BY Shape
<1>2. x \in Nat /\ End = x + 1 /\ End \in Nat
  BY SMT DEF End
<1>3. k \in Nat /\ o \in 0 .. S - 1
  BY <1>1, <1>2, DivMod
<1>4. q \in Nat /\ r \in 0 .. C - 1 /\ k = C * q + r
  BY <1>1, <1>3, DivMod
<1>5. Below(c, x) = q * S + (IF r > c THEN S ELSE IF r = c THEN o ELSE 0) /\ Column(x) = r
  BY DEF Below, Column
<1>6. Below(c, x + 1) = Below(c, x) + (IF c = Column(x) THEN 1 ELSE 0)
  <2>1. 1 <= S - (x % S)
    BY <1>1, <1>3, SMT
  <2> HIDE DEF x
  <2> QED
    BY <1>1, <1>2, <2>1, StripAdvance
<1>7. LastStripe = k
  BY DEF LastStripe
<1> HIDE DEF S, C, x, k, o, q, r
<1>8. q * S \in Nat
  BY <1>1, <1>4, SMT
<1>9. Below(c, End) = q * S + (IF r > c THEN S ELSE IF r = c THEN o + 1 ELSE 0)
  <2>1. c \in Int /\ r \in Int /\ o \in Int /\ S \in Int
    BY <1>1, <1>3, <1>4, SMT
  <2> QED
    BY <1>2, <1>5, <1>6, <1>8, <2>1, SMT
<1>10. o \in Nat /\ r \in Nat /\ o <= S - 1
  BY <1>1, <1>3, <1>4, SMT
<1> QED
  BY <1>2, <1>4, <1>7, <1>9, <1>10 DEF S, C, x, o

\* The range of a discard on a member is the interval of its column between the two,
\* and a member without a stripe in the request has nothing between them.
LEMMA DiscardInterval ==
  ASSUME geo \in Geometries, NEW m \in Members,
         req.pos \in Nat, req.nr \in Nat, req.nr > 0
  PROVE  LET c == ColOf(m) IN
         /\ Below(c, req.pos) \in Nat /\ Below(c, End) \in Nat
         /\ FirstOwned(c) <= LastStripe =>
              /\ DiscardRange(m).slba = Below(c, req.pos) + Base[m]
              /\ DiscardRange(m).nlb = Below(c, End) - Below(c, req.pos)
         /\ ~(FirstOwned(c) <= LastStripe) => Below(c, End) <= Below(c, req.pos)
<1> DEFINE c == ColOf(m)
           S == geo.stripe
           C == Cols
           FO == FirstOwned(c)
           LS == LastStripe
           LO == LastOwned(c)
           from == IF FO = req.pos \div S THEN req.pos % S ELSE 0
           to == IF LO = LS THEN (End - 1) % S ELSE S - 1
           lo == Below(c, req.pos)
           hi == Below(c, End)
<1>1. S \in Nat \ {0} /\ C \in Nat \ {0} /\ Base[m] \in Nat /\ c \in 0 .. C - 1
  BY Shape
<1>2. PICK F \in Nat : /\ FO = C * F + c /\ FO \div C = F /\ lo = F * S + from
                       /\ req.pos \div S <= FO
  BY <1>1, FirstIs
<1>3. PICK q, r, o \in Nat :
           /\ r \in 0 .. C - 1 /\ LS = C * q + r
           /\ o = (End - 1) % S /\ o <= S - 1 /\ End \in Nat
           /\ hi = q * S + (IF r > c THEN S ELSE IF r = c THEN o + 1 ELSE 0)
  BY <1>1, EndBelow
<1>4. from \in 0 .. S - 1
  <2>a. req.pos % S \in 0 .. S - 1
    BY <1>1, DivMod
  <2>b. 0 \in 0 .. S - 1
    BY <1>1, SMT
  <2>1. req.pos % S \in 0 .. S - 1 /\ 0 \in 0 .. S - 1
    BY <2>a, <2>b
  <2> QED
    BY <2>1
<1>5. LO = FO + ((LS - FO) \div C) * C
  BY DEF LastOwned
<1>6. DiscardRange(m) = [slba |-> (FO \div C) * S + from + Base[m],
                         nlb |-> (LO \div C - FO \div C) * S + to - from + 1]
  BY DEF DiscardRange
<1>7. lo \in Nat /\ hi \in Nat
  BY <1>3, BelowIsNat
<1>8. to = IF LO = LS THEN o ELSE S - 1
  BY <1>3
<1>9. DiscardRange(m).slba = (FO \div C) * S + from + Base[m]
      /\ DiscardRange(m).nlb = (LO \div C - FO \div C) * S + to - from + 1
  BY <1>6
<1>10. SUFFICES /\ FO <= LS => /\ (FO \div C) * S + from + Base[m] = lo + Base[m]
                               /\ (LO \div C - FO \div C) * S + to - from + 1 = hi - lo
                /\ ~(FO <= LS) => hi <= lo
  BY <1>7, <1>9
<1> HIDE DEF c, S, C, FO, LS, LO, from, to, lo, hi
<1>11. F * S \in Nat /\ q * S \in Nat /\ C * F \in Nat /\ C * q \in Nat
  BY <1>1, <1>2, <1>3, SMT
<1>12. LS < FO <=> q < F \/ (q = F /\ r < c)
  BY <1>1, <1>2, <1>3, Lexical
<1>13. LS \in Int /\ FO \in Int
  BY <1>1, <1>2, <1>3, <1>11, SMT
<1>14. CASE FO <= LS
  <2>0. F < q \/ (F = q /\ r >= c)
    BY <1>1, <1>2, <1>3, <1>12, <1>13, <1>14, SMT
  <2>1. (FO \div C) * S + from + Base[m] = lo + Base[m]
    BY <1>2
  <2>2. CASE r >= c
    <3>1. q - F \in Nat /\ r - c \in 0 .. C - 1
      BY <1>1, <1>2, <1>3, <2>0, <2>2, SMT
    <3>2. LS - FO = C * (q - F) + (r - c)
      <4>1. C * (q - F) = C * q - C * F
        BY <1>1, <1>2, <1>3, SMT
      <4> QED
        BY <1>1, <1>2, <1>3, <1>11, <4>1, SMT
    <3>3. (C * (q - F) + (r - c)) \div C = q - F
      BY <1>1, <3>1, DivUnique
    <3>4. LO = C * q + c
      <4>1. (q - F) * C = C * q - C * F
        BY <1>1, <1>2, <1>3, SMT
      <4>2. LO = C * F + c + (C * q - C * F)
        BY <1>2, <1>5, <3>2, <3>3, <4>1
      <4> QED
        BY <1>1, <1>11, <4>2, SMT
    <3>5. LO \div C = q
      BY <1>1, <3>4, DivUnique
    <3>6. LO = LS <=> r = c
      BY <1>1, <1>3, <1>11, <3>4, SMT
    <3>7. (q - F) * S = q * S - F * S
      BY <1>1, SMT
    <3>8. (LO \div C - FO \div C) * S + to - from + 1 = q * S - F * S + to - from + 1
      BY <1>2, <3>5, <3>7
    <3>9. hi = q * S + to + 1
      <4>1. CASE r = c
        BY <1>1, <1>3, <1>8, <1>11, <3>6, <4>1, SMT
      <4>2. CASE r > c
        BY <1>1, <1>3, <1>8, <1>11, <3>6, <4>2, SMT
      <4> QED
        BY <1>1, <1>3, <2>2, <4>1, <4>2, SMT
    <3>10. to \in Int /\ from \in Int
      BY <1>1, <1>3, <1>4, <1>8, SMT
    <3> QED
      BY <1>2, <1>11, <1>14, <2>1, <3>8, <3>9, <3>10, SMT
  <2>3. CASE r < c
    <3>1. q - F - 1 \in Nat /\ C + r - c \in 0 .. C - 1
      BY <1>1, <1>2, <1>3, <2>0, <2>3, SMT
    <3>2. LS - FO = C * (q - F - 1) + (C + r - c)
      <4>1. C * (q - F - 1) = C * q - C * F - C
        BY <1>1, <1>2, <1>3, SMT
      <4> QED
        BY <1>1, <1>2, <1>3, <1>11, <4>1, SMT
    <3>3. (C * (q - F - 1) + (C + r - c)) \div C = q - F - 1
      BY <1>1, <3>1, DivUnique
    <3>4. LO = C * (q - 1) + c /\ q - 1 \in Nat
      <4>1. (q - F - 1) * C = C * (q - 1) - C * F
        BY <1>1, <1>2, <1>3, SMT
      <4>2. LO = C * F + c + (C * (q - 1) - C * F)
        BY <1>2, <1>5, <3>2, <3>3, <4>1
      <4>3. C * (q - 1) \in Int
        BY <1>1, <1>3, SMT
      <4>4. q - 1 \in Nat
        BY <1>2, <1>3, <3>1, SMT
      <4> QED
        BY <1>1, <1>11, <4>2, <4>3, <4>4, SMT
    <3>5. LO \div C = q - 1
      BY <1>1, <3>4, DivUnique
    <3>6. LO # LS
      <4>1. C * (q - 1) = C * q - C
        BY <1>1, <1>3, SMT
      <4> QED
        BY <1>1, <1>3, <1>11, <3>4, <4>1, SMT
    <3>7. (q - 1 - F) * S = q * S - S - F * S
      BY <1>1, SMT
    <3>8. (LO \div C - FO \div C) * S + to - from + 1 = q * S - S - F * S + to - from + 1
      BY <1>2, <3>5, <3>7
    <3>9. hi = q * S /\ to = S - 1
      BY <1>1, <1>3, <1>8, <1>11, <2>3, <3>6, SMT
    <3>10. from \in Int /\ S \in Int
      BY <1>1, <1>4, SMT
    <3> QED
      BY <1>2, <1>11, <1>14, <2>1, <3>8, <3>9, <3>10, SMT
  <2> QED
    BY <1>1, <1>3, <2>2, <2>3, SMT
<1>15. CASE ~(FO <= LS)
  <2>1. q < F \/ (q = F /\ r < c)
    BY <1>12, <1>13, <1>15, SMT
  <2>2. lo >= F * S
    BY <1>2, <1>4, <1>11, SMT
  <2>3. CASE q < F
    <3>1. S * q + S <= S * F
      BY <1>1, <2>3, Steps
    <3>2. S * q = q * S /\ S * F = F * S
      BY <1>1, SMT
    <3>3. hi <= q * S + S
      BY <1>1, <1>3, <1>11, SMT
    <3> QED
      BY <1>1, <1>7, <1>11, <1>15, <2>2, <3>1, <3>2, <3>3, SMT
  <2>4. CASE q = F /\ r < c
    <3>1. hi = q * S
      BY <1>1, <1>3, <1>11, <2>4, SMT
    <3> QED
      BY <1>7, <1>11, <1>15, <2>2, <2>4, <3>1, SMT
  <2> QED
    BY <2>1, <2>3, <2>4
<1> QED
  BY <1>14, <1>15

\* A striped volume runs with all its members; every column has a live copy.
Served ==
  /\ geo.level = "RAID0" => live = Members /\ wmask = Members
  /\ \A c \in 0 .. Cols - 1 : \E m \in live : ColOf(m) = c

DiscardInv ==
  /\ Served
  /\ pc = "new" => cmd = [m \in Members |-> [slba |-> 0, nlb |-> 0]]
  /\ pc = "built" => req.op # "discard"
  /\ DiscardExact

\* The masks a request starts from cover the columns.
LEMMA ServedFirst ==
  ASSUME FanoutInit
  PROVE  Served
<1>1. geo \in Geometries /\ \E k \in Masks(geo) : live = k.l /\ wmask = k.w
  BY DEF FanoutInit
<1>2. PICK k \in Masks(geo) : live = k.l /\ wmask = k.w
  BY <1>1
<1>3. CASE geo.level = "RAID0"
  <2>1. k = [l |-> 0 .. geo.nm - 1, w |-> 0 .. geo.nm - 1]
    BY <1>2, <1>3 DEF Masks
  <2>2. live = Members /\ wmask = Members
    BY <1>2, <2>1 DEF Members
  <2>3. Cols = geo.nm /\ \A m : ColOf(m) = m
    BY <1>3 DEF Cols, ColOf
  <2> QED
    BY <2>2, <2>3 DEF Served, Members
<1>4. CASE geo.level # "RAID0"
  <2>1. geo.level = "RAID10" /\ geo.nm = 2 * Cols /\ Cols = geo.nm \div 2 /\ Cols \in Nat
    BY <1>1, <1>4, Shape DEF Cols
  <2>2. \A c \in 0 .. geo.nm \div 2 - 1 : {2 * c, 2 * c + 1} \cap k.l # {}
    BY <1>2, <1>4 DEF Masks
  <2>3. ASSUME NEW c \in 0 .. Cols - 1
        PROVE  \E m \in live : ColOf(m) = c
    <3>1. PICK m \in live : m \in {2 * c, 2 * c + 1}
      BY <1>2, <2>1, <2>2
    <3>2. m \div 2 = c
      BY <2>1, <3>1, SMT
    <3> QED
      BY <2>1, <3>1, <3>2 DEF ColOf
  <2> QED
    BY <1>4, <2>3 DEF Served
<1> QED
  BY <1>3, <1>4

\* What the request stands for on a member: an interval of its column.
LEMMA StandsFor ==
  ASSUME geo \in Geometries, NEW m \in Members, req.pos \in Nat, req.nr \in Nat, req.nr > 0,
         NEW c, c = ColOf(m)
  PROVE  {PhysForMember(m, x) : x \in {y \in Sectors : m \in Copies(y)}}
           = {j + Base[m] : j \in Below(c, req.pos) .. Below(c, End) - 1}
<1> DEFINE lo == Below(c, req.pos)
           hi == Below(c, End)
<1>1. geo.stripe \in Nat \ {0} /\ Cols \in Nat \ {0} /\ Base[m] \in Nat /\ c \in 0 .. Cols - 1
  BY Shape
<1>2. End \in Nat /\ \A x : x \in Sectors <=> x \in Nat /\ ~(x < req.pos) /\ x < End
  BY SMT DEF End, Sectors
<1>3. lo \in Nat /\ hi \in Nat
  BY <1>2, BelowIsNat
<1>4. ASSUME NEW x \in Sectors, m \in Copies(x)
      PROVE  \E j \in lo .. hi - 1 : PhysForMember(m, x) = j + Base[m]
  <2> DEFINE j == Below(c, x)
  <2>1. x \in Nat /\ ~(x < req.pos) /\ x < End /\ Column(x) = c
    BY <1>2, <1>4 DEF Copies
  <2>2. j \in Nat /\ x = Nth(c, j)
    BY <2>1, EveryNth
  <2>3. ~(j < lo) /\ j < hi
    BY <1>1, <1>2, <2>1, <2>2, NthBefore
  <2>4. PhysForMember(m, x) = j + Base[m]
    BY <1>1, <2>1, PhysIsBelow
  <2>5. j \in lo .. hi - 1
    BY <1>3, <2>2, <2>3, SMT
  <2> QED
    BY <2>4, <2>5
<1>5. ASSUME NEW j \in lo .. hi - 1
      PROVE  \E x \in Sectors : m \in Copies(x) /\ PhysForMember(m, x) = j + Base[m]
  <2> DEFINE x == Nth(c, j)
  <2>1. j \in Nat /\ ~(j < lo) /\ j < hi
    BY <1>3, SMT
  <2>2. x \in Nat /\ Column(x) = c /\ Below(c, x) = j
    BY <1>1, <2>1, NthPlace
  <2>3. ~(x < req.pos) /\ x < End
    BY <1>1, <1>2, <2>1, NthBefore
  <2>4. PhysForMember(m, x) = j + Base[m]
    BY <1>1, <2>2, PhysIsBelow
  <2>5. m \in Copies(x)
    BY <2>2 DEF Copies
  <2> HIDE DEF x
  <2>6. x \in Sectors
    BY <1>2, <2>2, <2>3
  <2> QED
    BY <2>4, <2>5, <2>6
<1> HIDE DEF lo, hi
<1>6. {PhysForMember(m, x) : x \in {y \in Sectors : m \in Copies(y)}} = {j + Base[m] : j \in lo .. hi - 1}
  BY <1>4, <1>5
<1> QED
  BY <1>6 DEF lo, hi

\* The same range, counted from its first sector.
LEMMA FromFirst ==
  ASSUME NEW lo \in Nat, NEW hi \in Nat, NEW b \in Nat
  PROVE  {(lo + b) + i : i \in 0 .. (hi - lo) - 1} = {j + b : j \in lo .. hi - 1}
<1>1. ASSUME NEW i \in 0 .. (hi - lo) - 1
      PROVE  \E j \in lo .. hi - 1 : (lo + b) + i = j + b
  <2>1. lo + i \in lo .. hi - 1 /\ (lo + b) + i = (lo + i) + b
    BY SMT
  <2> QED
    BY <2>1
<1>2. ASSUME NEW j \in lo .. hi - 1
      PROVE  \E i \in 0 .. (hi - lo) - 1 : (lo + b) + i = j + b
  <2>1. j - lo \in 0 .. (hi - lo) - 1 /\ (lo + b) + (j - lo) = j + b
    BY SMT
  <2> QED
    BY <2>1
<1> DEFINE l == {(lo + b) + i : i \in 0 .. (hi - lo) - 1}
           r == {j + b : j \in lo .. hi - 1}
<1>3. l \subseteq r
  BY <1>1, Zenon
<1>4. r \subseteq l
  BY <1>2, Zenon
<1> QED
  BY <1>3, <1>4, Zenon

\* A request stands for the same as long as it lasts.
LEMMA StandsStill ==
  ASSUME UNCHANGED <<geo, req, live, wmask>>, NEW m
  PROVE  {PhysForMember(m, x) : x \in {y \in Sectors : m \in Copies(y) \cap wmask}}'
           = {PhysForMember(m, x) : x \in {y \in Sectors : m \in Copies(y) \cap wmask}}
<1>1. Sectors' = Sectors
  BY DEF Sectors, End
<1>2. \A x : /\ (PhysForMember(m, x))' = PhysForMember(m, x)
             /\ (m \in Copies(x) \cap wmask)' <=> m \in Copies(x) \cap wmask
  BY DEF Copies, Members, ColOf, Column, Cols, PhysForMember
<1> QED
  BY <1>1, <1>2

\* What the commands reach is compared with that.
LEMMA DiscardStill ==
  ASSUME UNCHANGED <<geo, req, live, wmask>>,
         pc' = "submitted" /\ req.op = "discard" =>
           \A m \in Members :
             {cmd'[m].slba + i : i \in 0 .. cmd'[m].nlb - 1}
               = {PhysForMember(m, x) : x \in {y \in Sectors : m \in Copies(y) \cap wmask}}
  PROVE  DiscardExact'
<1> DEFINE S(m) == {PhysForMember(m, x) : x \in {y \in Sectors : m \in Copies(y) \cap wmask}}
<1>1. Members' = Members /\ req' = req
  BY Frame
<1>2. \A m : S(m)' = S(m)
  BY StandsStill
<1>3. \A m : Reached(m)' = {cmd'[m].slba + i : i \in 0 .. cmd'[m].nlb - 1}
  BY DEF Reached
<1>4. DiscardExact' <=> (pc = "submitted" /\ req.op = "discard" =>
                           \A m \in Members : Reached(m) = S(m))'
  BY DEF DiscardExact
<1> HIDE DEF S
<1>5. pc' = "submitted" /\ req.op = "discard" => \A m \in Members : Reached(m)' = S(m)
  BY <1>3 DEF S
<1> QED
  BY <1>1, <1>2, <1>4, <1>5

\* One range for each member.
LEMMA DiscardFans ==
  ASSUME FanInv, DiscardInv, DiscardFanout
  PROVE  DiscardExact'
<1>1. /\ pc = "new" /\ UNCHANGED <<geo, req, live, wmask>>
      /\ cmd' = [m \in Members |->
                   IF m \in wmask /\ FirstOwned(ColOf(m)) <= LastStripe
                   THEN DiscardRange(m) ELSE cmd[m]]
  BY DEF DiscardFanout
<1>2. geo \in Geometries /\ req.pos \in Nat /\ req.nr \in Nat /\ req.nr > 0
  BY <1>1 DEF FanInv, Typed, Fresh
<1>3. \A m \in Members : cmd[m].nlb = 0
  BY <1>1 DEF DiscardInv
<1>4. ASSUME NEW m \in Members
      PROVE  {cmd'[m].slba + i : i \in 0 .. cmd'[m].nlb - 1}
               = {PhysForMember(m, x) : x \in {y \in Sectors : m \in Copies(y) \cap wmask}}
  <2> DEFINE c == ColOf(m)
             lo == Below(c, req.pos)
             hi == Below(c, End)
             b == Base[m]
             N == cmd'[m].nlb
             A == cmd'[m].slba
             T == {PhysForMember(m, x) : x \in {y \in Sectors : m \in Copies(y)}}
  <2>1. /\ lo \in Nat /\ hi \in Nat
        /\ FirstOwned(c) <= LastStripe =>
              DiscardRange(m).slba = lo + b /\ DiscardRange(m).nlb = hi - lo
        /\ ~(FirstOwned(c) <= LastStripe) => hi <= lo
    BY <1>2, DiscardInterval
  <2>2. b \in Nat
    BY <1>2, Shape
  <2>3. T = {j + b : j \in lo .. hi - 1}
    BY <1>2, StandsFor
  <2>4. ASSUME N = 0 PROVE {A + i : i \in 0 .. N - 1} = {}
    <3>1. 0 .. N - 1 = {}
      BY <2>4, SMT
    <3> QED
      BY <3>1
  <2>5. CASE m \notin wmask
    <3>1. N = 0
      BY <1>1, <1>3, <2>5
    <3> QED
      BY <2>4, <2>5, <3>1
  <2>6. CASE m \in wmask /\ FirstOwned(c) <= LastStripe
    <3>1. A = lo + b /\ N = hi - lo
      BY <1>1, <2>1, <2>6
    <3>2. {y \in Sectors : m \in Copies(y) \cap wmask} = {y \in Sectors : m \in Copies(y)}
      BY <2>6
    <3> HIDE DEF lo, hi, b
    <3>3. {(lo + b) + i : i \in 0 .. (hi - lo) - 1} = {j + b : j \in lo .. hi - 1}
      BY <2>1, <2>2, FromFirst
    <3> QED
      BY <2>3, <3>1, <3>2, <3>3
  <2>7. CASE m \in wmask /\ ~(FirstOwned(c) <= LastStripe)
    <3>1. N = 0
      BY <1>1, <1>3, <2>7
    <3>2. lo .. hi - 1 = {}
      <4> HIDE DEF lo, hi
      <4> QED
        BY <2>1, <2>7, SMT
    <3>3. T = {}
      BY <2>3, <3>2
    <3> HIDE DEF T
    <3>4. {y \in Sectors : m \in Copies(y) \cap wmask} = {y \in Sectors : m \in Copies(y)}
      BY <2>7
    <3> QED
      BY <2>4, <3>1, <3>3, <3>4 DEF T
  <2> QED
    BY <2>5, <2>6, <2>7
<1>5. UNCHANGED <<geo, req, live, wmask>>
  BY <1>1
<1> QED
  BY <1>4, <1>5, StandsStill, Frame DEF DiscardExact, Reached

\* The sectors of a request, counted from its first.
LEMMA SectorAt ==
  ASSUME req.pos \in Nat, req.nr \in Nat, NEW x \in Sectors
  PROVE  \E i \in 0 .. req.nr - 1 : x = req.pos + i
<1>1. x - req.pos \in 0 .. req.nr - 1 /\ x = req.pos + (x - req.pos)
  BY SMT DEF Sectors, End
<1> QED
  BY <1>1

\* A request inside one stripe has one column, and its sectors are together there.
LEMMA OneStripe ==
  ASSUME geo \in Geometries, req.pos \in Nat, req.nr \in Nat, req.nr > 0, ~Multi,
         NEW i \in 0 .. req.nr - 1
  PROVE  /\ req.pos + i \in Sectors /\ Column(req.pos + i) = Column(req.pos)
         /\ \A m \in Members : PhysForMember(m, req.pos + i) = PhysForMember(m, req.pos) + i
<1> DEFINE S == geo.stripe
           x == req.pos
           n == req.nr
           q == x \div S
           r == x % S
           u == (x + n - 1) % S
<1>1. S \in Nat \ {0} /\ Cols \in Nat \ {0} /\ \A m \in Members : Base[m] \in Nat
  BY Shape
<1>2. q \in Nat /\ r \in 0 .. S - 1 /\ x = S * q + r
  BY <1>1, DivMod
<1>3. x + n - 1 \in Nat
  BY SMT
<1>4. u \in 0 .. S - 1 /\ x + n - 1 = S * ((x + n - 1) \div S) + u
  BY <1>1, <1>3, DivMod
<1>5. (x + n - 1) \div S = q
  BY DEF Multi, MultiStripe
<1>6. x + n - 1 = S * q + u /\ S \in Nat
  BY <1>1, <1>4, <1>5
<1>7. x \in Nat /\ n \in Nat
  OBVIOUS
<1> HIDE DEF S, x, n, q, r, u
<1>8. i \in Nat /\ i < S - r
  <2>1. i \in 0 .. n - 1
    BY DEF n
  <2> QED
    BY <1>2, <1>4, <1>6, <1>7, <2>1, SMT
<1>9. ASSUME NEW m \in Members
      PROVE  Column(x + i) = Column(x) /\ PhysForMember(m, x + i) = PhysForMember(m, x) + i
  <2>1. i < geo.stripe - (x % geo.stripe)
    BY <1>8 DEF S, r
  <2> QED
    BY <1>1, <1>7, <1>8, <2>1, StripInside DEF S
<1>10. \E m : m \in Members
  <2>1. geo.nm \in Nat /\ geo.nm >= 2
    BY Shape
  <2>2. 0 \in Members
    BY <2>1, SMT DEF Members
  <2> QED
    BY <2>2
<1>11. x + i \in Sectors
  <2>1. i \in 0 .. n - 1
    BY DEF n
  <2> QED
    BY <1>7, <2>1, SMT DEF Sectors, End, x, n
<1> QED
  BY <1>9, <1>10, <1>11 DEF x

\* Inside one stripe of a striped volume, the range of the request itself.
LEMMA DiscardSingles ==
  ASSUME FanInv, DiscardInv, NEW t \in Members, DiscardSingle(t)
  PROVE  DiscardExact'
<1>1. /\ pc = "new" /\ UNCHANGED <<geo, req, live, wmask>> /\ ~Multi
      /\ geo.level = "RAID0" /\ t \in Copies(cur)
      /\ cmd' = [cmd EXCEPT ![t] = [slba |-> PhysForMember(t, cur), nlb |-> req.nr]]
  BY DEF DiscardSingle, MapLba
<1>2. geo \in Geometries /\ req.pos \in Nat /\ req.nr \in Nat /\ req.nr > 0 /\ cur = req.pos
  BY <1>1 DEF FanInv, Typed, Fresh
<1>3. cmd = [m \in Members |-> [slba |-> 0, nlb |-> 0]] /\ wmask = Members
  BY <1>1 DEF DiscardInv, Served
<1>4. geo.stripe \in Nat \ {0} /\ Cols \in Nat \ {0}
      /\ \A m \in Members : Base[m] \in Nat
  BY <1>2, Shape
<1>5. \A i \in 0 .. req.nr - 1 :
        /\ cur + i \in Sectors /\ Column(cur + i) = Column(cur)
        /\ \A m \in Members : PhysForMember(m, cur + i) = PhysForMember(m, cur) + i
  BY <1>1, <1>2, OneStripe
<1>6. \A x \in Sectors : \E i \in 0 .. req.nr - 1 : x = cur + i
  BY <1>2, SectorAt
<1>9. ASSUME NEW m \in Members
      PROVE  {cmd'[m].slba + i : i \in 0 .. cmd'[m].nlb - 1}
               = {PhysForMember(m, x) : x \in {y \in Sectors : m \in Copies(y) \cap wmask}}
  <2>1. CASE m = t
    <3>1. cmd'[m].slba = PhysForMember(m, cur) /\ cmd'[m].nlb = req.nr
      BY <1>1, <1>3, <2>1
    <3>2. ASSUME NEW i \in 0 .. req.nr - 1
          PROVE  \E x \in Sectors : m \in Copies(x) /\ PhysForMember(m, x) = PhysForMember(m, cur) + i
      <4>1. cur + i \in Sectors /\ Column(cur + i) = Column(cur)
            /\ PhysForMember(m, cur + i) = PhysForMember(m, cur) + i
        BY <1>5
      <4>2. m \in Copies(cur + i)
        BY <1>1, <2>1, <4>1 DEF Copies
      <4> QED
        BY <4>1, <4>2
    <3>3. ASSUME NEW x \in Sectors
          PROVE  \E i \in 0 .. req.nr - 1 : PhysForMember(m, x) = PhysForMember(m, cur) + i
      <4>1. PICK i \in 0 .. req.nr - 1 : x = cur + i
        BY <1>6
      <4> QED
        BY <1>5, <4>1
    <3>4. {y \in Sectors : m \in Copies(y) \cap wmask} = {y \in Sectors : m \in Copies(y)}
      BY <1>3
    <3>5. {PhysForMember(m, cur) + i : i \in 0 .. req.nr - 1}
            = {PhysForMember(m, x) : x \in {y \in Sectors : m \in Copies(y)}}
      BY <3>2, <3>3
    <3> QED
      BY <3>1, <3>4, <3>5
  <2>2. CASE m # t
    <3>1. cmd'[m].nlb = 0
      BY <1>1, <1>3, <2>2
    <3>2. 0 .. cmd'[m].nlb - 1 = {}
      BY <3>1, SMT
    <3>3. ASSUME NEW x \in Sectors PROVE m \notin Copies(x)
      <4>1. PICK i \in 0 .. req.nr - 1 : x = cur + i
        BY <1>6
      <4>2. Column(x) = Column(cur)
        BY <1>5, <4>1
      <4>3. ColOf(t) = t /\ ColOf(m) = m
        BY <1>1 DEF ColOf
      <4> QED
        BY <1>1, <2>2, <4>2, <4>3 DEF Copies
    <3> QED
      BY <3>2, <3>3
  <2> QED
    BY <2>1, <2>2
<1> QED
  BY <1>1, <1>9, DiscardStill

\* Nothing else sends a discard.
LEMMA DiscardNext ==
  ASSUME FanInv, DiscardInv, [FanoutNext]_fanoutVars
  PROVE  DiscardInv'
<1>1. UNCHANGED <<geo, req, live, wmask>>
  BY DEF FanoutNext, fanoutVars, OutOfBounds, Refuse, StartWalk, TakeSegment, Strip, EndWalk,
     Single, DiscardSingle, Unexpressible, Submit, DiscardFanout, CopyChunk, CopyDone
<1>2. Served'
  BY <1>1, Frame DEF DiscardInv, Served
<1>3. (pc = "built" => req.op # "discard")'
  <2>1. pc' = "built" => \/ pc = "built" \/ pc = "walk" \/ req.op # "discard"
    BY DEF FanoutNext, fanoutVars, OutOfBounds, Refuse, StartWalk, TakeSegment, Strip, EndWalk,
       Single, DiscardSingle, Unexpressible, Submit, DiscardFanout, CopyChunk, CopyDone
  <2> QED
    BY <1>1, <2>1 DEF FanInv, Walked, DiscardInv
<1>4. pc' = "new" => pc = "new" /\ cmd' = cmd
  BY DEF FanoutNext, fanoutVars, OutOfBounds, Refuse, StartWalk, TakeSegment, Strip, EndWalk,
     Single, DiscardSingle, Unexpressible, Submit, DiscardFanout, CopyChunk, CopyDone
<1>5. (pc = "new" => cmd = [m \in Members |-> [slba |-> 0, nlb |-> 0]])'
  BY <1>1, <1>4, Frame DEF DiscardInv
<1>6. DiscardExact'
  <2>1. CASE DiscardFanout
    BY <2>1, DiscardFans
  <2>2. CASE \E m \in Members : DiscardSingle(m)
    BY <2>2, DiscardSingles
  <2>3. CASE ~DiscardFanout /\ ~(\E m \in Members : DiscardSingle(m))
    <3>1. pc' = "submitted" => (pc = "submitted" /\ cmd' = cmd) \/ (pc = "built")
      BY <2>3 DEF FanoutNext, fanoutVars, OutOfBounds, Refuse, StartWalk, TakeSegment, Strip, EndWalk,
         Single, Unexpressible, Submit, CopyChunk, CopyDone
    <3>2. CASE pc = "submitted" /\ cmd' = cmd
      <4>1. DiscardExact
        BY DEF DiscardInv
      <4> QED
        BY <1>1, <3>2, <4>1, DiscardStill DEF DiscardExact, Reached
    <3>3. CASE ~(pc' = "submitted" /\ req.op = "discard")
      BY <1>1, <3>3 DEF DiscardExact
    <3>4. pc = "built" => req.op # "discard"
      BY DEF DiscardInv
    <3> QED
      BY <3>1, <3>2, <3>3, <3>4
  <2> QED
    BY <2>1, <2>2, <2>3
<1> QED
  BY <1>2, <1>3, <1>5, <1>6 DEF DiscardInv

-----------------------------------------------------------------------------
(* What the walk has gathered.                                               *)

\* Sector x is in the list of member m.
Has(m, x) == \E k \in 1 .. Len(sg[m]) : sg[m][k] = x

\* Whom each sector is for, as the lists have it.
Addressed ==
  \A x \in Sectors :
    LET to == {m \in Members : Has(m, x)}
    IN IF req.op = "write" THEN to = Copies(x) \cap wmask
       ELSE Cardinality(to) = 1 /\ to \subseteq live

GatherInv ==
  /\ req.buf \in Nat
  /\ pc = "new" => seg = cur
  /\ pc = "walk" =>
       /\ req.pos <= cur /\ cur <= seg /\ seg <= End
       /\ \A m \in Members : \A x :
            Has(m, x) <=> x \in req.pos .. cur - 1 /\ m \in Copies(x) \cap Serving
  /\ pc \in {"built", "submitted"} /\ req.op # "discard" =>
       /\ Addressed
       /\ \A m \in Members : \A x : Has(m, x) => x \in Sectors
  /\ pc = "submitted" /\ req.op # "discard" => \A m \in Members : PrpOk(sg[m])

\* A strip lies in its segment.
LEMMA StripFits ==
  ASSUME geo \in Geometries, cur \in Nat, seg \in Nat, cur < seg
  PROVE  /\ StripLen \in Nat /\ StripLen > 0 /\ StripLen <= geo.stripe - (cur % geo.stripe)
         /\ cur + StripLen <= seg
<1> DEFINE e == (cur \div geo.stripe + 1) * geo.stripe
<1>1. StripLen \in Nat /\ StripLen > 0 /\ StripLen <= geo.stripe - (cur % geo.stripe)
  BY StripLenOk
<1>2. StripLen = IF seg <= e THEN seg - cur ELSE e - cur
  BY DEF StripLen
<1>3. e \in Int
  <2>1. geo.stripe \in Nat \ {0}
    BY Shape
  <2>2. cur \div geo.stripe \in Nat
    BY <2>1, DivMod
  <2> QED
    BY <2>1, <2>2, SMT
<1> HIDE DEF e
<1>4. cur + StripLen <= seg
  BY <1>1, <1>2, <1>3, SMT
<1> QED
  BY <1>1, <1>4

\* The strip of cur is for the copies of its column that serve the request.
LEMMA TargetsAre ==
  ASSUME FanInv, pc = "walk", NEW targets \in Targets
  PROVE  targets = Copies(cur) \cap Serving
<1>1. live \subseteq wmask /\ wmask \subseteq Members
  BY DEF FanInv, Typed
<1>2. CASE req.op = "write"
  BY <1>2 DEF Targets, Serving
<1>3. CASE req.op # "write"
  <2>1. Sole
    BY <1>3 DEF FanInv, Walked
  <2>2. PICK t \in Copies(cur) \cap live : targets = {t}
    BY <1>3 DEF Targets, MapLba
  <2>3. ASSUME NEW m \in Copies(cur) \cap live PROVE m = t
    BY <2>1, <2>2 DEF Sole, Copies
  <2> QED
    BY <1>3, <2>2, <2>3 DEF Serving
<1> QED
  BY <1>2, <1>3

\* What a list has behind a strip.
LEMMA HasAppended ==
  ASSUME NEW s \in Seq(Nat), NEW c \in Nat, NEW n \in Nat, NEW x
  PROVE  (\E k \in 1 .. Len(s \o [i \in 1 .. n |-> c + i - 1]) :
            (s \o [i \in 1 .. n |-> c + i - 1])[k] = x)
           <=> (\E k \in 1 .. Len(s) : s[k] = x) \/ x \in c .. c + n - 1
<1> DEFINE t == [i \in 1 .. n |-> c + i - 1]
           u == s \o t
<1>1. t \in Seq(Nat) /\ Len(t) = n /\ \A i \in 1 .. n : t[i] = c + i - 1
  BY SMT
<1> HIDE DEF t
<1>2. /\ Len(u) = Len(s) + Len(t)
      /\ \A k \in 1 .. Len(s) : u[k] = s[k]
      /\ \A i \in 1 .. Len(t) : u[Len(s) + i] = t[i]
  BY <1>1, Appended
<1>3. Len(s) \in Nat
  OBVIOUS
<1> HIDE DEF u
<1>4. ASSUME NEW k \in 1 .. Len(u), u[k] = x
      PROVE  (\E l \in 1 .. Len(s) : s[l] = x) \/ x \in c .. c + n - 1
  <2>1. CASE k \in 1 .. Len(s)
    BY <1>2, <1>4, <2>1
  <2>2. CASE k \notin 1 .. Len(s)
    <3> DEFINE i == k - Len(s)
    <3>1. i \in 1 .. n /\ k = Len(s) + i
      BY <1>1, <1>2, <1>3, <2>2, SMT
    <3>2. x = c + i - 1
      BY <1>1, <1>2, <1>4, <3>1
    <3> QED
      BY <3>1, <3>2, SMT
  <2> QED
    BY <2>1, <2>2
<1>5. ASSUME NEW k \in 1 .. Len(s), s[k] = x
      PROVE  \E l \in 1 .. Len(u) : u[l] = x
  <2>1. k \in 1 .. Len(u)
    BY <1>1, <1>2, <1>3, SMT
  <2> QED
    BY <1>2, <1>5, <2>1
<1>6. ASSUME x \in c .. c + n - 1
      PROVE  \E l \in 1 .. Len(u) : u[l] = x
  <2> DEFINE i == x - c + 1
  <2>1. i \in 1 .. n /\ c + i - 1 = x /\ Len(s) + i \in 1 .. Len(u)
    BY <1>1, <1>2, <1>3, <1>6, SMT
  <2>2. u[Len(s) + i] = x
    BY <1>1, <1>2, <2>1
  <2> QED
    BY <2>1, <2>2
<1> QED
  BY <1>4, <1>5, <1>6 DEF u, t

\* The walk: the strip goes to the lists it is for, and to no other.
LEMMA StripGathers ==
  ASSUME FanInv, GatherInv, NEW targets \in Targets, Strip(targets)
  PROVE  GatherInv'
<1> DEFINE n == StripLen
           strip == [i \in 1 .. n |-> cur + i - 1]
<1>1. /\ pc = "walk" /\ pc' = "walk" /\ cur < seg /\ cur' = cur + n
      /\ UNCHANGED <<geo, req, live, wmask, seg>>
      /\ sg' = [m \in Members |-> IF m \in targets THEN sg[m] \o strip ELSE sg[m]]
  BY DEF Strip
<1>2. /\ geo \in Geometries /\ cur \in Nat /\ seg \in Nat /\ req.pos \in Nat /\ req.nr \in Nat
      /\ sg \in [Members -> Seq(Nat)]
  BY DEF FanInv, Typed
<1>3. n \in Nat /\ n > 0 /\ n <= geo.stripe - (cur % geo.stripe) /\ cur + n <= seg
  BY <1>1, <1>2, StripFits
<1>4. targets = Copies(cur) \cap Serving
  BY <1>1, TargetsAre
<1>5. req.pos <= cur /\ seg <= End
      /\ \A m \in Members : \A x :
            Has(m, x) <=> x \in req.pos .. cur - 1 /\ m \in Copies(x) \cap Serving
  BY <1>1 DEF GatherInv
<1> HIDE DEF n
<1>6. ASSUME NEW x \in cur .. cur + n - 1
      PROVE  Copies(x) = Copies(cur)
  <2> DEFINE i == x - cur
             rest == geo.stripe - (cur % geo.stripe)
  <2>1. geo.stripe \in Nat \ {0} /\ Cols \in Nat \ {0} /\ 0 \in Members /\ Base[0] \in Nat
    <3>1. geo.nm \in Nat /\ geo.nm >= 2
      BY <1>2, Shape
    <3>2. 0 \in Members
      BY <3>1, SMT DEF Members
    <3> QED
      BY <1>2, <3>2, Shape
  <2>2. rest \in Int
    <3>1. cur % geo.stripe \in 0 .. geo.stripe - 1
      BY <1>2, <2>1, DivMod
    <3> QED
      BY <2>1, <3>1, SMT
  <2>3. n <= rest
    BY <1>3
  <2> HIDE DEF rest
  <2>4. i \in Nat /\ i < rest /\ x = cur + i
    BY <1>2, <1>3, <2>2, <2>3, SMT
  <2> HIDE DEF i
  <2>5. Column(cur + i) = Column(cur)
    BY <1>2, <2>1, <2>4, StripInside DEF rest
  <2> QED
    BY <2>4, <2>5 DEF Copies
<1>7. ASSUME NEW m \in Members, NEW x
      PROVE  (\E k \in 1 .. Len(sg'[m]) : sg'[m][k] = x)
               <=> x \in req.pos .. cur + n - 1 /\ m \in Copies(x) \cap Serving
  <2>1. sg[m] \in Seq(Nat)
    BY <1>2
  <2>2. (\E k \in 1 .. Len(sg[m]) : sg[m][k] = x)
          <=> x \in req.pos .. cur - 1 /\ m \in Copies(x) \cap Serving
    BY <1>5 DEF Has
  <2>3. x \in req.pos .. cur + n - 1 <=> x \in req.pos .. cur - 1 \/ x \in cur .. cur + n - 1
    BY <1>2, <1>3, <1>5, SMT
  <2>4. x \in cur .. cur + n - 1 => (m \in targets <=> m \in Copies(x) \cap Serving)
    BY <1>4, <1>6
  <2>5. CASE m \in targets
    <3>1. sg'[m] = sg[m] \o strip
      BY <1>1, <2>5
    <3>2. (\E k \in 1 .. Len(sg[m] \o strip) : (sg[m] \o strip)[k] = x)
             <=> (\E k \in 1 .. Len(sg[m]) : sg[m][k] = x) \/ x \in cur .. cur + n - 1
      BY <1>2, <1>3, <2>1, HasAppended
    <3> HIDE DEF strip
    <3> QED
      BY <2>2, <2>3, <2>4, <2>5, <3>1, <3>2
  <2>6. CASE m \notin targets
    <3>1. sg'[m] = sg[m]
      BY <1>1, <2>6
    <3> QED
      BY <2>2, <2>3, <2>4, <2>6, <3>1
  <2> QED
    BY <2>5, <2>6
<1>8. req.pos <= cur + n
  BY <1>2, <1>3, <1>5, SMT
<1>9. End' = End /\ Members' = Members /\ Serving' = Serving /\ \A x : Copies(x)' = Copies(x)
  BY <1>1, Frame
<1>10. \A m \in Members : \A x :
         (Has(m, x))' <=> x \in req.pos .. cur + n - 1 /\ m \in Copies(x) \cap Serving
  BY <1>7 DEF Has
<1>11. ASSUME NEW m, NEW x
       PROVE  (m \in Copies(x) \cap Serving)' <=> m \in Copies(x) \cap Serving
  BY <1>9
<1>12. (req.pos <= cur /\ cur <= seg /\ seg <= End)'
  BY <1>1, <1>3, <1>5, <1>8, <1>9
<1>13. (\A m \in Members : \A x :
          Has(m, x) <=> x \in req.pos .. cur - 1 /\ m \in Copies(x) \cap Serving)'
  <2>0. cur' = cur + n /\ req' = req
    BY <1>1
  <2>1. (req.pos .. cur - 1)' = req.pos .. cur + n - 1
    BY <2>0, <1>2, <1>3, SMT
  <2> QED
    BY <1>9, <1>10, <2>1
<1>14. pc' = "walk" /\ req' = req
  BY <1>1
<1> QED
  BY <1>12, <1>13, <1>14 DEF GatherInv

\* At the end of the walk every sector is where it should be.
LEMMA WalkAddresses ==
  ASSUME FanInv, Served, GatherInv, pc = "walk", cur = End
  PROVE  Addressed /\ \A m \in Members : \A x : Has(m, x) => x \in Sectors
<1>1. /\ geo \in Geometries /\ req.pos \in Nat /\ req.nr \in Nat
      /\ live \subseteq wmask /\ wmask \subseteq Members
  BY DEF FanInv, Typed
<1>2. \A m \in Members : \A x : Has(m, x) <=> x \in Sectors /\ m \in Copies(x) \cap Serving
  BY DEF GatherInv, Sectors
<1>3. ASSUME NEW x \in Sectors
      PROVE  LET to == {m \in Members : Has(m, x)}
             IN IF req.op = "write" THEN to = Copies(x) \cap wmask
                ELSE Cardinality(to) = 1 /\ to \subseteq live
  <2> DEFINE to == {m \in Members : Has(m, x)}
  <2>1. to = Copies(x) \cap Serving
    BY <1>2 DEF Copies
  <2>2. CASE req.op = "write"
    BY <2>1, <2>2 DEF Serving
  <2>3. CASE req.op # "write"
    <3>1. Sole /\ to = Copies(x) \cap live
      BY <2>1, <2>3 DEF FanInv, Walked, Serving
    <3>2. Column(x) \in 0 .. Cols - 1
      <4>1. x \in Nat
        BY <1>1, SMT DEF Sectors, End
      <4>2. geo.nm \in Nat /\ geo.nm >= 2
        BY <1>1, Shape
      <4>3. 0 \in Members
        BY <4>2, SMT DEF Members
      <4> QED
        BY <1>1, <4>1, <4>3, Numbers
    <3>3. PICK t \in live : ColOf(t) = Column(x)
      BY <3>2 DEF Served
    <3>4. to = {t}
      BY <1>1, <3>1, <3>3 DEF Sole, Copies
    <3>5. Cardinality({t}) = 1
      BY FS_Singleton
    <3> QED
      BY <2>3, <3>3, <3>4, <3>5
  <2> QED
    BY <2>2, <2>3
<1> QED
  BY <1>2, <1>3 DEF Addressed

\* One list has all of a request inside one stripe.
LEMMA SingleAddresses ==
  ASSUME FanInv, Served, NEW t \in Members, Single(t)
  PROVE  (Addressed /\ \A m \in Members : \A x : Has(m, x) => x \in Sectors)'
<1>1. /\ pc = "new" /\ UNCHANGED <<geo, req, live, wmask>> /\ ~Multi /\ req.op # "discard"
      /\ geo.level = "RAID10" => req.op = "read"
      /\ t \in Copies(cur) /\ t \in live
      /\ sg' = [sg EXCEPT ![t] = [i \in 1 .. req.nr |-> cur + i - 1]]
  BY DEF Single, MapLba
<1>2. geo \in Geometries /\ req.pos \in Nat /\ req.nr \in Nat /\ req.nr > 0 /\ cur = req.pos
      /\ sg \in [Members -> Seq(Nat)] /\ \A m \in Members : sg[m] = <<>>
  BY <1>1 DEF FanInv, Typed, Fresh
<1>3. ASSUME NEW m \in Members, NEW x
      PROVE  (\E k \in 1 .. Len(sg'[m]) : sg'[m][k] = x) <=> m = t /\ x \in Sectors
  <2>1. CASE m = t
    <3> DEFINE l == [i \in 1 .. req.nr |-> cur + i - 1]
    <3>1. sg'[m] = l /\ Len(l) = req.nr /\ \A k \in 1 .. req.nr : l[k] = cur + k - 1
      BY <1>1, <1>2, <2>1
    <3>2. (\E k \in 1 .. req.nr : cur + k - 1 = x) <=> x \in Sectors
      <4>1. ASSUME x \in Sectors PROVE \E k \in 1 .. req.nr : cur + k - 1 = x
        <5>1. x - cur + 1 \in 1 .. req.nr /\ cur + (x - cur + 1) - 1 = x
          BY <1>2, <4>1, SMT DEF Sectors, End
        <5> QED
          BY <5>1
      <4>2. ASSUME NEW k \in 1 .. req.nr PROVE cur + k - 1 \in Sectors
        BY <1>2, SMT DEF Sectors, End
      <4> QED
        BY <4>1, <4>2
    <3> HIDE DEF l
    <3> QED
      BY <2>1, <3>1, <3>2
  <2>2. CASE m # t
    <3>1. sg'[m] = <<>>
      BY <1>1, <1>2, <2>2
    <3>2. 1 .. Len(sg'[m]) = {}
      BY <3>1, SMT
    <3> QED
      BY <2>2, <3>2
  <2> QED
    BY <2>1, <2>2
<1>4. Members' = Members /\ Sectors' = Sectors /\ \A x : Copies(x)' = Copies(x)
  BY <1>1, Frame DEF Sectors
<1>5. \A m \in Members : \A x : (Has(m, x))' <=> m = t /\ x \in Sectors
  BY <1>3 DEF Has
<1>6. ASSUME NEW x \in Sectors
      PROVE  LET to == {m \in Members : m = t}
             IN IF req.op = "write" THEN to = Copies(x) \cap wmask
                ELSE Cardinality(to) = 1 /\ to \subseteq live
  <2>1. {m \in Members : m = t} = {t}
    OBVIOUS
  <2>2. CASE req.op = "write"
    <3>1. geo.level = "RAID0" /\ wmask = Members
      <4>1. geo.level \in {"RAID0", "RAID10"}
        BY <1>2, Shape
      <4> QED
        BY <1>1, <2>2, <4>1 DEF Served
    <3>2. Column(x) = Column(cur)
      <4>1. PICK i \in 0 .. req.nr - 1 : x = req.pos + i
        BY <1>2, SectorAt
      <4> QED
        BY <1>1, <1>2, <4>1, OneStripe
    <3>3. \A m \in Members : ColOf(m) = m
      BY <3>1 DEF ColOf
    <3>4. Copies(x) = {t}
      BY <1>1, <3>2, <3>3 DEF Copies
    <3> QED
      BY <2>1, <2>2, <3>1, <3>4
  <2>3. CASE req.op # "write"
    <3>1. Cardinality({t}) = 1
      BY FS_Singleton
    <3> QED
      BY <1>1, <2>1, <2>3, <3>1
  <2> QED
    BY <2>2, <2>3
<1>7. \A x \in Sectors : {m \in Members : Has(m, x)}' = {m \in Members : m = t}
  BY <1>4, <1>5
<1>8. UNCHANGED <<req, live, wmask>>
  BY <1>1
<1>9. Addressed'
  BY <1>4, <1>6, <1>7, <1>8 DEF Addressed
<1>10. (\A m \in Members : \A x : Has(m, x) => x \in Sectors)'
  BY <1>4, <1>5
<1> QED
  BY <1>9, <1>10

\* It holds at the beginning ...
LEMMA GatherInit ==
  ASSUME FanoutInit
  PROVE  GatherInv
<1>1. Page \in Nat \ {0}
  BY FanoutOK
<1>2. CASE InitRequest
  <2>1. req.buf \in 0 .. Page - 1 /\ pc = "new" /\ seg = cur
    BY <1>2 DEF InitRequest, FanoutInit, Idle
  <2>2. req.buf \in Nat
    BY <1>1, <2>1, SMT
  <2> QED
    BY <2>1, <2>2 DEF GatherInv
<1>3. CASE InitRebuild
  BY <1>3 DEF InitRebuild, GatherInv
<1> QED
  BY <1>2, <1>3 DEF FanoutInit

\* ... and ever after.
LEMMA GatherNext ==
  ASSUME FanInv, DiscardInv, GatherInv, [FanoutNext]_fanoutVars
  PROVE  GatherInv'
<1>0. /\ geo \in Geometries /\ req.pos \in Nat /\ req.nr \in Nat /\ cur \in Nat /\ seg \in Nat
      /\ Served
  BY DEF FanInv, Typed, DiscardInv
<1>1. CASE \E targets \in Targets : Strip(targets)
  BY <1>1, StripGathers
<1>2. CASE \E m \in Members : Single(m)
  <2>1. PICK t \in Members : Single(t)
    BY <1>2
  <2>2. (Addressed /\ \A m \in Members : \A x : Has(m, x) => x \in Sectors)'
    BY <1>0, <2>1, SingleAddresses
  <2>3. pc' = "built" /\ req' = req
    BY <2>1 DEF Single
  <2> QED
    BY <2>2, <2>3 DEF GatherInv
<1>3. CASE OutOfBounds \/ Unexpressible
  BY <1>3 DEF OutOfBounds, Unexpressible, Refuse, GatherInv
<1>4. CASE StartWalk
  <2>1. pc = "new" /\ pc' = "walk" /\ UNCHANGED <<geo, req, live, wmask, sg, cur, seg>>
    BY <1>4 DEF StartWalk
  <2>2. cur = req.pos /\ seg = cur /\ req.nr > 0 /\ \A m \in Members : sg[m] = <<>>
    BY <2>1 DEF FanInv, Fresh, GatherInv
  <2>3. req.pos <= cur /\ cur <= seg /\ seg <= End
    BY <1>0, <2>2, SMT DEF End
  <2>4. \A m \in Members : \A x : ~Has(m, x)
    <3>1. \A m \in Members : 1 .. Len(sg[m]) = {}
      BY <2>2, SMT
    <3> QED
      BY <3>1 DEF Has
  <2>5. req.pos .. cur - 1 = {}
    BY <1>0, <2>2, SMT
  <2>6. (/\ req.pos <= cur /\ cur <= seg /\ seg <= End
         /\ \A m \in Members : \A x :
              Has(m, x) <=> x \in req.pos .. cur - 1 /\ m \in Copies(x) \cap Serving)'
    BY <2>1, <2>3, <2>4, <2>5, Frame DEF Has
  <2> QED
    BY <2>1, <2>6 DEF GatherInv
<1>5. CASE \E n \in 1 .. Page : TakeSegment(n)
  <2>1. PICK n \in 1 .. Page : TakeSegment(n)
    BY <1>5
  <2>2. /\ pc = "walk" /\ pc' = "walk" /\ seg' = cur + n /\ cur + n <= End
        /\ UNCHANGED <<geo, req, live, wmask, sg, cur>>
    BY <2>1 DEF TakeSegment
  <2>3. cur <= cur + n
    BY <1>0, SMT
  <2>4. (req.pos <= cur /\ cur <= seg /\ seg <= End)'
    BY <2>2, <2>3, Frame DEF GatherInv
  <2>5. \A m, x : /\ (Has(m, x))' <=> Has(m, x)
                  /\ (x \in req.pos .. cur - 1)' <=> x \in req.pos .. cur - 1
    BY <2>2 DEF Has
  <2>6. (\A m \in Members : \A x :
           Has(m, x) <=> x \in req.pos .. cur - 1 /\ m \in Copies(x) \cap Serving)'
    BY <2>2, <2>5, Frame DEF GatherInv
  <2> QED
    BY <2>2, <2>4, <2>6 DEF GatherInv
<1>6. CASE \/ EndWalk \/ Submit \/ DiscardFanout \/ (\E m \in Members : DiscardSingle(m))
           \/ CopyChunk \/ CopyDone \/ UNCHANGED fanoutVars
  <2>1. UNCHANGED <<geo, req, live, wmask, sg, seg>>
    BY <1>6 DEF EndWalk, Submit, DiscardFanout, DiscardSingle, CopyChunk, CopyDone, fanoutVars
  <2>2. \/ pc' \in {"built", "submitted"} /\ pc = pc'
        \/ pc' = "built" /\ pc = "walk" /\ cur = End
        \/ pc' = "submitted" /\ pc = "built" /\ \A m \in Members : PrpOk(sg[m])
        \/ pc' = "submitted" /\ req.op = "discard"
        \/ pc' \notin {"new", "walk", "built", "submitted"}
        \/ pc' \in {"new", "walk"} /\ UNCHANGED fanoutVars
    BY <1>6 DEF EndWalk, Submit, DiscardFanout, DiscardSingle, CopyChunk, CopyDone, fanoutVars
  <2> DEFINE Good == Addressed /\ \A m \in Members : \A x : Has(m, x) => x \in Sectors
             Torn == \A m \in Members : PrpOk(sg[m])
  <2>3. \A x : (Has(x[1], x[2]))' <=> Has(x[1], x[2])
    BY <2>1 DEF Has
  <2>4. Sectors' = Sectors /\ Members' = Members /\ \A x : Copies(x)' = Copies(x)
    BY <2>1, Frame DEF Sectors
  <2>5. Good' <=> Good
    <3>1. \A m, x : (Has(m, x))' <=> Has(m, x)
      BY <2>1 DEF Has
    <3>2. \A x : {m \in Members : Has(m, x)}' = {m \in Members : Has(m, x)}
      BY <2>4, <3>1
    <3>3. Addressed' <=> Addressed
      BY <2>1, <2>4, <3>2 DEF Addressed
    <3> QED
      BY <2>4, <3>1, <3>3
  <2>6. Torn' <=> Torn
    BY <2>1, <2>4 DEF PrpOk, PageOff
  <2>7. GatherInv <=> /\ req.buf \in Nat
                      /\ pc = "new" => seg = cur
                      /\ pc = "walk" =>
                           /\ req.pos <= cur /\ cur <= seg /\ seg <= End
                           /\ \A m \in Members : \A x :
                                Has(m, x) <=> x \in req.pos .. cur - 1 /\ m \in Copies(x) \cap Serving
                      /\ pc \in {"built", "submitted"} /\ req.op # "discard" => Good
                      /\ pc = "submitted" /\ req.op # "discard" => Torn
    BY DEF GatherInv
  <2>8. CASE pc' \notin {"new", "walk"}
    <3>1. (pc' \in {"built", "submitted"} /\ req'.op # "discard") => Good
      <4>1. CASE pc = "walk" /\ cur = End
        BY <1>0, <4>1, WalkAddresses
      <4> QED
        BY <2>1, <2>2, <2>7, <2>8, <4>1
    <3>2. (pc' = "submitted" /\ req'.op # "discard") => Torn
      BY <2>1, <2>2, <2>7, <2>8
    <3> HIDE DEF Good, Torn
    <3>3. (/\ pc = "new" => seg = cur
           /\ pc = "walk" =>
                /\ req.pos <= cur /\ cur <= seg /\ seg <= End
                /\ \A m \in Members : \A x :
                     Has(m, x) <=> x \in req.pos .. cur - 1 /\ m \in Copies(x) \cap Serving)'
      BY <2>8
    <3>4. (req.buf \in Nat)'
      BY <2>1, <2>7
    <3>5. (pc \in {"built", "submitted"} /\ req.op # "discard" => Good)'
      BY <2>5, <3>1
    <3>6. (pc = "submitted" /\ req.op # "discard" => Torn)'
      BY <2>6, <3>2
    <3> QED
      BY <3>3, <3>4, <3>5, <3>6 DEF GatherInv, Good, Torn
  <2>9. CASE UNCHANGED fanoutVars
    <3>1. UNCHANGED <<pc, cur>>
      BY <2>9 DEF fanoutVars
    <3>2. Serving' = Serving /\ End' = End
      BY <2>1, Frame
    <3>3. \A m, x : (Has(m, x))' <=> Has(m, x)
      BY <2>1 DEF Has
    <3>4. \A x : (x \in req.pos .. cur - 1)' <=> x \in req.pos .. cur - 1
      BY <2>1, <3>1
    <3>5. (pc = "walk" =>
             /\ req.pos <= cur /\ cur <= seg /\ seg <= End
             /\ \A m \in Members : \A x :
                  Has(m, x) <=> x \in req.pos .. cur - 1 /\ m \in Copies(x) \cap Serving)'
      BY <2>1, <2>4, <3>1, <3>2, <3>3, <3>4 DEF GatherInv
    <3> QED
      BY <2>1, <2>5, <2>6, <2>7, <3>1, <3>5 DEF GatherInv
  <2> QED
    BY <2>2, <2>8, <2>9
<1> QED
  BY <1>1, <1>2, <1>3, <1>4, <1>5, <1>6 DEF FanoutNext

\* Every sector went to whom it was for.
LEMMA SentRight ==
  ASSUME FanInv, GatherInv
  PROVE  AllSent
<1>1. SUFFICES ASSUME pc = "submitted", req.op # "discard"
               PROVE  AllSent
  BY DEF AllSent
<1>2. \A m \in Members : cmd[m].nlb = Len(sg[m])
  BY <1>1 DEF FanInv, Sent
<1>3. Addressed
  BY <1>1 DEF GatherInv
<1>4. ASSUME NEW x \in Sectors
      PROVE  {m \in Members : \E k \in 1 .. cmd[m].nlb : sg[m][k] = x} = {m \in Members : Has(m, x)}
  BY <1>2 DEF Has
<1>5. ASSUME NEW m \in Members, NEW k \in 1 .. cmd[m].nlb, NEW l \in 1 .. cmd[m].nlb,
             sg[m][k] = sg[m][l]
      PROVE  k = l
  <2>1. k \in 1 .. Len(sg[m]) /\ l \in 1 .. Len(sg[m])
    BY <1>2
  <2>2. start[m] + k - 1 = PhysForMember(m, sg[m][k]) /\ start[m] + l - 1 = PhysForMember(m, sg[m][l])
    BY <2>1 DEF FanInv, Listed
  <2>3. start[m] \in Int /\ sg[m] \in Seq(Nat)
    BY DEF FanInv, Typed
  <2>4. start[m] + k - 1 = start[m] + l - 1
    BY <1>5, <2>2
  <2>5. k \in Int /\ l \in Int
    BY <2>1, <2>3, SMT
  <2> QED
    BY <2>3, <2>4, <2>5, SMT
<1> QED
  BY <1>3, <1>4, <1>5 DEF AllSent, Addressed

\* The last sector x of a stripe of S sectors and the first sector y of another, in a
\* transfer of the sectors from p on through a buffer that begins at b, when y begins
\* a page of P sectors and a stripe is a number of them.
Turning(P, S, x, y, b, p) ==
  /\ S % P = 0 /\ x % S = S - 1 /\ y % S = 0
  /\ p <= x /\ p <= y /\ (b + y - p) % P = 0

\* A page that ends where stripes end.
LEMMA PageTurns ==
  ASSUME NEW P \in Nat \ {0}, NEW S \in Nat \ {0}, NEW x \in Nat, NEW y \in Nat,
         NEW b \in Nat, NEW p \in Nat, Turning(P, S, x, y, b, p)
  PROVE  (b + x - p) % P = P - 1
<1>a. /\ S % P = 0 /\ x % S = S - 1 /\ y % S = 0
      /\ p <= x /\ p <= y /\ (b + y - p) % P = 0
  BY DEF Turning
<1> DEFINE w == S \div P
           u == x \div S
           v == y \div S
           l == (b + y - p) \div P
           z == l - w * v + w * (u + 1)
<1>1. w \in Nat /\ S = P * w + 0
  BY <1>a, DivMod
<1>2. u \in Nat /\ x = S * u + (S - 1)
  BY <1>a, DivMod
<1>3. v \in Nat /\ y = S * v + 0
  BY <1>a, DivMod
<1>4. b + y - p \in Nat /\ b + x - p \in Nat
  BY <1>a, SMT
<1>5. l \in Nat /\ b + y - p = P * l + 0
  BY <1>4, <1>a, DivMod
<1> HIDE DEF w, u, v, l
<1>6. w * v \in Nat /\ w * (u + 1) \in Nat /\ z \in Int
  BY <1>1, <1>2, <1>3, <1>5, SMT
<1>7. x + 1 = P * (w * (u + 1)) /\ y = P * (w * v)
  <2>1. S = P * w
    BY <1>1, SMT
  <2>2. S * u + S = S * (u + 1)
    BY <1>2, SMT
  <2>3. (P * w) * (u + 1) = P * (w * (u + 1)) /\ (P * w) * v = P * (w * v)
    BY <1>1, <1>2, <1>3, SMT
  <2>4. S * u \in Int /\ S * v \in Int
    BY <1>2, <1>3, SMT
  <2>5. x + 1 = S * u + S /\ y = S * v
    BY <1>2, <1>3, <2>4, SMT
  <2> QED
    BY <2>1, <2>2, <2>3, <2>5
<1>8. P * z = P * l - P * (w * v) + P * (w * (u + 1))
  BY <1>5, <1>6, SMT
<1>9. b + x - p = P * z - 1
  <2> DEFINE e == P * l
             f == P * (w * v)
             g == P * (w * (u + 1))
             h == P * z
  <2>1. e \in Int /\ f \in Int /\ g \in Int
    BY <1>5, <1>6, SMT
  <2>2. h = e - f + g /\ b + y - p = e + 0 /\ x + 1 = g /\ y = f
    BY <1>5, <1>7, <1>8
  <2> HIDE DEF e, f, g, h, z
  <2>3. b + x - p = h - 1
    BY <2>1, <2>2, SMT
  <2> QED
    BY <2>3 DEF h
<1> HIDE DEF z
<1>10. z - 1 \in Nat
  <2>1. P * z >= 1
    BY <1>4, <1>6, <1>9, SMT
  <2>2. CASE z <= 0
    <3>1. P * z <= 0
      BY <1>6, <2>2, SMT
    <3> QED
      BY <1>6, <2>1, <3>1, SMT
  <2> QED
    BY <1>6, <2>2, SMT
<1>11. P * (z - 1) = P * z - P
  BY <1>6, SMT
<1>12. b + x - p = P * (z - 1) + (P - 1) /\ P - 1 \in 0 .. P - 1
  <2>1. P * z \in Int
    BY <1>6, SMT
  <2> QED
    BY <1>9, <1>11, <2>1, SMT
<1>13. (P * (z - 1) + (P - 1)) % P = P - 1
  BY <1>10, <1>12, DivUnique
<1> QED
  BY <1>12, <1>13

\* A stripe is a whole number of pages.
WholePages == \A g \in Geometries : g.stripe % Page = 0

\* Neighbours in a list that are not consecutive are the end of one stripe and the
\* beginning of another.
LEMMA NothingTorn ==
  ASSUME WholePages, FanInv, GatherInv
  PROVE  NoTornPage
<1>1. SUFFICES ASSUME pc = "submitted", req.op # "discard",
                      NEW m \in Members, NEW k \in 1 .. Len(sg[m]) - 1,
                      sg[m][k + 1] # sg[m][k] + 1
               PROVE  PageOff(sg[m][k]) = Page - 1 /\ PageOff(sg[m][k + 1]) = 0
  BY DEF NoTornPage
<1> DEFINE x == sg[m][k]
           y == sg[m][k + 1]
           S == geo.stripe
           c == ColOf(m)
           j == Below(c, x)
<1>2. /\ geo \in Geometries /\ req.pos \in Nat /\ req.nr \in Nat /\ req.buf \in Nat
      /\ sg[m] \in Seq(Nat) /\ start[m] \in Int
  BY DEF FanInv, Typed, GatherInv
<1>3. k \in 1 .. Len(sg[m]) /\ k + 1 \in 1 .. Len(sg[m]) /\ k \in Nat
  BY <1>2, SMT
<1>4. PageOff(y) = 0
  BY <1>1 DEF GatherInv, PrpOk
<1>5. x \in Sectors /\ y \in Sectors
  BY <1>1, <1>3 DEF GatherInv, Has
<1>6. x \in Nat /\ y \in Nat /\ req.pos <= x /\ req.pos <= y
  <2>1. ASSUME NEW i \in Sectors PROVE i \in Nat /\ req.pos <= i
    BY <1>2, SMT DEF Sectors, End
  <2> QED
    BY <1>5, <2>1
<1>7. /\ Column(x) = c /\ Column(y) = c
      /\ start[m] + k - 1 = PhysForMember(m, x) /\ start[m] + (k + 1) - 1 = PhysForMember(m, y)
  BY <1>3 DEF FanInv, Listed, Copies
<1>8. /\ S \in Nat \ {0} /\ Cols \in Nat \ {0} /\ Base[m] \in Nat /\ c \in 0 .. Cols - 1
      /\ Page \in Nat \ {0} /\ S % Page = 0
  BY <1>2, Shape, FanoutOK DEF WholePages
<1>9. /\ PhysForMember(m, x) = j + Base[m] /\ PhysForMember(m, y) = Below(c, y) + Base[m]
      /\ j \in Nat /\ Below(c, y) \in Nat /\ x = Nth(c, j) /\ y = Nth(c, Below(c, y))
  BY <1>2, <1>6, <1>7, <1>8, PhysIsBelow, EveryNth
<1>10. Below(c, y) = j + 1
  <2> DEFINE i == Below(c, y)
             s == start[m]
             b == Base[m]
  <2>1. s + k - 1 = j + b /\ s + (k + 1) - 1 = i + b
    BY <1>7, <1>9
  <2>2. i \in Nat /\ j \in Nat /\ s \in Int /\ b \in Nat /\ k \in Nat
    BY <1>2, <1>3, <1>8, <1>9
  <2> HIDE DEF i, j, s, b
  <2>3. i = j + 1
    BY <2>1, <2>2, SMT
  <2> QED
    BY <2>3 DEF i
<1> HIDE DEF x, y, j, c
<1>11. y = Nth(c, j + 1)
  BY <1>9, <1>10
<1>12. j % S \in 0 .. S - 1
  BY <1>8, <1>9, DivMod
<1>13. j % S = S - 1
  <2>1. CASE 1 < S - (j % S)
    <3>1. y = x + 1
      BY <1>2, <1>8, <1>9, <1>11, <2>1, NthAdvance
    <3> QED
      BY <1>1, <3>1 DEF x, y
  <2> QED
    BY <1>8, <1>12, <2>1, SMT
<1>14. x % S = S - 1
  BY <1>2, <1>8, <1>9, <1>13, NthPlace
<1>15. y % S = 0
  <2>1. (j + (S - (j % S))) % S = 0
    BY <1>8, <1>9, Across
  <2>2. S - (j % S) = 1
    BY <1>8, <1>13, SMT
  <2>3. j + 1 \in Nat
    BY <1>9, SMT
  <2>4. y % S = (j + 1) % S
    BY <1>2, <1>8, <1>11, <2>3, NthPlace
  <2> QED
    BY <2>1, <2>2, <2>4
<1>16. (req.buf + x - req.pos) % Page = Page - 1
  <2>1. (req.buf + y - req.pos) % Page = 0
    BY <1>4 DEF PageOff, y
  <2> DEFINE b == req.buf
             p == req.pos
  <2>2. b \in Nat /\ p \in Nat /\ p <= x /\ p <= y /\ (b + y - p) % Page = 0
    BY <1>2, <1>6, <2>1
  <2> HIDE DEF b, p, S
  <2>3. Turning(Page, S, x, y, b, p)
    BY <1>8, <1>14, <1>15, <2>2 DEF Turning
  <2>4. (b + x - p) % Page = Page - 1
    BY <1>6, <1>8, <2>2, <2>3, PageTurns
  <2> QED
    BY <2>4 DEF b, p
<1> QED
  BY <1>4, <1>16 DEF PageOff, x, y

\* All five: for any number of members, any stripe of whole pages, any capacity of
\* whole rows, any request, any cutting of its buffer and any masks that serve it, the
\* commands reach exactly what the request stands for, whichever of the formulas
\* computed them; and a rebuild that ends well left nothing of its column out.
THEOREM FanoutAlwaysExact ==
  ASSUME ~ReadBoth, Rest = 0, WholePages
  PROVE  FanoutSpec => []FanoutExact
<1> DEFINE Inv == FanInv /\ CopyInv /\ CopiedInv /\ DiscardInv /\ GatherInv
<1>1. FanoutInit => Inv
  <2>1. SUFFICES ASSUME FanoutInit PROVE Inv
    OBVIOUS
  <2>2. FanInv /\ GatherInv
    BY <2>1, FanInit, GatherInit
  <2>3. CopyInv
    BY <2>1, CopyInit
  <2>4. CopiedInv
    <3>1. CASE InitRequest
      BY <3>1 DEF InitRequest, CopiedInv
    <3>2. CASE InitRebuild
      <4>1. cur = 0 /\ pc = "copy" /\ req.op = "rebuild"
        BY <3>2 DEF InitRebuild
      <4>2. \A j \in Nat : ~(j < cur)
        BY <4>1, SMT
      <4> QED
        BY <4>1, <4>2 DEF CopiedInv
    <3> QED
      BY <2>1, <3>1, <3>2 DEF FanoutInit
  <2>5. DiscardInv
    <3>1. Served
      BY <2>1, ServedFirst
    <3>2. pc \in {"new", "copy"} /\ cmd = [m \in Members |-> [slba |-> 0, nlb |-> 0]]
      BY <2>1 DEF FanoutInit, InitRequest, InitRebuild, Idle
    <3> QED
      BY <3>1, <3>2 DEF DiscardInv, DiscardExact
  <2> QED
    BY <2>2, <2>3, <2>4, <2>5
<1>2. Inv /\ [FanoutNext]_fanoutVars => Inv'
  BY FanNext, CopyNext, CopiedNext, DiscardNext, GatherNext
<1>3. Inv => FanoutExact
  <2>1. SUFFICES ASSUME Inv PROVE FanoutExact
    OBVIOUS
  <2>2. AllSent /\ NoTornPage
    BY <2>1, SentRight, NothingTorn
  <2>3. DiscardExact
    BY <2>1 DEF DiscardInv
  <2>4. MapPacked
    <3>1. geo \in Geometries /\ cur \in Nat
      BY <2>1 DEF FanInv, Typed
    <3> QED
      BY <3>1, MapsAgree
  <2>5. CopyComplete
    BY <2>1, NoneLeftOut
  <2> QED
    BY <2>2, <2>3, <2>4, <2>5 DEF FanoutExact
<1> QED
  BY <1>1, <1>2, <1>3, PTL DEF FanoutSpec
=============================================================================
