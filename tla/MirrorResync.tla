---------------------------- MODULE MirrorResync ----------------------------
(***************************************************************************)
(* The RAID1 write path of src/src/rc_nvme.c together with the resync       *)
(* thread that copies a survivor over a stale member while application      *)
(* writes keep arriving, members die, are reset, removed and plugged back.  *)
(*                                                                          *)
(* A write snapshots rc_volume_write_mask, passes the resync gate (count    *)
(* itself in the current write generation, re-read the generation, then     *)
(* read the exclusion window), is submitted to every member of its          *)
(* snapshot and ends when each of them has answered.  The resync thread     *)
(* publishes the window, flips the generation, waits for the writes         *)
(* counted in the old one, copies the chunk and moves on; when the last     *)
(* chunk is copied the target is promoted to LIVE.                          *)
(*                                                                          *)
(* Every access to a shared word that the ordering argument in the code     *)
(* depends on is a step of its own.  State and masks of a member change     *)
(* together here; their separate stores are the subject of MemberState.     *)
(***************************************************************************)
EXTENDS Integers, FiniteSets

CONSTANTS
  Members,      \* the mirror members' slots
  Writers,      \* write requests; each is issued at most once
  Total,        \* rc_volume_resync_total, in sectors
  Xfer,         \* RC_RESYNC_XFER_SECTORS
  MaxRetries,   \* RC_RESYNC_MAX_RETRIES
  Initial,      \* the contents of an in-sync sector before any write
  Stale,        \* the contents of a sector of a member that missed writes
  None,         \* RC_RESYNC_WINDOW_NONE, and "no member"
  MaxFaults,    \* bound: deaths, media errors and removals in one behaviour
  Admit         \* the races a behaviour may contain, see below

(***************************************************************************)
(* The copy protocol is right in the absence of four events.  Each can be   *)
(* admitted to see what it does to the mirrors:                             *)
(*   "snapshot"    a rebuild starts while a write has already snapshotted   *)
(*                 a write mask without the target but is not counted yet;  *)
(*   "late_write"  a resync write that timed out is executed by the         *)
(*                 controller after the thread has retried it;              *)
(*   "survivor"    the survivor errs a write, or is failed, after the       *)
(*                 thread has picked it and before it is read;              *)
(*   "unstopped"   rc_volume_rebuild_work runs between the moment           *)
(*                 rc_volume_remove_member has stopped the resync thread    *)
(*                 and the moment the departing slot is gone.               *)
(***************************************************************************)
Races == {"snapshot", "late_write", "survivor", "unstopped"}

ASSUME ConstantsOK ==
  /\ IsFiniteSet(Members) /\ None \notin Members
  /\ Total \in Nat \ {0} /\ Xfer \in Nat \ {0} /\ MaxRetries \in Nat
  /\ None \notin Int
  /\ Initial \notin Writers /\ Stale \notin Writers /\ Initial # Stale
  /\ MaxFaults \in Nat
  /\ Admit \subseteq Races

Sectors == 0 .. Total - 1
Values  == Writers \cup {Initial, Stale}

VARIABLES
  memberState,   \* rc_volume_member_state[]
  liveMask,      \* rc_volume_live_mask
  writeMask,     \* rc_volume_write_mask
  window,        \* rc_volume_resync_window: first sector excluded, or None
  wgen,          \* parity of rc_volume_wgen
  wgenCount,     \* rc_volume_wgen_count[2], as the set of requests counted
  bounced,       \* hctx->dispatch of blk-mq: writes handed back, kept until
                 \* something runs the hardware queue
  rebuildQueued, \* rc_volume_rebuild_work is scheduled
  resync,        \* the resync kthread
  stop,          \* kthread_should_stop()
  remove,        \* the rc_volume_remove_member in progress
  req,           \* the write requests: position in the path, and their pdu
  data,          \* the media: contents of each sector of each member
  late,          \* timed-out resync writes a controller may still execute
  dead,          \* members whose controller is dead (nvme.dead)
  absent,        \* slots whose rc_volume_members[] pointer is NULL
  faults,        \* number of deaths, media errors and removals so far
  acceptable     \* history: what a read of a sector may return now

memberVars == <<memberState, liveMask, writeMask>>
gateVars   == <<window, wgen, wgenCount, bounced>>
threadVars == <<resync, stop>>
mediaVars  == <<data, late>>
faultVars  == <<dead, absent, faults, remove>>
vars == <<memberVars, gateVars, threadVars, rebuildQueued, mediaVars,
          faultVars, req, acceptable>>

States == {"LIVE", "FAILED", "NEEDS_RESYNC", "RESYNCING"}

\* Where a write request is: not issued; issued and waiting for queue_rq;
\* inside queue_rq after each of its reads of shared state; submitted;
\* answered by every member and unmapped; ended.
Dispatching == {"checked", "snapped", "g_read", "counted", "gated"}
ReqPcs == {"new", "queued", "inflight", "uncounted", "ended"} \cup Dispatching

Active(w)  == req[w].pc \notin {"new", "ended"}
Landing(w) == req[w].pc \in {"inflight", "uncounted"}
Extent(w)  == req[w].pos .. req[w].pos + req[w].nr - 1

Copying   == {"flip", "drain", "read", "write"}
ThreadPcs == {"none", "top", "exit", "settle"} \cup Copying

Threads  == [pc : ThreadPcs, target : Members \cup {None},
             srv : Members \cup {None}, cursor : 0 .. Total,
             oldGen : {0, 1}, buf : [Sectors -> Values],
             retries : 0 .. MaxRetries, ok : BOOLEAN]
Requests == [pc : ReqPcs, pos : Sectors, nr : 1 .. Total,
             mask : SUBSET Members, g : {0, 1}, acked : SUBSET Members,
             err : SUBSET Members]
Copies   == [m : Members, first : 0 .. Total, buf : [Sectors -> Values]]

MembersTyped == /\ memberState \in [Members -> States]
                /\ liveMask \in SUBSET Members /\ writeMask \in SUBSET Members
GateTyped    == /\ window \in Sectors \cup {None}
                /\ wgen \in {0, 1}
                /\ wgenCount \in [{0, 1} -> SUBSET Writers]
                /\ bounced \in SUBSET Writers
ThreadTyped  == /\ resync \in Threads /\ stop \in BOOLEAN
                /\ resync.pc # "none" => resync.target \in Members
                /\ resync.pc \in Copying => resync.srv \in Members
MediaTyped   == /\ data \in [Members -> [Sectors -> Values]]
                /\ late \in SUBSET Copies
FaultsTyped  == /\ dead \in SUBSET Members /\ absent \in SUBSET Members
                /\ faults \in 0 .. MaxFaults
                /\ remove \in [pc : {"idle", "stopping", "freezing"},
                               slot : Members \cup {None}]
                /\ remove.pc # "idle" => remove.slot \in Members

TypeOK ==
  /\ MembersTyped /\ GateTyped /\ ThreadTyped /\ MediaTyped /\ FaultsTyped
  /\ rebuildQueued \in BOOLEAN
  /\ req \in [Writers -> Requests]
  /\ acceptable \in [Sectors -> SUBSET Values]

-----------------------------------------------------------------------------
(* Initial states: an assembled mirror, all members in sync or one of them  *)
(* parked NEEDS_RESYNC with its rebuild scheduled.                          *)

Idle == [pc |-> "none", target |-> None, srv |-> None, cursor |-> 0,
         oldGen |-> 0, buf |-> [s \in Sectors |-> Initial], retries |-> 0,
         ok |-> FALSE]

Fresh == [pc |-> "new", pos |-> 0, nr |-> 1, mask |-> {}, g |-> 0,
          acked |-> {}, err |-> {}]

Init ==
  /\ \E parked \in {{}} \cup {{m} : m \in Members} :
       /\ parked # Members
       /\ memberState = [m \in Members |->
                           IF m \in parked THEN "NEEDS_RESYNC" ELSE "LIVE"]
       /\ liveMask = Members \ parked
       /\ writeMask = Members \ parked
       /\ rebuildQueued = (parked # {})
       /\ data = [m \in Members |-> [s \in Sectors |->
                    IF m \in parked THEN Stale ELSE Initial]]
  /\ window = None /\ wgen = 0 /\ wgenCount = [g \in {0, 1} |-> {}]
  /\ bounced = {}
  /\ resync = Idle /\ stop = FALSE
  /\ remove = [pc |-> "idle", slot |-> None]
  /\ req = [w \in Writers |-> Fresh]
  /\ dead = {} /\ absent = {} /\ late = {} /\ faults = 0
  /\ acceptable = [s \in Sectors |-> {Initial}]

-----------------------------------------------------------------------------
(* Member state transitions.                                                *)

\* rc_volume_member_set_state, for the members of S.
SetState(S, st) ==
  /\ memberState' = [m \in Members |-> IF m \in S THEN st ELSE memberState[m]]
  /\ liveMask'  = IF st = "LIVE" THEN liveMask \cup S ELSE liveMask \ S
  /\ writeMask' = IF st \in {"LIVE", "RESYNCING"} THEN writeMask \cup S
                                                  ELSE writeMask \ S

\* rc_volume_member_mark_failed, for each member of S: a member that is
\* neither LIVE nor RESYNCING keeps its state.
MarkFailed(S) ==
  SetState({m \in S : memberState[m] \in {"LIVE", "RESYNCING"}}, "FAILED")

\* rc_volume_can_serve for RAID1.
CanServe(live) == live # {}

-----------------------------------------------------------------------------
(* The application and the write path.                                      *)

\* The application issues a write.  Writes in flight together do not overlap:
\* a file system or a database serialises writes to one block.
Issue(w, pos, nr) ==
  /\ req[w].pc = "new"
  /\ pos + nr <= Total
  /\ \A v \in Writers : Active(v) => Extent(v) \cap (pos .. pos + nr - 1) = {}
  /\ req' = [req EXCEPT ![w].pc = "queued", ![w].pos = pos, ![w].nr = nr]
  /\ UNCHANGED <<memberVars, gateVars, threadVars, rebuildQueued, mediaVars,
                 faultVars, acceptable>>

\* rc_volume_fatal at the top of rc_volume_queue_rq: dead controllers are
\* folded into the member states; with no live member left the request fails.
CheckFatal(w) ==
  /\ req[w].pc = "queued" /\ w \notin bounced
  /\ MarkFailed(dead \ absent)
  /\ req' = [req EXCEPT
       ![w] = IF CanServe(liveMask') THEN [@ EXCEPT !.pc = "checked"]
                                     ELSE [Fresh EXCEPT !.pc = "ended"]]
  /\ bounced' = IF CanServe(liveMask') THEN bounced ELSE {}
  /\ UNCHANGED <<window, wgen, wgenCount, threadVars, rebuildQueued, mediaVars,
                 faultVars, acceptable>>

\* rc_volume_dispatch_mirror: the write mask is read once for the dispatch.
SnapshotMask(w) ==
  /\ req[w].pc = "checked"
  /\ req' = [req EXCEPT
       ![w] = IF writeMask = {}
              THEN [Fresh EXCEPT !.pc = "ended"]
              ELSE [@ EXCEPT !.pc = "snapped", !.mask = writeMask]]
  /\ bounced' = IF writeMask = {} THEN {} ELSE bounced
  /\ UNCHANGED <<memberVars, window, wgen, wgenCount, threadVars, rebuildQueued,
                 mediaVars, faultVars, acceptable>>

\* rc_volume_resync_gate: read the generation ...
GateReadGen(w) ==
  /\ req[w].pc = "snapped"
  /\ req' = [req EXCEPT ![w].pc = "g_read", ![w].g = wgen]
  /\ UNCHANGED <<memberVars, gateVars, threadVars, rebuildQueued, mediaVars,
                 faultVars, acceptable>>

\* ... count the request in it ...
GateCount(w) ==
  /\ req[w].pc = "g_read"
  /\ wgenCount' = [wgenCount EXCEPT ![req[w].g] = @ \cup {w}]
  /\ req' = [req EXCEPT ![w].pc = "counted"]
  /\ UNCHANGED <<memberVars, window, wgen, bounced, threadVars, rebuildQueued,
                 mediaVars, faultVars, acceptable>>

\* Mutant: the generation is not read again.
GateRecheckSkipped(w) ==
  /\ req[w].pc = "counted"
  /\ req' = [req EXCEPT ![w].pc = "gated"]
  /\ UNCHANGED <<memberVars, gateVars, threadVars, rebuildQueued, mediaVars,
                 faultVars, acceptable>>

\* ... start over if the generation moved meanwhile ...
GateRecheck(w) ==
  /\ req[w].pc = "counted"
  /\ IF wgen = req[w].g
     THEN /\ req' = [req EXCEPT ![w].pc = "gated"]
          /\ UNCHANGED wgenCount
     ELSE /\ req' = [req EXCEPT ![w].pc = "snapped"]
          /\ wgenCount' = [wgenCount EXCEPT ![req[w].g] = @ \ {w}]
  /\ UNCHANGED <<memberVars, window, wgen, bounced, threadVars, rebuildQueued,
                 mediaVars, faultVars, acceptable>>

\* The overlap test of the gate, on [pos, pos+nr) and the window.
HitsWindow(w) ==
  /\ window # None
  /\ req[w].pos < window + Xfer
  /\ req[w].pos + req[w].nr > window

\* Mutant: a write that is handed back stays counted.
GateWindowLeaks(w) ==
  /\ req[w].pc = "gated"
  /\ IF HitsWindow(w)
     THEN /\ req' = [req EXCEPT ![w] = [Fresh EXCEPT !.pc = "queued",
                                       !.pos = req[w].pos, !.nr = req[w].nr]]
          /\ bounced' = bounced \cup {w}
     ELSE /\ req' = [req EXCEPT ![w].pc = "inflight"]
          /\ UNCHANGED bounced
  /\ UNCHANGED <<memberVars, window, wgen, wgenCount, threadVars, rebuildQueued,
                 mediaVars, faultVars, acceptable>>

\* ... and read the window: a hit takes the count back and hands the request
\* back to blk-mq (BLK_STS_DEV_RESOURCE), which keeps it until the queue is run;
\* otherwise it is started and submitted to every member of the snapshot.
GateWindow(w) ==
  /\ req[w].pc = "gated"
  /\ IF HitsWindow(w)
     THEN /\ wgenCount' = [wgenCount EXCEPT ![req[w].g] = @ \ {w}]
          /\ req' = [req EXCEPT ![w] = [Fresh EXCEPT !.pc = "queued",
                                       !.pos = req[w].pos, !.nr = req[w].nr]]
          /\ bounced' = bounced \cup {w}
     ELSE /\ req' = [req EXCEPT ![w].pc = "inflight"]
          /\ UNCHANGED <<wgenCount, bounced>>
  /\ UNCHANGED <<memberVars, window, wgen, threadVars, rebuildQueued,
                 mediaVars, faultVars, acceptable>>

\* What the media hold once the member m has executed w.
Written(w, m) ==
  [data EXCEPT ![m] = [s \in Sectors |-> IF s \in Extent(w) THEN w ELSE @[s]]]

\* Mutant: a write completes on the first answer.
OwedUntilFirst(w) ==
  IF req[w].pc = "inflight" /\ req[w].acked = {} THEN req[w].mask ELSE {}

Owed(w) == IF req[w].pc = "inflight" THEN req[w].mask \ req[w].acked ELSE {}

\* A member executes its copy of the write and its completion is consumed.
MemberAck(w, m) ==
  /\ m \in Owed(w) /\ m \notin dead
  /\ data' = Written(w, m)
  /\ req' = [req EXCEPT ![w].acked = @ \cup {m}]
  /\ UNCHANGED <<memberVars, gateVars, threadVars, rebuildQueued, late,
                 faultVars, acceptable>>

\* A fault may happen: within the bound.
MayFault == faults < MaxFaults

\* A dead controller's command completes with an error, from its CQE or
\* synthesized by the drain (rc_volume_drain_iter); the media may or may not
\* have been written.
DeadError(w, m) ==
  /\ m \in Owed(w) /\ m \in dead
  /\ data' \in {data, Written(w, m)}
  /\ req' = [req EXCEPT ![w].acked = @ \cup {m}, ![w].err = @ \cup {m}]
  /\ UNCHANGED <<memberVars, gateVars, threadVars, rebuildQueued, late,
                 faultVars, acceptable>>

\* A live controller answers with an error status and has not written.
MediaError(w, m) ==
  /\ m \in Owed(w) /\ m \notin dead /\ MayFault
  /\ faults' = faults + 1
  /\ req' = [req EXCEPT ![w].acked = @ \cup {m}, ![w].err = @ \cup {m}]
  /\ UNCHANGED <<memberVars, gateVars, threadVars, rebuildQueued, mediaVars,
                 dead, absent, remove, acceptable>>

\* The last completion: rc_volume_unmap_request_sg gives the count back ...
Uncount(w) ==
  /\ req[w].pc = "inflight" /\ Owed(w) = {}
  /\ wgenCount' = [wgenCount EXCEPT ![req[w].g] = @ \ {w}]
  /\ req' = [req EXCEPT ![w].pc = "uncounted"]
  /\ UNCHANGED <<memberVars, window, wgen, bounced, threadVars, rebuildQueued,
                 mediaVars, faultVars, acceptable>>

\* ... then rc_volume_finish_status fails the members that erred and the
\* request ends, in error only if every member of the snapshot erred: then a
\* later read may return the old contents or the new ones.  A request that ends
\* makes blk-mq run the queue it has marked for a restart.
Finish(w) ==
  /\ req[w].pc = "uncounted"
  /\ MarkFailed(req[w].err)
  /\ acceptable' = [s \in Sectors |->
       IF s \notin Extent(w) THEN acceptable[s]
       ELSE {w} \cup (IF req[w].err = req[w].mask THEN acceptable[s] ELSE {})]
  /\ req' = [req EXCEPT ![w] = [Fresh EXCEPT !.pc = "ended"]]
  /\ bounced' = {}
  /\ UNCHANGED <<window, wgen, wgenCount, threadVars, rebuildQueued, mediaVars,
                 faultVars>>

\* blk-mq runs the queue for a reason of its own - another request arrives, it
\* has not marked the queue for a restart - and dispatches what it kept.
RunQueue ==
  /\ bounced # {}
  /\ bounced' = {}
  /\ UNCHANGED <<memberVars, window, wgen, wgenCount, threadVars, rebuildQueued,
                 mediaVars, faultVars, req, acceptable>>

-----------------------------------------------------------------------------
(* The rebuild scheduler and the resync thread.                             *)

\* rc_volume_resync_pick_survivor for RAID1: any live member but the target.
Survivors(target) == liveMask \ ({target} \cup absent)

\* A dispatch that may still count itself with a mask that lacks m.
Bypasses(m) == \E w \in Writers : /\ req[w].pc \in {"snapped", "g_read", "counted"}
                                  /\ m \notin req[w].mask

\* rc_volume_rebuild_fn: with no thread running, start one for a parked member
\* whose survivor is live (the code takes the first such slot), which may fail
\* and parks the member again; else do nothing.
StartRebuild ==
  LET parked == {m \in Members \ absent : memberState[m] = "NEEDS_RESYNC"
                                           /\ Survivors(m) # {}}
  IN /\ rebuildQueued
     /\ rebuildQueued' = FALSE
     /\ IF resync.pc = "none" /\ parked # {}
        THEN \E m \in parked :
               /\ Bypasses(m) => "snapshot" \in Admit
               /\ remove.pc # "idle" => "unstopped" \in Admit
               /\ \/ /\ SetState({m}, "RESYNCING")
                     /\ resync' = [Idle EXCEPT !.pc = "top", !.target = m]
                  \/ UNCHANGED <<memberVars, resync>>
        ELSE UNCHANGED <<memberVars, resync>>
     /\ UNCHANGED <<gateVars, stop, mediaVars, faultVars, req, acceptable>>

Min(a, b) == IF a <= b THEN a ELSE b

\* The sectors of the chunk at the cursor.
Chunk == resync.cursor .. Min(resync.cursor + Xfer, Total) - 1

\* The top of the copy loop: the checks that end it, then the survivor is
\* picked and the exclusion window published.
LoopTop ==
  /\ resync.pc = "top"
  /\ IF \/ resync.cursor = Total
        \/ stop
        \/ resync.target \in absent
        \/ memberState[resync.target] # "RESYNCING"
        \/ Survivors(resync.target) = {}
     THEN /\ resync' = [resync EXCEPT !.pc = "exit",
                                      !.ok = (resync.cursor = Total)]
          /\ UNCHANGED window
     ELSE /\ \E s \in Survivors(resync.target) :
               resync' = [resync EXCEPT !.pc = "flip", !.srv = s]
          /\ window' = resync.cursor
  /\ UNCHANGED <<memberVars, wgen, wgenCount, bounced, stop, rebuildQueued,
                 mediaVars, faultVars, req, acceptable>>

\* atomic_fetch_inc(&rc_volume_wgen), of which only the parity is used.
FlipGen ==
  /\ resync.pc = "flip"
  /\ wgen' = 1 - wgen
  /\ resync' = [resync EXCEPT !.pc = "drain", !.oldGen = wgen]
  /\ UNCHANGED <<memberVars, window, wgenCount, bounced, stop, rebuildQueued,
                 mediaVars, faultVars, req, acceptable>>

\* Mutant: the copy starts without waiting.
DrainSkipped ==
  /\ resync.pc = "drain"
  /\ resync' = [resync EXCEPT !.pc = "read"]
  /\ UNCHANGED <<memberVars, gateVars, stop, rebuildQueued, mediaVars,
                 faultVars, req, acceptable>>

\* Wait for the writes counted in the old generation, or give up on a stop.
Drain ==
  /\ resync.pc = "drain"
  /\ \/ /\ wgenCount[resync.oldGen] = {}
        /\ resync' = [resync EXCEPT !.pc = "read"]
     \/ /\ wgenCount[resync.oldGen] # {} /\ stop
        /\ resync' = [resync EXCEPT !.pc = "exit"]
  /\ UNCHANGED <<memberVars, gateVars, stop, rebuildQueued, mediaVars,
                 faultVars, req, acceptable>>

\* Mutant: a transient error is retried without end.
TransientForever ==
  [resync EXCEPT !.pc = "top", !.retries = @ + 1, !.buf = Idle.buf]

\* A transient error of a copy command (-EBUSY, -ETIMEDOUT) repeats the chunk
\* a bounded number of times; any other error ends the copy.
Transient == [resync EXCEPT
  !.pc = IF resync.retries < MaxRetries THEN "top" ELSE "exit",
  !.retries = IF resync.retries < MaxRetries THEN @ + 1 ELSE @,
  !.buf = Idle.buf]

Failed == [resync EXCEPT !.pc = "exit", !.buf = Idle.buf]

\* The survivor is what it was picked for: LIVE, and no write that it erred is
\* on its way to rc_volume_finish_status.  The code does not look again.
StillSurvives == /\ resync.srv \in liveMask
                 /\ \A w \in Writers : resync.srv \notin req[w].err

ReadChunk ==
  /\ resync.pc = "read"
  /\ \/ /\ resync.srv \notin dead
        /\ StillSurvives \/ "survivor" \in Admit
        /\ resync' = [resync EXCEPT !.pc = "write",
             !.buf = [s \in Sectors |->
                        IF s \in Chunk THEN data[resync.srv][s] ELSE @[s]]]
     \/ resync' \in {Transient, Failed}
  /\ UNCHANGED <<memberVars, gateVars, stop, rebuildQueued, mediaVars,
                 faultVars, req, acceptable>>

\* The media once m has executed a resync write of the sectors S of buf.
Copied(m, S, buf) ==
  [data EXCEPT ![m] = [s \in Sectors |-> IF s \in S THEN buf[s] ELSE @[s]]]

\* A resync write succeeds, fails, or times out; one that timed out may have
\* been executed, and may, if that is admitted, still be executed later.
WriteChunk ==
  /\ resync.pc = "write"
  /\ \/ /\ resync.target \notin dead
        /\ data' = Copied(resync.target, Chunk, resync.buf)
        /\ resync' = [resync EXCEPT !.pc = "top", !.retries = 0,
                        !.cursor = Min(@ + Xfer, Total), !.buf = Idle.buf]
        /\ UNCHANGED late
     \/ /\ data' \in {data, Copied(resync.target, Chunk, resync.buf)}
        /\ resync' \in {Transient, Failed}
        /\ UNCHANGED late
     \/ /\ "late_write" \in Admit /\ resync.target \notin dead
        /\ late' = late \cup {[m |-> resync.target, first |-> resync.cursor,
                               buf |-> resync.buf]}
        /\ resync' = Transient
        /\ UNCHANGED data
  /\ UNCHANGED <<memberVars, gateVars, stop, rebuildQueued, faultVars, req,
                 acceptable>>

\* The controller executes a resync write the thread has given up waiting for.
LateWrite ==
  \E c \in late :
    /\ data' = Copied(c.m, c.first .. Min(c.first + Xfer, Total) - 1, c.buf)
    /\ late' = late \ {c}
    /\ UNCHANGED <<memberVars, gateVars, threadVars, rebuildQueued, faultVars,
                   req, acceptable>>

\* Mutant: the last window stays published.
CloseWindowForgotten ==
  /\ resync.pc = "exit"
  /\ resync' = [resync EXCEPT !.pc = "settle"]
  /\ UNCHANGED <<memberVars, gateVars, stop, rebuildQueued, mediaVars,
                 faultVars, req, acceptable>>

\* done: the window is withdrawn ...
CloseWindow ==
  /\ resync.pc = "exit"
  /\ window' = None
  /\ resync' = [resync EXCEPT !.pc = "settle"]
  /\ UNCHANGED <<memberVars, wgen, wgenCount, bounced, stop, rebuildQueued,
                 mediaVars, faultVars, req, acceptable>>

\* ... and, under rc_volume_lock, a target that is still RESYNCING is promoted
\* or parked; after a clean copy the scheduler runs again.
Settle ==
  /\ resync.pc = "settle"
  /\ IF memberState[resync.target] = "RESYNCING"
     THEN SetState({resync.target}, IF resync.ok THEN "LIVE" ELSE "NEEDS_RESYNC")
     ELSE UNCHANGED memberVars
  /\ rebuildQueued' = (rebuildQueued \/ resync.ok)
  /\ resync' = Idle /\ stop' = FALSE
  /\ UNCHANGED <<gateVars, mediaVars, faultVars, req, acceptable>>

-----------------------------------------------------------------------------
(* Faults, controller reset, removal and re-plug.                           *)

\* A controller dies (CSTS.CFS, gone from the bus, a timed-out command), or an
\* operator resets a working one: nvme.dead is set either way.
Break(m) ==
  /\ m \notin dead /\ MayFault
  /\ dead' = dead \cup {m} /\ faults' = faults + 1
  /\ UNCHANGED <<memberVars, gateVars, threadVars, rebuildQueued, mediaVars,
                 absent, remove, req, acceptable>>

\* fail_member_store: the operator fails a member.
OperatorFail(m) ==
  /\ m \notin absent /\ memberState[m] \in {"LIVE", "RESYNCING"} /\ MayFault
  /\ MarkFailed({m})
  /\ faults' = faults + 1
  /\ UNCHANGED <<gateVars, threadVars, rebuildQueued, mediaVars, dead, absent,
                 remove, req, acceptable>>

\* Mutant: a recovered controller rejoins at once.
ResetRejoins(m) ==
  /\ m \in dead \ absent /\ remove.slot # m
  /\ \A w \in Writers : req[w].pc \notin Dispatching /\ m \notin Owed(w)
  /\ dead' = dead \ {m}
  /\ late' = {c \in late : c.m # m}
  /\ IF memberState[m] = "FAILED" THEN SetState({m}, "LIVE")
                                 ELSE UNCHANGED memberVars
  /\ bounced' = {}
  /\ UNCHANGED <<window, wgen, wgenCount, threadVars, rebuildQueued, data,
                 absent, faults, remove, req, acceptable>>

\* rc_nvme_reset_controller succeeds: the queue was quiesced, the commands
\* owed by m were completed in error, and those still in the controller wiped.
\* A member that was failed is parked for a rebuild.  To unquiesce the queue is
\* to run it.
Reset(m) ==
  /\ m \in dead \ absent /\ remove.slot # m
  /\ \A w \in Writers : req[w].pc \notin Dispatching /\ m \notin Owed(w)
  /\ dead' = dead \ {m}
  /\ late' = {c \in late : c.m # m}
  /\ IF memberState[m] = "FAILED"
     THEN SetState({m}, "NEEDS_RESYNC") /\ rebuildQueued' = TRUE
     ELSE UNCHANGED <<memberVars, rebuildQueued>>
  /\ bounced' = {}
  /\ UNCHANGED <<window, wgen, wgenCount, threadVars, data, absent, faults,
                 remove, req, acceptable>>

\* rc_volume_remove_member, first half: a running resync is stopped.
RemoveStop(m) ==
  /\ remove.pc = "idle" /\ m \notin absent /\ MayFault
  /\ Survivors(m) # {}
  /\ remove' = [pc |-> "stopping", slot |-> m]
  /\ stop' = (resync.pc # "none")
  /\ faults' = faults + 1
  /\ UNCHANGED <<memberVars, gateVars, resync, rebuildQueued, mediaVars, dead,
                 absent, req, acceptable>>

\* Once the thread is gone, and a survivor keeps the volume serving, the member
\* is failed, its controller declared dead and drained, and the queue's freeze
\* begun, which runs it ...
RemoveDetach ==
  /\ remove.pc = "stopping" /\ ~stop
  /\ Survivors(remove.slot) # {}
  /\ SetState({remove.slot}, "FAILED")
  /\ dead' = dead \cup {remove.slot}
  /\ remove' = [remove EXCEPT !.pc = "freezing"]
  /\ bounced' = {}
  /\ UNCHANGED <<window, wgen, wgenCount, threadVars, rebuildQueued, mediaVars,
                 absent, faults, req, acceptable>>

\* ... which waits for every request to end, and the slot is cleared.
RemoveFinish ==
  /\ remove.pc = "freezing"
  /\ \A w \in Writers : ~Active(w)
  /\ absent' = absent \cup {remove.slot}
  /\ late' = {c \in late : c.m # remove.slot}
  /\ remove' = [pc |-> "idle", slot |-> None]
  /\ UNCHANGED <<memberVars, gateVars, threadVars, rebuildQueued, data, dead,
                 faults, req, acceptable>>

\* rc_volume_register_member finds an empty slot of an assembled mirror: the
\* member is parked and rc_volume_member_readmitted called.
Replug(m) ==
  /\ m \in absent
  /\ absent' = absent \ {m} /\ dead' = dead \ {m}
  /\ SetState({m}, "NEEDS_RESYNC") /\ rebuildQueued' = TRUE
  /\ UNCHANGED <<gateVars, threadVars, mediaVars, faults, remove, req,
                 acceptable>>

-----------------------------------------------------------------------------
WriterStep(w) ==
  \/ CheckFatal(w) \/ SnapshotMask(w) \/ GateReadGen(w) \/ GateCount(w)
  \/ GateRecheck(w) \/ GateWindow(w) \/ Uncount(w) \/ Finish(w)

MemberAnswers(w, m) == MemberAck(w, m) \/ DeadError(w, m)

ThreadStep ==
  \/ LoopTop \/ FlipGen \/ Drain \/ ReadChunk \/ WriteChunk \/ CloseWindow
  \/ Settle

RemoveStep == RemoveDetach \/ RemoveFinish

Next ==
  \/ \E w \in Writers :
       \/ \E pos \in Sectors, nr \in 1 .. Total : Issue(w, pos, nr)
       \/ WriterStep(w)
       \/ \E m \in Members : MemberAnswers(w, m) \/ MediaError(w, m)
  \/ RunQueue \/ StartRebuild \/ ThreadStep \/ LateWrite
  \/ \E m \in Members : Break(m) \/ OperatorFail(m) \/ Reset(m)
                          \/ RemoveStop(m) \/ Replug(m)
  \/ RemoveStep

Spec == Init /\ [][Next]_vars

\* The kernel schedules the threads and works, and every command is answered:
\* by its controller, or by the drain once the timeout has declared it dead.
\* blk-mq owes a write it keeps no run of the queue of its own accord (RunQueue):
\* the driver said that it would see to that.
Fairness ==
  /\ WF_vars(ThreadStep) /\ WF_vars(StartRebuild) /\ WF_vars(RemoveStep)
  /\ \A w \in Writers :
       WF_vars(WriterStep(w)) /\ \A m \in Members : WF_vars(MemberAnswers(w, m))

LiveSpec == Spec /\ Fairness

-----------------------------------------------------------------------------
(* Safety.                                                                  *)

\* "After the drain, no application write overlapping this chunk is in flight,
\* and none can start until the window moves": while the thread reads or writes
\* a chunk no submitted write overlaps it.
CopyExclusive ==
  resync.pc \in {"read", "write"} =>
    /\ window = resync.cursor
    /\ \A w \in Writers : req[w].pc = "inflight" => ~HitsWindow(w)

\* No write in flight covers s.
Quiet(s) == \A w \in Writers : Landing(w) => s \notin Extent(w)

\* A LIVE member serves reads, so every sector of it that no write in flight
\* covers holds what the application may read: the last acknowledged write, or
\* what a failed write left possible.
LiveCurrent ==
  \A m \in Members, s \in Sectors :
    memberState[m] = "LIVE" /\ m \in liveMask /\ m \notin dead /\ Quiet(s)
      => data[m][s] \in acceptable[s]

\* Behind the resync cursor the target is already as good as a LIVE member:
\* "a resyncing member receives every application write (so blocks behind the
\* resync cursor stay current)".
CopiedCurrent ==
  resync.pc \in Copying \cup {"top"} /\ resync.target \notin dead
    /\ memberState[resync.target] = "RESYNCING" =>
    \A s \in 0 .. resync.cursor - 1 :
      Quiet(s) => data[resync.target][s] \in acceptable[s]

\* The thread has been stopped "before ANY member departs": once a slot is
\* cleared no thread copies from or to it.
DepartedNotCopied ==
  resync.pc \in Copying => {resync.target, resync.srv} \cap absent = {}

\* No member lacks an acknowledged write that it is read for or was copied past,
\* and no copy goes on with a member that left.
CopiesCurrent == LiveCurrent /\ CopiedCurrent /\ DepartedNotCopied

(* Action properties.                                                       *)

\* A member becomes LIVE only from RESYNCING, at the end of a complete copy:
\* no reset, re-plug or failure path puts a stale mirror back into the reads.
PromotedOnlyByCopy ==
  [][\A m \in Members : memberState[m] # "LIVE" /\ memberState'[m] = "LIVE" =>
       resync.target = m /\ resync.ok /\ resync.cursor = Total]_vars

(* Refinement.                                                              *)

\* The mirror behaves as one disk: what its LIVE members would return for a
\* sector is what LogicalDisk allows.
Disk == INSTANCE LogicalDisk WITH
  status   <- [w \in Writers |-> IF Active(w) THEN "pending" ELSE req[w].pc],
  extent   <- [w \in Writers |-> IF Active(w) THEN Extent(w) ELSE {}],
  readable <- [s \in Sectors |-> {data[m][s] : m \in liveMask \ dead}]

BehavesAsOneDisk == Disk!Spec

(* Liveness.                                                                *)

\* A request turned away is handed back "so blk-mq retries once the window has
\* moved": every write issued ends.
WritesEnd == \A w \in Writers : req[w].pc = "queued" ~> req[w].pc = "ended"

\* A resync thread ends: the drain never waits for a write that waits for it.
ResyncEnds == resync.pc # "none" ~> resync.pc = "none"

\* The window has gone, and the writes it turned away are all that is left:
\* nothing is to come that would run the queue.
Stranded == /\ window = None /\ bounced # {}
            /\ \A w \in Writers : Active(w) => w \in bounced

\* Neither side of the gate waits for ever for the other: every rebuild ends, and
\* every write does, unless in the end there are only stranded ones.
AllEnd == ResyncEnds /\ (WritesEnd \/ <>[]Stranded)
=============================================================================
