---------------------------- MODULE RebuildPump ----------------------------
(* The rebuild pump of patch_async_worker.c (kamd_resync) and the control    *)
(* device of patch_ioctl_bridge.c that drives it: one job at a time, copied  *)
(* chunk by chunk, with an operator brake.  One step per critical section of *)
(* engine->lock and per unlocked step of the thread between two of them.     *)
EXTENDS EngineLife, FiniteSets

CONSTANTS
  Slots,      \* member slots, 0 .. RC_ASYNC_MAX_MEMBERS - 1
  Ranges,     \* <<start_sector, end_sector>> of the requests
  Targets,    \* explicit target slots of the requests, -1 for routing
  Chunk,      \* chunk_sectors
  Width,      \* 2^32: the copy length is computed as a u32
  Drives,     \* member counts given to rc_amd_set_resync_geometry()
  MaxJobs,    \* bound: requests accepted
  MaxMarks,   \* bound: fail, reinstate and geometry calls
  Threadless  \* admit an engine whose rebuild thread could not be created

MinNested == 4   \* RC_ASYNC_MIN_NESTED_DRIVES

ASSUME PumpAssumption ==
  /\ Slots \subseteq Nat /\ 0 \in Slots
  /\ Targets \subseteq Slots \cup {-1}
  /\ Chunk \in Nat \ {0} /\ Width \in Nat /\ Chunk < Width
  /\ \A r \in Ranges : r[1] \in Nat /\ r[2] \in Nat /\ r[1] < r[2]
  /\ Drives \subseteq Nat
  /\ None \notin [cursor : Int, end : Int, target : Int, to : Int,
                  result : {"ok", "failed", "cancelled"}]

VARIABLES
  pending,     \* rc_amd_engine.pending_job
  job,         \* the job the thread owns
  pump,        \* where the thread stands
  res,         \* rc_amd_engine.resync
  cancel,      \* rc_amd_engine.resync_cancel
  failed,      \* the failed latch of every slot
  geometry,    \* rc_amd_engine.geometry_drives
  outstanding, \* chunk copies the media layer still has in flight
  stop,        \* kthread_should_stop() of the thread
  ioctl,       \* where a FAIL_MEMBER request stands
  jobs,        \* history: requests accepted
  marks,       \* history: fail, reinstate and geometry calls
  braked       \* history: chunks issued since the running job was cancelled

pumpVars == <<pending, job, pump, res, cancel, failed, geometry, outstanding,
              stop, ioctl, jobs, marks, braked>>
controlVars == <<failed, geometry, ioctl, marks>>

NoJob == [cursor |-> 0, end |-> 0, target |-> -1, to |-> -1, result |-> "ok"]
NoIoctl == [pc |-> "idle", slot |-> 0]
States == {"idle", "pending", "running", "done", "failed", "cancelled"}

PumpInit ==
  /\ pending = None /\ job = None
  /\ pump \in IF Threadless THEN {"top", "gone"} ELSE {"top"}
  /\ res = [state |-> "idle", cursor |-> 0, end |-> 0, target |-> -1]
  /\ cancel = FALSE /\ failed = {} /\ geometry = 0 /\ outstanding = 0
  /\ stop = FALSE /\ ioctl = NoIoctl /\ jobs = 0 /\ marks = 0 /\ braked = 0

(* rc_amd_resync_request: AMD_IOCTL_START_RESYNC.                           *)

Busy == pending # None \/ res.state = "running" \/ cancel

\* A refused request (-ENODEV, -EBUSY, -ENOMEM) leaves no trace.
Request(range, target) ==
  /\ alive /\ ~Busy /\ jobs < MaxJobs
  /\ pending' = [NoJob EXCEPT !.cursor = range[1], !.end = range[2], !.target = target]
  /\ res' = [state |-> "pending", cursor |-> range[1], end |-> range[2], target |-> target]
  /\ jobs' = jobs + 1
  /\ UNCHANGED <<job, pump, cancel, outstanding, stop, braked, controlVars, lifeVars>>

\* rc_amd_resync_cancel: a job no thread has claimed is retired here, a
\* running one is told to stop at its next chunk, and with neither the brake
\* is not latched.
Brake ==
  /\ pending' = None
  /\ res' = IF pending # None THEN [res EXCEPT !.state = "cancelled"] ELSE res
  /\ cancel' = (cancel \/ (pending = None /\ res.state = "running"))
  /\ braked' = IF cancel' /\ ~cancel THEN 0 ELSE braked

Cancel ==
  /\ Brake /\ unload # "down"
  /\ UNCHANGED <<job, pump, outstanding, stop, jobs, controlVars, lifeVars>>

(* Member latches, and AMD_IOCTL_FAIL_MEMBER.                               *)

\* rc_amd_member_failed: so is a slot that does not exist.
Failed(k) == k \notin Slots \/ k \in failed

\* rc_amd_fail_member: the latch alone; nothing evicts a member by itself.
Evict(k) == failed' = failed \cup {k}

\* The first step of the ioctl.
IoctlFail(k) ==
  /\ ioctl.pc = "idle" /\ marks < MaxMarks /\ unload # "down"
  /\ Evict(k) /\ marks' = marks + 1
  /\ ioctl' = [pc |-> "snapshot", slot |-> k]
  /\ UNCHANGED <<pending, job, pump, res, cancel, geometry, outstanding, stop,
                 jobs, braked, lifeVars>>

\* rc_amd_get_resync_progress.
Progress == res

\* The snapshot of the progress decides whether the rebuild is cancelled.
IoctlSnapshot ==
  /\ ioctl.pc = "snapshot"
  /\ ioctl' = IF Progress.state = "running" /\ Progress.target = ioctl.slot
              THEN [ioctl EXCEPT !.pc = "cancel"] ELSE NoIoctl
  /\ UNCHANGED <<pending, job, pump, res, cancel, failed, geometry, outstanding,
                 stop, jobs, marks, braked, lifeVars>>

IoctlCancel ==
  /\ ioctl.pc = "cancel"
  /\ Brake /\ ioctl' = NoIoctl
  /\ UNCHANGED <<job, pump, failed, geometry, outstanding, stop, jobs, marks, lifeVars>>

Reinstate(k) ==
  /\ k \in failed /\ marks < MaxMarks /\ unload # "down"
  /\ failed' = failed \ {k} /\ marks' = marks + 1
  /\ UNCHANGED <<pending, job, pump, res, cancel, geometry, outstanding, stop,
                 ioctl, jobs, braked, lifeVars>>

\* rc_amd_set_resync_geometry: an odd or small member count is rejected.
SetGeometry(n) ==
  /\ n = 0 \/ (n >= MinNested /\ n % 2 = 0)
  /\ n # geometry /\ marks < MaxMarks /\ unload # "down"
  /\ geometry' = n /\ marks' = marks + 1
  /\ UNCHANGED <<pending, job, pump, res, cancel, failed, outstanding, stop,
                 ioctl, jobs, braked, lifeVars>>

(* The thread.                                                              *)

\* rc_amd_resync_claim.
PumpClaim ==
  /\ pump = "top" /\ ~stop /\ pending # None
  /\ job' = pending /\ pending' = None /\ pump' = "start"
  /\ res' = [res EXCEPT !.state = "running"]
  /\ UNCHANGED <<cancel, outstanding, stop, jobs, braked, controlVars, lifeVars>>

\* Without a registered copy hook the job fails with -ENOSYS.
PumpStart ==
  /\ pump = "start"
  /\ \/ pump' = "test" /\ UNCHANGED job
     \/ pump' = "finish" /\ job' = [job EXCEPT !.result = "failed"]
  /\ UNCHANGED <<pending, res, cancel, outstanding, stop, jobs, braked, controlVars,
                 lifeVars>>

\* The head of the copy loop: the end of the range, then the stop request.
PumpTest ==
  /\ pump = "test"
  /\ pump' = IF job.cursor >= job.end \/ stop THEN "finish" ELSE "brake"
  /\ UNCHANGED <<pending, job, res, cancel, outstanding, stop, jobs, braked,
                 controlVars, lifeVars>>

PumpBrake ==
  /\ pump = "brake"
  /\ IF cancel
     THEN job' = [job EXCEPT !.result = "cancelled"] /\ pump' = "finish"
     ELSE pump' = "route" /\ UNCHANGED job
  /\ UNCHANGED <<pending, res, cancel, outstanding, stop, jobs, braked, controlVars,
                 lifeVars>>

\* rc_amd_resync_pick_healthy: the first slot not failed, below a limit.
PickHealthy(limit) ==
  LET healthy == {k \in Slots \ failed : (limit >= 1 /\ limit \in Slots) => k < limit}
  IN IF healthy = {} THEN -1 ELSE CHOOSE k \in healthy : \A j \in healthy : k <= j

\* rc_amd_resync_route: the first copy of the chunk's pair, or the requested
\* slot; a failed or unnamed slot gives way to the first healthy one.
Route ==
  LET to == IF geometry >= MinNested
            THEN 2 * ((job.cursor \div Chunk) % (geometry \div 2)) ELSE job.target
  IN IF Failed(to) THEN PickHealthy(geometry) ELSE to

PumpRoute ==
  /\ pump = "route"
  /\ IF Route < 0
     THEN job' = [job EXCEPT !.result = "failed"] /\ pump' = "finish"
     ELSE job' = [job EXCEPT !.to = Route] /\ pump' = "issue"
  /\ UNCHANGED <<pending, res, cancel, outstanding, stop, jobs, braked, controlVars,
                 lifeVars>>

\* min_t(u32, chunk_sectors, end - cursor).
Sectors == LET left == (job.end - job.cursor) % Width
           IN IF left < Chunk THEN left ELSE Chunk

\* The media hook issues the copy, or fails; the progress is published after.
PumpIssue ==
  /\ pump = "issue"
  /\ braked' = IF cancel THEN braked + 1 ELSE braked
  /\ \/ /\ job' = [job EXCEPT !.result = "failed"] /\ pump' = "finish"
        /\ UNCHANGED outstanding
     \/ /\ job' = [job EXCEPT !.cursor = @ + Sectors] /\ pump' = "publish"
        /\ outstanding' = outstanding + 1
  /\ UNCHANGED <<pending, res, cancel, stop, jobs, controlVars, lifeVars>>

PumpPublish ==
  /\ pump = "publish"
  /\ res' = [res EXCEPT !.cursor = job.cursor, !.target = job.to]
  /\ pump' = "throttle"
  /\ UNCHANGED <<pending, job, cancel, outstanding, stop, jobs, braked, controlVars,
                 lifeVars>>

\* rc_amd_resync_throttle: at most 200 ms for the window to open, or for the
\* stop; the loop goes on either way.
PumpThrottle ==
  /\ pump = "throttle"
  /\ pump' = "test"
  /\ UNCHANGED <<pending, job, res, cancel, outstanding, stop, jobs, braked,
                 controlVars, lifeVars>>

\* The media layer retires a copy and kicks the pump.
Retire ==
  /\ outstanding > 0 /\ outstanding' = outstanding - 1
  /\ UNCHANGED <<pending, job, pump, res, cancel, stop, jobs, braked, controlVars,
                 lifeVars>>

\* Mutant: the brake stays on.
PumpFinishBraked ==
  /\ pump = "finish"
  /\ res' = [res EXCEPT !.cursor = job.cursor,
               !.state = IF job.result = "ok" THEN "done" ELSE job.result]
  /\ job' = None /\ pump' = "top"
  /\ UNCHANGED <<pending, cancel, outstanding, stop, jobs, braked, controlVars,
                 lifeVars>>

\* Mutant: the errno is published as it is.
PumpFinishRaw ==
  /\ pump = "finish"
  /\ res' = [res EXCEPT !.cursor = job.cursor, !.state = job.result]
  /\ cancel' = FALSE /\ job' = None /\ pump' = "top"
  /\ UNCHANGED <<pending, outstanding, stop, jobs, braked, controlVars, lifeVars>>

\* rc_amd_resync_finish: the terminal state, and the brake is released.
PumpFinish ==
  /\ pump = "finish"
  /\ res' = [res EXCEPT !.cursor = job.cursor,
               !.state = IF job.result = "ok" THEN "done" ELSE job.result]
  /\ cancel' = FALSE /\ job' = None /\ pump' = "top"
  /\ UNCHANGED <<pending, outstanding, stop, jobs, braked, controlVars, lifeVars>>

\* The thread leaves; a record that says running is corrected.
PumpExit ==
  /\ pump = "top" /\ stop
  /\ pump' = "gone"
  /\ res' = IF res.state = "running" THEN [res EXCEPT !.state = "cancelled"] ELSE res
  /\ UNCHANGED <<pending, job, cancel, outstanding, stop, jobs, braked, controlVars,
                 lifeVars>>

(* What the unload does to the rebuild.                                     *)

\* No new request; one no thread claimed is freed, its record untouched.
RetirePending ==
  /\ cancel' = TRUE /\ pending' = None
  /\ braked' = IF cancel THEN braked ELSE 0

Thread ==
  \/ PumpClaim \/ PumpStart \/ PumpTest \/ PumpBrake \/ PumpRoute \/ PumpIssue
  \/ PumpPublish \/ PumpThrottle \/ PumpFinish \/ PumpExit

Ioctl == IoctlSnapshot \/ IoctlCancel

PumpNext ==
  \/ \E r \in Ranges, t \in Targets : Request(r, t)
  \/ Cancel \/ Ioctl \/ Thread \/ Retire
  \/ \E k \in Slots : IoctlFail(k) \/ Reinstate(k)
  \/ \E n \in Drives : SetGeometry(n)
=============================================================================
