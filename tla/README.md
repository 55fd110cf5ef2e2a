# Verification of the amd-raid-driver

TLA+ models of the NVMe/RAID driver in `src/src/rc_nvme.c` (paths below are
relative to the repository; line numbers are of this commit), the TLC runs that
check them on small instances, and proofs, checked by TLAPS, that hold for every
instance.

## 1. The system and its hard parts

The driver drives a set of NVMe controllers directly (admin queue, I/O queues,
interrupts), reads AMD's RAIDCore metadata, assembles one volume
(`/dev/rcraid0`, RAID0, RAID1 or RAID10) and serves it through blk-mq.

| component | state | operations | what must hold |
|---|---|---|---|
| Mirrored write path (`rc_volume_dispatch_mirror`, `rc_volume_resync_gate`) | the pdu: member mask, pending count, generation | snapshot of the write mask, gate, fan-out, completion, requeue | a write is acknowledged when every member that serves reads afterwards has it; a write never runs into a chunk being copied |
| Resync engine (`rc_volume_resync_fn`) | cursor, window, write generation and its two counters | publish, flip, drain, read, write, advance, promote or park | the target is as good as its source behind the cursor; nothing else is ever promoted |
| Rebuild scheduler (`rc_volume_rebuild_fn`, `rc_volume_member_readmitted`) | one thread slot, a work item | start, reap, stop | every parked member that can be rebuilt is; no thread touches a departed member |
| Member states (`rc_volume_member_set_state`, `_mark_failed`) | `rc_volume_member_state[]`, live mask, write mask | LIVE, FAILED, NEEDS_RESYNC, RESYNCING | the masks follow the states; no failure is lost |
| Request completion (`rc_nvme_io_queue_irq`, `rc_volume_complete`, `rc_volume_drain_dead`, `rc_volume_timeout`) | the pdu: acked, errors, claim; blk-mq's request state | consume, synthesize, claim, end, abort, declare dead | every request ends exactly once, and not before its members are done with its buffers |
| Queues and synchronous commands (`rc_nvme_sq_reserve`, `_io_submit`, `_io_cmd_sync`) | ring indices, phase, reservations, the synchronous handshake | reserve, submit, consume, time out | the ring is never overrun, an answer is given to the command it belongs to |
| Controller (`rc_nvme_init_controller`, `rc_nvme_reset_controller`, auto-reset work, admin queue) | CC.EN and CSTS, dead flag and latch, admin ring, queue memory | bring up, disable, drain, enable, recreate queues, rejoin, tear down | what is not dead is usable; nothing the controller knows is freed; resets do not thrash |
| Assembly, re-add, removal, teardown (`rc_volume_register_member`, `rc_volume_assemble_fn`, `rc_volume_remove_member`, `rc_volume_teardown`) | the registry of slots | register, assemble, degrade, remove, tear down | at most one adapter per slot, no pointer to a departed one |
| Geometry (`rc_volume_map_lba`, `rc_volume_phys_for_member`, the multi-stripe fan-outs) | none | pure | one sector, one place; all fan-outs agree |
| Power management (`rc_nvme_pm_suspend_adapter`, `_resume_adapter`) | freeze of the volume's queue | suspend, resume | no command while the controllers are down; every suspend is taken back |
| Asynchronous engine (`patch_async_worker.c`), ioctl bridge | contexts, graveyard, rebuild job, brake | dispatch, report, abort, reap; request, cancel, fail a member; unload | one completion, no use after free, a brake that works once, an unload that ends |
| Parity (`patch_parity_math.c`), sysfs, PCI and configuration code, GUI, packaging | — | — | see `PROJECT.json` |

How they interact: an application request enters `rc_volume_queue_rq` on any
CPU, reads the member masks without a lock, and is submitted to one queue of
each member.  Interrupt handlers of different members consume its completions
concurrently.  A dead controller is noticed by an interrupt handler, by the
next dispatch or by the timeout handler; the member is failed, and a work item
drains the requests that wait for it.  The reset of a controller, an operator,
the hot-plug code and the resync thread change member states under
`rc_volume_lock`, concurrently with the lock-free failure path.  What is hard is
the interleaving: the masks are snapshots, the pdu of a request is reused with
its tag, a controller can answer late, and a resync copies old data under
running writes.  `PROJECT.json` lists the hazards one by one, with the line at
which each bites and the properties that cover it.

## 2. The modules

| module | contents |
|---|---|
| `LogicalDisk` | what the volume promises: one disk, on which a read returns the last acknowledged write, or an outstanding or failed one |
| `MirrorResync` | a RAID1 volume: write path, gate, resync thread, scheduler, failures, reset, removal, re-plug; shown to implement `LogicalDisk` |
| `MCMirrorResync` | symmetry for TLC |
| `MirrorResync_proofs` | type correctness, the exclusion theorem, that copies are current and promoted only when complete, and the refinement of `LogicalDisk` |
| `RequestCompletion` | one mirrored request from dispatch to `blk_mq_end_request`, and the four actors that race to end it |
| `MCRequestCompletion` | symmetry for TLC |
| `RequestCompletion_proofs` | type correctness, that every request ends at most once, that nothing is owed to it then, and that OK is durable |
| `IoQueue` | one I/O queue: reservations, rings, phases, the synchronous handshake, the reset that wipes it |
| `MCIoQueue` | symmetry for TLC |
| `StripeFanout` | where the sectors of a RAID0 or RAID10 volume live; one request's fan-out, one rebuild's copy |
| `MCStripeFanout` | small volumes for TLC |
| `Assembly` | the registry of members and the life of the disk built on it: probe, timer, failure, reset, rebuild, removal, re-admission, teardown |
| `MCAssembly` | the sets of drives the runs start from |
| `Assembly_proofs` | that slots and adapters agree, only slots with a member are in the masks, disks are assembled right, nothing stale is served and every member has the queues and PRP slices of the disk |
| `MemberState` | the states of the members and their masks, store by store, with the scheduler and several parked members |
| `MCMemberState` | constants for TLC |
| `Controller` | one NVMe controller and the paths that drive it: probe, reset, timeout, degrade work, auto-reset, suspend, removal |
| `MCController` | constants for TLC |
| `EngineLife` | what the two pumps of the asynchronous engine share: the latch and the unload |
| `MirrorBio` | the mirror completion pump: contexts, graveyard, worker |
| `RebuildPump` | the rebuild pump, with its brake, and the control device that drives it |
| `AsyncEngine` | both pumps and the unload that stops them |
| `MCAsyncEngine` | small fan-outs and ranges for TLC |
| `Dispatch` | `rc_volume_queue_rq` and its dispatch paths on several CPUs: what each takes, in which order, and gives back; the hand-back to blk-mq |
| `MCDispatch` | a volume of each level; how many requests each is asked |
| `Adapter` | the life of the module and of its devices: load, probe, removal, unload, each step with its failure, and who may be inside the driver meanwhile |
| `MCAdapter` | two members of an array, or one and a controller that is not NVMe; symmetry for TLC |
| `AsyncEngine_proofs` | that parents are told once, contexts reaped once and never used after they are freed, and that the brake works |
| `Devices_proofs` | of `MemberState`, that a failure lands, that states and masks agree once everybody has settled, and that members are rebuilt one at a time; of `Adapter`, that nothing is left behind and that nobody inside the driver loses what it is about to touch |
| `CommandPath_proofs` | of `StripeFanout`, that every sector of a read, a write, a discard or a rebuild goes to its place, and none is left out; of `IoQueue`, that the rings are exact and that a synchronous command is given its own status |
| `Controller_proofs` | that automatic resets do not thrash, and that a controller that sleeps is quiet |
| `Dispatch_proofs` | that slots are counted exactly, nothing is kept by a failed dispatch, no departed member is touched, what ends well is durable and nobody is forgotten |

### MirrorResync

State and code: `memberState`, `liveMask`, `writeMask`, `window`, `wgen`,
`wgenCount`, `rebuildQueued` are the globals of the same names (the counters are
kept as the sets of requests counted, the generation as its parity, of which
alone the code makes use); `resync` and `stop` are the kthread, its local
variables and `kthread_should_stop`; `req` holds for each write where it is in
its path and its pdu; `data` is the media.  `acceptable` is a history variable:
what a read of a sector may return once no write to it is outstanding.  `bounced`
are the writes that blk-mq keeps because the window turned them away.

Actions: each access to shared state on which the ordering argument of the code
rests is a step.  The writer's are `CheckFatal`, `SnapshotMask`, `GateReadGen`,
`GateCount`, `GateRecheck`, `GateWindow`, `MemberAck`/`DeadError`/`MediaError`,
`Uncount`, `Finish`; the thread's `LoopTop`, `FlipGen`, `Drain`, `ReadChunk`,
`WriteChunk`, `CloseWindow`, `Settle`.  `StartRebuild`, which may fail to create
its thread and park the member again, `Break`, `OperatorFail`,
`Reset`, `RemoveStop`, `RemoveDetach`, `RemoveFinish` and `Replug` are the other
actors.  A bounced write goes on when the queue is run: by the end of another request,
a freeze or unquiesce of the queue, or for a reason of blk-mq's own (`RunQueue`).  A write is issued once and writes in flight together do not overlap, as
the users of a block device see to.

Four races break what the code's comments claim (section 5).  The constant
`Admit` says which of them a behaviour may contain, so that everything else can
be checked without them:

* `snapshot` — a rebuild starts between a write's mask snapshot and its count;
* `late_write` — a timed-out resync write is executed after its retry;
* `survivor` — the survivor errs a write, or is failed, after the thread has
  picked it, and is read all the same: the thread does not look at it again
  after the drain.  The write had been acknowledged as durable on the target;
* `unstopped` — the scheduler runs in the middle of a removal.

Abstractions: one hardware queue, discards (same path, no data), FLUSH and reads as
requests are left out — what a read may return is the state property
`CopiesCurrent`; the mask and state changes of one call are one step; a full
submission queue, which hands the request back before anything was counted, is
in `Dispatch`; memory barriers are sequential consistency.

### RequestCompletion

`rq[t]` is the request with tag `t`: blk-mq's state and the pdu.  `use`
numbers the allocations of the tag, so that a completion of an earlier use can
be told from one of the present; the code has no such number.  `cq` are the
completion queues, `exec` what the controllers are executing, `isr` the
interrupt handler of each member's queue with its batch of requests to end,
`drain` one `rc_volume_drain_dead` per caller, `timer` the timeout handler.

Each atomic operation on the pdu is a step: `IsrTake` (status recorded),
`IsrConsume` (`atomic_fetch_or` on acked), `IsrDec` (`atomic_dec_and_test`),
`IsrClaim` (`cmpxchg`), then `IsrEnd` outside the lock or `Softirq`; `DrainAck`,
`DrainDec`, `DrainClaim` on the other side; `TimeoutCheck` to `TimeoutEnds` for
the timeout handler with the calls of the drain it makes.  blk-mq keeps a
request from being freed while a timeout handler or a tag iteration holds it:
that is `Held`, and it is why only an interrupt handler can meet a reused tag.
`Late` says whether a command or completion of an earlier use may.

The disable of a drain (`DrainDisable`) need not succeed: the wait for CSTS.RDY runs
out after 3 s, and the drain ends the requests all the same.  The controller is then
`"hung"`: told to stop, but free to execute what it has and to fetch more.

Abstractions: a two-way mirror's requests (RAID0 and RAID10 differ in the masks
and in `FinishStatus`); controllers that died stay away (their return is an
action of `MirrorResync`); the live mask stands for both masks.

### IoQueue

`sq`, `sqTail`, `cq`, `cqHead`, `cqPhase`, `inflight` are the fields of
`struct rc_nvme_io_queue`; `hs` is the synchronous handshake (`sync_pending`,
`sync_cid`, `sync_sc`, `sync_seq`, and which command's answer was recorded, which
the code does not know); `waiter` is the caller of `rc_nvme_io_cmd_sync`; `ctl`
and `exec` are the controller: its head, the doorbell it last saw, its own tail
and phase.  A step is one hold of `q->lock`; the interrupt handler may be left and
entered between two entries, which allows more than the code does.  What becomes of
a request is `RequestCompletion`'s matter: here it frees its tag when its entry is
consumed.  The queue of the model has three slots and two tags, the case the code
avoids by `RC_VOLUME_SQ_INTERNAL_HEADROOM`: the reservations alone must do.
`ResetRaces` says whether a reset may come between the reservation and the
submission of a synchronous command (section 5).

### StripeFanout

A behaviour is the life of one request, or of one rebuild, of a volume `geo`:
`req` is the request, `live` and `wmask` the masks as it reads them, `cur` is
`cur_lba` or the cursor of the rebuild, `sg`, `start` and `cmd` are `ms_sg`,
`member_start_lba` and the commands.  The lists hold the sectors of the request
whose buffer an entry stands for, so that they say what the member is to do with
which part of the buffer.  `TakeSegment` is `rq_for_each_segment` with any
cutting of the buffer into pieces inside a page, `Strip` one turn of the inner
loop of both fan-outs, `Single` and `DiscardSingle` the single-member path,
`DiscardFanout` the two discard functions, `CopyChunk` the address arithmetic of
the resync loop.  The places are checked against each other and against
counting (`MapPacked`): a sector is where as many sectors of its column come
before it.

Abstractions: physical addresses of buffer pages (two pages are never adjacent
by accident), a full submission queue and failures to map, which return before
anything is sent; the gate and the rest of a rebuild are in `MirrorResync`.
`ReadBoth` admits the reads that section 5 shows to be wrong, `Rest` a
volume that is not a whole number of rows.

### Assembly

`fleet` is what the machine has: for each drive what its metadata says (`Label`),
and the parameters `allow_degraded` and `enable_writes`.  The other variables are
the globals of the code; `at` is where each actor is - an adapter between its probe
and the end of its removal, or the module's exit - and `slot` what it has looked
up.  `behind` is a history variable: the drives that missed a write of the present
disk.

A hold of `rc_volume_lock` is a step.  A removal is `Remove`, `Look`,
`CancelTimer`, `StopCopy`, `Decide`, then either `Freeze`, `ClearSlot`, `Thaw` or
the steps of the teardown: `BeginTeardown`, `FlushTimer`, `StopForTeardown`,
`RemoveGroup`, `ClearRegistry`.  A registration is one of `Orphan`, `Ignore`,
`ReAdd`, `Join`, `JoinLegacy`, whose guards are the early returns in their order;
`Note` is what even a refused one leaves behind.  `CreateDisk` and the allocations
of a re-admission may fail.

Abstractions: what a drive's record says is an input, as far as the parser passes it
on (its position is one of its devices); requests and the copy are one step each (`Write`, `EndRebuild`);
`stripe_sectors_override`, which makes all stripe sizes the same, is left out; an
adapter whose removal has ended does not come back, another one in its place is
another adapter.  Removals that overlap, a reset or a rebuild of a departing
member, and a registration in the middle of a teardown are in the module but not in
the passing run (`Admit`): they break the properties (section 5).

### MemberState

`state`, `live` and `write` are `rc_volume_member_state[]` and the two masks,
`set` the `rc_volume_member_set_state` under way, `failer` the calls of
`rc_volume_member_mark_failed`, `copier` the resync threads, `thread`, `done`
and `nudged` the globals of the scheduler, `lock` who holds `rc_volume_lock`.
Each atomic operation on the state or a mask is a step: `Store`, `SetLive`,
`SetWrite`, `SetRecheck`, `SetUndo` for a lock holder; `FailStart`, `FailFetch`,
then `FailStore` or `FailRead`, `FailSwap`, `FailClear` for a failure, which
takes no lock; the branches of `CopySettle` for the end of a copy; `WorkNoThread` and
`WorkParked` for a rebuild whose thread cannot be created.
`MirrorResync` takes each of these calls as one step, and says what the data of
a member is worth; this module is why that is allowed, and how far: `Settled`
and `FailLands` are what `MirrorResync` assumes of the calls.

Three things are in the module and not in the run.  `"second_copier"` lets the
scheduler start a thread during a removal's wait.  `"slow_failer"` lets one call of
`mark_failed` last as long as a whole rebuild: an interrupt handler does not, but the
timeout handler and the operator's thread may.  `"failed_start"` lets the creation of
a thread fail although its member was failed after it was picked; without it, it only
fails otherwise.  Section 5 says what they break.

Abstractions: the partner of each modelled member stays live (without it the
volume is torn down, which is in `Assembly`); the writes a window holds back are
in `MirrorResync`; a reset and a removal wait for the failures under way of
their member, since they drain the queue first.

### Controller

`hw` is the controller, as an environment: CC.EN, CSTS, what the admin commands
it has executed have made it know, the requests and commands it works on.  `cq`
and `cmd` are the admin ring and the command that is waited for, `holder` the
owner of `admin_mutex`, `dead`, `latch`, `nr`, `io` and `mem` the fields of
`struct rc_nvme_state` and its queues.

Each path of the code is the list of the steps it has still to take (`path`):
`Reset` is `rc_nvme_reset_controller`, `InitSteps` the probe, `Cleanup` the
teardown, `Removal`, `SuspendResume` and `Drain` the rest.  A thread takes the
first of its steps if its guard holds; a failure jumps to where the code's
`goto` leads (`Fail`, `Unwind`).  The threads are the probe and removal
(`life`), the auto-reset work, the sysfs reset, power management, the timeout
handler and the degrade work: what they do to each other through the flags, the
mutex and the registers is the subject.  `overlapped` is a history variable: two
paths have driven the controller at once, which the code's locks do not exclude,
and after which `ReadyUnlessDead` and parts of the others do not hold
(section 5).  `hw.lapse` remembers that the controller let a wait run out or
refused a Delete, for which the code accepts freeing memory that it may still
own.

Abstractions: one controller, whose volume has other members (what becomes of
the request there is in `RequestCompletion` and `MirrorResync`); the data of
identify; PCI state and vectors.  User space is frozen before a suspend, and the
sysfs attributes are gone before a removal begins, as the kernel sees to.

### EngineLife, MirrorBio, RebuildPump, AsyncEngine

`MirrorBio` has the contexts of `patch_async_worker.c`: `ctx` is a context and
where it is (registered, in the graveyard, freed), `call` the program counter of
each call made on it, `queue` and `worker` the worker thread, `graveyard`,
`graves` and `inflight` the engine's fields; `said` and `parent` are history.  A
step is one critical section of `ctx->lock` or `engine->lock`: a report is
`Report`, then perhaps `Claim` and `Park`, or, when the parent has been claimed,
`Straggle` and perhaps `Reap` and `ReapCount`; the worker is `WorkerLatch`,
`WorkerEnd`, `WorkerReap`, `WorkerCount`.  Members may never report, be
dispatched in part, or be aborted at any time.

`RebuildPump` has one job at a time: `Request`, `Cancel`, the thread from
`PumpClaim` to `PumpFinish`, evictions and geometry changes, and the commands of
`patch_ioctl_bridge.c` that change anything, of which FAIL_MEMBER is three
steps.  `AsyncEngine` adds the unload, phase by phase, to both.
`MCAsyncEngine` lets a behaviour drive one pump only: they share nothing but
`alive` and the unload.

Abstractions: the members' I/O and the media hooks are external; a status is one
representative of its rank; the throttle waits or gives up (`PumpThrottle`), as
its timeout allows.  `"over_report"` and `"late_calls"` are callers that break the
documented contract, and are not in the passing run.  Nothing in the driver calls
the engine but the bridge, and nothing registers that: the models say what the
engine does when used as documented.

### Dispatch

`rq[r]` is a request: where it is (`pc`), what it asks (`bio`: the operation, the
columns its sectors lie in, the place of the window that it would meet), the pdu
(`set` is `member_mask`, `maps` the members mapped for it, `acked`, `errs`,
`wgen`), and of the dispatcher's locals the steps still to take (`plan`) and the
members not yet served by the present one (`left`).  Each path of the code is a
plan: `MirrorPlan` is map, reserve, build, gate, start, where the single-member
path builds before it reserves and RAID10 has no gate for reads.  `Check` is
`rc_volume_fatal`, `Route` the choice of path and members with one reading of the
masks, `Reserve` and `GiveBack` one member's ring under its lock, `HandBack` the
unmapping and the return of `BLK_STS_DEV_RESOURCE`; a failure with an error is
`Rejected`: started and ended at once.  `used` is `sq_inflight`, whose other
owners are `inner` (synchronous commands) and `lost` (commands that died with
their controller).

`hctx` is blk-mq's list of requests handed back, its restart mark, and whether the
queue will be run; this is external, and modelled from what the kernel documents
of the two resource codes: with `BLK_STS_DEV_RESOURCE` the driver promises that
something will run the queue again.

Abstractions: one hardware queue; the gate and the end of a request are one step
each (store by store they are in `MirrorResync` and `RequestCompletion`), as is
the loop that maps the members, whose unwinding is private to the dispatcher; a
drain answers at any time once the member is dead.  Two fields are history: `owe`, what
a flush has to make durable, and of `why` whether the ring was full of commands that a
started request may have ("full") or only of others ("held").

### Adapter

`path[t]` is what a thread still has to do, as a list of named steps: a probe or
removal per device, and `"mod"`, which is `rc_init` or `rc_exit`.  `Probe`, `Remove`,
`Load` and `Exit` are the lists of the code, `Unwind` and `UnwindLoad` where each of
its `goto`s leads.  `held[d]` and `has` say what has been obtained and not yet
returned; `member`, `disk`, `group`, `armed` are the registry, `rc_volume_disk`, its
sysfs group and the pending `rc_volume_assemble_work`; `vlock` and `tlock` the owners
of `rc_volume_lock` and `rc_volume_teardown_lock`.  `guest` is one visitor at a time:
an interrupt handler (of vector 0 or of a queue's own), a reader of an attribute or
debugfs file of an adapter or of the volume, a store to `reset`, or an open
configuration device.  Where the kernel waits for visitors (`free_irq`,
`sysfs_remove_group`, `debugfs_remove`, the module's reference count) there is a step
that waits; where the code does not wait, there is none.  `Part`, the removal's decision,
keeps the volume or tears it down: it may be kept only while another member is there, and
whether those left can serve (a RAID0 and a RAID10 column without a copy cannot) is in
`Assembly`.

`Admit` is empty in the run; each of `Gaps` is a way out of the code that does not
keep what the properties say (section 5).  Neither has the run a controller that is
granted a single vector.

Abstractions: one step stands for each call that obtains or returns; the controller's
own registers are in `Controller`, what the registry holds in `Assembly`; a
teardown's wait for requests is in `Dispatch`.

## 3. The runs

| run | shows |
|---|---|
| `mirror_safety` | two writers, two members, two chunks, one fault: `CopiesCurrent` (every copy that reads are served from, and what has been copied of one being rebuilt, is up to date, and nothing is copied to a departed member), `PromotedOnlyByCopy`, and the refinement of `LogicalDisk` (`BehavesAsOneDisk`) |
| `mirror_races` | one writer, with `snapshot` and `late_write` admitted: `CopyExclusive`, and `AllEnd`: every rebuild ends, and every write does unless only stranded ones are left |
| `completion_safety` | one tag used twice, one fault: `EndedOnce`, `NothingOwed` (the pending count is exact, and an ended request is not in the hands of a controller, except of one that did not stop within the drain's 3 s), `OkIsDurable` |
| `completion_liveness` | `RequestsEnd`, with a batch of size 0 so that the softirq path is the one taken |
| `ioq_exact` | a queue of three slots, two requests, two synchronous commands, one timeout, one reset: `RingExact` (no command is lost or overwritten, the reservations cover what is in the ring, and both consumers agree where it is), `StatusOwn` |
| `stripe_exact` | two RAID0 volumes and a RAID10 one, three rows of stripes, every request up to nine sectors, every cutting of its buffer, every pair of masks, every rebuild, except reads of several stripes with both copies of a RAID10 column live (section 5): `RightPlace`, `CopyAligned`, `FanoutExact` (every sector is sent once to every copy that needs it, discards cover what they should, the map is dense, a rebuild leaves nothing out, and no command goes on in the middle of a page) |
| `assembly_safety` | eleven fleets of up to four drives and three faults: `SlotsAgree`, `LiveIsPresent`, `NoStaleServed`, `VolumeFit` (PRP slices are those of the members, each has its queues, and no pointer that is gone is followed), and that a disk comes up only when it may, and a RAID1 disk also does when it may (`Assembles`; of RAID10 see section 5) |
| `member_races` | two members, two lock-free failures, two resync threads, two events: `Settled` (states and masks agree whenever nobody is midway), `FailLands` (no failure is swallowed, whatever it raced), `Rebuilt` (parked members are rebuilt one after another, until a rebuild ends without success and no member comes back) |
| `controller_safety` | a controller from probe to removal, with two faults, resets, suspends or removals at any moment: `ReadyUnlessDead`, `FreedUnowned`, `AsleepQuiet`, `NotThrashed`, and that every request and every suspend ends (`RecoveryEnds`) |
| `engine_safety` | two parents, or two rebuilds, each against the unload: `ParentTold`, `ReapedOnce`, `NoUseAfterFree`, `BrakeWorks`, and that rebuilds and the unload end (`EngineEnds`) |
| `dispatch_safety` | two requests of any kinds at once on RAID0, three reads and writes on RAID1, one on RAID10, rings of one slot, one window, one fault or removal, one synchronous command: `SlotsExact`, `NothingKept`, `MembersThere`, `Durable`, and that no request which found a ring full of started commands is forgotten (`NoneForgotten`) |
| `adapter_safety` | two devices, two probes each at most, one failing step, one removal before the unload, one visitor at a time: `NothingLeft` (everything obtained is returned, by the end of the module at the latest), `NothingGone` (whoever is inside the driver finds what it is about to touch), `NobodyStuck` (no two wait for each other) |

Bounds.  Two members are what a RAID1 volume of this driver has.  Two chunks
give every position of a write relative to the window (behind, inside, ahead,
across).  Two writers are needed for a write that bounces while another is being
drained, and for a second write over a first; a third adds only more of the
same, since a writer meets the thread through the two counters and the window.
`mirror_races` has one, because a liveness property takes long with faults and races;
`AllEnd` holds as well with two and without faults (`Writers = {w1, w2}`,
`MaxFaults = 0`, `Admit = {}` there), where the end of one write runs the queue for the
other.
One fault with its recovery reaches every state of a member, and one retry
stands for the ten of the code, as the thread is at the same place after each.
A tag used twice is enough to meet a completion of the use before.  Nine sectors
span at least three stripes of two, so that a member gets two strips with another
member's in between, and a pair of RAID10 columns is crossed; three rows give a
first, a middle and a last one.  Deadlock is
not checked: writes and faults are bounded, and a system that has dealt with
them all is at rest; what does not wait for ever is what `AllEnd`,
`RequestsEnd`, `Rebuilt`, `RecoveryEnds` and `EngineEnds` say.  Two of them have an
exception that section 5 explains: bounced writes that are stranded (`AllEnd`), and
members that are parked when a rebuild ends without success (`Rebuilt`).

`MemberState` has two slots to fail and two calls of `mark_failed`, which may meet
on one slot or on two, two threads and a copy of one chunk: what the stores race
with is the settle, not the copying.  Two events are a failure of a member and one
of its recovery.  `Controller` has one queue pair (a second repeats the same two
commands), one request (`overlapped` and the drain concern each alone) and two
events; a sysfs reset or a removal takes both, since its own path is the event.  Its
invariants, without the liveness property, hold with two pairs and three events too,
which takes longer than a run may: a bring-up that is found dead early and fails late
needs both, and is why `FreedUnowned` has its exception.
`AsyncEngine` has a mirrored parent and one of a single copy, room for two
tombstones, a range of two chunks of which the last is short, two jobs and one
geometry change or eviction.  `Adapter` has two devices (a removal, and the teardown it
ends in, can then meet a probe, another removal or the unload), a failing step anywhere
and one visitor: two visitors do not wait for each other.  `Dispatch` has rings
of one slot: on a mirror of two members two writes that reserve in turn fill both,
a third request then waits behind either, and a synchronous command takes the only
slot of one.  Three requests are the fewest with which one fills a ring, one is
handed back for it and one gives back what it took; there they are reads and writes
and nothing else happens.  With two requests, of which two alike only as writes,
there is one fault, removal, window or synchronous command, not the last two
together.  The four members of a RAID10 volume reserve in order, so that one request
with a synchronous command on any of them shows every unwinding.

Fairness.  Threads, work items, softirqs and interrupt handlers run when they
can (weak fairness of each actor's step).  In `MirrorResync` each command is
answered, by its controller or by the drain after the timeout; that this is so
is `RequestsEnd` of `RequestCompletion`, where controllers may keep silent for
ever and only the kernel's own actors are fair.  A write that was turned away and
handed back is owed nothing: `RunQueue` is not fair, since `BLK_STS_DEV_RESOURCE` tells
blk-mq that the driver will see to the retry.  `MemberState` has weak fairness
of each actor once it has begun.  `Controller` assumes of a healthy controller
that it obeys CC.EN and executes admin commands, unless one of the counted faults
says otherwise, and of each request, strongly, that it is dispatched if the queue
is ever again unquiesced, and that it is answered or times out: blk-mq holds it
through every reset, and a reset that comes in between only disables these steps
for a while.  `AsyncEngine` has weak fairness of its two threads, of a call that
has started and of the unload; no member has to report and no copy to retire.
`Dispatch` assumes none: that no request is forgotten is an invariant there.
No fairness is assumed of faults, operators or applications.

## 4. The proofs

`MirrorResync_proofs` holds for every number of members and writers, every
volume and chunk size and every bound.

* `TypeCorrect`: `Spec => []TypeOK`; the type invariant is inductive, one step
  for each action.
* `CopyIsExclusive`: `Spec => []CopyExclusive`, provided `"unstopped"` is not
  admitted.  The inductive invariant is `GateInv`:
  * `CountsExact` — a request is in the counter of generation g exactly while
    it is between its increment and its decrement for g;
  * `WindowOpen` — the window is published while the thread is between the
    publication and the end of the copy;
  * `StopKnown` and `CopyAlone` — a stop is only pending for a running thread;
  * `OneGeneration` — while the thread drains, what passed the re-check with
    the present generation read the window after its publication;
  * `DrainCovers` — every submitted write that overlaps the window is counted in
    the generation being drained.
  `CopyExclusive` alone is not inductive: that the drain is enough follows from
  `DrainCovers`, and that from the writer's counting before it looks.  The
  snapshot race does not matter here: it breaks what the target holds, not the
  exclusion.
* `PromotionFollowsCopy`: `Spec => PromotedOnlyByCopy`, whatever is admitted.  The
  thread's flag `ok` is set at the end of the last chunk only (`OkAtTheEnd`), and only
  the settle of a thread with that flag makes a member LIVE.
* `CopiesStayCurrent`: `Spec => []CopiesCurrent`, for `Admit = {}`.  `CopiesCurrent`
  speaks of the sectors that no write covers, at the moment when none does.
  `CopyInv`, which is inductive together with `TypeOK` and `GateInv`, says of the rest:
  * `MembersInv` — the masks are those of the states, one member is the target at
    most, and a finished copy has reached the end;
  * `ThreadStopped` — no thread runs while the queue is frozen for a departing member;
  * `WritesInv` — outstanding writes are `Apart`, their answers complete when their
    count is given back (`Answered`), and every write past its snapshot goes to all
    the LIVE members (`LiveWritten`) and to the target (`TargetWritten`) — unless it
    passed the gate before the rebuild began, and then the first drain is still ahead
    and waits for it (`FirstDrainAhead`).  This is what the snapshot race breaks;
  * `ContentsRight` — each sector a member vouches for (all, if LIVE; those behind the
    cursor, if it is being rebuilt) holds what it may hold between writes or the one
    write that covers it, and the latter once the member answered without error;
  * `BufferRight` — the chunk the thread has read is still right when it is written,
    which needs that no write into it is in flight (`CopyIsExclusive`) and that the
    survivor had erred none;
  * `late = {}` and `DepartedNotCopied`.
* `MirrorIsOneDisk`: `Spec => BehavesAsOneDisk`, the refinement of `LogicalDisk`, for
  `Admit = {}`.  Each action begins a write of the disk, ends one, or moves the
  contents within what reads may return (`ReadsAreRight`, from `ContentsRight`).

`RequestCompletion_proofs` holds for any members, tags, batch size, bounds, and
for every value of `Late`.

* `RequestTypeCorrect`: `Spec => []TypeOK`; the invariant adds `Placed`, that
  whoever is at work on a request has a tag.
* `EndedExactlyOnce`: `Spec => []EndedOnce`.  `EndedOnce` is not inductive: it
  does not say why the softirq, the batch of a handler and the timeout handler
  never meet.  `OnceInv` does, for each tag:
  * `Claims` - an unclaimed request has not ended and nobody owns it; an owned
    one has not ended and is not idle;
  * `Owner` - the softirq and the batches of the handlers share no request;
  * `Begun` - a tag that a command, a completion or a handler still mentions is
    in use or claimed, so that a late completion cannot claim an idle tag.
  Steps that do none of this are `Quiet` and share one lemma; the others change
  one tag (`OneTagOnce`), which they claim (`ClaimOnce`) or end (`EndsOnce`).

The half of `CommandPath_proofs` about `StripeFanout` holds for volumes of any shape,
any limits and any request.

* `PlacedRight`: `FanoutSpec => []RightPlace`, provided `~ReadBoth`.  The invariant is
  `FanInv`: `Listed` says of the lists what `RightPlace` says of the commands,
  and `GoesOn` why a list stays consecutive: for each member that has one,
  `start` plus its length is the number of sectors of its column below `cur`
  (`Below`, plus the member's offset), so that the next strip of the column
  goes on there.  `StripAdvance` is the arithmetic: a strip adds its length to
  its own column and nothing to the others.  It needs that every strip of a
  column goes to the same members, which is what reads from both copies break.
* `CopiedRight`: `FanoutSpec => []CopyAligned`.  `CursorPlace` inverts the address: the
  sector the cursor stands for has the cursor as its place on both copies.
* `FanoutAlwaysExact`: `FanoutSpec => []FanoutExact`, provided `~ReadBoth`, `Rest = 0`
  and `WholePages` (a stripe is a whole number of pages).  TLC finds each of them
  needed: section 5.  The sectors of a column are numbered: `Nth(c, j)` is the
  `j`-th of column `c` and `Below(c, x)` how many come before `x` (`EveryNth`: each
  inverts the other), which is also what counting them gives (`BelowCounts`, by
  `FS_` facts on cardinalities); and a place in a volume is its row, column and
  offset, ordered lexically (`Lexical`).  The five parts then follow from four
  invariants besides `FanInv`:
  * `GatherInv` — of a request being walked, exactly the sectors from its first to
    the cursor are in the lists of all their serving copies (`StripGathers`); of one that
    is built, exactly those of the request, by a walk or by the single-member path
    (`WalkAddresses`, `SingleAddresses`); and a list that was sent passed the check of
    `PrpOk` (`AllSent`, and `NoTornPage`: of two neighbours that are not
    consecutive the check sees that the second begins a page, and by `PageTurns`
    the first then ends one, both being ends of stripes);
  * `DiscardInv` — a discard that was sent covers, on each live member, what the
    column has between the first and the last sector, by either function
    (`FirstIs`, `EndBelow`, `DiscardInterval`), which needs `Served`: the masks
    have a member for every column;
  * `CopiedInv` — the chunks copied so far are the column's sectors below the
    cursor (`ChunkCopied`, `NoneLeftOut`; `Rest = 0` is what makes the end of the
    cursor the end of the column);
  * `CopyInv`, as for `CopiedRight`.

`Assembly_proofs` holds for any drives, any number of slots and any bound, provided
that removals come one at a time and no reset or rebuild of a departing member
interferes (`Alone`).  The invariant is `RegistryInv`:
  * `Solo` - at most one actor is removing or tearing down;
  * `Kept` - a removal that keeps the volume has a disk; until it clears its slot
    that slot is its own, failed and in no mask, and then the adapter has none;
  * `RebuiltIsPresent` - what is being rebuilt is there;
  * `SlotsAgree` and `LiveIsPresent` themselves.
Without `Kept` neither is inductive: clearing a slot is only harmless when it still
belongs to the leaving adapter and has no bit.  Steps that change no slot share the
lemma `Quiet`; every registration that fills one slot is an instance of `Placed`;
the insertion by bus order needs that `SlotsAgree` makes the registry injective.
* `SlotsAlwaysAgree`: `Spec => []SlotsAgree`.
* `LiveIsAlwaysPresent`: `Spec => []LiveIsPresent`.

Upon it stand three more invariants.  `VolumeInv` adds what the disk is made of:
members are drives of the machine (`Known`); while there is no disk each of them is
live, inside the geometry and agrees with it (`Forming`), so that whatever a disk is
made of was agreed before; a striped disk has no members but those it counts
(`Striped`).
* `AlwaysAssembledRight`: `Spec => AssembledRight`, the safety half of `Assembles`.
* `AssemblyTypeCorrect`: `Spec => []TypeOK`.

`StaleInv` adds why a drive that missed a write is not read: of a mirror every write
goes to all that are live, and only a copy makes live; of a striped volume no member
ever misses one, as nothing is written unless all are there.
* `NothingStaleServed`: `Spec => []NoStaleServed`.

`FitInv` adds the order of a teardown (no timer is armed past its cancelling, the group
is gone before the registry is cleared), that only mirrors are kept, and that drives
without records fill the slots from the first.  It admits no race, and drives that all
have a record or all have none (`Uniform`); the machine that mixes them breaks it
(section 5).
* `VolumeAlwaysFits`: `Spec => []VolumeFit`.

`AsyncEngine_proofs` holds for any parents, members, reports, tombstones, ranges and
targets.  The two pumps share only the life of the engine, so there are two
invariants.

* `BrakeAlwaysWorks`: `Spec => []BrakeWorks`.  `PumpInv` says who owns a job - the
  thread from its claim to its finish, the record says "running" exactly as long - and
  that a job cancelled after its brake test has issued nothing since.
* `AlwaysReapedOnce`, `ParentAlwaysTold`: `Spec => []ReapedOnce` and `Spec =>
  []ParentTold`, for `Admit = {}`: one report of each member, none after the unload
  has been told that they are quiet.  `BioInv` is a conjunct for each context, since a
  step touches one, and four about what they share:
  * `Counted` - the countdown is the number of members yet to be counted;
  * `Ticket` - whoever latched COMPLETING holds the one right to end the parent, and
    it is in one place: with that call, on the work list, with the worker, or used;
  * `Claimed` - once all are counted, somebody has latched it or is about to;
  * `Reaped` - of the last report and the worker's retirement, one reaps;
  * `Truthful` - the merged status is OK only if the counted members said so;
  * `QueueOnce`, `Graves`, `Counts`, `Stage` - the work list, the graveyard, the count
    the drain waits for, and what each stage of the unload has emptied.
  A lemma for each action says what it does to its context (`ReportHere`,
  `ClaimHere`, ...), `Elsewhere` that the others keep their conjunct.
* `NeverUsedAfterFree`: `Spec => []NoUseAfterFree`, if the contexts are no more than
  the graveyard holds: then only the purge frees (`FreedLate`), and the unload has
  waited for everyone before it.
* `EngineTypeCorrect`: `Spec => []TypeOK`, for any `Admit`.

The half of `Devices_proofs` about `MemberState` holds for any members, threads,
contexts that fail members and bounds.  Its invariant has two parts.

`Base` holds whatever `Races` admits: who holds `rc_volume_lock` is where the code
takes it (`LockInv`), a `set_state` under way finds the state it stored or a failure
that has landed since (`SetInv`), and a `mark_failed` that has swapped the state finds
it `FAILED` until it returns (`FailInv`: a re-admission takes a member out of `FAILED`,
and it waits for the calls; so does a rebuild whose thread cannot be created, which
`FailInv` excepts when `Races` admits "failed_start").
* `MemberTypeCorrect`: `Spec => []TypeOK`.
* `FailureLands`: `Spec => FailLands`, if "failed_start" is not in `Races`.

`Deep` needs `Races = {}`.  `Settled` says nothing of a member while somebody is midway,
so it is far from inductive; `LiveInv` and `WriteInv` say what each bit that disagrees
with the state is owed to, a store of `set_state`, of a settle or of a `mark_failed`
still to come.  What makes the debt be paid is `StoreInv`: a call that has found its
member live, and so stores `FAILED` and clears no more, is not overtaken by a copy
that puts the bit back.  That is why a copy must not outrun a whole failure
("slow_failer"), and `OneInv` (one thread copies: the scheduler's or the one a removal
waits for) is why two copies do not settle one member ("second_copier").
* `MembersSettle`: `Spec => []Settled`.
* `RebuiltOneByOne`: `Spec => []OneCopier`.

The half of `CommandPath_proofs` about `IoQueue` holds for a ring of any size and any number of tags and commands.

* `StatusAlwaysOwn`: `Spec => []StatusOwn`, if the synchronous commands are no more
  than the values of the sequence; without that, `StatusHasItsCid`: what the caller is
  given had the CID of its command.  `HandshakeInv` says what the two sides of the
  handshake hold: armed, it waits for the CID of the last number taken; disarmed by the
  handler, it holds the status of an entry with that CID.
* `RingAlwaysExact`: `Spec => []RingExact`, for `ResetRaces = FALSE` (a reset starts
  when nothing is about to submit).  `RingInv` is in terms of how far an index is ahead
  of another around the ring: `Rung` (the doorbell does not pass the tail), `Laps`
  (the phase of an entry tells whether it is between the two heads, with the lap taken
  into account), `Covered` (the count is at least what is in both rings, in execution
  and reserved, so nothing can lap), `Still`, `Wiped` (what a reset leaves at each of
  its stages) and `Kept` (a submitted request is in one of its three places).
* `QueueTypeCorrect`: `Spec => []TypeOK`, whatever races.

`RequestCompletion_proofs` goes on, for `Late = {}`: of a tag no command is executing and
no completion left when it is used again (otherwise the properties fail, section 5).

* `NothingEverOwed`: `Spec => []NothingOwed`, and `AlwaysDurable`: `Spec =>
  []OkIsDurable`.  Their invariant, `Owes`, has six parts that need each other:
  * `Commanded` - a command is in one place, not yet submitted, executing or answered,
    and executes only on a controller that is running or hung; on a running one only
    for a request in use, so that it cannot have been acknowledged;
  * `Told` - a request claimed has heard of every member, what it heard is in `err` or
    in `wrote`, and an error is in its status;
  * `Drained` - a drain visits requests in use, of members told to stop, and the last
    one to count, handler or drain, leaves nobody out;
  * `Pursued` - the timeout handler ends a request only after a drain that covers all
    the members it waits for has visited it;
  * `PendingExact` and `OkIsDurable` themselves.
  That no command outlives its request needs all of the first four: the request is
  ended by whoever counted last, and a member counts when its command is answered or
  its controller has been told to stop.  One that has not stopped is hung, and excepted.

`Dispatch_proofs` holds for any volumes of up to eight slots (`RC_VOLUME_MAX_MEMBERS`),
any finite tag set, any size of the rings and any number of faults, removals, windows
and synchronous commands.  `DispatchInv` is inductive; its parts are

* `Typed` and `Staying` - types, the masks nested in one another and in the members that
  are there; RAID0 loses none, and a member that is leaving takes no writes;
* for each request `OnPlan` - at each place the rest of its path lies ahead, and so
  whether its slots are already taken -, `InPlace` - what it has there, started once from
  `submit` on - and `Covers` - its members are there, and are all that have to have a
  write or a flush: the masks are read once but only narrow until it ends;
* `SlotsExact` and `CountExact` themselves;
* `Durable`, which a request earns with its last answer (a member that erred is failed in
  the same step) and keeps because the masks narrow;
* `Held` - blk-mq's list holds parked requests, each once, and is about to be run or
  marked - and `Promised` - if it is marked and holds only requests that found a ring
  full, somebody `OnItsWay` will clear the mark.  A request that is handed back leaves
  the promise to the one it waits for: that is why what filled the ring matters.

`SlotsAlwaysExact`, `NothingEverKept`, `MembersAlwaysThere`, `AlwaysWritten` and
`NoneEverForgotten` follow.  One lemma per action says where its request goes
(`MapDoes`, ...) and one that the invariant is kept (`MapKeeps`, ...).  Without its
condition on who held the slots `NoneForgotten` holds for two requests and is false for
three (section 5).

`Controller_proofs` holds for any number of queues, tags and events, any limit of the
wait and any requests.  A path is a list of steps, so an invariant that names the step
a thread is at would need a conjunct for each, and what is ahead of it besides.  `ResetInv` says it by a number instead.

* `Struct` - what the paths are and which of them go on together.  The steps a driver
  (the auto-reset work, the sysfs reset, a suspend with its resume) has left are the
  last ones of `DriverPath`, the list it begins with; it was made for
  the queues there were at the time, a number that `DriverForm` leaves open.  Hence the number of
  steps left says which step is next (`DriverFacts`, `Places`), and "is X still ahead"
  becomes a comparison (`ActiveIs`).  Failures jump forward in the same list
  (`DriverFails`: to the unlock, or in the suspend to the resume).  Of the
  timeout handler, the degrade work, bring-up and tear-down it is enough which steps
  they may contain (`DrainSteps`, `LifePath`).  `Where` says at which stage of the
  device each may run, and that a suspend excludes a sysfs reset; `Waiting`, that the
  command waited for belongs to a thread at an admin command, whose failure therefore
  finds a `goto`.
* `Thrash` - `tries` is at most 2; when it is 1 without the latch, the work that counted
  it is still before its success or has failed, and will set the latch as its last
  step; when it is 2 the latch is set and nothing is queued any more.  `NotThrashed`
  alone is not inductive: it says nothing of the work already queued when the latch is
  set, which is why the bound is two and not one.
* `Alone` - of two drivers that have flagged the controller dead (or cancelled the
  works) and not brought it back, `overlapped` remembers that they met.
* `Sleepy` - from its freeze on, a suspend has the queues frozen; from its wait on, no
  request is in the tags or in the controller; and from its disable to its resume CC.EN
  is clear, unless it failed or was overlapped.  This rests on `Alone`: only a driver
  that was let in sets CC.EN.
* A step of a thread does to the flags what `ThreadFlags` and `ThreadMoves` say,
  whatever else it does; whatever is not a step satisfies `Rest`.  Each part of the
  invariant is proved from these, not from the thirty-five kinds of step.
* `AlwaysNotThrashed`: `Spec => []NotThrashed`; `AlwaysAsleepQuiet`:
  `Spec => []AsleepQuiet`.

The half of `Devices_proofs` about `Adapter` holds for any devices, rigs, grants of
vectors, CPUs and numbers of queues, and any number of faults, probes and removals, for
`Admit = {}`.  `AdapterInv` is inductive.

* `ProbeInv` - a probe is followed step by step: `Succ` says what comes after each, and
  `Got` what has been obtained by then, exactly.
* `LeaveInv` - a removal, a teardown and the places where the `goto`s lead are lists put
  together from parts, too many to name each place.  It says of the list that is left:
  it is `Tidy` (what belongs together follows at once, the files go first, the mappings
  last), the step that returns an item is on it for each item held (`Taker`), and a
  device that is still a member leaves the registry before anything a member needs goes
  (`MemberFirst`).  Lemmas on lists show that the tail of a tidy list is tidy and when
  two put together are, and that `Remove`, `Exit` and each `Unwind` are (`RemoveTidy`,
  `ExitIs`, `UnwindTidy`).
* `RestInv`, `OwnInv` - a bound device has all, one that is not has nothing; a queue
  only has a vector that was granted.
* `GuestInv` - by what a visitor came in is there or is being waited for: `DumpSafe`,
  `AttrSafe`, `LineSafe`, `QueueSafe`, `VolumeSafe`, `RootSafe`, `ConfigSafe`.  With one
  vector `rc_nvme_irq` visits queues that nothing waits for (section 5), so
  `NothingGone` needs `1 \notin Vectors`; the invariant does not.
* `VolumeInv` - one teardown at a time, and while there is a disk some member stays that
  is not dropping out.
* `ModuleInv` - the same two for `rc_init` and `rc_exit`; while a device is there the
  driver is registered or the unload waits for it.

A device a step leaves alone is `Same` and keeps its part (`Untouched`), and a step
outside the volume is a `QuietStep`; the others have a lemma each (`...Keeps`).
`AlwaysNothingLeft`: `AdapterSpec => []NothingLeft`.  `AlwaysNothingGone`: `AdapterSpec
=> []NothingGone`, if no controller is granted a single vector.

What stays with TLC: liveness (TLAPS has no rules for ENABLED); of
`Assembles` of `Assembly` the half that a disk comes up; `Rebuilt` of `MemberState` and the other properties with fairness;
of `Controller`, `ReadyUnlessDead` and `FreedUnowned`, whose inductive invariant would
have to say at every step of every path what the controller has been told and what
memory it may still own; and `NobodyStuck` of `Adapter`, which is about ENABLED.

## 5. Disagreements between the code and its comments

Each is seen by changing one constant of a run's configuration, or by checking one
more property of the module.

Mirrors and requests:

* `Admit = {"snapshot"}` in `mirror_safety`: `CopiesCurrent` fails.  The write mask
  is read at the start of `rc_volume_dispatch_mirror` and the gate is at its end; a
  write caught in between by the start of a rebuild misses the target (comment at
  `rc_nvme.c:125`).
* `Admit = {"survivor"}` in `mirror_safety`: `CopiesCurrent` fails.  The survivor is
  picked before the drain (`rc_nvme.c:5642`) and read after it
  (`rc_nvme.c:5735`) without another look; the writes drained meanwhile may have
  failed on it.  Besides, a write's generation count is given back before its
  erring member is failed (`rc_nvme.c:3137`, 927), so that even a second look after
  the drain could come too early (comments at 599, 5628).
* `Admit = {"unstopped"}` in `mirror_safety`: `CopiesCurrent` fails, in its part
  `DepartedNotCopied`.  `rc_volume_remove_member` stops the thread but not the
  scheduler (comment at `rc_nvme.c:6384`).
* `OnlySilentDeclaredDead` in `completion_safety`: the timeout handler cannot
  tell a request ended by the interrupt handler from one that nobody answered,
  and declares every member dead (`rc_nvme.c:5071`, comment at 5062).
* `ReadBoth = TRUE` in `stripe_exact`: `RightPlace` fails.  A read of several stripes
  of a RAID10 volume picks the copy anew for every page (`rc_nvme.c:4099`; comment at
  4019).  This one needs no race: a healthy volume and a request longer than a stripe
  are enough.
* `NoneForgotten` of `Dispatch` without `"window"` excluded in its condition on `why`: a
  write that the resync window turned away is to be retried "once the window has
  moved" (comment at `rc_nvme.c:3745`), but it is handed back with
  `BLK_STS_DEV_RESOURCE`, for which blk-mq starts no timer, and nothing runs the queue
  when the window moves (`rc_nvme.c:3995`).  Any other request that ends or arrives in
  the same hardware queue does, which is why only a write that is alone there is stuck.
  For the same reason `WritesEnd` of `MirrorResync` fails, with one writer or two:
  `AllEnd` excepts behaviours that end with the window gone and nothing left but
  bounced writes (`Stranded`).
* `NoneForgotten` without `"held"` excluded: the slots of a full ring may be held by
  dispatches that have started nothing and give them back themselves; the loops that
  do (`rc_nvme.c:3564`, 3934, 4471) run no queue.  Three requests on a mirror with rings
  of one slot show it: the first two are handed back for a ring that a third has a
  slot of, which then finds the other ring full and gives up its own, and nothing is
  left that would end.  With deeper rings it takes as many dispatches at once as a ring
  has slots, which the sizing of the tag pool prevents ("tags + worst-case internal
  commands must stay" below the depth, comment at `rc_nvme.c:5227`), except that a ring
  of sixteen entries or less is passed over there (`rc_nvme.c:5241`).
* `NoneRefused` in `stripe_exact`: a request whose pages do not end where stripes
  end is refused (`rc_nvme.c:3217`, comment at 3191).
* `Admit = {"concurrent"}` in `assembly_safety`: `VolumeFit` (`NeverOops`) and `LiveIsPresent`
  fail.  A removal that keeps the volume follows `rc_volume_disk` without the
  lock, and clears a slot number it looked up before (comment at
  `rc_nvme.c:6438`).
* `Admit = {"unstopped"}` in `assembly_safety`: `LiveIsPresent` fails, when a
  departing member is reset and rebuilt before its slot is cleared.
* `Fleets <- Mixed` in `assembly_safety`: `VolumeFit` (`NeverOops`) fails.  The insertion by bus
  order takes the first `rc_volume_member_count` slots to be filled, which a drive
  with a record need not have done (`rc_nvme.c:3023`).
* `Admit = {"late_write"}` in `mirror_safety`: `CopiesCurrent` fails.
  `rc_nvme_io_cmd_sync` does not abort a command that timed out, and the retry
  does not wait for it (comment at `rc_nvme.c:136`).
* `Late = {"posted"}` in `completion_safety`: `OkIsDurable` fails.  The tag does
  not identify a use of the tag, and a completion left in the queue of a dead
  controller may be consumed in the next use (comment at `rc_nvme.c:853`).
* `NoDmaAfterEnd` of `RequestCompletion` without its exception for a `"hung"`
  controller: the disable of a drain comes "BEFORE any in-flight request's DMA mappings
  are reclaimed" (comment at `rc_nvme.c:4782`), but after 3 s they are reclaimed with
  CSTS.RDY still set (`rc_nvme.c:4813`), which the code calls the only thing left to do.
* `Late = {"executing"}` in `completion_safety`: `NothingOwed` and `OkIsDurable` fail.
  Such a controller may also finish a command after its tag is in use again, and the
  completion is then taken for the new request's.  With `Late = {}` a tag is not used
  again while a controller still executes its last command.
* `ResetRaces = TRUE` in `ioq_exact`: `RingExact` (`InflightCovers`) fails.  The reset zeroes
  `sq_inflight` under a reservation that is still to be used (comment at
  `rc_linux.h:208`).
* `SeqValues = 256` and `MaxSync = 257` (or `1` and `2`) in `ioq_exact`:
  `StatusOwn` fails.  The sequence of synchronous commands wraps after 256 of
  them (comment at `rc_nvme.c:496`).
* `Rest = 3` in `stripe_exact`: `FanoutExact` (`CopyComplete`) fails.  When the capacity is not a
  whole number of rows, the division in `rc_volume_per_member_sectors` leaves the
  end of the first columns uncopied, and the member is promoted.
* A stripe that is not a whole number of pages (`[level |-> "RAID0", nm |-> 2,
  stripe |-> 3]` with `Page = 2`) in `stripe_exact`: `FanoutExact` (`NoTornPage`)
  fails.  `rc_volume_build_prp` looks at where an entry begins (`rc_nvme.c:3217`),
  not at where the one before it ended; the stripe comes from the metadata
  unchecked (`rc_nvme.c:2074`) or from `stripe_sectors_override` (414, 2861).  The
  stripes the firmware makes are whole pages.

* `NestedComesUp` of `Assembly`: the registrations arm the degraded-assembly timer
  for RAID1 only, though the timer's function handles RAID10, and `README.md:37`
  promises it.
* `DoubtfulIsReadOnly` of `Assembly`: that a record does not add up is looked at
  when the disk is created, not when its drive joins a running volume (comment at
  `rc_nvme.c:2788`).
* `GroupHasDisk` of `Assembly`, with `Admit = {"late_join"}`: a teardown does not hold registrations back between
  the removal of the sysfs group and the deletion of the disk (comment at
  `rc_nvme.c:6053`).

Member states and controllers:

* `Races = {"second_copier"}` in `member_races`: `OneCopier` fails.
  `rc_volume_resync_stop` takes the resync thread out of the scheduler's sight and then
  waits for it without the lock; the scheduler starts a second one (`rc_nvme.c:5898`;
  comment at 5922).  The two share the window and the done flag.
* `FailedUnwritten` of `MemberState`: a settle can set both bits of a member between
  the first two steps of `mark_failed`, which then finds it live and clears no more:
  a failed member keeps its write bit (comment at `rc_nvme.c:250`).
* `Races = {"slow_failer"}` in `member_races`: `Settled` fails.  The unconditional
  store of FAILED (`rc_nvme.c:371`) may come after the member has been reset and
  rebuilt, and leaves a failed member in the masks.
* `Rebuilt` without `GaveUp`: a copy that fails, that is stopped because a member is
  removed, or whose thread cannot be created (`rc_nvme.c:5983`) nudges nobody.  That
  the member it was for is not retried is intended (comment at 5868), but other members
  that were parked meanwhile stay behind too until some member comes back
  (`rc_nvme.c:5871`), although the scheduler is to pick the next parked slot "whenever
  the current rebuild finishes" (comment at 5923).
* `Races = {"failed_start"}` in `member_races`: `FailLands` fails.  When the thread
  cannot be created the member is set to NEEDS_RESYNC whatever its state is
  (`rc_nvme.c:5987`), and a failure that landed since the scheduler picked it is
  overwritten (a lagging mask bit "must not let a genuine failure be swallowed", comment
  at `rc_nvme.c:344`).
* `DmaStoppedFirst` of `Controller`: the disable of a drain takes no lock; a reset
  that overlaps it may have enabled the controller again when the drain ends the
  requests (comment at `rc_nvme.c:4781`).
* `FailedStaysDead` of `Controller`: a reset fails because another path disabled the
  controller under it, and the next reset succeeds before the first has returned its
  -EIO: the controller it says needs a reload is alive (comment at `rc_nvme.c:6551`).
* `NotThrashed` has 2 and not 1: an automatic reset that is queued while one runs is
  attempted before the latch is looked at ("One auto-reset attempt per death
  episode", `rc_nvme.c:6493`).

Engine:

* `Admit = {"over_report"}` in `engine_safety`: `ReapedOnce` fails.  A report beyond
  those promised sees the same condition as the worker, between the worker's latch and
  its burial, and both reap.
* `GraveMax = 1`, or `Admit = {"late_calls"}`, in `engine_safety`: `NoUseAfterFree`
  fails.  The tombstones are as good as their number, and the unload as the caller's
  promise that the members are quiet.
* `DoneIsWhole` of `AsyncEngine`: a rebuild that the unload stops is reported as
  done (`patch_async_worker.c:1189` leaves the loop with the result 0).
* A range of 2^32 sectors or more (`Width` or more) in `SomeRanges`: `EngineEnds`
  fails.  `min_t(u32, ...)` truncates what is left (`patch_async_worker.c:1200`); when
  that is a multiple of 2^32 the pump issues copies of no sectors for ever.

Module and devices, each seen in `adapter_safety`:

* `Admit = {"enabled"}`: `NothingLeft` fails.  When neither DMA mask can be set,
  `rc_bottom_enable_device` returns without `pci_disable_device`
  (`rc_bottom.c:219`).
* `Admit = {"bars"}`: `NothingLeft` fails.  `rc_bottom_map_bars` returns with the BARs
  it has mapped when one is missing, and its caller jumps behind their unmapping
  (`rc_bottom.c:447`).
* `Admit = {"tags"}`: `NothingGone` fails.  `rc_nvme_io_queue_irq` tests
  `rc_volume_disk` and then uses the tag set, which a teardown may free in between;
  teardown does not wait for the handlers of the other members.
* `Admit = {"rearm"}`: `NothingLeft` fails.  A registration that comes between
  teardown's cancel (`rc_nvme.c:6036`) and its clearing of the registry arms the
  assembly work again, and the removal of that member returns early, without
  cancelling (comment at `rc_nvme.c:6031`: "The delayed degraded-assembly work must
  likewise not fire into a dismantled registry").
* `Admit = {"overlap"}`: `NothingGone` fails.  A removal that keeps the volume freezes
  `rc_volume_disk->queue` after a teardown that began meanwhile has set it to NULL
  (`rc_nvme.c:6441`).
* `Vectors = {1}`: `NothingGone` fails.  The handler of vector 0 visits the I/O queues
  that share it, and `rc_nvme_destroy_one_io_queue` frees a queue before it takes it
  out of `io_queues[]`, without waiting for that handler.

Some are not properties of any run: the drives of two arrays of the same shape are
not told apart (nothing in `rc_volume_register_member` compares what array a record
is of, nor, before the disk is created, its capacity); the doubt about a geometry
outlives the teardown of the volume it was about; a RAID10 volume of eight slots has
none left for a returning drive's registration; a parked member whose controller died
is not re-admitted when it is reset; a context aborted with members that were never
dispatched is reaped by the unload only; the throttle gives up after 200 ms, so the
window of copies can be exceeded; an engine whose rebuild thread could not be created
accepts requests all the same; the admin queue's memory is freed by the probe's
error path while the controller may still be enabled; and a controller that an
interrupt found dead before the bring-up disabled it stays flagged dead when the
bring-up has enabled it again, so that a queue unwound later in that bring-up is freed
without its Deletes (`rc_nvme_destroy_one_io_queue` asks `dead`).  `FreedUnowned`
leaves these two out.

## 6. Plan

In this order, each with its run, its mutants and where noted its theorems:

1. Done: the volume (`LogicalDisk`, `MirrorResync`, `RequestCompletion`, `IoQueue`,
   `StripeFanout`, `Assembly`, `Dispatch`), the states store by store (`MemberState`), the
   controller with its resets and power management (`Controller`), the engine
   (`MirrorBio`, `RebuildPump`, `AsyncEngine`), the devices (`Adapter`).
2. Proved: the mirror with its refinement, requests and their dispatch, queues, member
   states, the engine, the registry and what is assembled from it, the striped fan-out.
   Of the controller: automatic resets do not thrash, and it is quiet while it sleeps.
   Of the devices: nothing is left behind, and nobody inside the driver loses what it is
   about to touch.
3. Left to prove: `ReadyUnlessDead` and `FreedUnowned` of `Controller`.

## 7. Not modelled

* The parity mathematics: pure functions on buffers which only the user-space tests
  call, and compare with a table.
* Parsing and checksums of the metadata, PRP entries, identify data and the firmware
  tables: data layout.  What they say is an input of the models.
* The values in registers, firmware tables and identify data, and more than one
  visitor of the driver at a time in `Adapter`.
* The write-cache command, the shutdown notification, the masks of the interrupts
  during a reset, and a resync that runs while the system is suspended.
* What attributes, debugfs files and GET_STATUS print.
* The GUI, packaging and scripts; `debian/`, which holds a copy of the sources; and
  the decompiled reference code under `docs/ghidra_output`.  The last two are a third
  of the repository's lines of C, and none of the driver that is built from `src/`.
