------------------------------ MODULE Assembly ------------------------------
(***************************************************************************)
(* The registry of the volume's members in src/src/rc_nvme.c and the life   *)
(* of the disk built on it: registration of a probed adapter (by the        *)
(* position its on-disk record gives, or by bus order when there is none),  *)
(* assembly when the last one arrives or, degraded, when a timer fires,     *)
(* re-admission to a running volume, failure, reset and rebuild of a        *)
(* member, hot removal that keeps the volume, and teardown by the removal   *)
(* it cannot survive or by the module's exit.                               *)
(*                                                                          *)
(* What runs under rc_volume_lock is one step; a removal and a teardown     *)
(* are as many steps as they take the lock or wait, and everything else     *)
(* may happen in between.  The copy itself is in MirrorResync, the requests *)
(* that end when a member dies are in RequestCompletion.                    *)
(***************************************************************************)
EXTENDS Integers, FiniteSets, FiniteSetsExt

CONSTANTS
  Adapter,        \* PCI functions a member drive can sit on
  Exit,           \* the actor that unloads the module
  None,           \* a NULL pointer
  Fleets,         \* the drives and module parameters a behaviour may start from
  MaxMembers,     \* RC_VOLUME_MAX_MEMBERS
  LegacyMembers,  \* RC_VOLUME_EXPECTED_MEMBERS
  MaxFaults,      \* bound: removals, failures and failed allocations
  Admit           \* the races a behaviour may contain

(***************************************************************************)
(* A registry kept by one removal at a time is right; three races can be    *)
(* admitted:                                                                *)
(*   "concurrent"  two removals, or a removal and the module's exit, at     *)
(*                 once (sysfs unbind does not serialize them);             *)
(*   "unstopped"   a reset or a rebuild of a member whose removal has       *)
(*                 already decided to keep the volume;                      *)
(*   "late_join"   a registration after a teardown has cancelled the timer  *)
(*                 and before it clears the registry.                       *)
(***************************************************************************)
Races == {"concurrent", "unstopped", "late_join"}

Slots    == 0 .. MaxMembers - 1
Mirrored == {"RAID1", "RAID10"}
Levels   == Mirrored \cup {"RAID0"}     \* those with a dispatch path
States   == {"LIVE", "FAILED", "NEEDS_RESYNC", "RESYNCING"}

\* What the metadata of a drive says: with a Logical Device record (ld) its
\* level, position, number of devices and of stripe columns, whole capacity,
\* user data on this member, stripe size as the driver decodes it, and whether
\* it knows the encoding and believes the size (plausible).  Without a record
\* only bus order, stripe and size count.
\* The position is where the drive is found among the devices of the record.
Labels ==
  {l \in [ld : BOOLEAN, level : Levels \cup {"other"}, pos : Nat,
          devices : Nat, first : Nat, capacity : Nat, size : Nat,
          stripe : Nat, plausible : BOOLEAN, queues : Nat \ {0}, bdf : Nat] :
     l.ld => l.devices \in 2 .. MaxMembers /\ l.pos < l.devices /\ l.stripe > 0}

\* What is remembered of a disk: its write protection, capacity and queues.
Disks == [ro : BOOLEAN, capacity : Nat, nrHw : Nat \ {0}]

ASSUME AssemblyConstants ==
  /\ MaxMembers \in Nat \ {0} /\ LegacyMembers \in 1 .. MaxMembers
  /\ None \notin Adapter /\ Exit \notin Adapter /\ None \notin Disks
  /\ MaxFaults \in Nat /\ Admit \subseteq Races
  /\ \A f \in Fleets : /\ DOMAIN f.label \subseteq Adapter
                       /\ \A a \in DOMAIN f.label : f.label[a] \in Labels
                       /\ f.degraded \in BOOLEAN /\ f.writes \in BOOLEAN

VARIABLES
  fleet,      \* the drives, allow_degraded and enable_writes of this behaviour
  members,    \* rc_volume_members[]
  count,      \* rc_volume_member_count
  geometry,   \* rc_volume_expected_members, _raid_level, _stripe_sectors, _raid10_cols
  untrusted,  \* rc_volume_geometry_untrust_reason is set
  state,      \* rc_volume_member_state[]
  live,       \* rc_volume_live_mask
  write,      \* rc_volume_write_mask
  disk,       \* rc_volume_disk, its capacity, write protection and queues
  pools,      \* slots with a slice of the PRP pool
  group,      \* rc_volume_sysfs_up
  armed,      \* rc_volume_assemble_work is pending
  tearing,    \* rc_volume_tearing_down
  owner,      \* who holds rc_volume_teardown_lock
  resync,     \* the slot the resync thread copies to
  volumeSlot, \* nvme.volume_slot of each adapter
  at,         \* where each actor is, and the slot it has looked up
  frozen,     \* removals that keep the queue frozen
  oops,       \* a NULL pointer was dereferenced
  faults,     \* removals, failures and failed allocations so far
  behind      \* history: adapters that missed a write of this disk

registry == <<members, count, geometry, untrusted, volumeSlot>>
health   == <<state, live, write, resync>>
diskVars == <<disk, pools, group, behind>>
control  == <<armed, tearing, owner, at, frozen, oops>>
vars == <<fleet, registry, health, diskVars, control, faults>>

Present == {s \in Slots : members[s] # None}
Label(a) == fleet.label[a]

\* Where a removal is: about to look the adapter up, to cancel the timer, to
\* stop the resync, to decide; keeping the volume: about to freeze, to clear
\* the slot, to thaw; not keeping it: the steps of a teardown.
Tearing  == {"t_lock", "t_flush", "t_stop", "t_group", "t_clear"}
Keeping  == {"freeze", "clear", "thaw"}
Removing == {"look", "cancel", "stop", "decide"} \cup Keeping \cup Tearing
Places   == {"out", "in"} \cup Removing

Actors == Adapter \cup {Exit}
Busy   == {x \in Actors : at[x].pc \in Removing}

TypeOK ==
  /\ fleet \in Fleets
  /\ members \in [Slots -> Adapter \cup {None}] /\ count \in 0 .. MaxMembers
  /\ geometry \in [expected : Nat, level : Levels, stripe : Nat, cols : Nat]
  /\ untrusted \in BOOLEAN
  /\ state \in [Slots -> States]
  /\ live \in SUBSET Slots /\ write \in SUBSET Slots
  /\ disk \in Disks \cup {None}
  /\ pools \in SUBSET Slots /\ group \in BOOLEAN
  /\ armed \in BOOLEAN /\ tearing \in BOOLEAN
  /\ owner \in Actors \cup {None}
  /\ resync \in Slots \cup {None}
  /\ volumeSlot \in [Adapter -> Slots \cup {-1}]
  /\ at \in [Actors -> [pc : Places, slot : Slots \cup {-1}]]
  /\ frozen \in SUBSET Adapter
  /\ oops \in BOOLEAN /\ faults \in 0 .. MaxFaults
  /\ behind \in SUBSET Adapter

Init ==
  /\ fleet \in Fleets
  /\ members = [s \in Slots |-> None] /\ count = 0
  /\ geometry = [expected |-> 0, level |-> "RAID0", stripe |-> 0, cols |-> 0]
  /\ untrusted = FALSE
  /\ state = [s \in Slots |-> "LIVE"] /\ live = {} /\ write = {}
  /\ disk = None /\ pools = {} /\ group = FALSE
  /\ armed = FALSE /\ tearing = FALSE /\ owner = None /\ resync = None
  /\ volumeSlot = [a \in Adapter |-> -1]
  /\ at = [x \in Actors |-> [pc |-> IF x = Exit THEN "in" ELSE "out", slot |-> -1]]
  /\ frozen = {} /\ oops = FALSE /\ faults = 0 /\ behind = {}

-----------------------------------------------------------------------------
(* Member states and what the volume can serve                              *)

\* The masks of a set of slots that all take the state st.
SetState(S, st) ==
  /\ state' = [s \in Slots |-> IF s \in S THEN st ELSE state[s]]
  /\ live'  = IF st = "LIVE" THEN live \cup S ELSE live \ S
  /\ write' = IF st \in {"LIVE", "RESYNCING"} THEN write \cup S ELSE write \ S

\* Serving(on): can the volume serve with exactly the slots of "on" live?
Serving(on) ==
  CASE geometry.level = "RAID1"  -> on # {}
    [] geometry.level = "RAID10" -> /\ geometry.cols > 0
                                    /\ \A c \in 0 .. geometry.cols - 1 :
                                         on \cap {2 * c, 2 * c + 1} # {}
    [] OTHER -> on = 0 .. count - 1

Fault == faults < MaxFaults /\ faults' = faults + 1

Go(x, pc) == at' = [at EXCEPT ![x].pc = pc]

\* rc_volume_resync_stop: the thread ends without promoting its target.
StopResync ==
  /\ resync' = None
  /\ IF resync # None /\ state[resync] = "RESYNCING"
     THEN SetState({resync}, "NEEDS_RESYNC")
     ELSE UNCHANGED <<state, live, write>>

-----------------------------------------------------------------------------
(* Creation of the disk                                                     *)

\* rc_volume_create_disk on the registry as it is after the step.  Nothing
\* is left behind when an allocation or add_disk fails.
CreateDisk ==
  LET m0 == Label(members'[Min(Present')])
  IN  /\ disk' = [ro |-> ~fleet.writes \/ untrusted',
                  capacity |-> IF m0.ld THEN m0.capacity ELSE m0.size * count',
                  nrHw |-> Min({Label(members'[s]).queues : s \in Present'})]
      /\ pools' = Present' /\ group' = TRUE /\ behind' = {}

NoDisk == UNCHANGED <<disk, pools, group, behind, faults>>

TryCreate == \/ CreateDisk /\ UNCHANGED faults
             \/ Fault /\ UNCHANGED diskVars

-----------------------------------------------------------------------------
(* Registration                                                             *)

LevelOf(a)    == IF Label(a).ld THEN Label(a).level ELSE "RAID0"
ExpectedOf(a) == IF Label(a).ld THEN Label(a).devices ELSE LegacyMembers

GeometryOf(a) ==
  [expected |-> ExpectedOf(a), level |-> LevelOf(a), stripe |-> Label(a).stripe,
   cols |-> IF LevelOf(a) = "RAID10" THEN ExpectedOf(a) \div 2 ELSE 0]

\* The record gets as far as being looked at.
Readable(a) == count < MaxMembers /\ LevelOf(a) \in Levels

\* Mutant: the stripe encoding is not looked at.
DoubtfulCapacity(a) == Label(a).ld /\ Label(a).capacity # Label(a).size * Label(a).first

\* What the record says does not add up.
Doubtful(a) == /\ Label(a).ld
               /\ \/ Label(a).capacity # Label(a).size * Label(a).first
                  \/ /\ LevelOf(a) \in {"RAID0", "RAID10"}
                     /\ Label(a).stripe > 0 /\ ~Label(a).plausible

Agrees(a) == /\ Readable(a)
             /\ Label(a).ld => Label(a).stripe > 0
             /\ count = 0 \/ GeometryOf(a) = geometry

InRange(a) == Label(a).pos \in 0 .. ExpectedOf(a) - 1 /\ Label(a).pos \in Slots

Vacant(a) == InRange(a) /\ members[Label(a).pos] = None

\* The doubt a record raises is noted, and the first record seeds the
\* geometry, whether or not the member is then accepted.
Note(a) ==
  /\ untrusted' = (untrusted \/ (Readable(a) /\ Doubtful(a)))
  /\ geometry' = IF count = 0 /\ Agrees(a) THEN GeometryOf(a) ELSE geometry

\* Arriving at a running volume a member must be able to hold its column.
MemberCapacity == IF geometry.cols > 0 THEN disk.capacity \div geometry.cols
                                       ELSE disk.capacity
Fits(a) == /\ Label(a).ld /\ geometry.level \in Mirrored /\ Vacant(a)
           /\ Label(a).queues >= disk.nrHw
           /\ Label(a).size >= MemberCapacity

Joins(a) == /\ Agrees(a)
            /\ IF disk # None THEN Fits(a) ELSE Label(a).ld => Vacant(a)

\* The metadata cannot be read, or the member is refused.
Orphan(a) ==
  /\ UNCHANGED <<registry, health, diskVars, armed, oops>>
  /\ UNCHANGED faults
Ignore(a) ==
  /\ ~Joins(a) /\ Note(a)
  /\ UNCHANGED <<members, count, volumeSlot, health, diskVars, armed, oops, faults>>

\* Re-admission: the slot is filled again, but parked until it is rebuilt.
ReAdd(a) ==
  LET pos == Label(a).pos
  IN  /\ disk # None /\ Joins(a) /\ Note(a)
      /\ \/ /\ members' = [members EXCEPT ![pos] = a]
            /\ volumeSlot' = [volumeSlot EXCEPT ![a] = pos]
            /\ pools' = pools \cup {pos}
            /\ SetState({pos}, "NEEDS_RESYNC")
            /\ UNCHANGED faults
         \/ Fault /\ UNCHANGED <<members, volumeSlot, pools, state, live, write>>
      /\ UNCHANGED <<count, resync, disk, group, behind, armed, oops>>

\* After a member was added to a registry without a disk: create it when all
\* are there, else (re)arm the timer if a mirror may come up without them.
Complete ==
  LET all == count' = geometry'.expected
      gap == \E s \in 0 .. count' - 1 : members'[s] = None
  IN  /\ IF all /\ ~gap THEN TryCreate ELSE NoDisk
      /\ armed' = (armed \/ (/\ disk' = None /\ ~(all /\ gap)
                             /\ fleet.degraded /\ geometry'.level = "RAID1"))

\* By the position the record gives.
Join(a) ==
  LET pos == Label(a).pos
  IN  /\ disk = None /\ Label(a).ld /\ Joins(a) /\ Note(a)
      /\ members' = [members EXCEPT ![pos] = a] /\ count' = count + 1
      /\ volumeSlot' = [volumeSlot EXCEPT ![a] = pos]
      /\ SetState({pos}, "LIVE")
      /\ Complete
      /\ UNCHANGED <<resync, oops>>

\* By bus order, shifting those that come later.  The loops go through the
\* first "count" slots and take them all to be filled.
JoinLegacy(a) ==
  LET Later(s) == Label(a).bdf < Label(members[s]).bdf
      First(p) == /\ p # count => Later(p)
                  /\ \A s \in 0 .. p - 1 : ~Later(s)
      filled == \A s \in 0 .. count - 1 : members[s] # None
  IN  /\ disk = None /\ ~Label(a).ld /\ Joins(a)
      /\ IF filled
         THEN /\ untrusted' = TRUE
              /\ geometry' = IF count = 0 THEN GeometryOf(a) ELSE geometry
              /\ \E p \in 0 .. count :
                   /\ First(p)
                   /\ members' = [s \in Slots |->
                                    CASE s = p -> a
                                      [] s \in p + 1 .. count -> members[s - 1]
                                      [] OTHER -> members[s]]
              /\ count' = count + 1
              /\ volumeSlot' = [b \in Adapter |->
                                  IF \E s \in 0 .. count : members'[s] = b
                                  THEN CHOOSE s \in 0 .. count : members'[s] = b
                                  ELSE volumeSlot[b]]
              /\ SetState(0 .. count, "LIVE")
              /\ Complete
              /\ UNCHANGED <<resync, oops>>
         ELSE /\ oops' = TRUE
              /\ UNCHANGED <<registry, health, diskVars, armed, faults>>

\* rc_nvme_init_controller of a fresh adapter, from its volume_slot of -1 to
\* the end of the registration.
Probe(a) ==
  /\ a \in DOMAIN fleet.label /\ at[a].pc = "out"
  /\ "late_join" \in Admit \/ \A x \in Actors : at[x].pc \notin {"t_stop", "t_group", "t_clear"}
  /\ Go(a, "in")
  /\ Orphan(a) \/ Ignore(a) \/ ReAdd(a) \/ Join(a) \/ JoinLegacy(a)
  /\ UNCHANGED <<fleet, tearing, owner, frozen>>

-----------------------------------------------------------------------------
(* The timer: assembly without the members that have not come               *)

Degradable ==
  /\ disk = None
  /\ geometry.expected \in 1 .. MaxMembers
  /\ geometry.level \in Mirrored /\ ~untrusted
  /\ Cardinality(Present \cap (0 .. geometry.expected - 1)) \in 1 .. geometry.expected - 1
  /\ geometry.level = "RAID10" => Serving(live)

\* Mutant: the roll-back makes the absent members live.
RollBackToLive(absent) == SetState(absent, "LIVE")

\* The roll-back: the state an unused slot has, and no bit in the masks.
RollBack(absent) ==
  /\ state' = [s \in Slots |-> IF s \in absent THEN "LIVE" ELSE state[s]]
  /\ live' = live \ absent /\ write' = write \ absent

\* When the disk cannot be created the registry is put back as it was.
Assemble ==
  /\ armed /\ armed' = FALSE
  /\ IF Degradable
     THEN LET absent == (0 .. geometry.expected - 1) \ Present
          IN  /\ UNCHANGED members
              /\ \/ /\ count' = geometry.expected
                    /\ SetState(absent, "FAILED")
                    /\ UNCHANGED untrusted
                    /\ CreateDisk
                    /\ UNCHANGED faults
                 \/ /\ Fault /\ RollBack(absent)
                    /\ UNCHANGED <<count, untrusted, diskVars>>
     ELSE UNCHANGED <<members, count, untrusted, state, live, write, diskVars, faults>>
  /\ UNCHANGED <<fleet, geometry, volumeSlot, resync, tearing, owner, at, frozen, oops>>

-----------------------------------------------------------------------------
(* A running volume: writes, failures, resets, rebuilds                     *)

\* A write reaches every member of the write mask; all other drives of the
\* machine that hold a part of this volume are behind from now on.
Write ==
  /\ disk # None /\ ~disk.ro /\ Serving(live) /\ frozen = {}
  /\ behind' = {a \in DOMAIN fleet.label : \A s \in write : members[s] # a}
                 \cup behind
  /\ UNCHANGED <<fleet, registry, health, disk, pools, group, control, faults>>

\* rc_volume_member_mark_failed, by an error of a request or by fail_member.
Fail(s) ==
  /\ disk # None /\ s \in Present /\ state[s] \in {"LIVE", "RESYNCING"}
  /\ Fault /\ SetState({s}, "FAILED")
  /\ UNCHANGED <<fleet, registry, resync, diskVars, control>>

\* Mutant: a member that was reset is live again.
RejoinLive(a) ==
  /\ at[a].pc \notin {"out"} \cup Keeping
  /\ volumeSlot[a] \in Slots
  /\ members[volumeSlot[a]] = a /\ state[volumeSlot[a]] = "FAILED"
  /\ SetState({volumeSlot[a]}, "LIVE")
  /\ UNCHANGED <<fleet, registry, resync, diskVars, control, faults>>

\* The end of a successful rc_nvme_reset_controller.
Rejoin(a) ==
  LET s == volumeSlot[a]
  IN  /\ at[a].pc # "out"
      /\ "unstopped" \in Admit \/ at[a].pc \notin Keeping
      /\ s \in Slots /\ members[s] = a /\ state[s] = "FAILED"
      /\ SetState({s}, IF geometry.level \in Mirrored THEN "NEEDS_RESYNC" ELSE "LIVE")
      /\ UNCHANGED <<fleet, registry, resync, diskVars, control, faults>>

\* rc_volume_resync_pick_survivor: the copies a target can be rebuilt from.
Survivors(s) ==
  {o \in (live \cap Present) \ {s} :
     geometry.level = "RAID10" => o \div 2 = s \div 2}

Leaving == {at[x].slot : x \in {y \in Actors : at[y].pc \in Keeping}}

\* rc_volume_rebuild_fn: one at a time, the first parked slot it can rebuild.
Rebuildable == {s \in 0 .. count - 1 : /\ s \in Present /\ state[s] = "NEEDS_RESYNC"
                                       /\ Survivors(s) # {}}
\* Mutant: that no slot was picked is not looked at.
StartRebuildUnpicked ==
  /\ ~tearing /\ resync = None /\ disk # None /\ ~disk.ro
  /\ LET pick == IF Rebuildable = {} THEN -1 ELSE Min(Rebuildable)
     IN  resync' = pick /\ SetState({pick}, "RESYNCING")
  /\ UNCHANGED <<fleet, registry, diskVars, control, faults>>

StartRebuild ==
  /\ ~tearing /\ resync = None /\ disk # None /\ ~disk.ro
  /\ \E s \in Rebuildable :
       /\ \A r \in Rebuildable : s <= r
       /\ "unstopped" \in Admit \/ Leaving \cap ({s} \cup Survivors(s)) = {}
       /\ resync' = s /\ SetState({s}, "RESYNCING")
  /\ UNCHANGED <<fleet, registry, diskVars, control, faults>>

\* The thread's end: promoted after a complete copy, parked after a failed
\* one; a target that was failed meanwhile stays failed.
EndRebuild ==
  /\ resync # None /\ resync' = None
  /\ \/ /\ state[resync] = "RESYNCING"
        /\ SetState({resync}, "LIVE")
        /\ behind' = behind \ {members[resync]}
        /\ UNCHANGED faults
     \/ /\ IF state[resync] = "RESYNCING" THEN SetState({resync}, "NEEDS_RESYNC")
                                          ELSE UNCHANGED <<state, live, write>>
        /\ Fault /\ UNCHANGED behind
  /\ UNCHANGED <<fleet, registry, disk, pools, group, control>>

-----------------------------------------------------------------------------
(* Removal of a member                                                      *)

SlotOf(a) == IF \E s \in Slots : members[s] = a
             THEN CHOOSE s \in Slots : members[s] = a ELSE -1

Remove(a) ==
  /\ at[a].pc = "in" /\ Go(a, "look") /\ Fault
  /\ "concurrent" \in Admit \/ Busy = {}
  /\ UNCHANGED <<fleet, registry, health, diskVars, armed, tearing, owner, frozen, oops>>

\* An adapter that never was a member disturbs nothing; one whose registry
\* was cleared by a teardown still stops the resync.
Look(a) ==
  /\ at[a].pc = "look"
  /\ IF SlotOf(a) # -1 THEN Go(a, "cancel") /\ UNCHANGED health
     ELSE /\ Go(a, "out")
          /\ IF volumeSlot[a] >= 0 THEN StopResync ELSE UNCHANGED health
  /\ volumeSlot' = [volumeSlot EXCEPT ![a] = IF SlotOf(a) = -1 THEN -1 ELSE @]
  /\ UNCHANGED <<fleet, members, count, geometry, untrusted, diskVars, armed,
                 tearing, owner, frozen, oops, faults>>

CancelTimer(a) ==
  /\ at[a].pc = "cancel" /\ Go(a, "stop") /\ armed' = FALSE
  /\ UNCHANGED <<fleet, registry, health, diskVars, tearing, owner, frozen, oops, faults>>

StopCopy(a) ==
  /\ at[a].pc = "stop" /\ Go(a, "decide") /\ StopResync
  /\ UNCHANGED <<fleet, registry, diskVars, armed, tearing, owner, frozen, oops, faults>>

\* Mutant: a volume that was never assembled is kept.
KeepRegistry(s) == s # -1 /\ geometry.level \in Mirrored /\ Serving(live \ {s})

KeepVolume(s) == /\ s # -1 /\ disk # None /\ geometry.level \in Mirrored
                 /\ Serving(live \ {s})

Decide(a) ==
  LET s == SlotOf(a)
  IN  /\ at[a].pc = "decide"
      /\ at' = [at EXCEPT ![a] = [pc |-> CASE s = -1 -> "out"
                                           [] KeepVolume(s) -> "freeze"
                                           [] OTHER -> "t_lock",
                                  slot |-> s]]
      /\ IF KeepVolume(s) THEN SetState({s}, "FAILED")
                          ELSE UNCHANGED <<state, live, write>>
      /\ volumeSlot' = [volumeSlot EXCEPT ![a] = IF s = -1 THEN -1 ELSE @]
      /\ UNCHANGED <<fleet, members, count, geometry, untrusted, resync, diskVars,
                     armed, tearing, owner, frozen, oops, faults>>

\* The volume stays: its queue is frozen - through rc_volume_disk, read
\* without the lock - while the slot is cleared.
Freeze(a) ==
  /\ at[a].pc = "freeze"
  /\ IF disk = None THEN oops' = TRUE /\ UNCHANGED <<at, frozen>>
                    ELSE Go(a, "clear") /\ frozen' = frozen \cup {a} /\ UNCHANGED oops
  /\ UNCHANGED <<fleet, registry, health, diskVars, armed, tearing, owner, faults>>

\* Mutant: the departing member stays in its slot.
ClearSlotPools(a) ==
  /\ at[a].pc = "clear" /\ Go(a, "thaw")
  /\ volumeSlot' = [volumeSlot EXCEPT ![a] = -1]
  /\ pools' = pools \ {at[a].slot}
  /\ UNCHANGED <<fleet, members, count, geometry, untrusted, health, disk, group,
                 behind, armed, tearing, owner, frozen, oops, faults>>

ClearSlot(a) ==
  /\ at[a].pc = "clear" /\ Go(a, "thaw")
  /\ members' = [members EXCEPT ![at[a].slot] = None]
  /\ volumeSlot' = [volumeSlot EXCEPT ![a] = -1]
  /\ pools' = pools \ {at[a].slot}
  /\ UNCHANGED <<fleet, count, geometry, untrusted, health, disk, group, behind,
                 armed, tearing, owner, frozen, oops, faults>>

Thaw(a) ==
  /\ at[a].pc = "thaw"
  /\ IF disk = None THEN oops' = TRUE /\ UNCHANGED <<at, frozen>>
                    ELSE /\ at' = [at EXCEPT ![a] = [pc |-> "out", slot |-> -1]]
                         /\ frozen' = frozen \ {a} /\ UNCHANGED oops
  /\ UNCHANGED <<fleet, registry, health, diskVars, armed, tearing, owner, faults>>

-----------------------------------------------------------------------------
(* Teardown, by a removal or by rc_exit                                     *)

Unload ==
  /\ at[Exit].pc = "in" /\ Go(Exit, "t_lock")
  /\ "concurrent" \in Admit \/ Busy = {}
  /\ UNCHANGED <<fleet, registry, health, diskVars, armed, tearing, owner, frozen, oops, faults>>

BeginTeardown(x) ==
  /\ at[x].pc = "t_lock" /\ owner = None /\ owner' = x
  /\ tearing' = TRUE /\ Go(x, "t_flush")
  /\ UNCHANGED <<fleet, registry, health, diskVars, armed, frozen, oops, faults>>

FlushTimer(x) ==
  /\ at[x].pc = "t_flush" /\ Go(x, "t_stop") /\ armed' = FALSE
  /\ UNCHANGED <<fleet, registry, health, diskVars, tearing, owner, frozen, oops, faults>>

StopForTeardown(x) ==
  /\ at[x].pc = "t_stop" /\ Go(x, "t_group") /\ StopResync
  /\ UNCHANGED <<fleet, registry, diskVars, armed, tearing, owner, frozen, oops, faults>>

\* The flag decides who removes the group, from the disk there is then.
RemoveGroup(x) ==
  /\ at[x].pc = "t_group"
  /\ group' = FALSE
  /\ IF group /\ disk = None THEN oops' = TRUE /\ UNCHANGED at
                             ELSE Go(x, "t_clear") /\ UNCHANGED oops
  /\ UNCHANGED <<fleet, registry, health, disk, pools, behind, armed, tearing,
                 owner, frozen, faults>>

ClearRegistry(x) ==
  /\ at[x].pc = "t_clear"
  /\ disk' = None /\ pools' = {} /\ behind' = {} /\ UNCHANGED group
  /\ members' = [s \in Slots |-> None] /\ count' = 0
  /\ geometry' = [geometry EXCEPT !.stripe = 0, !.cols = 0]
  /\ state' = [s \in Slots |-> "LIVE"] /\ live' = {} /\ write' = {}
  /\ tearing' = FALSE /\ owner' = None
  /\ at' = [at EXCEPT ![x] = [pc |-> "out", slot |-> -1]]
  /\ volumeSlot' = IF x = Exit THEN volumeSlot ELSE [volumeSlot EXCEPT ![x] = -1]
  /\ UNCHANGED <<fleet, untrusted, resync, armed, frozen, oops, faults>>

Teardown(x) == \/ BeginTeardown(x) \/ FlushTimer(x) \/ StopForTeardown(x)
               \/ RemoveGroup(x) \/ ClearRegistry(x)

Removal(a) == \/ Look(a) \/ CancelTimer(a) \/ StopCopy(a) \/ Decide(a)
              \/ Freeze(a) \/ ClearSlot(a) \/ Thaw(a)

Next ==
  \/ Assemble \/ Write \/ StartRebuild \/ EndRebuild \/ Unload
  \/ \E s \in Slots : Fail(s)
  \/ \E a \in Adapter : Probe(a) \/ Rejoin(a) \/ Remove(a) \/ Removal(a)
  \/ \E x \in Actors : Teardown(x)

\* A pending work item is run and a removal goes on; drives need not come.
Fairness == /\ WF_vars(Assemble)
            /\ \A a \in Adapter : WF_vars(Removal(a))
            /\ \A x \in Actors : WF_vars(Teardown(x))

Spec     == Init /\ [][Next]_vars
FairSpec == Spec /\ Fairness

-----------------------------------------------------------------------------
(* Properties                                                               *)

\* The registry and the adapters agree: a slot points to an adapter that is
\* still there and that knows its slot, so no adapter is freed - or found
\* under a second slot - while the volume can reach it.
SlotsAgree ==
  \A s \in Present : at[members[s]].pc # "out" /\ volumeSlot[members[s]] = s

\* Only a slot with a member has a bit in the masks, whatever assembly,
\* roll-back, removal or rebuild did to it: "bits ONLY for the members that
\* registered", which the pair test of the degraded assembly relies on.
LiveIsPresent == live \cup write \subseteq Present

\* A member that missed a write of the running disk - failed, unplugged or
\* absent when the disk was assembled - serves no reads until it was copied.
NoStaleServed ==
  disk # None => \A s \in live : members[s] \notin behind

\* Every member of a disk can take whatever the disk's queues dispatch: it has
\* as many queues and its slice of the PRP pool; and no slice outlives its
\* member, whose device it would have to be given back to.
MembersFit ==
  /\ pools = IF disk = None THEN {} ELSE Present
  /\ disk # None => \A s \in Present : Label(members[s]).queues >= disk.nrHw

\* No step follows a NULL rc_volume_disk or rc_volume_members[] entry.
NeverOops == ~oops

\* The PRP slices of a disk are those of the members present, every member has a
\* queue for each hardware context of the disk, and no step follows a pointer that
\* is gone.
VolumeFit == MembersFit /\ NeverOops

\* The sysfs group goes before its disk does.
GroupHasDisk == group => disk # None

\* The record of a member says that it belongs where it is.
Trusted(l, s) == /\ l.ld /\ l.pos = s /\ l.capacity = l.size * l.first
                 /\ l.level = "RAID1" \/ l.plausible

\* A disk that appears is made of members that agree about its geometry,
\* enough of them to serve; and it takes writes only when the operator asked
\* for them and each member is where a record that adds up puts it.
AssembledWell ==
  /\ Serving(live) /\ live = Present /\ Present \subseteq 0 .. count - 1
  /\ \A s \in Present : GeometryOf(members[s]) = geometry
  /\ ~disk.ro => fleet.writes /\ \A s \in Present : Trusted(Label(members[s]), s)

AssembledRight == [][disk = None /\ disk' # None => AssembledWell']_vars

\* A doubtful geometry is never written to.
DoubtfulIsReadOnly == disk # None /\ untrusted => disk.ro

\* With allow_degraded, a volume with a copy of every column registered comes
\* up, unless more drives leave, something fails or its geometry is doubted.
ComesUp(level) ==
  LET waiting == /\ disk = None /\ fleet.degraded /\ geometry.level = level
                 /\ live # {} /\ Serving(live) /\ ~untrusted /\ Busy = {} /\ faults = 0
  IN  waiting ~> (disk # None \/ untrusted \/ Busy # {} \/ faults # 0)

MirrorComesUp == ComesUp("RAID1")

\* In no configuration: rc_volume_assemble_fn also serves RAID10, but only the
\* registration of a RAID1 member arms it.
NestedComesUp == ComesUp("RAID10")

\* A disk of any level comes up only when it may; a disk of a RAID1 volume, whose
\* registrations arm the degraded-assembly timer, also comes up when it may.  For
\* RAID10 nothing arms it, and NestedComesUp fails.
Assembles == AssembledRight /\ MirrorComesUp
=============================================================================
