------------------------------- MODULE Adapter -------------------------------
(* The life of an adapter and of the module: rc_bottom_probe and _remove of  *)
(* src/src/rc_bottom.c, rc_init and rc_exit of src/src/rc_main.c, the        *)
(* teardown of the volume they end in, and whoever may be inside the driver  *)
(* meanwhile: interrupt handlers, the assembly timer and readers of sysfs,   *)
(* debugfs and the configuration device.  A path is the list of the steps it *)
(* still has to take; a failing step continues where its goto leads.         *)
EXTENDS Integers, FiniteSets, Sequences

CONSTANTS
  Devs,        \* PCI functions
  NoOne, Other, \* nobody; an adapter outside the model that owns a slot
  Rigs,        \* what rc_classify_device makes of them; slots others own
  Slots,       \* RC_MAX_ADAPTERS
  Expected,    \* members of the array
  Vectors,     \* numbers of interrupt vectors the platform may grant
  Target,      \* RC_NVME_IO_QUEUE_TARGET
  Cpus,        \* num_online_cpus
  MaxFaults,   \* bound: steps that fail
  MaxProbes,   \* bound: probes
  MaxRemovals, \* bound: removals before the unload
  Admit        \* which of Gaps may happen

\* What the code leaves open: README section 5.
Gaps == {"enabled", "bars", "tags", "rearm", "overlap"}

ASSUME AdapterAssumption ==
  /\ Rigs \subseteq [kind : [Devs -> {"nvme", "ahci"}], taken : 0 .. Slots - 1]
  /\ Slots \in Nat \ {0} /\ Expected \in Nat \ {0} /\ Target \in Nat \ {0}
  /\ Cpus \in Nat \ {0} /\ Vectors \subseteq Nat \ {0} /\ Admit \subseteq Gaps
  /\ NoOne \notin Devs \cup {"mod", "guest", Other} /\ {"mod", "guest", Other} \cap Devs = {}
  /\ NoOne \notin {"irq", "attr", "reset", "dump", "registers", "volattr", "volfile", "config"}

VARIABLES
  kind,    \* what rc_classify_device makes of each device
  bound,   \* devices the driver is bound to
  path,    \* what each thread still has to do: one per device, and "mod"
  held,    \* what each device's probe has obtained and not yet returned
  nvec,    \* nr_irq_vectors
  ioq,     \* qids whose io_queues[] entry is set
  slots,   \* rc_state.adapters
  member,  \* adapters in rc_volume_members
  disk,    \* rc_volume_disk is set
  group,   \* the sysfs group of the volume is there
  armed,   \* rc_volume_assemble_work is pending
  vlock, tlock,  \* owners of rc_volume_lock, rc_volume_teardown_lock
  mod,     \* the module: "absent", "loading", "live", "going"
  has,     \* what rc_init has obtained and not yet returned
  guest,   \* an interrupt handler, or a reader or writer of one of its files
  faults, probes, removals, loads

devVars   == <<bound, held, nvec, ioq, slots>>
volVars   == <<member, disk, group, armed, vlock, tlock>>
modVars   == <<mod, has>>
counts    == <<faults, probes, removals, loads>>
adapterVars == <<kind, devVars, path, volVars, modVars, guest, counts>>

Threads == Devs \cup {"mod"}
Nobody  == [op |-> NoOne, dev |-> NoOne, vec |-> 0, qs |-> {}, tags |-> FALSE, locked |-> FALSE]

(* The paths.                                                               *)

\* Mutant: the group is removed under the lock.
TeardownLocked ==
  <<"t_begin", "t_lock", "t_group", "t_readers", "t_free", "t_end">>
\* rc_volume_teardown; the group is removed outside rc_volume_lock.
Teardown ==
  <<"t_begin", "t_group", "t_readers", "t_lock", "t_free", "t_end">>

\* rc_nvme_cleanup_controller; and with rc_volume_remove_member before it.
Cleanup == <<"q_irq", "q_wait", "q_free", "off", "unadmin">>
Leaving(d) == IF kind[d] = "nvme" THEN <<"leave">> \o Cleanup ELSE <<>>

Detach  == <<"detach">>
FreeIrq == <<"unirq", "irq_wait">>

\* rc_bottom_probe, with rc_nvme_init_controller for an NVMe device.
Bringup(d) == IF kind[d] = "nvme" THEN <<"admin", "on", "queues", "register">> ELSE <<>>
Probe(d) ==
  <<"alloc", "enable", "bars", "vectors", "irq">> \o Bringup(d)
  \o <<"attach", "sysfs", "debugfs">>

\* Where the gotos of rc_bottom_probe lead.
ErrDisable  == <<"disable", "free">>
ErrUnmap    == <<"unmap">> \o ErrDisable
ErrRelease  == <<"release">> \o ErrUnmap
ErrNvme(d)  == Leaving(d) \o FreeIrq \o ErrRelease

\* Mutant: no slot is left and the member stays registered.
UnwindMember(d, name) ==
  CASE name = "alloc" -> <<>>
    [] name = "enable" -> <<"free">>
    [] name = "bars" -> ErrDisable
    [] name = "vectors" -> ErrUnmap
    [] name = "irq" -> ErrRelease
    [] name = "sysfs" -> Detach \o ErrNvme(d)
    [] name = "attach" -> FreeIrq \o ErrRelease
    [] name = "on" -> <<"unadmin">> \o ErrNvme(d)
    [] name = "queues" -> Cleanup \o ErrNvme(d)
    [] OTHER -> ErrNvme(d)

Unwind(d, name) ==
  CASE name = "alloc" -> <<>>
    [] name = "enable" -> <<"free">>
    [] name = "bars" -> ErrDisable
    [] name = "vectors" -> ErrUnmap
    [] name = "irq" -> ErrRelease
    [] name = "sysfs" -> Detach \o ErrNvme(d)
    [] name = "on" -> <<"unadmin">> \o ErrNvme(d)
    [] name = "queues" -> Cleanup \o ErrNvme(d)
    [] OTHER -> ErrNvme(d)

\* Mutant: the handler of vector 0 outlives the mappings.
RemoveIrqLate(d) ==
  <<"undebugfs", "debugfs_wait", "unsysfs", "sysfs_wait">> \o Leaving(d) \o Detach
  \o <<"release", "unmap">> \o FreeIrq \o ErrDisable

\* rc_bottom_remove.
Remove(d) ==
  <<"undebugfs", "debugfs_wait", "unsysfs", "sysfs_wait">> \o Leaving(d) \o Detach
  \o FreeIrq \o ErrRelease

\* rc_init and rc_exit.
Load == <<"async", "blkdev", "root", "driver", "probes", "misc", "loaded">>

Undriver == <<"undriver", "removes">>
Unroot   == <<"unroot", "root_wait", "unblkdev">>

UnwindLoad(name) ==
  CASE name = "async"  -> <<"unloaded">>
    [] name = "blkdev" -> <<"unasync", "unloaded">>
    [] name = "driver" -> Unroot \o <<"unasync", "unloaded">>
    [] name = "misc"   -> Undriver \o Unroot \o <<"unasync", "unloaded">>

Exit == Teardown \o <<"unasync", "unmisc">> \o Undriver \o Unroot \o <<"unloaded">>

At(t, name) == path[t] # <<>> /\ Head(path[t]) = name
Goes(t)     == path' = [path EXCEPT ![t] = Tail(@)]
Jumps(t, s) == path' = [path EXCEPT ![t] = s]
Fault       == faults < MaxFaults /\ faults' = faults + 1 /\ UNCHANGED <<probes, removals, loads>>

Obtains(d, x) == held' = [held EXCEPT ![d] = @ \cup {x}]
Returns(d, x) == held' = [held EXCEPT ![d] = @ \ {x}]

(* rc_bottom_probe, by the PCI core under the lock of the device.           *)

Present(d) == d \in bound \/ path[d] # <<>>

\* One after the other while the driver is registered; at a plug, at a bind.
BeginProbe(d) ==
  /\ "driver" \in has /\ ~Present(d) /\ probes < MaxProbes
  /\ At("mod", "probes") => \A e \in Devs : path[e] = <<>>
  /\ Jumps(d, Probe(d)) /\ probes' = probes + 1
  /\ UNCHANGED <<kind, bound, held, nvec, ioq, slots, volVars, modVars, guest,
                 faults, removals, loads>>

\* What a step that fails may leave behind.
Leaves(name) ==
  {{}} \cup (CASE name = "enable" /\ "enabled" \in Admit -> {{"enabled"}}
               [] name = "bars" /\ "bars" \in Admit -> {{"bars"}}
               [] OTHER -> {})

Fallible == {"alloc", "enable", "bars", "vectors", "irq", "admin", "on", "queues", "sysfs"}

ProbeFails(d) ==
  /\ path[d] # <<>> /\ Head(path[d]) \in Fallible /\ Fault
  /\ \E x \in Leaves(Head(path[d])) : held' = [held EXCEPT ![d] = @ \cup x]
  /\ Jumps(d, Unwind(d, Head(path[d])))
  /\ UNCHANGED <<kind, bound, nvec, ioq, slots, volVars, modVars, guest>>

Gives == [alloc |-> "adapter", enable |-> "enabled", bars |-> "bars", irq |-> "irq",
          admin |-> "admin", on |-> "on", sysfs |-> "sysfs"]

ProbeStep(d) ==
  /\ path[d] # <<>> /\ Head(path[d]) \in DOMAIN Gives
  /\ Obtains(d, Gives[Head(path[d])]) /\ Goes(d)
  /\ UNCHANGED <<kind, bound, nvec, ioq, slots, volVars, modVars, guest, counts>>

\* rc_bottom_setup_interrupts: as many as the platform grants.
SetupInterrupts(d) ==
  /\ At(d, "vectors") /\ Obtains(d, "vectors") /\ Goes(d)
  /\ \E n \in Vectors : nvec' = [nvec EXCEPT ![d] = n]
  /\ UNCHANGED <<kind, bound, ioq, slots, volVars, modVars, guest, counts>>

\* rc_nvme_usable_io_queues; 0: no vector but the admin queue's.
Usable(d, granted) ==
  LET caps == {granted, nvec[d] - 1, Cpus, Target} IN
  CHOOSE n \in caps : \A k \in caps : n <= k

\* rc_nvme_create_io_queues: each queue on a vector of its own, or one queue on
\* the admin vector.
QueueIds(d, granted) == IF Usable(d, granted) = 0 THEN {1} ELSE 1 .. Usable(d, granted)

\* rc_nvme_create_one_io_queue, for each.
CreateIoQueues(d) ==
  /\ At(d, "queues") /\ Goes(d)
  /\ \E granted \in 1 .. Target : ioq' = [ioq EXCEPT ![d] = QueueIds(d, granted)]
  /\ UNCHANGED <<kind, bound, held, nvec, slots, volVars, modVars, guest, counts>>

\* rc_volume_register_member: the last member makes the disk, the others start
\* the timer; or the metadata does not validate and the drive is an orphan.
Register(d) ==
  /\ At(d, "register") /\ Goes(d)
  /\ \/ /\ vlock = NoOne /\ (tlock = NoOne \/ "rearm" \in Admit)
        /\ member' = member \cup {d}
        /\ disk' = (disk \/ Cardinality(member') = Expected)
        /\ group' = (group \/ (disk' /\ ~disk))
        /\ armed' = (armed \/ ~disk')
        /\ UNCHANGED counts
     \/ Fault /\ UNCHANGED <<member, disk, group, armed>>
  /\ UNCHANGED <<kind, devVars, vlock, tlock, modVars, guest>>

\* rc_bottom_attach_adapter: the first free slot, or the probe fails.
Attach(d) ==
  /\ At(d, "attach")
  /\ LET free == {i \in 1 .. Slots : slots[i] = NoOne} IN
     IF free = {} THEN Jumps(d, Unwind(d, "attach")) /\ UNCHANGED slots
     ELSE /\ slots' = [slots EXCEPT ![CHOOSE i \in free : \A j \in free : i <= j] = d]
          /\ Goes(d)
  /\ UNCHANGED <<kind, bound, held, nvec, ioq, volVars, modVars, guest, counts>>

\* rc_debugfs_create_adapter, whose failure the probe survives.
CreateDebugfs(d) ==
  /\ At(d, "debugfs") /\ Goes(d) /\ bound' = bound \cup {d}
  /\ \/ "root" \in has /\ Obtains(d, "debugfs") /\ UNCHANGED counts
     \/ "root" \in has /\ Fault /\ UNCHANGED held
     \/ "root" \notin has /\ UNCHANGED <<held, counts>>
  /\ UNCHANGED <<kind, nvec, ioq, slots, volVars, modVars, guest>>

(* rc_bottom_remove, and the error path of the probe.                       *)

\* An unbind or a pulled device; or the module is leaving.
BeginRemove(d) ==
  /\ d \in bound /\ path[d] = <<>>
  /\ IF "driver" \in has THEN removals < MaxRemovals /\ removals' = removals + 1
                         ELSE UNCHANGED removals
  /\ Jumps(d, Remove(d)) /\ bound' = bound \ {d}
  /\ UNCHANGED <<kind, held, nvec, ioq, slots, volVars, modVars, guest,
                 faults, probes, loads>>

Takes == [undebugfs |-> "debugfs", unsysfs |-> "sysfs", off |-> "on",
          unadmin |-> "admin", unirq |-> "irq", release |-> "vectors",
          unmap |-> "bars", disable |-> "enabled", free |-> "adapter"]

RemovalStep(d) ==
  /\ path[d] # <<>> /\ Head(path[d]) \in DOMAIN Takes
  /\ Returns(d, Takes[Head(path[d])]) /\ Goes(d)
  /\ UNCHANGED <<kind, bound, nvec, ioq, slots, volVars, modVars, guest, counts>>

\* Nobody reads a file that has just been taken away; no handler still runs.
Drained(d, name) ==
  ~(/\ guest.dev = d
    /\ CASE name = "debugfs_wait" -> guest.op \in {"dump", "registers"}
         [] name = "sysfs_wait"   -> guest.op \in {"attr", "reset"}
         [] name = "irq_wait"     -> guest.op = "irq" /\ guest.vec = 0
         [] name = "q_wait"       -> guest.op = "irq" /\ guest.vec > 0)

RemoveWait(d) ==
  /\ path[d] # <<>> /\ Head(path[d]) \in {"debugfs_wait", "sysfs_wait", "irq_wait", "q_wait"}
  /\ Drained(d, Head(path[d])) /\ Goes(d)
  /\ UNCHANGED <<kind, devVars, volVars, modVars, guest, counts>>

\* rc_nvme_destroy_io_queues: free_irq of each queue, then its memory.
UnhookQueues(d) ==
  /\ At(d, "q_irq") /\ Goes(d)
  /\ held' = [held EXCEPT ![d] = (@ \cup (IF ioq[d] = {} THEN {} ELSE {"unhooked"}))]
  /\ UNCHANGED <<kind, bound, nvec, ioq, slots, volVars, modVars, guest, counts>>

FreeQueues(d) ==
  /\ At(d, "q_free") /\ Goes(d)
  /\ ioq' = [ioq EXCEPT ![d] = {}] /\ Returns(d, "unhooked")
  /\ UNCHANGED <<kind, bound, nvec, slots, volVars, modVars, guest, counts>>

\* rc_bottom_detach_adapter.
DetachAdapter(d) ==
  /\ At(d, "detach") /\ Goes(d)
  /\ slots' = [i \in DOMAIN slots |-> IF slots[i] = d THEN NoOne ELSE slots[i]]
  /\ UNCHANGED <<kind, bound, held, nvec, ioq, volVars, modVars, guest, counts>>

(* rc_volume_remove_member and rc_volume_teardown.                          *)

\* Only what is registered cancels the timer.
Leave(d) ==
  /\ At(d, "leave") /\ vlock = NoOne
  /\ IF d \in member THEN armed' = FALSE /\ Jumps(d, <<"part">> \o Tail(path[d]))
                     ELSE Goes(d) /\ UNCHANGED armed
  /\ UNCHANGED <<kind, devVars, member, disk, group, vlock, tlock, modVars, guest, counts>>

Dropping(t) == At(t, "drop")

\* The volume goes on only when another member serves what this one holds: it is
\* torn down for a RAID0, for a RAID10 column without a second copy, and when this
\* is the last member.
Part(d) ==
  /\ At(d, "part") /\ vlock = NoOne
  /\ \E keeps \in BOOLEAN :
       /\ keeps => disk /\ \E e \in member \ {d} : ~Dropping(e)
       /\ keeps => tlock = NoOne \/ "overlap" \in Admit
       /\ Jumps(d, (IF d \notin member THEN <<>> ELSE IF keeps THEN <<"drop">> ELSE Teardown)
                   \o Tail(path[d]))
  /\ UNCHANGED <<kind, devVars, volVars, modVars, guest, counts>>

\* The queue is frozen - it must be there - and the slot is cleared.
Drop(d) ==
  /\ At(d, "drop") /\ vlock = NoOne /\ Goes(d)
  /\ member' = member \ {d}
  /\ UNCHANGED <<kind, devVars, disk, group, armed, vlock, tlock, modVars, guest, counts>>

TeardownBegin(t) ==
  /\ At(t, "t_begin") /\ Goes(t)
  /\ tlock = NoOne /\ ((\A d \in Devs : ~Dropping(d)) \/ "overlap" \in Admit)
  /\ tlock' = t /\ armed' = FALSE
  /\ UNCHANGED <<kind, devVars, member, disk, group, vlock, modVars, guest, counts>>

\* rc_volume_sysfs_unregister: no new readers, then the last one leaves.
Ungroup(t) ==
  /\ At(t, "t_group") /\ Goes(t) /\ group' = FALSE
  /\ UNCHANGED <<kind, devVars, member, disk, armed, vlock, tlock, modVars, guest, counts>>

AwaitReaders(t) ==
  /\ At(t, "t_readers") /\ guest.op # "volattr" /\ Goes(t)
  /\ UNCHANGED <<kind, devVars, volVars, modVars, guest, counts>>

LockVolume(t) ==
  /\ At(t, "t_lock") /\ vlock = NoOne /\ vlock' = t /\ Goes(t)
  /\ UNCHANGED <<kind, devVars, member, disk, group, armed, tlock, modVars, guest, counts>>

Dismantle(t) ==
  /\ At(t, "t_free") /\ Goes(t)
  /\ member' = {} /\ disk' = FALSE
  /\ UNCHANGED <<kind, devVars, group, armed, vlock, tlock, modVars, guest, counts>>

TeardownEnd(t) ==
  /\ At(t, "t_end") /\ Goes(t) /\ vlock' = NoOne /\ tlock' = NoOne
  /\ UNCHANGED <<kind, devVars, member, disk, group, armed, modVars, guest, counts>>

\* rc_volume_assemble_fn: the members there are make the disk.
Timer ==
  /\ armed /\ vlock = NoOne /\ armed' = FALSE
  /\ disk' = (disk \/ member # {}) /\ group' = (group \/ (disk' /\ ~disk))
  /\ UNCHANGED <<kind, devVars, path, member, vlock, tlock, modVars, guest, counts>>

(* rc_init and rc_exit.                                                     *)

BeginLoad ==
  /\ mod = "absent" /\ loads = 0 /\ loads' = 1
  /\ mod' = "loading" /\ Jumps("mod", Load)
  /\ UNCHANGED <<kind, devVars, volVars, has, guest, faults, probes, removals>>

\* delete_module: refused while a file of the configuration device is open.
BeginExit ==
  /\ mod = "live" /\ guest.op # "config"
  /\ mod' = "going" /\ Jumps("mod", Exit)
  /\ UNCHANGED <<kind, devVars, volVars, has, guest, counts>>

ModObtains == {"async", "blkdev", "root", "driver", "misc"}

LoadStep ==
  /\ path["mod"] # <<>> /\ Head(path["mod"]) \in ModObtains
  /\ has' = has \cup {Head(path["mod"])} /\ Goes("mod")
  /\ UNCHANGED <<kind, devVars, volVars, mod, guest, counts>>

\* The debugfs directory is not needed to go on.
LoadFails ==
  /\ path["mod"] # <<>> /\ Head(path["mod"]) \in ModObtains /\ Fault
  /\ IF At("mod", "root") THEN Goes("mod") /\ UNCHANGED mod
     ELSE Jumps("mod", UnwindLoad(Head(path["mod"]))) /\ mod' = "going"
  /\ UNCHANGED <<kind, devVars, volVars, has, guest>>

\* pci_register_driver returns when it has probed the devices it found,
\* pci_unregister_driver when every device is unbound.
ModWait ==
  /\ \/ At("mod", "probes") /\ \A d \in Devs : path[d] = <<>>
     \/ At("mod", "removes") /\ \A d \in Devs : ~Present(d)
     \/ At("mod", "root_wait") /\ guest.op \notin {"volfile", "dump", "registers"}
  /\ Goes("mod")
  /\ UNCHANGED <<kind, devVars, volVars, modVars, guest, counts>>

ModTakes == [unasync |-> "async", unmisc |-> "misc", undriver |-> "driver",
             unroot |-> "root", unblkdev |-> "blkdev"]

UnloadStep ==
  /\ path["mod"] # <<>> /\ Head(path["mod"]) \in DOMAIN ModTakes
  /\ has' = has \ {ModTakes[Head(path["mod"])]} /\ Goes("mod")
  /\ UNCHANGED <<kind, devVars, volVars, mod, guest, counts>>

LoadEnds ==
  /\ \/ At("mod", "loaded") /\ mod' = "live"
     \/ At("mod", "unloaded") /\ mod' = "absent"
  /\ Goes("mod")
  /\ UNCHANGED <<kind, devVars, volVars, has, guest, counts>>

(* Whoever else is inside the driver.                                       *)

Enters(op, d) == [Nobody EXCEPT !.op = op, !.dev = d]
Comes(who) == guest = Nobody /\ guest' = who
              /\ UNCHANGED <<kind, devVars, path, volVars, modVars, counts>>

\* The attributes of an adapter that show its fields.
OpenAttr(d) == "sysfs" \in held[d] /\ Comes(Enters("attr", d))

\* Its reset, which is refused to a controller that is not NVMe.
OpenReset(d) == "sysfs" \in held[d] /\ kind[d] = "nvme" /\ Comes(Enters("reset", d))

\* Its queues, requests and interrupt state in debugfs.
OpenDump(d) == "debugfs" \in held[d] /\ Comes(Enters("dump", d))

\* Its registers, when they are mapped.
OpenRegisters(d) == "debugfs" \in held[d] /\ Comes(Enters("registers", d))

\* The attributes of the volume, and its file in debugfs.
OpenVolumeAttr == group /\ Comes(Enters("volattr", NoOne))
OpenVolumeFile == "root" \in has /\ Comes(Enters("volfile", NoOne))

\* The configuration device, which holds the module while it is open.
OpenConfig == "misc" \in has /\ mod # "going" /\ Comes(Enters("config", NoOne))

OnVolume == guest.op \in {"volattr", "volfile"}

\* The registry is read under rc_volume_lock.
ReadLock ==
  /\ OnVolume /\ ~guest.locked /\ vlock = NoOne
  /\ vlock' = "guest" /\ guest' = [guest EXCEPT !.locked = TRUE]
  /\ UNCHANGED <<kind, devVars, path, member, disk, group, armed, tlock, modVars, counts>>

\* rc_nvme_irq looks at the queues that share vector 0.
Shared(d) == IF nvec[d] = 1 THEN ioq[d] ELSE {}

\* rc_hw_interrupt_handler.
Interrupt(d) == "irq" \in held[d] /\ Comes([Enters("irq", d) EXCEPT !.qs = Shared(d)])

\* rc_nvme_io_queue_irq, which finds the disk and then uses its tags.
QueueInterrupt(d) ==
  /\ nvec[d] > 1 /\ "unhooked" \notin held[d]
  /\ \E q \in ioq[d] :
       Comes([Enters("irq", d) EXCEPT !.vec = q, !.qs = {q}, !.tags = disk /\ "tags" \in Admit])

Exits ==
  /\ guest # Nobody /\ (OnVolume => guest.locked)
  /\ guest' = Nobody /\ vlock' = IF OnVolume THEN NoOne ELSE vlock
  /\ UNCHANGED <<kind, devVars, path, member, disk, group, armed, tlock, modVars, counts>>

AdapterInit ==
  /\ \E rig \in Rigs :
       /\ kind = rig.kind
       /\ slots = [i \in 1 .. Slots |-> IF i <= rig.taken THEN Other ELSE NoOne]
  /\ bound = {} /\ path = [t \in Threads |-> <<>>]
  /\ held = [d \in Devs |-> {}] /\ nvec = [d \in Devs |-> 0] /\ ioq = [d \in Devs |-> {}]
  /\ member = {} /\ disk = FALSE /\ group = FALSE /\ armed = FALSE
  /\ vlock = NoOne /\ tlock = NoOne
  /\ mod = "absent" /\ has = {} /\ guest = Nobody
  /\ faults = 0 /\ probes = 0 /\ removals = 0 /\ loads = 0

Probing(d) == ProbeStep(d) \/ ProbeFails(d) \/ SetupInterrupts(d) \/ CreateIoQueues(d)
              \/ Register(d) \/ Attach(d) \/ CreateDebugfs(d)
Removing(d) == RemovalStep(d) \/ RemoveWait(d) \/ UnhookQueues(d) \/ FreeQueues(d)
               \/ DetachAdapter(d) \/ Leave(d) \/ Part(d) \/ Drop(d)
TearingDown(t) == TeardownBegin(t) \/ Ungroup(t) \/ AwaitReaders(t) \/ LockVolume(t)
                  \/ Dismantle(t) \/ TeardownEnd(t)
Module == LoadStep \/ LoadFails \/ ModWait \/ UnloadStep \/ LoadEnds

\* What a thread that is under way does next.
Moves(t) == TearingDown(t) \/ IF t = "mod" THEN Module ELSE Probing(t) \/ Removing(t)

AdapterNext ==
  \/ \E t \in Threads : Moves(t)
  \/ \E d \in Devs : BeginProbe(d) \/ BeginRemove(d)
                     \/ Interrupt(d) \/ QueueInterrupt(d) \/ OpenAttr(d) \/ OpenReset(d)
                     \/ OpenDump(d) \/ OpenRegisters(d)
  \/ BeginLoad \/ BeginExit \/ Timer
  \/ OpenVolumeAttr \/ OpenVolumeFile \/ OpenConfig \/ ReadLock \/ Exits

AdapterSpec == AdapterInit /\ [][AdapterNext]_adapterVars

(* Properties.                                                              *)

\* A device that is neither bound nor on its way holds nothing, and nothing is
\* left of the module when its text goes.
NothingLeft ==
  /\ \A d \in Devs : ~Present(d) =>
       held[d] = {} /\ ioq[d] = {} /\ d \notin member /\ \A i \in 1 .. Slots : slots[i] # d
  /\ mod = "absent" =>
       /\ has = {} /\ bound = {} /\ ~armed /\ ~disk /\ guest = Nobody
       /\ \A d \in Devs : path[d] = <<>>

\* Whoever is inside the driver finds what it is about to touch.
NothingGone ==
  /\ guest.dev # NoOne => "adapter" \in held[guest.dev]
  /\ guest.op \in {"irq", "registers"} => "bars" \in held[guest.dev]
  /\ guest.op = "irq" => guest.qs \subseteq ioq[guest.dev] /\ (guest.tags => disk)
  /\ guest.op = "reset" =>
       "admin" \in held[guest.dev] /\ ioq[guest.dev] # {}
  /\ \A d \in member : {"adapter", "bars", "admin"} \subseteq held[d] /\ ioq[d] # {}
  /\ \A d \in Devs :
       /\ Dropping(d) => disk
       /\ nvec[d] > 1 => \A q \in ioq[d] : q < nvec[d]
       /\ "irq" \in held[d] => "vectors" \in held[d]
       /\ "on" \in held[d] => "admin" \in held[d]

\* No two wait for each other: as long as somebody is inside the driver or on
\* the way, somebody who is can go on, so an unload comes to its end.
NobodyStuck ==
  (guest # Nobody \/ \E t \in Threads : path[t] # <<>>) =>
    \/ \E t \in Threads : ENABLED Moves(t)
    \/ ENABLED (ReadLock \/ Exits)
    \/ At("mod", "removes") /\ \E d \in Devs : ENABLED BeginRemove(d)
=============================================================================
