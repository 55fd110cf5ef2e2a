--------------------------- MODULE Assembly_proofs ---------------------------
(***************************************************************************)
(* The registry of Assembly and the disk built on it, for any drives, any   *)
(* number of slots and any number of faults:                                *)
(*   SlotsAlwaysAgree, LiveIsAlwaysPresent   slots, adapters and masks      *)
(*                                           agree;                         *)
(*   AlwaysAssembledRight    a disk is made of members that fit together;   *)
(*   NothingStaleServed      no drive that missed a write is read;          *)
(*   VolumeAlwaysFits        a disk has the queues and PRP slices it needs; *)
(*   AssemblyTypeCorrect     every variable keeps its type.                 *)
(* Assumed is that removals come one at a time and that no reset or rebuild *)
(* of a departing member interferes; for VolumeAlwaysFits also that none    *)
(* joins in the middle of a teardown and that the drives all have records   *)
(* or have none.                                                            *)
(***************************************************************************)
EXTENDS Assembly, FiniteSetTheorems, WellFoundedInduction, TLAPS

Alone == "concurrent" \notin Admit /\ "unstopped" \notin Admit

RegistryTyped ==
  /\ members \in [Slots -> Adapter \cup {None}] /\ count \in 0 .. MaxMembers
  /\ state \in [Slots -> States]
  /\ live \in SUBSET Slots /\ write \in SUBSET Slots
  /\ resync \in Slots \cup {None}
  /\ volumeSlot \in [Adapter -> Slots \cup {-1}]
  /\ at \in [Actors -> [pc : Places, slot : Slots \cup {-1}]]

\* One removal at a time.
Solo == \A x, y \in Busy : x = y

\* While a removal keeps the volume there is a disk, and its slot is its own,
\* failed and in no mask until it is cleared; then the adapter is in none.
Kept ==
  \A a \in Adapter :
    /\ at[a].pc \in Keeping => disk # None
    /\ at[a].pc \in {"freeze", "clear"} =>
         /\ at[a].slot \in Slots /\ members[at[a].slot] = a
         /\ state[at[a].slot] = "FAILED" /\ at[a].slot \notin live \cup write
    /\ at[a].pc = "thaw" => \A s \in Slots : members[s] # a

\* What is being rebuilt is there.
RebuiltIsPresent == \A s \in Slots : state[s] = "RESYNCING" => s \in Present

RegistryInv == /\ RegistryTyped /\ Solo /\ Kept
               /\ SlotsAgree /\ LiveIsPresent /\ RebuiltIsPresent

-----------------------------------------------------------------------------
(* Steps that leave the slots alone                                         *)

\* An actor goes on, without leaving or clearing a slot.
Walk(x, pc) ==
  /\ at' = [at EXCEPT ![x].pc = pc]
  /\ at[x].pc # "out" /\ (x \in Busy \/ Busy = {})
  /\ pc = "clear" => at[x].pc = "freeze"

Walks ==
  \/ at' = at
  \/ \E x \in Actors, pc \in Places \ {"out", "freeze", "thaw"} : Walk(x, pc)

\* Slots change their state: only those with a member get into a mask, and
\* the slot of a departing member at most fails.
Heals ==
  \/ UNCHANGED <<state, live, write>>
  \/ \E S \in SUBSET Slots, st \in States :
       /\ SetState(S, st)
       /\ st \in {"LIVE", "RESYNCING"} => S \subseteq Present
       /\ \/ st = "FAILED"
          \/ \A a \in Adapter : at[a].pc \in {"freeze", "clear"} => at[a].slot \notin S

\* Such steps keep the invariant: a walk leaves at most one actor busy, and no
\* slot changes hands.
LEMMA Quiet ==
  ASSUME RegistryInv, Walks, Heals, UNCHANGED <<members, count, volumeSlot, disk>>,
         resync' \in Slots \cup {None}
  PROVE  RegistryInv'
<1> USE DEF RegistryInv, Present
<1>1. RegistryTyped'
  BY DEF RegistryTyped, Walks, Walk, Heals, SetState, Actors
<1>2. Solo'
  BY DEF RegistryTyped, Solo, Busy, Walks, Walk, Actors
<1>3. Kept'
  <2> SUFFICES ASSUME NEW a \in Adapter
               PROVE  /\ at'[a].slot = at[a].slot
                      /\ at'[a].pc \in Keeping => at[a].pc \in Keeping
                      /\ at'[a].pc \in {"freeze", "clear"} => at[a].pc \in {"freeze", "clear"}
                      /\ at'[a].pc = "thaw" => at[a].pc = "thaw"
    BY <1>1 DEF Kept, RegistryTyped, Heals, SetState, States, Keeping
  <2> QED
    BY DEF RegistryTyped, Walks, Walk, Actors, Keeping, Places
<1>4. SlotsAgree'
  BY DEF RegistryTyped, SlotsAgree, Walks, Walk, Actors
<1>5. LiveIsPresent' /\ RebuiltIsPresent'
  BY DEF RegistryTyped, LiveIsPresent, RebuiltIsPresent, Heals, SetState, States
<1> QED
  BY <1>1, <1>2, <1>3, <1>4, <1>5

\* The slot of an adapter, if it has one.
LEMMA SlotOfAdapter ==
  ASSUME NEW a \in Adapter
  PROVE  \/ SlotOf(a) = -1 /\ \A s \in Slots : members[s] # a
         \/ SlotOf(a) \in Slots /\ members[SlotOf(a)] = a
BY DEF SlotOf

\* Stopping the thread parks what it was rebuilding, which is not a departing
\* member: that one has failed.
LEMMA StopHeals ==
  ASSUME RegistryInv, StopResync
  PROVE  Heals /\ resync' \in Slots \cup {None}
<1>1. CASE resync # None /\ state[resync] = "RESYNCING"
  <2>1. \A a \in Adapter : at[a].pc \in {"freeze", "clear"} => at[a].slot \notin {resync}
    BY <1>1 DEF RegistryInv, Kept
  <2> QED
    BY <1>1, <2>1 DEF StopResync, Heals, RegistryInv, RegistryTyped, States
<1>2. CASE ~(resync # None /\ state[resync] = "RESYNCING")
  BY <1>2 DEF StopResync, Heals
<1> QED
  BY <1>1, <1>2

\* Failures, resets and rebuilds of a running volume.
LEMMA HealthSteps ==
  ASSUME Alone, RegistryInv,
         \/ Write \/ StartRebuild \/ EndRebuild
         \/ \E s \in Slots : Fail(s)
         \/ \E a \in Adapter : Rejoin(a)
  PROVE  RegistryInv'
<1> USE DEF RegistryInv, registry, health, control, diskVars, States
<1>1. CASE Write
  BY <1>1, Quiet DEF Write, Walks, Heals, RegistryTyped
<1>2. CASE StartRebuild
  <2> PICK s \in Rebuildable : Leaving \cap ({s} \cup Survivors(s)) = {}
                               /\ resync' = s /\ SetState({s}, "RESYNCING")
    BY <1>2 DEF StartRebuild, Alone
  <2>1. s \in Present /\ s \in Slots
    BY DEF Rebuildable, Present
  <2>2. \A a \in Adapter : at[a].pc \in {"freeze", "clear"} => at[a].slot \notin {s}
    BY DEF Leaving, Keeping, Actors
  <2>3. Heals
    BY <2>1, <2>2 DEF Heals
  <2> QED
    BY <1>2, <2>1, <2>3, Quiet DEF StartRebuild, Walks
<1>3. CASE EndRebuild
  <2>1. CASE state[resync] = "RESYNCING"
    <3>1. resync \in Slots /\ resync \in Present
      BY <1>3, <2>1 DEF EndRebuild, RegistryTyped, RebuiltIsPresent
    <3>2. \A a \in Adapter : at[a].pc \in {"freeze", "clear"} => at[a].slot \notin {resync}
      BY <2>1 DEF Kept
    <3>3. SetState({resync}, "LIVE") \/ SetState({resync}, "NEEDS_RESYNC")
      BY <1>3, <2>1 DEF EndRebuild
    <3>4. Heals
      BY <3>1, <3>2, <3>3 DEF Heals
    <3> QED
      BY <1>3, <3>4, Quiet DEF EndRebuild, Walks
  <2>2. CASE state[resync] # "RESYNCING"
    BY <1>3, <2>2, Quiet DEF EndRebuild, Walks, Heals
  <2> QED
    BY <2>1, <2>2
<1>4. ASSUME NEW s \in Slots, Fail(s)
      PROVE  RegistryInv'
  BY <1>4, Quiet DEF Fail, Walks, Heals, RegistryTyped
<1>5. ASSUME NEW a \in Adapter, Rejoin(a)
      PROVE  RegistryInv'
  <2> DEFINE s == volumeSlot[a]
  <2>1. s \in Slots /\ s \in Present /\ members[s] = a
    BY <1>5, AssemblyConstants DEF Rejoin, Present
  <2>2. \A b \in Adapter : at[b].pc \in {"freeze", "clear"} => at[b].slot \notin {s}
    BY <1>5, <2>1 DEF Rejoin, Alone, Kept, Keeping
  <2>3. SetState({s}, "LIVE") \/ SetState({s}, "NEEDS_RESYNC")
    BY <1>5 DEF Rejoin
  <2>4. Heals
    BY <2>1, <2>2, <2>3 DEF Heals
  <2> QED
    BY <1>5, <2>4, Quiet DEF Rejoin, Walks, RegistryTyped
<1> QED
  BY <1>1, <1>2, <1>3, <1>4, <1>5

\* The steps of removals and teardowns before they decide or clear anything.
LEMMA WalkingSteps ==
  ASSUME Alone, RegistryInv,
         \/ Unload
         \/ \E a \in Adapter : Remove(a) \/ CancelTimer(a) \/ StopCopy(a) \/ Freeze(a)
         \/ \E x \in Actors : \/ BeginTeardown(x) \/ FlushTimer(x)
                              \/ StopForTeardown(x) \/ RemoveGroup(x)
  PROVE  RegistryInv'
<1> USE DEF RegistryInv, registry, health, control, diskVars, Go, Busy, Actors,
            Places, Removing, Keeping, Tearing
<1>1. CASE Unload
  <2>1. Walk(Exit, "t_lock")
    BY <1>1 DEF Unload, Walk, Alone
  <2> QED
    BY <1>1, <2>1, Quiet DEF Walks, Unload, Heals, RegistryTyped
<1>2. ASSUME NEW a \in Adapter, Remove(a) \/ CancelTimer(a) \/ Freeze(a)
      PROVE  RegistryInv'
  <2>1. at' = at \/ Walk(a, "look") \/ Walk(a, "stop") \/ Walk(a, "clear")
    BY <1>2 DEF Remove, CancelTimer, Freeze, Walk, Alone
  <2> QED
    BY <1>2, <2>1, Quiet DEF Walks, Remove, CancelTimer, Freeze, Heals, RegistryTyped
<1>3. ASSUME NEW a \in Adapter, StopCopy(a)
      PROVE  RegistryInv'
  <2>1. Walk(a, "decide")
    BY <1>3 DEF StopCopy, Walk
  <2> QED
    BY <1>3, <2>1, Quiet, StopHeals DEF Walks, StopCopy
<1>4. ASSUME NEW x \in Actors, BeginTeardown(x) \/ FlushTimer(x) \/ RemoveGroup(x)
      PROVE  RegistryInv'
  <2>1. at' = at \/ Walk(x, "t_flush") \/ Walk(x, "t_stop") \/ Walk(x, "t_clear")
    BY <1>4 DEF BeginTeardown, FlushTimer, RemoveGroup, Walk
  <2> QED
    BY <1>4, <2>1, Quiet DEF Walks, BeginTeardown, FlushTimer, RemoveGroup, Heals, RegistryTyped
<1>5. ASSUME NEW x \in Actors, StopForTeardown(x)
      PROVE  RegistryInv'
  <2>1. Walk(x, "t_group")
    BY <1>5 DEF StopForTeardown, Walk
  <2> QED
    BY <1>5, <2>1, Quiet, StopHeals DEF Walks, StopForTeardown
<1> QED
  BY <1>1, <1>2, <1>3, <1>4, <1>5

-----------------------------------------------------------------------------
(* A removal looks its slot up, decides, and clears it; a teardown clears    *)
(* them all                                                                  *)

\* An adapter without a slot forgets the one it had; one with a slot goes on.
LEMMA LookStep ==
  ASSUME RegistryInv, NEW a \in Adapter, Look(a)
  PROVE  RegistryInv'
<1> USE DEF RegistryInv, control, diskVars, Look, Go, Actors, Places, Removing,
            Keeping, Tearing
<1>1. Heals /\ resync' \in Slots \cup {None}
  BY StopHeals DEF health, Heals, RegistryTyped
<1>2. CASE SlotOf(a) # -1
  <2>1. volumeSlot' = volumeSlot
    BY <1>2 DEF RegistryTyped
  <2>2. Walk(a, "cancel")
    BY <1>2 DEF Walk, Busy
  <2> QED
    BY <1>1, <2>1, <2>2, Quiet DEF Walks
<1>3. CASE SlotOf(a) = -1
  <2>1. \A s \in Slots : members[s] # a
    BY <1>3, SlotOfAdapter DEF Slots
  <2>2. RegistryTyped'
    BY <1>1, <1>3 DEF RegistryTyped, Heals, SetState
  <2>3. Solo'
    BY <1>3 DEF RegistryTyped, Solo, Busy
  <2>4. Kept'
    <3>1. \A b \in Adapter : b # a => at'[b] = at[b]
      BY <1>3 DEF RegistryTyped
    <3>2. at'[a].pc = "out"
      BY <1>3 DEF RegistryTyped
    <3> QED
      BY <1>1, <3>1, <3>2 DEF RegistryTyped, Kept, Heals, SetState, States
  <2>5. SlotsAgree'
    BY <1>3, <2>1 DEF RegistryTyped, SlotsAgree, Present
  <2>6. LiveIsPresent' /\ RebuiltIsPresent'
    BY <1>1 DEF RegistryTyped, LiveIsPresent, RebuiltIsPresent, Present, Heals,
                SetState, States
  <2> QED
    BY <2>2, <2>3, <2>4, <2>5, <2>6
<1> QED
  BY <1>2, <1>3

\* The slot the removal decides about is failed in the same step, and no other
\* removal is clearing one.
LEMMA DecideStep ==
  ASSUME RegistryInv, NEW a \in Adapter, Decide(a)
  PROVE  RegistryInv'
<1> USE DEF RegistryInv, control, diskVars, Decide, Actors, Places, Removing,
            Keeping, Tearing
<1> DEFINE s == SlotOf(a)
<1>1. s \in Slots \cup {-1}
  BY SlotOfAdapter
<1>2. Heals
  <2>1. CASE KeepVolume(s)
    <3>1. {s} \in SUBSET Slots /\ SetState({s}, "FAILED")
      BY <1>1, <2>1 DEF KeepVolume
    <3> QED
      BY <3>1 DEF Heals, States
  <2> QED
    BY <2>1 DEF Heals
<1>3. RegistryTyped'
  BY <1>1, <1>2 DEF RegistryTyped, Heals, SetState
<1>4. Solo'
  BY DEF RegistryTyped, Solo, Busy
<1>5. Kept'
  <2>1. \A b \in Adapter : b # a => at'[b] = at[b] /\ at[b].pc \notin Removing
    BY DEF RegistryTyped, Solo, Busy
  <2>2. CASE KeepVolume(s)
    <3>1. at'[a].pc = "freeze" /\ at'[a].slot = s
      BY <2>2 DEF RegistryTyped, KeepVolume
    <3>2. s \in Slots /\ members[s] = a /\ disk # None
      BY <2>2, SlotOfAdapter DEF KeepVolume
    <3>3. state'[s] = "FAILED" /\ s \notin live' \cup write'
      BY <2>2, <3>2 DEF SetState, RegistryTyped
    <3> QED
      BY <2>1, <3>1, <3>2, <3>3 DEF Kept
  <2>3. CASE ~KeepVolume(s)
    <3>1. at'[a].pc \in {"out", "t_lock"}
      BY <2>3 DEF RegistryTyped
    <3> QED
      BY <2>1, <3>1 DEF Kept
  <2> QED
    BY <2>2, <2>3
<1>6. SlotsAgree'
  <2>1. \A b \in Adapter : b # a => at'[b] = at[b] /\ volumeSlot'[b] = volumeSlot[b]
    BY DEF RegistryTyped
  <2>2. CASE s = -1
    <3>1. \A t \in Slots : members[t] # a
      BY <2>2, SlotOfAdapter DEF Slots
    <3> QED
      BY <2>1, <3>1 DEF RegistryTyped, SlotsAgree, Present
  <2>3. CASE s # -1
    <3>1. at'[a].pc \in {"freeze", "t_lock"} /\ volumeSlot' = volumeSlot
      BY <2>3 DEF RegistryTyped
    <3> QED
      BY <2>1, <3>1 DEF RegistryTyped, SlotsAgree, Present
  <2> QED
    BY <2>2, <2>3
<1>7. LiveIsPresent' /\ RebuiltIsPresent'
  BY <1>2 DEF RegistryTyped, LiveIsPresent, RebuiltIsPresent, Present, Heals,
              SetState, States
<1> QED
  BY <1>3, <1>4, <1>5, <1>6, <1>7

\* The slot that is cleared has no bit any more, and was its only one.
LEMMA ClearSteps ==
  ASSUME RegistryInv, NEW a \in Adapter, ClearSlot(a) \/ Thaw(a)
  PROVE  RegistryInv'
<1> USE DEF RegistryInv, control, diskVars, registry, health, Actors, Places,
            Removing, Keeping, Tearing, Go
<1>1. CASE ClearSlot(a)
  <2>1. RegistryTyped'
    BY <1>1 DEF ClearSlot, RegistryTyped
  <2>2. Solo'
    BY <1>1 DEF ClearSlot, RegistryTyped, Solo, Busy
  <2>3. Kept'
    <3>1. \A b \in Adapter : b # a => at'[b] = at[b] /\ at[b].pc \notin Removing
      BY <1>1 DEF ClearSlot, RegistryTyped, Solo, Busy
    <3>2. at'[a].pc = "thaw" /\ disk' # None
      BY <1>1 DEF ClearSlot, RegistryTyped, Kept
    <3>3. \A s \in Slots : members'[s] # a
      BY <1>1, AssemblyConstants DEF ClearSlot, RegistryTyped, Kept, SlotsAgree, Present
    <3> QED
      BY <3>1, <3>2, <3>3 DEF Kept
  <2>4. SlotsAgree'
    BY <1>1 DEF ClearSlot, RegistryTyped, Kept, SlotsAgree, Present
  <2>5. LiveIsPresent' /\ RebuiltIsPresent'
    BY <1>1 DEF ClearSlot, RegistryTyped, Kept, LiveIsPresent, RebuiltIsPresent, Present
  <2> QED
    BY <2>1, <2>2, <2>3, <2>4, <2>5
<1>2. CASE Thaw(a)
  <2>1. RegistryTyped'
    BY <1>2 DEF Thaw, RegistryTyped
  <2>2. Solo' /\ Kept'
    BY <1>2 DEF Thaw, RegistryTyped, Solo, Busy, Kept
  <2>3. SlotsAgree'
    BY <1>2 DEF Thaw, RegistryTyped, Kept, SlotsAgree, Present
  <2>4. LiveIsPresent' /\ RebuiltIsPresent'
    BY <1>2 DEF Thaw, LiveIsPresent, RebuiltIsPresent, Present
  <2> QED
    BY <2>1, <2>2, <2>3, <2>4
<1> QED
  BY <1>1, <1>2

\* After a teardown there is nothing left to agree about.
LEMMA ClearRegistryStep ==
  ASSUME RegistryInv, NEW x \in Actors, ClearRegistry(x)
  PROVE  RegistryInv'
<1> USE AssemblyConstants
    DEF RegistryInv, control, Actors, Places, Removing, Keeping, Tearing, ClearRegistry
<1>1. Present' = {}
  BY DEF Present
<1>2. RegistryTyped'
  BY DEF RegistryTyped, States
<1>3. Solo' /\ Kept'
  BY DEF RegistryTyped, Solo, Busy, Kept
<1>4. SlotsAgree' /\ LiveIsPresent' /\ RebuiltIsPresent'
  BY <1>1 DEF SlotsAgree, LiveIsPresent, RebuiltIsPresent
<1> QED
  BY <1>2, <1>3, <1>4

-----------------------------------------------------------------------------
(* The timer and the registrations                                          *)

\* A degraded assembly, and its roll-back, change only slots without a member,
\* while there is no disk and so no removal that keeps it.
LEMMA AssembleStep ==
  ASSUME RegistryInv, Assemble
  PROVE  RegistryInv'
<1> USE DEF RegistryInv, diskVars, Assemble
<1>1. CASE Degradable
  <2> DEFINE absent == (0 .. geometry.expected - 1) \ Present
  <2>1. absent \subseteq Slots /\ geometry.expected \in 0 .. MaxMembers
    BY <1>1, AssemblyConstants DEF Degradable, Slots
  <2>2. \A s \in absent : s \notin Present
    OBVIOUS
  <2>3. SetState(absent, "FAILED") \/ RollBack(absent)
    BY <1>1
  <2>4. \A s \in Slots \ absent : state'[s] = state[s]
    BY <2>3 DEF SetState, RollBack
  <2>5. live' = live \ absent /\ write' = write \ absent
    BY <2>3 DEF SetState, RollBack
  <2>6. \A s \in absent : s \in Slots => state'[s] \in {"FAILED", "LIVE"}
    BY <2>3 DEF SetState, RollBack
  <2>7. RegistryTyped'
    <3>1. state' \in [Slots -> States]
      BY <2>3, <2>4, <2>6 DEF RegistryTyped, States, SetState, RollBack
    <3>2. count' \in 0 .. MaxMembers
      BY <1>1, <2>1 DEF RegistryTyped
    <3> QED
      BY <2>5, <3>1, <3>2 DEF RegistryTyped
  <2>8. Solo'
    BY DEF Solo, Busy
  <2>9. Kept'
    BY <1>1 DEF Kept, Degradable, Keeping
  <2>10. SlotsAgree'
    BY <1>1 DEF SlotsAgree, Present
  <2>11. LiveIsPresent' /\ RebuiltIsPresent'
    <3>1. Present' = Present
      BY <1>1 DEF Present
    <3> QED
      BY <2>1, <2>4, <2>5, <2>6, <3>1 DEF LiveIsPresent, RebuiltIsPresent
  <2> QED
    BY <2>7, <2>8, <2>9, <2>10, <2>11
<1>2. CASE ~Degradable
  BY <1>2, Quiet DEF Walks, Heals, RegistryTyped
<1> QED
  BY <1>1, <1>2

\* A probed adapter is nobody's member yet, and is not being removed.
LEMMA Fresh ==
  ASSUME RegistryInv, NEW a \in Adapter, at[a].pc = "out", Go(a, "in")
  PROVE  /\ \A s \in Slots : members[s] # a
         /\ at' \in [Actors -> [pc : Places, slot : Slots \cup {-1}]]
         /\ \A b \in Adapter : b # a => at'[b] = at[b]
         /\ at'[a].pc = "in" /\ Solo'
<1> USE DEF RegistryInv, RegistryTyped, Actors, Places, Removing, Keeping, Tearing, Go
<1>1. \A s \in Slots : members[s] # a
  BY AssemblyConstants DEF SlotsAgree, Present
<1>2. Solo'
  BY DEF Solo, Busy
<1> QED
  BY <1>1, <1>2

\* A member that is put into an empty slot, with whatever state.
LEMMA Placed ==
  ASSUME RegistryInv, NEW a \in Adapter, at[a].pc = "out", Go(a, "in"),
         NEW p \in Slots, members[p] = None,
         members' = [members EXCEPT ![p] = a],
         volumeSlot' = [volumeSlot EXCEPT ![a] = p],
         count' \in 0 .. MaxMembers, NEW st \in States, SetState({p}, st),
         UNCHANGED resync,
         disk' = disk \/ disk = None
  PROVE  RegistryInv'
<1> USE DEF RegistryInv
<1>1. RegistryTyped'
  BY Fresh DEF RegistryTyped, SetState
<1>2. Solo'
  BY Fresh
<1>3. Kept'
  <2>1. \A b \in Adapter : at'[b].pc \in Keeping => b # a /\ at[b] = at'[b] /\ disk' = disk
    BY Fresh DEF Keeping, Kept
  <2>2. \A b \in Adapter : at'[b].pc \in {"freeze", "clear"} => at[b].slot # p
    BY <2>1, AssemblyConstants DEF Kept, Keeping
  <2>3. \A b \in Adapter : at'[b].pc = "thaw" => \A s \in Slots : members'[s] # b
    BY <2>1 DEF Kept, Keeping, RegistryTyped
  <2> QED
    BY <2>1, <2>2, <2>3 DEF Kept, Keeping, SetState, RegistryTyped
<1>4. SlotsAgree'
  BY Fresh, AssemblyConstants DEF RegistryTyped, SlotsAgree, Present
<1>5. LiveIsPresent' /\ RebuiltIsPresent'
  <2>1. Present' = Present \cup {p}
    BY AssemblyConstants DEF RegistryTyped, Present
  <2> QED
    BY <2>1 DEF LiveIsPresent, RebuiltIsPresent, SetState, RegistryTyped
<1> QED
  BY <1>1, <1>2, <1>3, <1>4, <1>5

\* A refused adapter has no slot.
LEMMA NotPlaced ==
  ASSUME RegistryInv, NEW a \in Adapter, at[a].pc = "out", Go(a, "in"),
         UNCHANGED <<members, count, volumeSlot, state, live, write, resync, disk>>
  PROVE  RegistryInv'
<1> USE DEF RegistryInv
<1>1. RegistryTyped' /\ Solo'
  BY Fresh DEF RegistryTyped
<1>2. Kept'
  BY Fresh DEF Kept, Keeping
<1>3. SlotsAgree'
  BY Fresh, AssemblyConstants DEF RegistryTyped, SlotsAgree, Present
<1>4. LiveIsPresent' /\ RebuiltIsPresent'
  BY DEF LiveIsPresent, RebuiltIsPresent, Present
<1> QED
  BY <1>1, <1>2, <1>3, <1>4

\* Insertion in bus order: those that come later move up by one, all of the
\* first count + 1 slots are filled, and each adapter finds its new slot.
LEMMA JoinLegacyStep ==
  ASSUME RegistryInv, NEW a \in Adapter, at[a].pc = "out", Go(a, "in"), JoinLegacy(a)
  PROVE  RegistryInv'
<1> USE DEF RegistryInv
<1> DEFINE filled == \A s \in 0 .. count - 1 : members[s] # None
<1>1. CASE ~filled
  BY <1>1, NotPlaced DEF JoinLegacy, registry, health, diskVars
<1>2. CASE filled
  <2>1. count < MaxMembers /\ count \in Nat /\ disk = None /\ MaxMembers \in Nat
    BY AssemblyConstants DEF JoinLegacy, Joins, Agrees, Readable, RegistryTyped
  <2>2. PICK p \in 0 .. count :
          members' = [s \in Slots |-> CASE s = p -> a
                                       [] s \in p + 1 .. count -> members[s - 1]
                                       [] OTHER -> members[s]]
    BY <1>2 DEF JoinLegacy
  <2>3. /\ count' = count + 1 /\ resync' = resync
        /\ SetState(0 .. count, "LIVE")
        /\ volumeSlot' = [b \in Adapter |->
                            IF \E s \in 0 .. count : members'[s] = b
                            THEN CHOOSE s \in 0 .. count : members'[s] = b
                            ELSE volumeSlot[b]]
    BY <1>2 DEF JoinLegacy
  <2> HIDE DEF filled
  <2>4. 0 .. count \subseteq Slots
    BY <2>1 DEF Slots
  <2>5. /\ members'[p] = a
        /\ \A s \in 0 .. count : s < p => members'[s] = members[s]
        /\ \A s \in 0 .. count : p < s => members'[s] = members[s - 1]
        /\ \A s \in Slots : count < s => members'[s] = members[s]
    BY <2>1, <2>2, <2>4 DEF Slots
  <2>6. \A s \in 0 .. count - 1 : members[s] \in Adapter
    BY <1>2, <2>1, <2>4 DEF RegistryTyped, filled
  <2>7. \A s \in 0 .. count : members'[s] \in Adapter
    BY <2>1, <2>5, <2>6
  <2>8. RegistryTyped'
    <3>1. members' \in [Slots -> Adapter \cup {None}]
      BY <2>1, <2>2, <2>5, <2>7 DEF Slots, RegistryTyped
    <3>2. volumeSlot' \in [Adapter -> Slots \cup {-1}]
      BY <2>3, <2>4 DEF RegistryTyped
    <3>3. count' \in 0 .. MaxMembers
      BY <2>1, <2>3
    <3> QED
      BY <2>3, <2>4, <3>1, <3>2, <3>3, Fresh DEF RegistryTyped, SetState, States
  <2>9. Solo' /\ Kept'
    BY <2>1, Fresh DEF Kept, Keeping
  <2>10. SlotsAgree'
    <3>1. \A s, t \in Slots : members[s] # None /\ members[s] = members[t] => s = t
      BY DEF SlotsAgree, Present
    <3>2. \A s, t \in 0 .. count : members'[s] = members'[t] => s = t
      BY <2>1, <2>4, <2>5, <2>6, <3>1, Fresh, AssemblyConstants
    <3> SUFFICES ASSUME NEW s \in Slots, members'[s] # None
                 PROVE  at'[members'[s]].pc # "out" /\ volumeSlot'[members'[s]] = s
      BY DEF SlotsAgree, Present
    <3>3. members'[s] \in Adapter
      BY <2>8 DEF RegistryTyped
    <3>4. CASE s \in 0 .. count
      <4>1. volumeSlot'[members'[s]] = s
        BY <2>3, <3>2, <3>3, <3>4
      <4>2. members'[s] = a \/ \E t \in Slots : members[t] = members'[s]
        BY <2>1, <2>4, <2>5, <3>4
      <4> QED
        BY <3>3, <4>1, <4>2, Fresh DEF SlotsAgree, Present
    <3>5. CASE s \notin 0 .. count
      <4>1. members'[s] = members[s] /\ s > count
        BY <2>1, <2>5, <3>5 DEF Slots
      <4>2. \A t \in 0 .. count : members'[t] # members[s]
        BY <2>1, <2>4, <2>5, <3>1, <4>1, Fresh, AssemblyConstants
      <4> QED
        BY <2>3, <3>3, <4>1, <4>2, Fresh DEF SlotsAgree, Present
    <3> QED
      BY <3>4, <3>5
  <2>11. LiveIsPresent' /\ RebuiltIsPresent'
    <3>1. Present \cup 0 .. count \subseteq Present'
      BY <2>1, <2>4, <2>5, <2>7, AssemblyConstants DEF Present, Slots
    <3> QED
      BY <2>3, <3>1 DEF LiveIsPresent, RebuiltIsPresent, SetState, RegistryTyped
  <2> QED
    BY <2>8, <2>9, <2>10, <2>11
<1> QED
  BY <1>1, <1>2

LEMMA ProbeStep ==
  ASSUME RegistryInv, NEW a \in Adapter, Probe(a)
  PROVE  RegistryInv'
<1> USE DEF registry, health, diskVars
<1>1. at[a].pc = "out" /\ Go(a, "in")
  BY DEF Probe
<1>2. CASE Orphan(a) \/ Ignore(a)
  BY <1>1, <1>2, NotPlaced DEF Orphan, Ignore
<1>3. CASE ReAdd(a)
  <2> DEFINE pos == Label(a).pos
  <2>1. pos \in Slots /\ members[pos] = None
    BY <1>3 DEF ReAdd, Joins, Fits, Vacant, InRange
  <2>2. count' \in 0 .. MaxMembers /\ resync' = resync /\ disk' = disk
    BY <1>3 DEF ReAdd, RegistryInv, RegistryTyped
  <2>3. CASE /\ members' = [members EXCEPT ![pos] = a]
             /\ volumeSlot' = [volumeSlot EXCEPT ![a] = pos]
             /\ SetState({pos}, "NEEDS_RESYNC")
    BY <1>1, <2>1, <2>2, <2>3, Placed DEF States
  <2>4. CASE UNCHANGED <<members, volumeSlot, state, live, write>>
    BY <1>1, <1>3, <2>2, <2>4, NotPlaced DEF ReAdd
  <2> QED
    BY <1>3, <2>3, <2>4 DEF ReAdd
<1>4. CASE Join(a)
  <2> DEFINE pos == Label(a).pos
  <2>1. pos \in Slots /\ members[pos] = None /\ disk = None
    BY <1>4 DEF Join, Joins, Vacant, InRange
  <2>2. count' \in 0 .. MaxMembers
    BY <1>4, AssemblyConstants DEF Join, Joins, Agrees, Readable, RegistryInv, RegistryTyped
  <2> QED
    BY <1>1, <1>4, <2>1, <2>2, Placed DEF Join, States
<1>5. CASE JoinLegacy(a)
  BY <1>1, <1>5, JoinLegacyStep
<1> QED
  BY <1>2, <1>3, <1>4, <1>5 DEF Probe

-----------------------------------------------------------------------------
(* The theorems                                                             *)

LEMMA InitOK == Init => RegistryInv
<1> SUFFICES ASSUME Init PROVE RegistryInv
  OBVIOUS
<1> USE AssemblyConstants DEF Init
<1>1. Present = {}
  BY DEF Present
<1>2. RegistryTyped
  BY DEF RegistryTyped, States, Places, Actors
<1>3. Solo /\ Kept
  BY DEF Solo, Kept, Busy, Removing, Keeping, Tearing, Actors
<1> QED
  BY <1>1, <1>2, <1>3 DEF RegistryInv, SlotsAgree, LiveIsPresent, RebuiltIsPresent

LEMMA StepOK ==
  ASSUME Alone, RegistryInv, [Next]_vars
  PROVE  RegistryInv'
<1>1. CASE Next
  <2>1. CASE \/ Write \/ StartRebuild \/ EndRebuild
             \/ \E s \in Slots : Fail(s)
             \/ \E a \in Adapter : Rejoin(a)
    BY <2>1, HealthSteps
  <2>2. CASE Assemble
    BY <2>2, AssembleStep
  <2>3. CASE \/ Unload
             \/ \E a \in Adapter : Remove(a) \/ CancelTimer(a) \/ StopCopy(a) \/ Freeze(a)
             \/ \E x \in Actors : \/ BeginTeardown(x) \/ FlushTimer(x)
                                  \/ StopForTeardown(x) \/ RemoveGroup(x)
    BY <2>3, WalkingSteps
  <2>4. ASSUME NEW a \in Adapter, Probe(a)
        PROVE  RegistryInv'
    BY <2>4, ProbeStep
  <2>5. ASSUME NEW a \in Adapter, Look(a) \/ Decide(a)
        PROVE  RegistryInv'
    BY <2>5, LookStep, DecideStep
  <2>6. ASSUME NEW a \in Adapter, ClearSlot(a) \/ Thaw(a)
        PROVE  RegistryInv'
    BY <2>6, ClearSteps
  <2>7. ASSUME NEW x \in Actors, ClearRegistry(x)
        PROVE  RegistryInv'
    BY <2>7, ClearRegistryStep
  <2> QED
    BY <1>1, <2>1, <2>2, <2>3, <2>4, <2>5, <2>6, <2>7 DEF Next, Removal, Teardown
<1>2. CASE UNCHANGED vars
  BY <1>2, Quiet DEF vars, registry, health, diskVars, control, Walks, Heals,
                     RegistryInv, RegistryTyped
<1> QED
  BY <1>1, <1>2

\* The inductive invariant, of which the next two are parts.
THEOREM RegistryIsSound ==
  ASSUME Alone
  PROVE  Spec => []RegistryInv
<1>1. Init => RegistryInv
  BY InitOK
<1>2. RegistryInv /\ [Next]_vars => RegistryInv'
  BY StepOK
<1> QED
  BY <1>1, <1>2, PTL DEF Spec

\* A slot never points to an adapter that has gone, and never to one that
\* takes itself for another slot's, whatever probes, assemblies, roll-backs,
\* failures, resets, rebuilds, removals and teardowns happened.
THEOREM SlotsAlwaysAgree ==
  ASSUME Alone
  PROVE  Spec => []SlotsAgree
<1>1. RegistryInv => SlotsAgree
  BY DEF RegistryInv
<1> QED
  BY <1>1, RegistryIsSound, PTL

\* No slot without a member ever has a bit in the live or the write mask.
THEOREM LiveIsAlwaysPresent ==
  ASSUME Alone
  PROVE  Spec => []LiveIsPresent
<1>1. RegistryInv => LiveIsPresent
  BY DEF RegistryInv
<1> QED
  BY <1>1, RegistryIsSound, PTL

-----------------------------------------------------------------------------
(* The volume that the registry builds.  While there is no disk, the members *)
(* that are there agree with each other; a disk is made of nothing else.     *)

RestTyped ==
  /\ fleet \in Fleets
  /\ geometry \in [expected : Nat, level : Levels, stripe : Nat, cols : Nat]
  /\ untrusted \in BOOLEAN /\ disk \in Disks \cup {None}
  /\ pools \in SUBSET Slots /\ group \in BOOLEAN
  /\ armed \in BOOLEAN /\ tearing \in BOOLEAN /\ owner \in Actors \cup {None}
  /\ frozen \in SUBSET Adapter /\ oops \in BOOLEAN /\ faults \in 0 .. MaxFaults
  /\ behind \in SUBSET Adapter

\* Only drives of the machine are members.
Known == \A s \in Present : members[s] \in DOMAIN fleet.label

\* A disk has members, and the first member finds an empty registry.
Counted == /\ disk # None => count > 0
           /\ count = 0 => Present = {}

\* Before there is a disk every member is live and in the range of the
\* geometry, which is its own; and trusted as long as no doubt was noted.
Formed(s) ==
  /\ state[s] = "LIVE" /\ s \in live
  /\ GeometryOf(members[s]) = geometry
  /\ s < geometry.expected \/ (geometry.level = "RAID0" /\ s < count)
  /\ ~untrusted => Trusted(Label(members[s]), s)

Forming == disk = None => \A s \in Present : Formed(s)

\* A striped volume has no members but those that it counts.
Striped == disk # None /\ geometry.level \notin Mirrored
             => Present \subseteq 0 .. count - 1

VolumeInv == RegistryInv /\ RestTyped /\ Known /\ Counted /\ Forming /\ Striped

\* A step that makes no disk and no member, and without a disk no change of the
\* masks.
Runs == /\ UNCHANGED <<fleet, members, count, geometry, untrusted, disk>>
        /\ disk = None => UNCHANGED <<state, live>>

LEMMA RunsOn ==
  ASSUME VolumeInv, Runs
  PROVE  (Known /\ Counted /\ Forming /\ Striped)'
<1>1. Present' = Present
  BY DEF Runs, Present
<1>2. Known' /\ Counted' /\ Striped'
  BY <1>1 DEF VolumeInv, Known, Counted, Striped, Runs
<1>3. ASSUME disk' = None, NEW s \in Present
      PROVE  Formed(s)'
  BY <1>3 DEF VolumeInv, Forming, Formed, Runs, GeometryOf, ExpectedOf, LevelOf, Label
<1> QED
  BY <1>1, <1>2, <1>3 DEF Forming

\* Without a disk nothing is being rebuilt, so that stopping the thread changes
\* no state.
LEMMA StopRuns ==
  ASSUME VolumeInv, StopResync, disk = None
  PROVE  UNCHANGED <<state, live, write>>
<1>1. resync # None => state[resync] # "RESYNCING"
  BY DEF VolumeInv, RegistryInv, RegistryTyped, RebuiltIsPresent, Forming, Formed
<1> QED
  BY <1>1 DEF StopResync

\* The steps that leave the registry and the disk alone.
LEMMA RunningSteps ==
  ASSUME VolumeInv,
         \/ Write \/ StartRebuild \/ EndRebuild \/ Unload
         \/ \E s \in Slots : Fail(s)
         \/ \E a \in Adapter : \/ Rejoin(a) \/ Remove(a) \/ Look(a) \/ CancelTimer(a)
                               \/ StopCopy(a) \/ Decide(a) \/ Freeze(a) \/ Thaw(a)
         \/ \E x \in Actors : \/ BeginTeardown(x) \/ FlushTimer(x)
                              \/ StopForTeardown(x) \/ RemoveGroup(x)
  PROVE  Runs
<1> USE DEF registry, health, diskVars, control, Runs
<1>1. CASE Write \/ StartRebuild \/ Unload \/ \E s \in Slots : Fail(s)
  BY <1>1 DEF Write, StartRebuild, Unload, Fail
<1>2. CASE EndRebuild
  <2>1. disk = None => state[resync] # "RESYNCING"
    BY <1>2 DEF EndRebuild, VolumeInv, RegistryInv, RegistryTyped, RebuiltIsPresent,
                Forming, Formed
  <2> QED
    BY <1>2, <2>1 DEF EndRebuild
<1>3. ASSUME NEW a \in Adapter, Rejoin(a)
      PROVE  Runs
  <2>1. disk # None
    BY <1>3, AssemblyConstants DEF Rejoin, VolumeInv, Forming, Formed, Present
  <2> QED
    BY <1>3, <2>1 DEF Rejoin
<1>4. ASSUME NEW a \in Adapter, Look(a) \/ StopCopy(a)
      PROVE  Runs
  BY <1>4, StopRuns DEF Look, StopCopy
<1>5. ASSUME NEW a \in Adapter, Decide(a)
      PROVE  Runs
  BY <1>5 DEF Decide, KeepVolume
<1>6. ASSUME NEW a \in Adapter, Remove(a) \/ CancelTimer(a) \/ Freeze(a) \/ Thaw(a)
      PROVE  Runs
  BY <1>6 DEF Remove, CancelTimer, Freeze, Thaw
<1>7. ASSUME NEW x \in Actors, BeginTeardown(x) \/ FlushTimer(x) \/ RemoveGroup(x)
      PROVE  Runs
  BY <1>7 DEF BeginTeardown, FlushTimer, RemoveGroup
<1>8. ASSUME NEW x \in Actors, StopForTeardown(x)
      PROVE  Runs
  BY <1>8, StopRuns DEF StopForTeardown
<1> QED
  BY <1>1, <1>2, <1>3, <1>4, <1>5, <1>6, <1>7, <1>8

\* A cleared slot leaves the rest as it is; a cleared registry is empty.
LEMMA ClearedSlot ==
  ASSUME VolumeInv, NEW a \in Adapter, ClearSlot(a)
  PROVE  (Known /\ Counted /\ Forming /\ Striped)'
<1>1. disk # None /\ disk' = disk
  BY DEF ClearSlot, VolumeInv, RegistryInv, Kept, Keeping
<1>2. Present' \subseteq Present /\ \A s \in Present' : members'[s] = members[s]
  BY DEF Present, ClearSlot, VolumeInv, RegistryInv, RegistryTyped
<1> QED
  BY <1>1, <1>2 DEF VolumeInv, Known, Counted, Forming, Striped, ClearSlot

LEMMA ClearedRegistry ==
  ASSUME VolumeInv, NEW x \in Actors, ClearRegistry(x)
  PROVE  (Known /\ Counted /\ Forming /\ Striped)'
<1>1. Present' = {} /\ disk' = None
  BY DEF Present, ClearRegistry
<1> QED
  BY <1>1 DEF Known, Counted, Forming, Striped
\* The least of some numbers.
LEMMA LeastOf ==
  ASSUME NEW S \in SUBSET Nat, S # {}
  PROVE  Min(S) \in S /\ \A n \in S : Min(S) <= n
<1>1. PICK x \in S : \A y \in S : ~(<<y, x>> \in OpToRel(<, Nat))
  BY NatLessThanWellFounded, WFMin
<1>2. x \in Nat /\ \A y \in S : y \in Nat /\ ~(y < x)
  BY <1>1 DEF OpToRel
<1>3. \A y \in S : x <= y
  BY <1>2
<1> QED
  BY <1>3 DEF Min

\* A disk that is created, of the members there are.
LEMMA DiskMade ==
  ASSUME fleet \in Fleets, fleet' = fleet, Present' \in SUBSET Slots, Present' # {},
         members' \in [Slots -> Adapter \cup {None}], Known',
         count' \in Nat, untrusted' \in BOOLEAN, CreateDisk
  PROVE  /\ disk' \in Disks /\ disk' # None
         /\ \A s \in Present' : Label(members'[s]).queues >= disk'.nrHw
<1>1. \A s \in Present' : Label(members'[s]) \in Labels
  BY AssemblyConstants DEF Known, Label
<1>2. Min(Present') \in Present'
  BY LeastOf, AssemblyConstants DEF Slots
<1> DEFINE Q == {Label(members'[s]).queues : s \in Present'}
<1>3. Q \in SUBSET (Nat \ {0}) /\ Q # {}
  BY <1>1 DEF Labels
<1>4. Min(Q) \in Q /\ \A n \in Q : Min(Q) <= n
  BY <1>3, LeastOf
<1>5. Min(Q) \in Nat \ {0}
  BY <1>3, <1>4
<1> DEFINE m0 == Label(members'[Min(Present')])
<1>6. m0 \in Labels
  BY <1>1, <1>2
<1>7. m0.ld \in BOOLEAN /\ m0.capacity \in Nat /\ m0.size \in Nat
  BY <1>6 DEF Labels
<1>8. fleet.writes \in BOOLEAN
  BY AssemblyConstants
<1> HIDE DEF Q, m0
<1>9. disk' = [ro |-> ~fleet.writes \/ untrusted',
               capacity |-> IF m0.ld THEN m0.capacity ELSE m0.size * count',
               nrHw |-> Min(Q)]
  BY DEF CreateDisk, m0, Q
<1>10. disk' \in Disks
  <2>1. (IF m0.ld THEN m0.capacity ELSE m0.size * count') \in Nat
    BY <1>7
  <2>2. (~fleet.writes \/ untrusted') \in BOOLEAN
    OBVIOUS
  <2> QED
    BY <1>5, <1>9, <2>1, <2>2 DEF Disks
<1>11. disk'.nrHw = Min(Q)
  BY <1>9
<1>12. ASSUME NEW s \in Present'
       PROVE  Label(members'[s]).queues >= disk'.nrHw
  <2>1. Label(members'[s]).queues \in Q
    BY DEF Q
  <2>2. Min(Q) <= Label(members'[s]).queues
    BY <1>4, <2>1
  <2> QED
    BY <1>3, <1>5, <1>11, <2>1, <2>2
<1> QED
  BY <1>10, <1>12, AssemblyConstants

\* The record that is looked at leaves the registry as it is, unless that is
\* empty.
LEMMA Noted ==
  ASSUME VolumeInv, NEW a \in Adapter, Note(a),
         UNCHANGED <<fleet, members, count, disk, state, live>>
  PROVE  (Known /\ Counted /\ Forming /\ Striped)'
<1>1. Present' = Present
  BY DEF Present
<1>2. CASE count = 0
  <2>1. Present = {} /\ disk = None
    BY <1>2 DEF VolumeInv, Counted
  <2> QED
    BY <1>1, <2>1 DEF Known, Counted, Forming, Striped
<1>3. CASE count # 0
  <2>1. geometry' = geometry /\ (untrusted => untrusted')
    BY <1>3 DEF Note
  <2>2. Known' /\ Counted' /\ Striped'
    BY <1>1, <2>1 DEF VolumeInv, Known, Counted, Striped
  <2>3. ASSUME disk' = None, NEW s \in Present
        PROVE  Formed(s)'
    BY <2>1, <2>3 DEF VolumeInv, Forming, Formed, GeometryOf, ExpectedOf, LevelOf, Label
  <2> QED
    BY <1>1, <2>2, <2>3 DEF Forming
<1> QED
  BY <1>2, <1>3

\* A member that joins by its position fits in with those before it.
LEMMA JoinForms ==
  ASSUME VolumeInv, NEW a \in DOMAIN fleet.label, a \in Adapter, fleet' = fleet, Join(a)
  PROVE  /\ Present' = Present \cup {Label(a).pos} /\ Label(a).pos \in Slots
         /\ count' = count + 1 /\ count' <= MaxMembers /\ Known'
         /\ geometry' = GeometryOf(a)
         /\ \A s \in Present' : Formed(s)'
<1> DEFINE pos == Label(a).pos
<1>1. /\ disk = None /\ Label(a).ld /\ Agrees(a) /\ Vacant(a) /\ Note(a)
      /\ members' = [members EXCEPT ![pos] = a] /\ count' = count + 1
      /\ SetState({pos}, "LIVE")
  BY DEF Join, Joins
<1>2. pos \in Slots /\ members[pos] = None /\ pos \in 0 .. ExpectedOf(a) - 1
  BY <1>1 DEF Vacant, InRange
<1>3. members \in [Slots -> Adapter \cup {None}] /\ count \in Nat /\ count < MaxMembers
  BY <1>1 DEF VolumeInv, RegistryInv, RegistryTyped, Agrees, Readable
<1>4. Present' = Present \cup {pos}
  BY <1>1, <1>2, <1>3, AssemblyConstants DEF Present
<1>5. geometry' = GeometryOf(a)
  BY <1>1 DEF Note, Agrees
<1>6. Known'
  BY <1>1, <1>2, <1>3, <1>4 DEF VolumeInv, Known, Present
<1>7. Label(a) \in Labels
  BY AssemblyConstants DEF Label, VolumeInv, RestTyped
<1>8. ASSUME NEW s, s = pos
      PROVE  Formed(s)'
  <2>1. members'[s] = a /\ state'[s] = "LIVE" /\ s \in live'
    BY <1>1, <1>2, <1>3, <1>8 DEF SetState
  <2>2. s < geometry'.expected
    <3>1. geometry'.expected = ExpectedOf(a) /\ ExpectedOf(a) \in Nat
      BY <1>1, <1>5, <1>7 DEF GeometryOf, ExpectedOf, Labels
    <3> QED
      BY <1>2, <1>8, <3>1
  <2>3. ~untrusted' => Trusted(Label(a), s)
    <3>1. ~untrusted' => ~Doubtful(a)
      BY <1>1 DEF Note, Agrees
    <3>2. Label(a).level \in {"RAID0", "RAID1", "RAID10"} /\ Label(a).stripe > 0
      BY <1>1 DEF Agrees, Readable, LevelOf, Levels, Mirrored
    <3> QED
      BY <1>1, <1>8, <3>1, <3>2 DEF Trusted, Doubtful, LevelOf
  <2> QED
    BY <1>5, <2>1, <2>2, <2>3 DEF Formed, GeometryOf, ExpectedOf, LevelOf, Label
<1>9. ASSUME NEW s \in Present
      PROVE  Formed(s)'
  <2>1. count # 0
    BY DEF VolumeInv, Counted
  <2>2. geometry' = geometry /\ (untrusted => untrusted')
    BY <1>1, <2>1 DEF Note
  <2>3. s # pos /\ members'[s] = members[s] /\ s \in Slots
    BY <1>1, <1>2, <1>3 DEF Present
  <2>4. state'[s] = state[s] /\ (s \in live => s \in live')
    BY <1>1, <2>3 DEF SetState
  <2>5. Formed(s) /\ s \in Int
    BY <1>1, <2>3 DEF VolumeInv, Forming, Slots
  <2> QED
    BY <1>1, <1>3, <2>2, <2>3, <2>4, <2>5
       DEF Formed, GeometryOf, ExpectedOf, LevelOf, Label
<1>10. count' <= MaxMembers
  BY <1>1, <1>3, AssemblyConstants
<1>11. \A s \in Present' : Formed(s)'
  BY <1>4, <1>8, <1>9
<1> QED
  BY <1>1, <1>2, <1>4, <1>5, <1>6, <1>10, <1>11

\* So does one that is inserted by bus order, without being believed.
LEMMA InsertForms ==
  ASSUME VolumeInv, NEW a \in DOMAIN fleet.label, a \in Adapter, fleet' = fleet,
         JoinLegacy(a), \A s \in 0 .. count - 1 : members[s] # None
  PROVE  /\ Present' = Present \cup 0 .. count /\ 0 .. count \subseteq Slots
         /\ count' = count + 1 /\ count' <= MaxMembers /\ Known'
         /\ geometry' = GeometryOf(a)
         /\ \A s \in Present' : Formed(s)'
<1>1. /\ disk = None /\ ~Label(a).ld /\ Agrees(a)
      /\ untrusted' = TRUE /\ count' = count + 1
      /\ geometry' = IF count = 0 THEN GeometryOf(a) ELSE geometry
      /\ SetState(0 .. count, "LIVE")
  BY DEF JoinLegacy, Joins
<1>2. members \in [Slots -> Adapter \cup {None}] /\ count \in Nat /\ count < MaxMembers
  BY <1>1 DEF VolumeInv, RegistryInv, RegistryTyped, Agrees, Readable
<1>3. 0 .. count \subseteq Slots /\ MaxMembers \in Nat
  BY <1>2, AssemblyConstants DEF Slots
<1>4. PICK p \in 0 .. count :
        members' = [s \in Slots |-> CASE s = p -> a
                                     [] s \in p + 1 .. count -> members[s - 1]
                                     [] OTHER -> members[s]]
  BY DEF JoinLegacy
<1>5. /\ members'[p] = a
      /\ \A s \in 0 .. count : s < p => members'[s] = members[s]
      /\ \A s \in 0 .. count : p < s => members'[s] = members[s - 1]
      /\ \A s \in Slots : count < s => members'[s] = members[s]
  BY <1>2, <1>3, <1>4 DEF Slots
<1>6. geometry' = GeometryOf(a) /\ geometry'.level = "RAID0"
  BY <1>1 DEF Agrees, GeometryOf, LevelOf
<1>7. \A s \in 0 .. count - 1 : s \in Present /\ members[s] \in Adapter
  BY <1>2, <1>3 DEF Present
<1>8. \A s \in 0 .. count :
        members'[s] = a \/ \E t \in Present : members'[s] = members[t]
  BY <1>2, <1>5, <1>7
<1>9. \A s \in Slots \ (0 .. count) : members'[s] = members[s] /\ s > count
  BY <1>2, <1>5 DEF Slots
<1>10. Present' = Present \cup 0 .. count
  <2>1. \A s \in 0 .. count : members'[s] # None
    BY <1>8, AssemblyConstants DEF Present
  <2> QED
    BY <1>3, <1>9, <2>1 DEF Present
<1>11. \A s \in Present' : members'[s] = a \/ \E t \in Present : members'[s] = members[t]
  BY <1>8, <1>9, <1>10 DEF Present
<1>12. Known'
  BY <1>11 DEF VolumeInv, Known
<1>13. \A t \in Present : GeometryOf(members[t]) = geometry'
  BY <1>1 DEF VolumeInv, Counted, Forming, Formed
<1>14. ASSUME NEW s \in Present'
       PROVE  Formed(s)'
  <2>1. GeometryOf(members'[s]) = geometry'
    BY <1>6, <1>11, <1>13
  <2>2. CASE s \in 0 .. count
    <3>1. state'[s] = "LIVE" /\ s \in live'
      BY <1>1, <1>3, <2>2 DEF SetState
    <3>2. s < count'
      BY <1>1, <1>2, <2>2
    <3> QED
      BY <1>1, <1>6, <2>1, <3>1, <3>2 DEF Formed, GeometryOf, ExpectedOf, LevelOf, Label
  <2>3. CASE s \notin 0 .. count
    <3>1. s \in Present /\ s > count /\ s \in Slots
      BY <1>9, <1>10, <2>3 DEF Present
    <3>2. count # 0 /\ Formed(s)
      BY <1>1, <3>1 DEF VolumeInv, Counted, Forming
    <3>3. state'[s] = "LIVE" /\ s \in live'
      BY <1>1, <2>3, <3>1, <3>2 DEF SetState, Formed
    <3>4. s < geometry'.expected
      BY <1>1, <1>2, <3>1, <3>2 DEF Formed, Slots
    <3> QED
      BY <1>1, <2>1, <3>3, <3>4 DEF Formed, GeometryOf, ExpectedOf, LevelOf, Label
  <2> QED
    BY <2>2, <2>3
<1> QED
  BY <1>1, <1>2, <1>3, <1>6, <1>10, <1>12, <1>14
\* A disk is made of members that agree, enough of them to serve.
LEMMA WholeWell ==
  ASSUME RegistryInv', CreateDisk, fleet \in Fleets, fleet' = fleet, Known',
         geometry' \in [expected : Nat, level : Levels, stripe : Nat, cols : Nat],
         \A s \in Present' : Formed(s)',
         count' = geometry'.expected, count' > 0,
         \A s \in 0 .. count' - 1 : members'[s] # None
  PROVE  AssembledWell' /\ Present' = 0 .. count' - 1
<1>1. count' \in 0 .. MaxMembers
  BY DEF RegistryInv, RegistryTyped
<1>2. 0 .. count' - 1 \subseteq Slots
  BY <1>1, AssemblyConstants DEF Slots
<1>3. Present' = 0 .. count' - 1
  <2>1. \A s \in Present' : s \in Slots /\ s < count'
    BY DEF Present, Formed
  <2> QED
    BY <1>1, <1>2, <2>1 DEF Present, Slots
<1>4. live' = Present'
  BY DEF RegistryInv, LiveIsPresent, Formed
<1>5. Serving(live)'
  <2>1. 0 \in live'
    BY <1>1, <1>3, <1>4
  <2>2. CASE geometry'.level = "RAID10"
    <3>1. members'[0] \in DOMAIN fleet.label /\ GeometryOf(members'[0]) = geometry'
      BY <1>4, <2>1 DEF Known, Formed, GeometryOf, ExpectedOf, LevelOf, Label
    <3>2. Label(members'[0]) \in Labels
      BY <3>1, AssemblyConstants DEF Label
    <3>3. /\ LevelOf(members'[0]) = "RAID10"
          /\ geometry'.expected = ExpectedOf(members'[0])
          /\ geometry'.cols = ExpectedOf(members'[0]) \div 2
      BY <2>2, <3>1 DEF GeometryOf
    <3>4. ExpectedOf(members'[0]) \in 2 .. MaxMembers
      BY <3>2, <3>3 DEF LevelOf, ExpectedOf, Labels
    <3>5. geometry'.cols > 0
          /\ \A c \in 0 .. geometry'.cols - 1 : 2 * c \in 0 .. count' - 1
      BY <3>3, <3>4, AssemblyConstants
    <3> QED
      BY <1>3, <1>4, <2>2, <3>5 DEF Serving
  <2> QED
    BY <1>3, <1>4, <2>1, <2>2 DEF Serving
<1>6. (~disk.ro => fleet.writes /\ \A s \in Present : Trusted(Label(members[s]), s))'
  <2>1. disk'.ro = (~fleet.writes \/ untrusted')
    BY DEF CreateDisk
  <2> QED
    BY <2>1 DEF Formed
<1>7. (\A s \in Present : GeometryOf(members[s]) = geometry)'
  BY DEF Formed
<1>8. (Present \subseteq 0 .. count - 1)'
  BY <1>3
<1> QED
  BY <1>3, <1>4, <1>5, <1>6, <1>7, <1>8 DEF AssembledWell

\* Degraded, of a mirror's or a nested volume's members that there are.
LEMMA DegradedWell ==
  ASSUME VolumeInv, RegistryInv', Assemble, Degradable, CreateDisk,
         count' = geometry.expected, fleet' = fleet,
         SetState((0 .. geometry.expected - 1) \ Present, "FAILED"), UNCHANGED untrusted
  PROVE  AssembledWell'
<1>1. disk = None /\ geometry.level \in Mirrored /\ members' = members /\ geometry' = geometry
  BY DEF Assemble, Degradable
<1>2. Present' = Present
  BY <1>1 DEF Present
<1>3. \A s \in Present : Formed(s)
  BY <1>1 DEF VolumeInv, Forming
<1>4. live = Present /\ live' = Present'
  BY <1>2, <1>3 DEF VolumeInv, RegistryInv, LiveIsPresent, Formed, SetState
<1>5. Present # {}
  <2>1. Present \cap (0 .. geometry.expected - 1) # {}
    BY FS_EmptySet DEF Degradable
  <2> QED
    BY <2>1
<1>6. Serving(live)'
  BY <1>1, <1>2, <1>4, <1>5 DEF Serving, Degradable, Mirrored
<1>7. Present \subseteq 0 .. count' - 1
  BY <1>1, <1>3 DEF Formed, Mirrored, Present, Slots, VolumeInv, RestTyped
<1>8. (~disk.ro => fleet.writes /\ \A s \in Present : Trusted(Label(members[s]), s))'
  <2>1. disk'.ro = (~fleet.writes \/ untrusted')
    BY DEF CreateDisk
  <2> QED
    BY <1>1, <1>2, <1>3, <2>1 DEF Formed, Label
<1>9. (\A s \in Present : GeometryOf(members[s]) = geometry)'
  BY <1>1, <1>2, <1>3 DEF Formed, GeometryOf, ExpectedOf, LevelOf, Label
<1>10. (live = Present /\ Present \subseteq 0 .. count - 1)'
  BY <1>2, <1>4, <1>7
<1> QED
  BY <1>6, <1>8, <1>9, <1>10 DEF AssembledWell

\* The two ways a disk is made keep the invariant.
LEMMA AssembleForms ==
  ASSUME VolumeInv, Assemble, RegistryInv'
  PROVE  /\ (RestTyped /\ Known /\ Counted /\ Forming /\ Striped)'
         /\ disk = None /\ disk' # None => AssembledWell'
<1>1. fleet' = fleet /\ members' = members /\ geometry' = geometry /\ Present' = Present
  BY DEF Assemble, Present
<1>2. Known'
  BY <1>1 DEF VolumeInv, Known
<1>3. CASE /\ Degradable /\ CreateDisk /\ count' = geometry.expected /\ faults' = faults
           /\ SetState((0 .. geometry.expected - 1) \ Present, "FAILED")
           /\ UNCHANGED untrusted
  <2>1. geometry.expected \in 1 .. MaxMembers /\ geometry.level \in Mirrored
    BY <1>3 DEF Degradable
  <2>2. Present # {}
    <3>1. Present \cap (0 .. geometry.expected - 1) # {}
      BY <1>3, FS_EmptySet DEF Degradable
    <3> QED
      BY <3>1
  <2>3. disk' \in Disks /\ disk' # None
    BY <1>1, <1>2, <1>3, <2>1, <2>2, DiskMade
       DEF VolumeInv, RestTyped, RegistryInv, RegistryTyped, Present
  <2>4. pools' \in SUBSET Slots /\ group' \in BOOLEAN /\ behind' \in SUBSET Adapter
    BY <1>1, <1>3 DEF CreateDisk, Present
  <2>5. RestTyped'
    BY <1>1, <1>3, <2>3, <2>4 DEF VolumeInv, RestTyped, Assemble
  <2>6. Counted' /\ Forming' /\ Striped'
    BY <1>1, <1>3, <2>1, <2>3 DEF Counted, Forming, Striped
  <2> QED
    BY <1>1, <1>2, <1>3, <2>5, <2>6, DegradedWell
<1>4. CASE /\ Degradable /\ Fault /\ RollBack((0 .. geometry.expected - 1) \ Present)
           /\ UNCHANGED <<count, untrusted, diskVars>>
  <2>0. faults' \in 0 .. MaxFaults
    BY <1>4, AssemblyConstants DEF VolumeInv, RestTyped, Fault
  <2>1. RestTyped'
    BY <1>1, <1>4, <2>0 DEF VolumeInv, RestTyped, Assemble, diskVars
  <2>2. \A s \in Present : state'[s] = state[s] /\ (s \in live => s \in live')
    BY <1>4 DEF RollBack, Present
  <2>3. ASSUME disk' = None, NEW s \in Present
        PROVE  Formed(s)'
    BY <1>1, <1>4, <2>2, <2>3
       DEF VolumeInv, Forming, Formed, diskVars, GeometryOf, ExpectedOf, LevelOf, Label
  <2>4. Counted' /\ Striped'
    BY <1>1, <1>4 DEF VolumeInv, Counted, Striped, diskVars
  <2> QED
    BY <1>1, <1>2, <1>4, <2>1, <2>3, <2>4 DEF Forming, diskVars
<1>5. CASE ~Degradable
  <2>1. Runs /\ disk' = disk
    BY <1>5 DEF Assemble, Runs, diskVars
  <2>2. RestTyped'
    BY <1>1, <1>5 DEF VolumeInv, RestTyped, Assemble, diskVars
  <2> QED
    BY <2>1, <2>2, RunsOn
<1> QED
  BY <1>3, <1>4, <1>5 DEF Assemble

LEMMA CompleteForms ==
  ASSUME VolumeInv, RegistryInv', Complete, disk = None, fleet' = fleet, Known',
         geometry' \in [expected : Nat, level : Levels, stripe : Nat, cols : Nat],
         untrusted' \in BOOLEAN,
         count' > 0, Present' # {}, \A s \in Present' : Formed(s)'
  PROVE  /\ disk' \in Disks \cup {None} /\ pools' \in SUBSET Slots
         /\ group' \in BOOLEAN /\ behind' \in SUBSET Adapter
         /\ faults' \in 0 .. MaxFaults /\ armed' \in BOOLEAN
         /\ (Counted /\ Forming /\ Striped)'
         /\ disk' # None => AssembledWell'
         /\ CreateDisk \/ UNCHANGED <<disk, pools, group, behind>>
<1>1. count' \in Nat /\ Present' \in SUBSET Slots
      /\ members' \in [Slots -> Adapter \cup {None}]
  BY AssemblyConstants DEF RegistryInv, RegistryTyped, Present
<1>2. armed' \in BOOLEAN
  BY DEF Complete, VolumeInv, RestTyped
<1>3. count' # 0
  BY <1>1
<1>4. CASE /\ CreateDisk /\ UNCHANGED faults
           /\ count' = geometry'.expected
           /\ \A s \in 0 .. count' - 1 : members'[s] # None
  <2>1. disk' \in Disks /\ disk' # None
    BY <1>1, <1>4, DiskMade DEF VolumeInv, RestTyped
  <2>2. AssembledWell' /\ Present' = 0 .. count' - 1
    BY <1>4, WholeWell DEF VolumeInv, RestTyped
  <2>3. Counted' /\ Forming' /\ Striped'
    BY <1>3, <2>1, <2>2 DEF Counted, Forming, Striped
  <2>4. pools' \in SUBSET Slots /\ group' \in BOOLEAN /\ behind' \in SUBSET Adapter
    BY <1>1, <1>4 DEF CreateDisk
  <2> QED
    BY <1>2, <1>4, <2>1, <2>2, <2>3, <2>4 DEF VolumeInv, RestTyped
<1>5. CASE UNCHANGED <<disk, pools, group, behind>> /\ (faults' = faults \/ Fault)
  <2>1. Counted' /\ Forming' /\ Striped'
    BY <1>3, <1>5 DEF Counted, Forming, Striped
  <2>2. faults' \in 0 .. MaxFaults
    BY <1>5, AssemblyConstants DEF Fault, VolumeInv, RestTyped
  <2> QED
    BY <1>2, <1>5, <2>1, <2>2 DEF VolumeInv, RestTyped
<1> QED
  BY <1>4, <1>5 DEF Complete, TryCreate, NoDisk, diskVars

LEMMA GeometryTyped ==
  ASSUME NEW a \in DOMAIN fleet.label, fleet \in Fleets, LevelOf(a) \in Levels
  PROVE  GeometryOf(a) \in [expected : Nat, level : Levels, stripe : Nat, cols : Nat]
<1>1. Label(a) \in Labels
  BY AssemblyConstants DEF Label
<1>2. ExpectedOf(a) \in Nat /\ Label(a).stripe \in Nat
  BY <1>1, AssemblyConstants DEF ExpectedOf, Labels
<1>3. (IF LevelOf(a) = "RAID10" THEN ExpectedOf(a) \div 2 ELSE 0) \in Nat
  BY <1>2
<1> QED
  BY <1>2, <1>3 DEF GeometryOf

\* The registrations.
LEMMA ProbeForms ==
  ASSUME VolumeInv, NEW a \in Adapter, Probe(a), RegistryInv'
  PROVE  /\ (RestTyped /\ Known /\ Counted /\ Forming /\ Striped)'
         /\ disk = None /\ disk' # None => AssembledWell'
<1>1. /\ a \in DOMAIN fleet.label /\ fleet' = fleet
      /\ UNCHANGED <<tearing, owner, frozen>>
  BY DEF Probe
<1>2. fleet \in Fleets
  BY DEF VolumeInv, RestTyped
<1>3. CASE Orphan(a)
  <2>1. Runs /\ disk' = disk
    BY <1>1, <1>3 DEF Orphan, Runs, registry, health, diskVars
  <2>2. RestTyped'
    BY <1>1, <1>3 DEF Orphan, VolumeInv, RestTyped, registry, diskVars
  <2> QED
    BY <2>1, <2>2, RunsOn
<1>4. ASSUME Note(a)
      PROVE  /\ geometry' \in [expected : Nat, level : Levels, stripe : Nat, cols : Nat]
             /\ untrusted' \in BOOLEAN
  BY <1>1, <1>2, <1>4, GeometryTyped DEF Note, Agrees, Readable, VolumeInv, RestTyped
<1>5. CASE Ignore(a)
  <2>1. RestTyped'
    BY <1>1, <1>4, <1>5 DEF Ignore, VolumeInv, RestTyped, diskVars
  <2> QED
    BY <1>1, <1>5, <2>1, Noted DEF Ignore, health, diskVars
<1>6. CASE ReAdd(a)
  <2> DEFINE pos == Label(a).pos
  <2>1. /\ disk # None /\ disk' = disk /\ count' = count /\ Note(a)
        /\ geometry.level \in Mirrored /\ pos \in Slots
    BY <1>6 DEF ReAdd, Joins, Fits, Vacant, InRange
  <2>2. geometry' = geometry /\ count # 0
    BY <2>1 DEF VolumeInv, Counted, Note
  <2>3. Known'
    BY <1>1, <1>6, <2>1 DEF ReAdd, VolumeInv, RegistryInv, RegistryTyped, Known, Present
  <2>4. Counted' /\ Forming' /\ Striped'
    BY <2>1, <2>2 DEF VolumeInv, Counted, Forming, Striped
  <2>5. pools' \in SUBSET Slots /\ faults' \in 0 .. MaxFaults
    BY <1>6, <2>1, AssemblyConstants DEF ReAdd, Fault, VolumeInv, RestTyped
  <2>6. RestTyped'
    BY <1>1, <1>4, <1>6, <2>1, <2>5 DEF ReAdd, VolumeInv, RestTyped
  <2> QED
    BY <2>1, <2>3, <2>4, <2>6
<1>7. CASE Join(a)
  <2>1. /\ Present' = Present \cup {Label(a).pos} /\ count' = count + 1 /\ Known'
        /\ \A s \in Present' : Formed(s)'
    BY <1>1, <1>7, JoinForms
  <2>2. disk = None /\ Complete /\ Note(a) /\ oops' = oops
    BY <1>7 DEF Join
  <2>3. count' > 0
    BY <2>1, AssemblyConstants DEF VolumeInv, RegistryInv, RegistryTyped
  <2>4. /\ disk' \in Disks \cup {None} /\ pools' \in SUBSET Slots
        /\ group' \in BOOLEAN /\ behind' \in SUBSET Adapter
        /\ faults' \in 0 .. MaxFaults /\ armed' \in BOOLEAN
        /\ (Counted /\ Forming /\ Striped)'
        /\ disk' # None => AssembledWell'
    BY <1>1, <1>4, <2>1, <2>2, <2>3, CompleteForms
  <2>5. RestTyped'
    BY <1>1, <1>4, <2>2, <2>4 DEF VolumeInv, RestTyped
  <2> QED
    BY <2>1, <2>4, <2>5
<1>8. CASE JoinLegacy(a) /\ ~(\A s \in 0 .. count - 1 : members[s] # None)
  <2>1. UNCHANGED <<registry, health, diskVars, armed, faults>> /\ oops' = TRUE
    BY <1>8 DEF JoinLegacy
  <2>2. Runs /\ disk' = disk
    BY <1>1, <2>1 DEF Runs, registry, health, diskVars
  <2>3. RestTyped'
    BY <1>1, <2>1 DEF VolumeInv, RestTyped, registry, diskVars
  <2> QED
    BY <2>2, <2>3, RunsOn
<1>9. CASE JoinLegacy(a) /\ \A s \in 0 .. count - 1 : members[s] # None
  <2>1. /\ Present' = Present \cup 0 .. count /\ count' = count + 1 /\ Known'
        /\ geometry' = GeometryOf(a)
        /\ \A s \in Present' : Formed(s)'
    BY <1>1, <1>9, InsertForms
  <2>2. disk = None /\ Complete /\ untrusted' = TRUE /\ oops' = oops /\ Agrees(a)
    BY <1>9 DEF JoinLegacy, Joins
  <2>3. geometry' \in [expected : Nat, level : Levels, stripe : Nat, cols : Nat]
    BY <1>1, <1>2, <2>1, <2>2, GeometryTyped DEF Agrees, Readable
  <2>4. count' > 0 /\ 0 \in 0 .. count
    BY <2>1, AssemblyConstants DEF VolumeInv, RegistryInv, RegistryTyped
  <2>5. Present' # {}
    BY <2>1, <2>4
  <2>6. /\ disk' \in Disks \cup {None} /\ pools' \in SUBSET Slots
        /\ group' \in BOOLEAN /\ behind' \in SUBSET Adapter
        /\ faults' \in 0 .. MaxFaults /\ armed' \in BOOLEAN
        /\ (Counted /\ Forming /\ Striped)'
        /\ disk' # None => AssembledWell'
    BY <1>1, <2>1, <2>2, <2>3, <2>4, <2>5, CompleteForms
  <2>7. RestTyped'
    BY <1>1, <2>2, <2>3, <2>6 DEF VolumeInv, RestTyped
  <2> QED
    BY <2>1, <2>6, <2>7
<1> QED
  BY <1>3, <1>5, <1>6, <1>7, <1>8, <1>9 DEF Probe
\* The other variables keep their types.
LEMMA RestStaysTyped ==
  ASSUME VolumeInv,
         \/ Write \/ StartRebuild \/ EndRebuild \/ Unload
         \/ \E s \in Slots : Fail(s)
         \/ \E a \in Adapter : \/ Rejoin(a) \/ Remove(a) \/ Removal(a)
         \/ \E x \in Actors : Teardown(x)
  PROVE  RestTyped'
<1> USE DEF registry, health, diskVars, control
<1>0. RestTyped
  BY DEF VolumeInv
<1>1. CASE Write
  <2>1. DOMAIN fleet.label \subseteq Adapter
    BY <1>0, AssemblyConstants DEF RestTyped
  <2> QED
    BY <1>0, <1>1, <2>1 DEF Write, RestTyped
<1>2. CASE StartRebuild \/ \E a \in Adapter : Rejoin(a)
  BY <1>0, <1>2 DEF StartRebuild, Rejoin, RestTyped
<1>3. CASE EndRebuild \/ \E s \in Slots : Fail(s)
  <2>1. faults' \in 0 .. MaxFaults
    <3>1. faults' = faults \/ Fault
      BY <1>3 DEF EndRebuild, Fail
    <3> QED
      BY <1>0, <3>1, AssemblyConstants DEF Fault, RestTyped
  <2>2. behind' \in SUBSET Adapter
    BY <1>0, <1>3 DEF EndRebuild, Fail, RestTyped
  <2> QED
    BY <1>0, <1>3, <2>1, <2>2 DEF EndRebuild, Fail, RestTyped
<1>4. CASE Unload \/ \E a \in Adapter : Remove(a)
  BY <1>0, <1>4, AssemblyConstants DEF Unload, Remove, Fault, RestTyped
<1>5. ASSUME NEW a \in Adapter, Look(a) \/ CancelTimer(a) \/ StopCopy(a) \/ Decide(a)
      PROVE  RestTyped'
  BY <1>0, <1>5 DEF Look, CancelTimer, StopCopy, Decide, RestTyped
<1>6. ASSUME NEW a \in Adapter, Freeze(a) \/ ClearSlot(a) \/ Thaw(a)
      PROVE  RestTyped'
  BY <1>0, <1>6 DEF Freeze, ClearSlot, Thaw, RestTyped
<1>7. ASSUME NEW x \in Actors, \/ BeginTeardown(x) \/ FlushTimer(x)
                               \/ StopForTeardown(x) \/ RemoveGroup(x)
      PROVE  RestTyped'
  BY <1>0, <1>7 DEF BeginTeardown, FlushTimer, StopForTeardown, RemoveGroup, RestTyped
<1>8. ASSUME NEW x \in Actors, ClearRegistry(x)
      PROVE  RestTyped'
  BY <1>0, <1>8 DEF ClearRegistry, RestTyped
<1> QED
  BY <1>1, <1>2, <1>3, <1>4, <1>5, <1>6, <1>7, <1>8 DEF Removal, Teardown

LEMMA VolumeInit == Init => VolumeInv
<1> SUFFICES ASSUME Init PROVE VolumeInv
  OBVIOUS
<1>1. RegistryInv
  BY InitOK
<1>2. Present = {}
  BY DEF Init, Present
<1>3. RestTyped
  <2>1. geometry \in [expected : Nat, level : Levels, stripe : Nat, cols : Nat]
    BY DEF Init, Levels
  <2>2. faults \in 0 .. MaxFaults
    BY AssemblyConstants DEF Init
  <2> QED
    BY <2>1, <2>2 DEF Init, RestTyped
<1> QED
  BY <1>1, <1>2, <1>3 DEF Init, VolumeInv, Known, Counted, Forming, Striped

LEMMA VolumeNext ==
  ASSUME Alone, VolumeInv, [Next]_vars
  PROVE  /\ VolumeInv'
         /\ disk = None /\ disk' # None => AssembledWell'
<1>1. RegistryInv'
  BY StepOK DEF VolumeInv
<1>2. CASE \/ Write \/ StartRebuild \/ EndRebuild \/ Unload
           \/ \E s \in Slots : Fail(s)
           \/ \E a \in Adapter : \/ Rejoin(a) \/ Remove(a) \/ Look(a) \/ CancelTimer(a)
                                 \/ StopCopy(a) \/ Decide(a) \/ Freeze(a) \/ Thaw(a)
           \/ \E x \in Actors : \/ BeginTeardown(x) \/ FlushTimer(x)
                                \/ StopForTeardown(x) \/ RemoveGroup(x)
  <2>1. Runs
    BY <1>2, RunningSteps
  <2>2. RestTyped'
    BY <1>2, RestStaysTyped DEF Removal, Teardown
  <2> QED
    BY <1>1, <2>1, <2>2, RunsOn DEF VolumeInv, Runs
<1>3. ASSUME NEW a \in Adapter, ClearSlot(a)
      PROVE  VolumeInv' /\ disk' = disk
  BY <1>1, <1>3, ClearedSlot, RestStaysTyped DEF VolumeInv, Removal, ClearSlot
<1>4. ASSUME NEW x \in Actors, ClearRegistry(x)
      PROVE  VolumeInv' /\ disk' = None
  BY <1>1, <1>4, ClearedRegistry, RestStaysTyped DEF VolumeInv, Teardown, ClearRegistry
<1>5. CASE Assemble
  BY <1>1, <1>5, AssembleForms DEF VolumeInv
<1>6. ASSUME NEW a \in Adapter, Probe(a)
      PROVE  VolumeInv' /\ (disk = None /\ disk' # None => AssembledWell')
  BY <1>1, <1>6, ProbeForms DEF VolumeInv
<1>7. CASE UNCHANGED vars
  <2>1. Runs /\ disk' = disk
    BY <1>7 DEF Runs, vars, registry, health, diskVars
  <2>2. RestTyped'
    BY <1>7 DEF vars, registry, health, diskVars, control, VolumeInv, RestTyped
  <2> QED
    BY <1>1, <2>1, <2>2, RunsOn DEF VolumeInv
<1> QED
  BY <1>2, <1>3, <1>4, <1>5, <1>6, <1>7 DEF Next, Removal, Teardown

LEMMA VolumeForms ==
  ASSUME Alone
  PROVE  Spec => []VolumeInv
<1>1. VolumeInv /\ [Next]_vars => VolumeInv'
  BY VolumeNext
<1> QED
  BY VolumeInit, <1>1, PTL DEF Spec

\* Every variable of the registry and of the disk keeps its type.
THEOREM AssemblyTypeCorrect ==
  ASSUME Alone
  PROVE  Spec => []TypeOK
<1>1. VolumeInv => TypeOK
  BY DEF VolumeInv, RegistryInv, RegistryTyped, RestTyped, TypeOK
<1> QED
  BY <1>1, VolumeForms, PTL

\* However the drives arrive, and whatever was removed, failed or torn down
\* before: a disk that appears is made of members that agree about its geometry,
\* enough of them to serve, and takes writes only if each is where a record that
\* adds up puts it.
THEOREM AlwaysAssembledRight ==
  ASSUME Alone
  PROVE  Spec => AssembledRight
<1>1. VolumeInv /\ [Next]_vars => [disk = None /\ disk' # None => AssembledWell']_vars
  BY VolumeNext
<1> QED
  BY <1>1, VolumeForms, PTL DEF Spec, AssembledRight

-----------------------------------------------------------------------------
(* A drive that missed a write is not read.  For a mirror this is because    *)
(* every write reaches all that are live, and only a copy makes live; for a  *)
(* striped volume because nothing is written unless all members are.         *)

StaleInv ==
  /\ live \subseteq write
  /\ NoStaleServed
  /\ disk # None /\ geometry.level \notin Mirrored =>
       \A s \in Present : members[s] \notin behind

\* Losing bits, and nothing else, serves nothing stale.
LEMMA ServesLess ==
  ASSUME VolumeInv, StaleInv, UNCHANGED <<geometry, disk>>,
         behind' \subseteq behind, live' \subseteq live, live' \subseteq write',
         \A s \in Present' : s \in Present /\ members'[s] = members[s],
         \A s \in live' : members'[s] = members[s]
  PROVE  StaleInv'
BY DEF StaleInv, NoStaleServed

\* So does a change of states that makes none live.
LEMMA NoneLive ==
  ASSUME VolumeInv, StaleInv, NEW S \in SUBSET Slots, NEW st \in States \ {"LIVE"},
         SetState(S, st), UNCHANGED <<geometry, disk, members, behind>>
  PROVE  StaleInv'
<1>1. live' \subseteq live /\ live' \subseteq write' /\ Present' = Present
  BY DEF SetState, StaleInv, Present
<1> QED
  BY <1>1, ServesLess

LEMMA StopStale ==
  ASSUME VolumeInv, StaleInv, StopResync, UNCHANGED <<geometry, disk, members, behind>>
  PROVE  StaleInv'
<1>1. CASE resync # None /\ state[resync] = "RESYNCING"
  <2>1. {resync} \in SUBSET Slots
    BY <1>1 DEF VolumeInv, RegistryInv, RegistryTyped
  <2> QED
    BY <1>1, <2>1, NoneLive DEF StopResync, States
<1>2. CASE UNCHANGED <<state, live, write>>
  BY <1>2, ServesLess DEF Present, StaleInv
<1> QED
  BY <1>1, <1>2 DEF StopResync

\* Before there is a disk, and when it is new, nobody is behind.
LEMMA NobodyBehind ==
  ASSUME disk' = None \/ behind' = {}, live' \subseteq write'
  PROVE  StaleInv'
BY DEF StaleInv, NoStaleServed

LEMMA StaleNext ==
  ASSUME Alone, VolumeInv, StaleInv, [Next]_vars
  PROVE  StaleInv'
<1> USE DEF registry, health, diskVars, control
<1>t. /\ members \in [Slots -> Adapter \cup {None}] /\ live \subseteq Slots /\ count \in Nat
      /\ live \subseteq Present /\ geometry.level \in Levels
  BY DEF VolumeInv, RegistryInv, RegistryTyped, LiveIsPresent, RestTyped
<1>0. ASSUME UNCHANGED <<geometry, disk, members, behind, live, write>>
      PROVE  StaleInv'
  BY <1>0, ServesLess DEF Present, StaleInv
<1>1. CASE Write
  <2>1. UNCHANGED <<geometry, disk, members, live, write>>
        /\ disk # None /\ Serving(live)
        /\ behind' = {a \in DOMAIN fleet.label : \A s \in write : members[s] # a} \cup behind
    BY <1>1 DEF Write
  <2>2. ASSUME NEW s \in live
        PROVE  members[s] \notin behind'
    BY <2>1 DEF StaleInv, NoStaleServed
  <2>3. ASSUME geometry.level \notin Mirrored
        PROVE  Present = live
    <3>1. live = 0 .. count - 1
      BY <2>1, <2>3 DEF Serving, Mirrored
    <3> QED
      BY <1>t, <2>1, <2>3, <3>1 DEF VolumeInv, Striped
  <2> QED
    BY <2>1, <2>2, <2>3 DEF StaleInv, NoStaleServed, Present
<1>2. CASE StartRebuild
  <2>1. PICK s \in Rebuildable : SetState({s}, "RESYNCING")
    BY <1>2 DEF StartRebuild
  <2>2. s \in Slots /\ UNCHANGED <<geometry, disk, members, behind>>
    BY <1>2 DEF StartRebuild, Rebuildable, Present
  <2> QED
    BY <2>1, <2>2, NoneLive DEF States
<1>3. CASE EndRebuild
  <2>1. UNCHANGED <<geometry, disk, members>>
    BY <1>3 DEF EndRebuild
  <2>2. CASE state[resync] = "RESYNCING" /\ SetState({resync}, "LIVE")
             /\ behind' = behind \ {members[resync]}
    <3>1. live' = live \cup {resync} /\ write' = write \cup {resync}
      BY <2>2 DEF SetState
    <3> QED
      BY <2>1, <2>2, <3>1 DEF StaleInv, NoStaleServed, Present
  <2>3. CASE state[resync] = "RESYNCING" /\ SetState({resync}, "NEEDS_RESYNC")
             /\ behind' = behind
    <3>1. {resync} \in SUBSET Slots
      BY <1>3 DEF EndRebuild, VolumeInv, RegistryInv, RegistryTyped
    <3> QED
      BY <2>1, <2>3, <3>1, NoneLive DEF States
  <2>4. CASE UNCHANGED <<state, live, write, behind>>
    BY <1>0, <2>1, <2>4
  <2> QED
    BY <1>3, <2>2, <2>3, <2>4 DEF EndRebuild
<1>4. ASSUME NEW s \in Slots, Fail(s)
      PROVE  StaleInv'
  BY <1>4, NoneLive DEF Fail, States
<1>5. ASSUME NEW a \in Adapter, Rejoin(a)
      PROVE  StaleInv'
  <2> DEFINE s == volumeSlot[a]
  <2>1. s \in Slots /\ s \in Present /\ UNCHANGED <<geometry, disk, members, behind>>
    BY <1>5, AssemblyConstants DEF Rejoin, Present
  <2>2. CASE geometry.level \in Mirrored
    BY <1>5, <2>1, <2>2, NoneLive DEF Rejoin, States
  <2>3. CASE geometry.level \notin Mirrored
    <3>1. live' = live \cup {s} /\ write' = write \cup {s}
      BY <1>5, <2>3 DEF Rejoin, SetState
    <3>2. disk # None => members[s] \notin behind
      BY <2>1, <2>3 DEF StaleInv
    <3> QED
      BY <2>1, <3>1, <3>2 DEF StaleInv, NoStaleServed, Present
  <2> QED
    BY <2>2, <2>3
<1>6. CASE Unload \/ \E a \in Adapter : Remove(a) \/ CancelTimer(a) \/ Freeze(a) \/ Thaw(a)
  BY <1>0, <1>6 DEF Unload, Remove, CancelTimer, Freeze, Thaw
<1>7. CASE \E x \in Actors : BeginTeardown(x) \/ FlushTimer(x) \/ RemoveGroup(x)
  BY <1>0, <1>7 DEF BeginTeardown, FlushTimer, RemoveGroup
<1>8. ASSUME NEW a \in Adapter, Look(a) \/ StopCopy(a)
      PROVE  StaleInv'
  BY <1>0, <1>8, StopStale DEF Look, StopCopy
<1>9. ASSUME NEW x \in Actors, StopForTeardown(x)
      PROVE  StaleInv'
  BY <1>9, StopStale DEF StopForTeardown
<1>10. ASSUME NEW a \in Adapter, Decide(a)
       PROVE  StaleInv'
  <2>1. SlotOf(a) # -1 => {SlotOf(a)} \in SUBSET Slots
    BY SlotOfAdapter
  <2> QED
    BY <1>0, <1>10, <2>1, NoneLive DEF Decide, KeepVolume, States
<1>11. ASSUME NEW a \in Adapter, ClearSlot(a)
       PROVE  StaleInv'
  <2>1. /\ UNCHANGED <<geometry, disk, behind, live, write>>
        /\ members' = [members EXCEPT ![at[a].slot] = None]
        /\ at[a].slot \notin live
    BY <1>11 DEF ClearSlot, VolumeInv, RegistryInv, Kept
  <2>2. \A s \in Present' : s \in Present /\ members'[s] = members[s]
    BY <1>t, <2>1 DEF Present
  <2>3. \A s \in live' : members'[s] = members[s]
    BY <1>t, <2>1
  <2> QED
    BY <2>1, <2>2, <2>3, ServesLess DEF StaleInv
<1>12. ASSUME NEW x \in Actors, ClearRegistry(x)
       PROVE  StaleInv'
  BY <1>12, NobodyBehind DEF ClearRegistry
<1>13. CASE Assemble
  <2>1. CASE Degradable
    <3>1. disk = None /\ live' \subseteq write'
      BY <1>13, <2>1 DEF Assemble, Degradable, SetState, RollBack, StaleInv
    <3> QED
      BY <1>13, <2>1, <3>1, NobodyBehind DEF Assemble, CreateDisk
  <2> QED
    BY <1>0, <1>13, <2>1 DEF Assemble
<1>14. ASSUME NEW a \in Adapter, Probe(a)
       PROVE  StaleInv'
  <2>1. CASE Orphan(a)
    BY <1>0, <2>1 DEF Orphan
  <2>2. CASE Ignore(a)
    <3>1. disk # None => geometry' = geometry
      BY <2>2, AssemblyConstants DEF Ignore, Note, VolumeInv, Counted
    <3> QED
      BY <2>2, <3>1 DEF Ignore, StaleInv, NoStaleServed, Present
  <2>3. CASE ReAdd(a)
    <3> DEFINE pos == Label(a).pos
    <3>1. /\ disk # None /\ geometry.level \in Mirrored /\ pos \in Slots
          /\ members[pos] = None
          /\ disk' = disk /\ behind' = behind
      BY <2>3 DEF ReAdd, Joins, Fits, Vacant, InRange
    <3>2. geometry' = geometry
      BY <2>3, <3>1, AssemblyConstants DEF ReAdd, Note, VolumeInv, Counted
    <3>3. live' \subseteq live /\ live' \subseteq write'
          /\ \A s \in live' : members'[s] = members[s]
      BY <1>t, <2>3, <3>1 DEF ReAdd, SetState, StaleInv, Present
    <3> QED
      BY <3>1, <3>2, <3>3 DEF StaleInv, NoStaleServed
  <2>4. CASE Join(a) \/ JoinLegacy(a)
    <3>1. disk = None /\ live' \subseteq write'
      BY <2>4 DEF Join, JoinLegacy, SetState, StaleInv
    <3>2. disk' = None \/ behind' = {}
      BY <2>4, <3>1 DEF Join, JoinLegacy, Complete, TryCreate, NoDisk, CreateDisk
    <3> QED
      BY <3>1, <3>2, NobodyBehind
  <2> QED
    BY <1>14, <2>1, <2>2, <2>3, <2>4 DEF Probe
<1>15. CASE UNCHANGED vars
  BY <1>0, <1>15 DEF vars
<1> QED
  BY <1>1, <1>2, <1>3, <1>4, <1>5, <1>6, <1>7, <1>8, <1>9, <1>10, <1>11, <1>12,
     <1>13, <1>14, <1>15 DEF Next, Removal, Teardown

\* A drive that missed a write of the running disk, because it had failed, was
\* unplugged, or was absent when the disk was assembled, serves no reads until a
\* complete copy of it.
THEOREM NothingStaleServed ==
  ASSUME Alone
  PROVE  Spec => []NoStaleServed
<1>1. Init => StaleInv
  BY DEF Init, StaleInv, NoStaleServed
<1>2. VolumeInv /\ StaleInv /\ [Next]_vars => StaleInv'
  BY StaleNext
<1>3. StaleInv => NoStaleServed
  BY DEF StaleInv
<1> QED
  BY <1>1, <1>2, <1>3, VolumeForms, PTL DEF Spec
-----------------------------------------------------------------------------
(* A disk never outgrows its registry.  Of the three races none may happen,  *)
(* and the drives all have records or have none: bus order takes the slots   *)
(* to be filled from the first, which a record need not do.                  *)

Uniform == \A f \in Fleets : \A a, b \in DOMAIN f.label : f.label[a].ld = f.label[b].ld

\* Nobody's drive has a record.
Unrecorded == \A a \in DOMAIN fleet.label : ~Label(a).ld

\* A teardown past its cancelling of the timer.
Stopping == {"t_stop", "t_group", "t_clear"}

FitInv ==
  /\ VolumeFit /\ GroupHasDisk
  /\ \A x \in Actors : /\ at[x].pc \in Stopping => ~armed
                       /\ at[x].pc = "t_clear" => ~group
  /\ \A a \in Adapter : at[a].pc \in Keeping => geometry.level \in Mirrored
  /\ Unrecorded => /\ geometry.level = "RAID0"
                   /\ \A s \in 0 .. count - 1 : members[s] # None

\* Steps that leave members and disk alone: nothing arms the timer, the group
\* goes before a teardown clears the registry, and only a mirror is kept.
LEMMA FitsOn ==
  ASSUME FitInv,
         UNCHANGED <<fleet, members, count, geometry, disk, pools, oops>>,
         armed' => armed, group' => group,
         \A x \in Actors : /\ at'[x].pc \in Stopping => at[x].pc \in Stopping \/ ~armed'
                           /\ at'[x].pc = "t_clear" => at[x].pc = "t_clear" \/ ~group',
         \A a \in Adapter : at'[a].pc \in Keeping =>
                              at[a].pc \in Keeping \/ geometry.level \in Mirrored
  PROVE  FitInv'
<1>1. Present' = Present
  BY DEF Present
<1>2. VolumeFit'
  BY <1>1 DEF FitInv, VolumeFit, MembersFit, NeverOops, Label
<1> QED
  BY <1>2 DEF FitInv, GroupHasDisk, Unrecorded, Label

\* A running volume and the steps towards a decision.
LEMMA FitWalks ==
  ASSUME VolumeInv, FitInv,
         \/ Write \/ StartRebuild \/ EndRebuild \/ Unload
         \/ \E s \in Slots : Fail(s)
         \/ \E a \in Adapter : \/ Rejoin(a) \/ Remove(a) \/ Look(a) \/ CancelTimer(a)
                               \/ StopCopy(a) \/ Decide(a)
         \/ \E x \in Actors : BeginTeardown(x) \/ FlushTimer(x) \/ StopForTeardown(x)
  PROVE  FitInv'
<1> USE DEF registry, health, diskVars, control
<1>t. at \in [Actors -> [pc : Places, slot : Slots \cup {-1}]]
  BY DEF VolumeInv, RegistryInv, RegistryTyped
<1>1. CASE Write \/ StartRebuild \/ EndRebuild \/ \E s \in Slots : Fail(s)
  <2>1. UNCHANGED <<fleet, members, count, geometry, disk, pools, oops, armed, group, at>>
    BY <1>1 DEF Write, StartRebuild, EndRebuild, Fail
  <2> QED
    BY <2>1, FitsOn
<1>2. CASE \E a \in Adapter : Rejoin(a)
  BY <1>2, FitsOn DEF Rejoin
<1>3. CASE Unload
  <2>1. \A x \in Actors : at'[x].pc = at[x].pc \/ at'[x].pc = "t_lock"
    BY <1>t, <1>3 DEF Unload, Go
  <2> QED
    BY <1>3, <2>1, FitsOn DEF Unload, Stopping, Keeping, Actors
<1>4. ASSUME NEW a \in Adapter, Remove(a) \/ Look(a) \/ CancelTimer(a) \/ StopCopy(a)
      PROVE  FitInv'
  <2>1. \A x \in Actors : at'[x].pc = at[x].pc
                          \/ at'[x].pc \in {"look", "cancel", "out", "stop", "decide"}
    BY <1>t, <1>4 DEF Remove, Look, CancelTimer, StopCopy, Go
  <2> QED
    BY <1>4, <2>1, FitsOn DEF Remove, Look, CancelTimer, StopCopy, Stopping, Keeping, Actors
<1>5. ASSUME NEW a \in Adapter, Decide(a)
      PROVE  FitInv'
  <2>1. \A x \in Actors : at'[x].pc = at[x].pc \/ at'[x].pc \in {"out", "t_lock"}
                          \/ (at'[x].pc = "freeze" /\ geometry.level \in Mirrored)
    BY <1>t, <1>5 DEF Decide, KeepVolume
  <2> QED
    BY <1>5, <2>1, FitsOn DEF Decide, Stopping, Keeping, Actors
<1>6. ASSUME NEW x \in Actors, BeginTeardown(x) \/ FlushTimer(x) \/ StopForTeardown(x)
      PROVE  FitInv'
  <2>1. CASE BeginTeardown(x)
    <3>1. \A y \in Actors : at'[y].pc = at[y].pc \/ at'[y].pc = "t_flush"
      BY <1>t, <2>1 DEF BeginTeardown, Go
    <3> QED
      BY <2>1, <3>1, FitsOn DEF BeginTeardown, Stopping, Keeping, Actors
  <2>2. CASE FlushTimer(x)
    <3>1. \A y \in Actors : at'[y].pc = at[y].pc \/ at'[y].pc = "t_stop"
      BY <1>t, <2>2 DEF FlushTimer, Go
    <3> QED
      BY <2>2, <3>1, FitsOn DEF FlushTimer, Stopping, Keeping, Actors
  <2>3. CASE StopForTeardown(x)
    <3>1. \A y \in Actors : at'[y].pc = at[y].pc
                            \/ (at'[y].pc = "t_group" /\ at[y].pc = "t_stop")
      BY <1>t, <2>3 DEF StopForTeardown, Go
    <3> QED
      BY <2>3, <3>1, FitsOn DEF StopForTeardown, Stopping, Keeping, Actors
  <2> QED
    BY <1>6, <2>1, <2>2, <2>3
<1> QED
  BY <1>1, <1>2, <1>3, <1>4, <1>5, <1>6

\* The steps that follow rc_volume_disk find it.
LEMMA FitFollows ==
  ASSUME VolumeInv, FitInv,
         \/ \E a \in Adapter : Freeze(a) \/ Thaw(a)
         \/ \E x \in Actors : RemoveGroup(x)
  PROVE  FitInv'
<1> USE DEF registry, health, diskVars, control
<1>t. at \in [Actors -> [pc : Places, slot : Slots \cup {-1}]]
  BY DEF VolumeInv, RegistryInv, RegistryTyped
<1>1. ASSUME NEW a \in Adapter, Freeze(a) \/ Thaw(a)
      PROVE  FitInv'
  <2>1. disk # None
    BY <1>1 DEF Freeze, Thaw, VolumeInv, RegistryInv, Kept, Keeping
  <2>2. \A x \in Actors : \/ at'[x].pc = at[x].pc \/ at'[x].pc = "out"
                          \/ at'[x].pc = "clear" /\ at[x].pc = "freeze"
    BY <1>t, <1>1, <2>1 DEF Freeze, Thaw, Go
  <2> QED
    BY <1>1, <2>1, <2>2, FitsOn DEF Freeze, Thaw, Stopping, Keeping, Actors
<1>2. ASSUME NEW x \in Actors, RemoveGroup(x)
      PROVE  FitInv'
  <2>1. ~(group /\ disk = None)
    BY DEF FitInv, GroupHasDisk
  <2>2. \A y \in Actors : \/ at'[y].pc = at[y].pc
                          \/ at'[y].pc = "t_clear" /\ at[y].pc = "t_group"
    BY <1>t, <1>2, <2>1 DEF RemoveGroup, Go
  <2> QED
    BY <1>2, <2>1, <2>2, FitsOn DEF RemoveGroup, Stopping, Keeping, Actors
<1> QED
  BY <1>1, <1>2

\* A slot goes with its slice of the pool, all slots with the disk.
LEMMA FitClears ==
  ASSUME VolumeInv, FitInv,
         \/ \E a \in Adapter : ClearSlot(a)
         \/ \E x \in Actors : ClearRegistry(x)
  PROVE  FitInv'
<1> USE DEF registry, health, diskVars, control
<1>t. /\ at \in [Actors -> [pc : Places, slot : Slots \cup {-1}]]
      /\ members \in [Slots -> Adapter \cup {None}]
  BY DEF VolumeInv, RegistryInv, RegistryTyped
<1>1. ASSUME NEW a \in Adapter, ClearSlot(a)
      PROVE  FitInv'
  <2>1. disk # None /\ geometry.level \in Mirrored /\ at[a].slot \in Slots
    BY <1>1 DEF ClearSlot, VolumeInv, RegistryInv, Kept, FitInv, Keeping
  <2>2. Present' = Present \ {at[a].slot}
        /\ \A s \in Present' : members'[s] = members[s]
    BY <1>t, <1>1, <2>1 DEF ClearSlot, Present
  <2>3. VolumeFit'
    BY <1>1, <2>1, <2>2 DEF ClearSlot, FitInv, VolumeFit, MembersFit, NeverOops, Label
  <2>4. \A x \in Actors : at'[x].pc = at[x].pc
                          \/ (at'[x].pc = "thaw" /\ at[x].pc = "clear")
    BY <1>t, <1>1 DEF ClearSlot, Go
  <2>5. ~Unrecorded'
    BY <1>1, <2>1 DEF ClearSlot, FitInv, Unrecorded, Mirrored, Label
  <2> QED
    BY <1>1, <2>3, <2>4, <2>5 DEF ClearSlot, FitInv, GroupHasDisk, Stopping, Keeping, Actors
<1>2. ASSUME NEW x \in Actors, ClearRegistry(x)
      PROVE  FitInv'
  <2>1. ~group' /\ Present' = {}
    BY <1>2 DEF ClearRegistry, FitInv, Present
  <2>2. VolumeFit'
    BY <1>2, <2>1 DEF ClearRegistry, FitInv, VolumeFit, MembersFit, NeverOops
  <2>3. \A y \in Actors : at'[y].pc = at[y].pc \/ at'[y].pc = "out"
    BY <1>t, <1>2 DEF ClearRegistry
  <2>4. geometry'.level = geometry.level /\ count' = 0
    BY <1>2 DEF ClearRegistry, VolumeInv, RestTyped
  <2> QED
    BY <1>2, <2>1, <2>2, <2>3, <2>4
       DEF ClearRegistry, FitInv, GroupHasDisk, Stopping, Keeping, Actors, Unrecorded, Label
<1> QED
  BY <1>1, <1>2

\* What a created disk is given.
LEMMA FitMade ==
  ASSUME fleet \in Fleets, fleet' = fleet, RegistryInv', Known', Present' # {},
         untrusted' \in BOOLEAN, CreateDisk, ~oops'
  PROVE  VolumeFit' /\ GroupHasDisk'
<1>1. /\ Present' \in SUBSET Slots /\ count' \in Nat
      /\ members' \in [Slots -> Adapter \cup {None}]
  BY AssemblyConstants DEF RegistryInv, RegistryTyped, Present
<1>2. disk' # None /\ \A s \in Present' : Label(members'[s]).queues >= disk'.nrHw
  BY <1>1, DiskMade
<1>3. pools' = Present'
  BY DEF CreateDisk
<1> QED
  BY <1>2, <1>3 DEF VolumeFit, MembersFit, NeverOops, GroupHasDisk, Label

LEMMA FitAssembles ==
  ASSUME VolumeInv, VolumeInv', FitInv, Assemble
  PROVE  FitInv'
<1> USE DEF diskVars
<1>1. /\ fleet' = fleet /\ members' = members /\ geometry' = geometry /\ at' = at
      /\ oops' = oops /\ armed /\ ~armed' /\ Present' = Present
  BY DEF Assemble, Present
<1>2. \A x \in Actors : at[x].pc \notin Stopping
  BY <1>1 DEF FitInv
<1>3. CASE Degradable /\ CreateDisk /\ UNCHANGED untrusted
  <2>1. Present' # {}
    <3>1. Present \cap (0 .. geometry.expected - 1) # {}
      BY <1>3, FS_EmptySet DEF Degradable
    <3> QED
      BY <1>1, <3>1
  <2>2. VolumeFit' /\ GroupHasDisk'
    BY <1>1, <1>3, <2>1, FitMade
       DEF VolumeInv, RestTyped, FitInv, VolumeFit, NeverOops
  <2>3. ~Unrecorded'
    BY <1>1, <1>3 DEF Degradable, Mirrored, FitInv, Unrecorded, Label
  <2> QED
    BY <1>1, <1>2, <2>2, <2>3 DEF FitInv, Stopping
<1>4. CASE UNCHANGED <<count, disk, pools, group>>
  BY <1>1, <1>4, FitsOn
<1> QED
  BY <1>3, <1>4 DEF Assemble

\* The registrations find, without records, the slots filled in order.
LEMMA FitProbes ==
  ASSUME Uniform, Admit = {}, VolumeInv, VolumeInv', FitInv,
         NEW a \in Adapter, Probe(a)
  PROVE  FitInv'
<1> USE DEF registry, health, diskVars, control
<1>1. /\ a \in DOMAIN fleet.label /\ fleet' = fleet /\ fleet \in Fleets
      /\ \A x \in Actors : at[x].pc \notin Stopping
      /\ at' = [at EXCEPT ![a].pc = "in"]
  BY DEF Probe, VolumeInv, RestTyped, Stopping, Go
<1>2. \A x \in Actors : at'[x].pc = at[x].pc \/ at'[x].pc = "in"
  BY <1>1 DEF VolumeInv, RegistryInv, RegistryTyped
<1>3. ASSUME VolumeFit', GroupHasDisk', geometry' = geometry \/ disk = None,
             Unrecorded => /\ geometry'.level = "RAID0"
                           /\ \A s \in 0 .. count' - 1 : members'[s] # None
      PROVE  FitInv'
  <2>1. \A b \in Adapter : at'[b].pc \in Keeping => disk # None /\ at[b].pc \in Keeping
    BY <1>2 DEF VolumeInv, RegistryInv, Kept, Keeping, Actors
  <2>2. Unrecorded' <=> Unrecorded
    BY <1>1 DEF Unrecorded, Label
  <2> QED
    BY <1>1, <1>2, <1>3, <2>1, <2>2 DEF FitInv, Stopping
<1>4. Unrecorded <=> ~Label(a).ld
  BY <1>1 DEF Uniform, Unrecorded, Label
<1>5. ASSUME Agrees(a), ~Label(a).ld
      PROVE  GeometryOf(a).level = "RAID0"
  BY <1>5 DEF GeometryOf, LevelOf
<1>6. CASE Orphan(a)
  BY <1>1, <1>2, <1>6, FitsOn DEF Orphan, Stopping, Keeping, Actors
<1>7. CASE Ignore(a)
  <2>1. /\ UNCHANGED <<members, count, disk, pools, group, oops>>
        /\ geometry' = geometry \/ disk = None
    BY <1>7, AssemblyConstants DEF Ignore, Note, VolumeInv, Counted
  <2>2. Present' = Present
    BY <2>1 DEF Present
  <2>3. VolumeFit' /\ GroupHasDisk'
    BY <1>1, <2>1, <2>2 DEF FitInv, VolumeFit, MembersFit, NeverOops, GroupHasDisk, Label
  <2>4. Unrecorded => geometry'.level = "RAID0"
    BY <1>4, <1>5, <1>7 DEF Ignore, Note, FitInv
  <2> QED
    BY <1>3, <2>1, <2>3, <2>4 DEF FitInv
<1>8. CASE ReAdd(a)
  <2> DEFINE pos == Label(a).pos
  <2>1. /\ disk # None /\ pos \in Slots /\ members[pos] = None /\ Label(a).ld
        /\ Label(a).queues >= disk.nrHw /\ UNCHANGED <<disk, group, count, oops>>
        /\ Note(a)
    BY <1>8 DEF ReAdd, Joins, Fits, Vacant, InRange
  <2>2. geometry' = geometry
    BY <2>1, AssemblyConstants DEF Note, VolumeInv, Counted
  <2>3. VolumeFit'
    <3>1. CASE members' = [members EXCEPT ![pos] = a] /\ pools' = pools \cup {pos}
      <4>1. Present' = Present \cup {pos} /\ members'[pos] = a
            /\ \A s \in Present : s # pos /\ members'[s] = members[s]
        BY <2>1, <3>1, AssemblyConstants DEF Present, VolumeInv, RegistryInv, RegistryTyped
      <4> QED
        BY <1>1, <2>1, <3>1, <4>1 DEF FitInv, VolumeFit, MembersFit, NeverOops, Label
    <3>2. CASE members' = members /\ pools' = pools
      BY <1>1, <2>1, <3>2 DEF FitInv, VolumeFit, MembersFit, NeverOops, Label, Present
    <3> QED
      BY <1>8, <3>1, <3>2 DEF ReAdd
  <2>4. GroupHasDisk' /\ ~Unrecorded
    BY <1>4, <2>1 DEF GroupHasDisk
  <2> QED
    BY <1>3, <2>2, <2>3, <2>4
<1>9. ASSUME Complete, disk = None, oops' = oops, Present' # {}
      PROVE  VolumeFit' /\ GroupHasDisk'
  <2>1. CASE CreateDisk
    BY <1>1, <1>9, <2>1, FitMade DEF VolumeInv, RestTyped, FitInv, VolumeFit, NeverOops
  <2>2. CASE UNCHANGED <<disk, pools, group>>
    BY <1>9, <2>2 DEF FitInv, VolumeFit, MembersFit, NeverOops, GroupHasDisk
  <2> QED
    BY <1>9, <2>1, <2>2 DEF Complete, TryCreate, NoDisk
<1>10. CASE Join(a)
  <2>1. Label(a).pos \in Present'
    BY <1>1, <1>10, JoinForms
  <2>2. disk = None /\ Label(a).ld /\ Complete /\ oops' = oops
    BY <1>10 DEF Join
  <2> QED
    BY <1>3, <1>4, <1>9, <2>1, <2>2
<1>11. CASE JoinLegacy(a)
  <2>1. disk = None /\ ~Label(a).ld /\ Agrees(a)
    BY <1>11 DEF JoinLegacy, Joins
  <2>2. \A s \in 0 .. count - 1 : members[s] # None
    BY <1>4, <2>1 DEF FitInv
  <2>3. /\ Present' = Present \cup 0 .. count /\ count' = count + 1
        /\ geometry' = GeometryOf(a)
    BY <1>1, <1>11, <2>2, InsertForms
  <2>4. Complete /\ oops' = oops
    BY <1>11, <2>2 DEF JoinLegacy
  <2>5. count \in Nat
    BY AssemblyConstants DEF VolumeInv, RegistryInv, RegistryTyped
  <2>6. \A s \in 0 .. count' - 1 : members'[s] # None
    BY <2>3, <2>5 DEF Present
  <2>7. Present' # {}
    <3>1. 0 \in 0 .. count
      BY <2>5
    <3> QED
      BY <2>3, <3>1
  <2> QED
    BY <1>3, <1>5, <1>9, <2>1, <2>3, <2>4, <2>6, <2>7
<1> QED
  BY <1>6, <1>7, <1>8, <1>10, <1>11 DEF Probe

LEMMA FitInit == Init => FitInv
<1> SUFFICES ASSUME Init PROVE FitInv
  OBVIOUS
<1>1. Present = {}
  BY DEF Init, Present
<1>2. VolumeFit /\ GroupHasDisk
  BY <1>1 DEF Init, VolumeFit, MembersFit, NeverOops, GroupHasDisk
<1> QED
  BY <1>2 DEF Init, FitInv, Stopping, Keeping, Actors

\* While there is a disk, the slices of its PRP pool are those of the members that
\* are present, and every such member has an I/O queue for each hardware context of
\* the disk; and no step follows a rc_volume_disk or rc_volume_members[] pointer
\* that is gone.
THEOREM VolumeAlwaysFits ==
  ASSUME Admit = {}, Uniform
  PROVE  Spec => []VolumeFit
<1>0. Alone
  BY DEF Alone
<1>1. VolumeInv /\ VolumeInv' /\ FitInv /\ [Next]_vars => FitInv'
  <2> SUFFICES ASSUME VolumeInv, VolumeInv', FitInv, [Next]_vars
               PROVE  FitInv'
    OBVIOUS
  <2>1. CASE UNCHANGED vars
    BY <2>1, FitsOn DEF vars, registry, health, diskVars, control
  <2> QED
    BY <2>1, FitWalks, FitFollows, FitClears, FitAssembles, FitProbes
       DEF Next, Removal, Teardown
<1>2. FitInv => VolumeFit
  BY DEF FitInv
<1> QED
  BY <1>0, <1>1, <1>2, FitInit, VolumeForms, PTL DEF Spec

=============================================================================
