--------------------------- MODULE Devices_proofs ---------------------------
(* Proofs about the members and the devices they are on.                     *)
(* MemberState: types, that a failure lands, that the masks and the states   *)
(* agree whenever nobody is midway, and that one thread copies.  The first   *)
(* needs no assumption on the races; the second, that no thread fails to     *)
(* start for a member failed meanwhile; the others say besides that one      *)
(* thread copies at a time and that no failure outlasts a copy (Races = {}). *)
(* Adapter: that a probe that fails, a removal and an unload leave nothing,  *)
(* and that nobody inside the driver loses what it is about to touch.        *)
EXTENDS MemberState, Adapter, TLAPS, NaturalsInduction, WellFoundedInduction,
        FiniteSetTheorems

\* The steps of a copy that hold rc_volume_lock.
HoldPcs  == {"or_write", "or_live", "swap", "undo_write", "undo_live", "park",
             "park_write", "finish"}
\* The steps of a copy before it has served its member, and of one that parks it.
EarlyPcs == {"new", "check", "publish", "copy", "close", "lock", "or_write", "or_live",
             "park", "park_write"}

\* Who holds the lock is in the part of its code that takes it, and nobody else is.
LockInv ==
  /\ work # "idle" <=> lock = "work"
  /\ remover.pc = "mark" <=> lock = "remover"
  /\ \A c \in Copiers : copier[c].pc \in HoldPcs <=> lock = c

\* set_state runs for a holder of the lock, and until it returns the state is the
\* one it stored, or a failure that landed since.
SetInv ==
  /\ set.pc # "none" => lock \in {"admit", "work", "remover"} /\ work # "reap"
  /\ set.pc = "none" <=> set = NoSet
  /\ set.pc # "none" => set.m \in Members
  /\ set.pc # "none" => set.st # "LIVE" /\ state[set.m] \in {set.st, "FAILED"}
  /\ set.pc \in {"undo", "undo_write"} => state[set.m] = "FAILED"

\* What a mark_failed call knows: what it swaps is a served state, and what it
\* clears after its swap is failed.
FailSure ==
  \A f \in Failers :
    /\ failer[f].pc = "none" <=> failer[f].m = None
    /\ failer[f].pc = "swap" => failer[f].old \in Served
    /\ failer[f].pc \in {"clear_write", "clear_live"} => state[failer[f].m] = "FAILED"

\* ... unless a rebuild's thread was not created meanwhile, and parked it.
FailInv ==
  \A f \in Failers :
    /\ failer[f].pc = "none" <=> failer[f].m = None
    /\ failer[f].pc = "swap" => failer[f].old \in Served
    /\ failer[f].pc \in {"clear_write", "clear_live"} =>
         state[failer[f].m] = "FAILED" \/ "failed_start" \in Races

\* A call under way names its member.
CallInv ==
  /\ \A c \in Copiers :
       /\ copier[c].pc = "none" <=> copier[c].m = None
       /\ copier[c].pc \in {"none", "new"} => ~copier[c].ok /\ copier[c].at = 0
  /\ remover.pc = "none" <=> remover.m = None
  /\ remover.pc # "stop" => remover.t = None

\* Holds with a second copier and with failures of any length.
Base == TypeOK /\ LockInv /\ SetInv /\ FailInv /\ CallInv

\* Only a copy that has settled leaves its member live.
CopyInv ==
  \A c \in Copiers :
    /\ copier[c].pc \notin {"none", "finish"} => state[copier[c].m] # "LIVE"
    /\ copier[c].pc \in {"undo_write", "undo_live", "park_write"}
         => state[copier[c].m] \notin Served

\* One thread copies: the one the scheduler sees, or the one a removal waits for.
OneInv ==
  /\ thread # None \/ work # "idle" => remover.t = None
  /\ \A c \in Copiers :
       copier[c].pc # "none" => \/ copier[c].pc = "new" /\ work = "start"
                                \/ c \in {thread, remover.t} /\ work # "start"
  /\ work = "start" => thread = None
  /\ thread # None /\ done => copier[thread].pc = "none"
  /\ work = "reap" /\ thread # None => copier[thread].pc = "none"
  /\ \A c, d \in Copiers : copier[c].pc = "new" /\ copier[d].pc = "new" => c = d

\* A call that has found its member live has taken it out of the live mask, and no
\* copy of that member gets as far as putting it back before the store lands.
StoreInv ==
  \A f \in Failers : failer[f].pc = "store" =>
    /\ failer[f].m \notin live
    /\ \A c \in Copiers : copier[c].m = failer[f].m =>
         \/ copier[c].pc \in {"swap", "undo_write", "undo_live", "finish"}
         \/ /\ ~copier[c].ok /\ copier[c].at = 0
            /\ copier[c].pc \in {"new", "check", "publish", "close", "lock", "park",
                                 "park_write"}

\* A member reads go to is live, or somebody is midway; a live member that reads do
\* not go to is about to be failed.
LiveInv ==
  /\ \A c \in Copiers : copier[c].pc \in EarlyPcs => copier[c].m \notin live
  /\ \A m \in live :
       \/ state[m] = "LIVE"
       \/ set.m = m /\ set.pc = "live"
       \/ \E f \in Failers : failer[f].m = m /\ failer[f].pc \in {"clear_write", "clear_live"}
       \/ \E c \in Copiers : copier[c].m = m
                             /\ copier[c].pc \in {"swap", "undo_write", "undo_live"}
  /\ \A m \in Members : state[m] = "LIVE" /\ m \notin live =>
       \E f \in Failers : failer[f].m = m /\ failer[f].pc = "store"
  /\ \A c \in Copiers :
       copier[c].pc = "swap" /\ state[copier[c].m] = "RESYNCING" /\ copier[c].m \notin live
         => \E f \in Failers : failer[f].m = copier[c].m /\ failer[f].pc = "store"

\* A served member that misses writes is about to be failed, or is about to get
\* them; a parked member that gets them is about to lose them.
WriteInv ==
  \A m \in Members :
    /\ state[m] \in Served /\ m \notin write =>
         \/ set.m = m /\ set.pc \in {"live", "write"}
         \/ \E f \in Failers : failer[f].m = m
                               /\ failer[f].pc \in {"fetch", "store", "read", "swap"}
    /\ state[m] = "NEEDS_RESYNC" /\ m \in write =>
         \/ set.m = m /\ set.pc \in {"live", "write"}
         \/ \E c \in Copiers : copier[c].m = m
              /\ copier[c].pc \in {"or_live", "swap", "undo_write", "park_write"}

-----------------------------------------------------------------------------
\* With one copier, and no failure that outlasts a copy.
Deep == Base /\ Races = {} /\ OneInv /\ CopyInv /\ StoreInv /\ LiveInv /\ WriteInv

\* The scan for the first parked member finds one.
LEMMA LeastMember ==
  ASSUME NEW T \in SUBSET Members, T # {}
  PROVE  (CHOOSE m \in T : \A n \in T : m <= n) \in T
<1> USE MemberAssumption
<1>1. PICK x \in T : \A y \in T : ~ (<<y, x>> \in OpToRel(<, Nat))
  BY NatLessThanWellFounded, WFMin
<1>2. \A y \in T : y \in Nat /\ x \in Nat
  OBVIOUS
<1>3. \A y \in T : ~ (y < x)
  BY <1>1, <1>2 DEF OpToRel
<1>4. \A y \in T : x <= y
  BY <1>2, <1>3
<1> QED
  BY <1>4

\* Telling a copier to stop leaves it a copier.
LEMMA ToldToStop ==
  ASSUME copier \in [Copiers -> Copier], NEW c \in Copiers
  PROVE  [copier EXCEPT ![c].stop = TRUE] \in [Copiers -> Copier]
<1>1. [copier[c] EXCEPT !.stop = TRUE] \in Copier
  BY Zenon DEF Copier
<1>2. [copier EXCEPT ![c].stop = TRUE] = [copier EXCEPT ![c] = [copier[c] EXCEPT !.stop = TRUE]]
  OBVIOUS
<1> QED
  BY <1>1, <1>2

\* Types, at the start and across each kind of step.
LEMMA TypeInit == Init => TypeOK
<1> SUFFICES ASSUME Init PROVE TypeOK
  OBVIOUS
<1> USE MemberAssumption
<1>1. NoSet \in SetCall /\ NoFail \in FailCall /\ NoCopy \in Copier /\ Idle \in Remover
  BY DEF NoSet, NoFail, NoCopy, Idle, SetCall, FailCall, Copier, Remover, States
<1>2. state \in [Members -> States]
  BY DEF Init, States
<1>3. 0 \in 0 .. MaxEvents /\ failer \in [Failers -> FailCall] /\ copier \in [Copiers -> Copier]
  BY <1>1 DEF Init
<1>4. present \subseteq Members /\ live = present /\ write = present
  BY DEF Init
<1> QED
  BY <1>1, <1>2, <1>3, <1>4 DEF Init, TypeOK

\* rc_volume_member_set_state.
LEMMA TypeSet == Base /\ SetStep => TypeOK'
<1> SUFFICES ASSUME Base, SetStep PROVE TypeOK'
  OBVIOUS
<1> USE DEF Base
<1> USE MemberAssumption
<1>0. NoSet \in SetCall
  BY DEF SetCall, NoSet, States
<1>1. set' \in SetCall
  BY <1>0 DEF TypeOK, SetStep, SetLive, SetWrite, SetRecheck, SetUndo, SetCall
<1>2. live' \subseteq Members /\ write' \subseteq Members /\ UNCHANGED state /\ set # NoSet
  <2>1. set.pc # "none" => set.m \in Members
    BY DEF SetInv
  <2> QED
    BY <2>1 DEF TypeOK, SetStep, SetLive, SetWrite, SetRecheck, SetUndo, SetCall, NoSet,
       maskVars
<1> QED
  BY <1>1, <1>2 DEF TypeOK, SetStep, schedVars

\* rc_volume_member_mark_failed.
LEMMA TypeFail == ASSUME Base, NEW f \in Failers, FailStep(f) PROVE TypeOK'
<1> USE MemberAssumption DEF Base
<1>1. failer' \in [Failers -> FailCall]
  <2>0. NoFail \in FailCall /\ failer \in [Failers -> FailCall] /\ state \in [Members -> States]
    BY DEF TypeOK, NoFail, FailCall, States
  <2>1. CASE FailFetch(f)
    BY <2>0, <2>1 DEF FailFetch, FailCall
  <2>2. CASE FailStore(f)
    BY <2>0, <2>2 DEF FailStore
  <2>3. CASE FailRead(f)
    <3>1. state[failer[f].m] \in Served => state[failer[f].m] \in States
      BY DEF Served, States
    <3>2. \A x \in States : [failer[f] EXCEPT !.pc = "swap", !.old = x] \in FailCall
      BY <2>0 DEF FailCall
    <3> QED
      BY <2>0, <2>3, <3>1, <3>2 DEF FailRead
  <2>4. CASE FailSwap(f)
    BY <2>0, <2>4 DEF FailSwap, FailCall, States, Served
  <2>5. CASE FailClear(f)
    BY <2>0, <2>5 DEF FailClear, FailCall
  <2>6. ASSUME NEW m \in Members, FailStart(f, m) PROVE failer' \in [Failers -> FailCall]
    BY <2>0, <2>6 DEF FailStart, FailCall, States
  <2> QED
    BY <2>1, <2>2, <2>3, <2>4, <2>5, <2>6 DEF FailStep
<1>2. state' \in [Members -> States]
  <2>0. state \in [Members -> States] /\ "FAILED" \in States
    BY DEF TypeOK, States
  <2> QED
    BY <2>0 DEF FailStep, FailFetch, FailStore, FailRead, FailSwap, FailClear, FailStart,
       maskVars
<1>3. live' \subseteq Members /\ write' \subseteq Members /\ events' \in 0 .. MaxEvents
  BY  DEF TypeOK, FailStep, FailFetch, FailStore, FailRead, FailSwap, FailClear,
     FailStart, maskVars, Event
<1> QED
  BY <1>1, <1>2, <1>3 DEF TypeOK, FailStep, schedVars

\* Re-admission.
LEMMA TypeAdmit == Base /\ (ReadmitDone \/ \E m \in Members : Readmit(m)) => TypeOK'
<1> SUFFICES ASSUME Base, ReadmitDone \/ \E m \in Members : Readmit(m) PROVE TypeOK'
  OBVIOUS
<1> USE DEF Base
<1> USE MemberAssumption
<1>1. CASE ReadmitDone
  BY <1>1 DEF TypeOK, ReadmitDone, maskVars
<1>2. ASSUME NEW m \in Members, Readmit(m) PROVE TypeOK'
  <2>1. state' \in [Members -> States] /\ set' \in SetCall
    BY <1>2 DEF Readmit, Store, TypeOK, States, SetCall
  <2> QED
    BY <1>2, <2>1 DEF TypeOK, Readmit, schedVars, maskVars
<1> QED
  BY <1>1, <1>2

\* rc_volume_rebuild_fn.
LEMMA TypeWork == Base /\ WorkStep => TypeOK'
<1> SUFFICES ASSUME Base, WorkStep PROVE TypeOK'
  OBVIOUS
<1> USE DEF Base
<1> USE MemberAssumption
<1>0. copier \in [Copiers -> Copier] /\ thread \in Copiers \cup {None} /\ NoCopy \in Copier
  BY DEF TypeOK, NoCopy, Copier
<1>1. CASE WorkBegin
  <2>1. copier' = copier \/ (thread # None /\ copier' = [copier EXCEPT ![thread].stop = TRUE])
    BY <1>1 DEF WorkBegin
  <2>2. copier' \in [Copiers -> Copier]
    BY <1>0, <2>1, ToldToStop
  <2> QED
    BY <1>1, <2>2 DEF TypeOK, WorkBegin, maskVars
<1>2. CASE WorkPick
  <2>1. CASE Parked = {}
    BY <1>2, <2>1 DEF TypeOK, WorkPick, maskVars, SetInv
  <2>2. CASE Parked # {}
    <3> DEFINE pick == CHOOSE m \in Parked : \A n \in Parked : m <= n
    <3>1. pick \in Members
      BY <2>2, LeastMember DEF Parked, TypeOK
    <3> HIDE DEF pick
    <3>2. copier' \in [Copiers -> Copier]
      <4>1. PICK c \in Copiers : copier' = [copier EXCEPT ![c] = [NoCopy EXCEPT !.pc = "new", !.m = pick]]
        BY <1>2, <2>2 DEF WorkPick, pick
      <4>2. [NoCopy EXCEPT !.pc = "new", !.m = pick] \in Copier
        BY <1>0, <3>1 DEF Copier
      <4> QED
        BY <1>0, <4>1, <4>2
    <3>3. Store(pick, "RESYNCING") /\ lock' = lock
      BY <1>2, <2>2 DEF WorkPick, pick
    <3>4. state' \in [Members -> States] /\ set' \in SetCall
      BY <3>1, <3>3 DEF Store, TypeOK, States, SetCall
    <3>5. work' = "start" /\ thread' = None /\ done' \in BOOLEAN
      BY <1>2, <2>2 DEF WorkPick, TypeOK
    <3>6. lock = "work"
      BY <1>2 DEF WorkPick, LockInv
    <3>7. UNCHANGED <<live, write, present, failer, nudged, window, remover, events, disturbed>>
      BY <1>2 DEF WorkPick
    <3> QED
      BY <3>2, <3>3, <3>4, <3>5, <3>6, <3>7 DEF TypeOK
  <2> QED
    BY <2>1, <2>2
<1>3. CASE WorkStart
  <2>1. copier' \in [Copiers -> Copier]
    BY <1>0, <1>3 DEF WorkStart, Copier
  <2> QED
    BY <1>3, <2>1 DEF TypeOK, WorkStart, maskVars
<1>4. CASE WorkNoThread
  <2>1. PICK c \in Copiers : /\ copier[c].pc = "new" /\ Store(copier[c].m, "NEEDS_RESYNC")
                             /\ copier' = [copier EXCEPT ![c] = NoCopy]
    BY <1>4 DEF WorkNoThread
  <2>2. copier' \in [Copiers -> Copier] /\ copier[c].m \in Members
    BY <1>0, <2>1 DEF CallInv, Copier
  <2>3. state' \in [Members -> States] /\ set' \in SetCall
    BY <2>1, <2>2 DEF Store, TypeOK, States, SetCall
  <2>4. lock' = "work" /\ events' \in 0 .. MaxEvents
    BY <1>4 DEF WorkNoThread, LockInv, Event, TypeOK
  <2> QED
    BY <1>4, <2>2, <2>3, <2>4 DEF TypeOK, WorkNoThread
<1>5. CASE WorkParked
  BY <1>5 DEF TypeOK, WorkParked, maskVars
<1> QED
  BY <1>1, <1>2, <1>3, <1>4, <1>5 DEF WorkStep

\* rc_volume_resync_fn.
LEMMA TypeCopy == ASSUME Base, NEW c \in Copiers, CopyStep(c) PROVE TypeOK'
<1> USE MemberAssumption DEF Base
<1>0. copier \in [Copiers -> Copier] /\ NoCopy \in Copier /\ Total \in Nat
  BY DEF TypeOK, NoCopy, Copier
<1>1. CASE CopyCheck(c)  
  <2>1. copier' \in [Copiers -> Copier]
    BY <1>0, <1>1 DEF CopyCheck, Copier, Step
  <2> QED
    BY <1>1, <2>1 DEF TypeOK, CopyCheck, CopyStep, maskVars
<1>2. CASE CopyPublish(c)
  <2>1. copier' \in [Copiers -> Copier]
    BY <1>0, <1>2 DEF CopyPublish, Copier, Step
  <2> QED
    BY <1>2, <2>1 DEF TypeOK, CopyPublish, CopyStep, maskVars
<1>3. CASE CopyChunk(c)
  <2>1. copier' \in [Copiers -> Copier]
    BY <1>0, <1>3 DEF CopyChunk, Copier, Step
  <2> QED
    BY <1>3, <2>1 DEF TypeOK, CopyChunk, CopyStep, maskVars, Event
<1>4. CASE CopyClose(c)
  <2>1. copier' \in [Copiers -> Copier]
    BY <1>0, <1>4 DEF CopyClose, Copier, Step
  <2> QED
    BY <1>4, <2>1 DEF TypeOK, CopyClose, CopyStep, maskVars
<1>5. CASE CopyLock(c)
  <2>1. copier' \in [Copiers -> Copier]
    BY <1>0, <1>5 DEF CopyLock, Copier, Step
  <2> QED
    BY <1>5, <2>1 DEF TypeOK, CopyLock, CopyStep, maskVars
<1>6. CASE CopySettle(c)
  <2>1. copier' \in [Copiers -> Copier]
    BY <1>0, <1>6 DEF CopySettle, Copier, Step
  <2>2. state' \in [Members -> States]
    <3>1. state \in [Members -> States] /\ {"LIVE", "NEEDS_RESYNC"} \subseteq States
      BY DEF TypeOK, States
    <3> QED
      BY <1>6, <3>1 DEF CopySettle
  <2>3. copier[c].pc # "none" => copier[c].m \in Members
    BY <1>0 DEF Copier, CallInv
  <2>4. live' \subseteq Members /\ write' \subseteq Members
    BY <1>6, <2>3 DEF CopySettle, TypeOK
  <2> QED
    BY <1>6, <2>1, <2>2, <2>4 DEF TypeOK, CopySettle, CopyStep, maskVars
<1>7. CASE CopyFinish(c)
  <2>1. copier' \in [Copiers -> Copier]
    BY <1>0, <1>7 DEF CopyFinish, Copier, Step
  <2>2. lock = c
    BY <1>7 DEF CopyFinish, LockInv, HoldPcs
  <2>3. set = NoSet
    BY <2>2 DEF TypeOK
  <2> QED
    BY <1>7, <2>1, <2>3 DEF TypeOK, CopyFinish, CopyStep, maskVars
<1> QED
  BY <1>1, <1>2, <1>3, <1>4, <1>5, <1>6, <1>7 DEF CopyStep

\* rc_volume_remove_member.
LEMMA TypeRemove == Base /\ RemoveStep => TypeOK'
<1> SUFFICES ASSUME Base, RemoveStep PROVE TypeOK'
  OBVIOUS
<1> USE DEF Base
<1> USE MemberAssumption
<1>0. remover \in Remover /\ Idle \in Remover
  BY DEF TypeOK, Idle, Remover
<1>1. CASE RemoveMark
  <2>1. remover.m \in Members
    BY <1>0, <1>1 DEF RemoveMark, CallInv, Remover
  <2>2. state' \in [Members -> States] /\ set' \in SetCall /\ remover' \in Remover
    BY <1>0, <1>1, <2>1 DEF RemoveMark, Store, TypeOK, States, SetCall, Remover
  <2> QED
    BY <1>1, <2>2 DEF TypeOK, RemoveMark, RemoveStep
<1>2. CASE RemoveMarked
  <2>1. remover' \in Remover
    BY <1>0, <1>2 DEF RemoveMarked, Remover
  <2> QED
    BY <1>2, <2>1 DEF TypeOK, RemoveMarked, RemoveStep, maskVars
<1>3. CASE RemoveDrop
  BY <1>0, <1>3 DEF TypeOK, RemoveDrop, RemoveStep, maskVars
<1>4. ASSUME NEW m \in Members, RemoveBegin(m) PROVE TypeOK'
  <2>0. /\ copier \in [Copiers -> Copier] /\ thread \in Copiers \cup {None}
        /\ copier' = copier \/ (thread # None /\ copier' = [copier EXCEPT ![thread].stop = TRUE])
    BY <1>4 DEF RemoveBegin, TypeOK
  <2>1. copier' \in [Copiers -> Copier]
    BY <2>0, ToldToStop
  <2>2. remover' \in Remover
    BY <1>4 DEF RemoveBegin, Remover, TypeOK
  <2>3. events' \in 0 .. MaxEvents
    BY <1>4 DEF RemoveBegin, Event, TypeOK
  <2> QED
    BY <1>4, <2>1, <2>2, <2>3 DEF TypeOK, RemoveBegin, RemoveStep, maskVars
<1> QED
  BY <1>1, <1>2, <1>3, <1>4 DEF RemoveStep

\* Picking parks no longer: the member is stored RESYNCING and a free thread gets it.
PicksFor(p, c, r) ==
  /\ state[p] = "NEEDS_RESYNC" /\ p \in present
  /\ state' = [state EXCEPT ![p] = "RESYNCING"]
  /\ set' = [pc |-> "live", m |-> p, st |-> "RESYNCING"]
  /\ copier[c].pc = "none" /\ c # remover.t
  /\ copier' = [copier EXCEPT ![c] = r]
  /\ r.pc = "new" /\ r.m = p /\ r.at = 0 /\ ~r.ok
  /\ work' = "start" /\ lock' = lock

\* That is what rc_volume_rebuild_fn does with a parked member.
LEMMA Picked ==
  ASSUME TypeOK, WorkPick, Parked # {}
  PROVE  \E p \in Members, c \in Copiers, r \in Copier : PicksFor(p, c, r)
<1> DEFINE pick == CHOOSE m \in Parked : \A n \in Parked : m <= n
           r == [NoCopy EXCEPT !.pc = "new", !.m = pick]
<1>1. pick \in Parked /\ pick \in Members
  BY LeastMember DEF Parked, TypeOK
<1>2. PICK c \in Copiers : Free(c) /\ copier' = [copier EXCEPT ![c] = r]
  BY DEF WorkPick
<1>3. Store(pick, "RESYNCING") /\ work' = "start" /\ lock' = lock
  BY DEF WorkPick
<1> HIDE DEF pick
<1>4. NoCopy \in Copier /\ NoCopy.at = 0 /\ ~NoCopy.ok
  BY MemberAssumption DEF NoCopy, Copier
<1>5. r \in Copier /\ r.pc = "new" /\ r.m = pick /\ r.at = 0 /\ ~r.ok
  BY <1>1, <1>4 DEF Copier
<1> HIDE DEF r
<1> QED
  BY <1>1, <1>2, <1>3, <1>5 DEF Store, Free, Parked, PicksFor

\* At the pick nobody else copies, sets a state or waits for a thread.
LEMMA PickFacts ==
  ASSUME Base, OneInv, WorkPick, NEW p \in Members, NEW c \in Copiers, NEW r \in Copier,
         PicksFor(p, c, r)
  PROVE  /\ \A d \in Copiers : copier[d].pc = "none" /\ copier[d].m = None
         /\ work = "reap" /\ lock = "work" /\ set.pc = "none" /\ set.m = None
         /\ remover.t = None /\ thread' = None /\ work' = "start"
         /\ UNCHANGED <<lock, live, write, present, failer, remover>>
         /\ set'.m = p /\ set'.pc = "live" /\ set'.st = "RESYNCING"
         /\ state[p] = "NEEDS_RESYNC" /\ state'[p] = "RESYNCING"
         /\ \A m \in Members \ {p} : state'[m] = state[m]
         /\ copier'[c] = r /\ r.pc = "new" /\ r.m = p /\ r.at = 0 /\ ~r.ok
         /\ \A d \in Copiers \ {c} : copier'[d] = copier[d]
<1>1. work = "reap" /\ lock = "work" /\ set = NoSet
  BY DEF Base, WorkPick, LockInv, SetInv
<1>2. \A d \in Copiers : copier[d].pc = "none" /\ copier[d].m = None
  BY <1>1, MemberAssumption DEF Base, WorkPick, OneInv, CallInv
<1>3. remover.t = None
  BY <1>1 DEF OneInv
<1>4. copier'[c] = r /\ \A d \in Copiers \ {c} : copier'[d] = copier[d]
  BY DEF PicksFor, Base, TypeOK
<1>5. state'[p] = "RESYNCING" /\ \A m \in Members \ {p} : state'[m] = state[m]
  BY DEF PicksFor, Base, TypeOK
<1> QED
  BY <1>1, <1>2, <1>3, <1>4, <1>5 DEF PicksFor, WorkPick, NoSet

\* One step of a settle: what it reads and the one store it does.
LEMMA SettleFacts ==
  ASSUME Base, NEW c \in Copiers, CopyStep(c), CopySettle(c)
  PROVE  /\ copier[c].m \in Members /\ copier'[c].m = copier[c].m
         /\ copier'[c].ok = copier[c].ok /\ copier'[c].at = copier[c].at
         /\ \A d \in Copiers \ {c} : copier'[d] = copier[d]
         /\ \A m \in Members \ {copier[c].m} : state'[m] = state[m]
         /\ UNCHANGED <<lock, set, failer, work, thread, done, remover>>
         /\ \/ /\ copier[c].pc = "or_write" /\ copier'[c].pc = "or_live"
               /\ write' = write \cup {copier[c].m} /\ UNCHANGED <<live, state>>
            \/ /\ copier[c].pc = "or_live" /\ copier'[c].pc = "swap"
               /\ live' = live \cup {copier[c].m} /\ UNCHANGED <<write, state>>
            \/ /\ copier[c].pc = "swap" /\ copier'[c].pc = "finish"
               /\ state[copier[c].m] = "RESYNCING" /\ state'[copier[c].m] = "LIVE"
               /\ UNCHANGED <<live, write>>
            \/ /\ copier[c].pc = "swap" /\ copier'[c].pc = "undo_write"
               /\ state[copier[c].m] # "RESYNCING" /\ UNCHANGED <<state, live, write>>
            \/ /\ copier[c].pc = "undo_write" /\ copier'[c].pc = "undo_live"
               /\ write' = write \ {copier[c].m} /\ UNCHANGED <<live, state>>
            \/ /\ copier[c].pc = "undo_live" /\ copier'[c].pc = "finish"
               /\ live' = live \ {copier[c].m} /\ UNCHANGED <<write, state>>
            \/ /\ copier[c].pc = "park" /\ copier'[c].pc = "park_write"
               /\ state[copier[c].m] = "RESYNCING"
               /\ state'[copier[c].m] = "NEEDS_RESYNC" /\ UNCHANGED <<live, write>>
            \/ /\ copier[c].pc = "park" /\ copier'[c].pc = "finish"
               /\ state[copier[c].m] # "RESYNCING" /\ UNCHANGED <<state, live, write>>
            \/ /\ copier[c].pc = "park_write" /\ copier'[c].pc = "finish"
               /\ write' = write \ {copier[c].m} /\ UNCHANGED <<live, state>>
<1>1. copier \in [Copiers -> Copier] /\ state \in [Members -> States]
  BY DEF Base, TypeOK
<1>2. copier[c].m \in Members
  BY <1>1 DEF Base, CallInv, CopySettle, Copier
<1>3. PICK pc \in {"or_live", "swap", "finish", "undo_write", "undo_live", "park_write"} :
        Step(c, pc)
  BY DEF CopySettle
<1>4. /\ copier'[c].m = copier[c].m /\ copier'[c].ok = copier[c].ok
      /\ copier'[c].at = copier[c].at /\ copier'[c].pc = pc
      /\ \A d \in Copiers \ {c} : copier'[d] = copier[d]
  BY <1>1, <1>3 DEF Step, Copier
<1>5. \A m \in Members \ {copier[c].m} : state'[m] = state[m]
  BY <1>1, <1>2 DEF CopySettle
<1>6. UNCHANGED <<lock, set, failer, work, thread, done, remover>>
  BY DEF CopyStep, CopySettle
<1>7. \A x \in {"or_live", "swap", "finish", "undo_write", "undo_live", "park_write"} :
        Step(c, x) => copier'[c].pc = x
  BY <1>1 DEF Step, Copier
<1> QED
  BY <1>1, <1>2, <1>4, <1>5, <1>6, <1>7 DEF CopySettle

\* The steps of a copy before its settle touch no mask and no state.
LEMMA MoveFacts ==
  ASSUME Base, NEW c \in Copiers, CopyStep(c),
         CopyCheck(c) \/ CopyPublish(c) \/ CopyChunk(c) \/ CopyClose(c)
  PROVE  /\ copier[c].pc \in {"check", "publish", "copy", "close"}
         /\ copier'[c].pc \in {"check", "publish", "copy", "close", "lock"}
         /\ copier'[c].m = copier[c].m
         /\ \A d \in Copiers \ {c} : copier'[d] = copier[d]
         /\ UNCHANGED <<state, live, write, lock, set, failer>>
<1>1. copier \in [Copiers -> Copier]
  BY DEF Base, TypeOK
<1>2. CASE CopyCheck(c)
  BY <1>1, <1>2 DEF CopyCheck, CopyStep, Step, Copier, maskVars
<1>3. CASE CopyPublish(c)
  BY <1>1, <1>3 DEF CopyPublish, CopyStep, Step, Copier, maskVars
<1>4. CASE CopyChunk(c)
  BY <1>1, <1>4 DEF CopyChunk, CopyStep, Step, Copier, maskVars
<1>5. CASE CopyClose(c)
  BY <1>1, <1>5 DEF CopyClose, CopyStep, Step, Copier, maskVars
<1> QED
  BY <1>2, <1>3, <1>4, <1>5

\* What the pick changes, member by member and thread by thread.
LEMMA PickPoints ==
  ASSUME Base, NEW p \in Members, NEW c \in Copiers, NEW r \in Copier, WorkPick,
         PicksFor(p, c, r)
  PROVE  /\ copier'[c] = r /\ \A d \in Copiers \ {c} : copier'[d] = copier[d]
         /\ state'[p] = "RESYNCING" /\ \A m \in Members \ {p} : state'[m] = state[m]
         /\ work = "reap" /\ lock = "work" /\ set.pc = "none"
         /\ r.pc = "new" /\ r.m = p /\ r.at = 0 /\ ~r.ok /\ copier[c].pc = "none"
         /\ state[p] = "NEEDS_RESYNC" /\ work' = "start" /\ UNCHANGED <<lock, remover, failer>>
         /\ set' = [pc |-> "live", m |-> p, st |-> "RESYNCING"]
<1>1. copier'[c] = r /\ \A d \in Copiers \ {c} : copier'[d] = copier[d]
  BY DEF PicksFor, Base, TypeOK
<1>2. state'[p] = "RESYNCING" /\ \A m \in Members \ {p} : state'[m] = state[m]
  BY DEF PicksFor, Base, TypeOK
<1>3. work = "reap" /\ lock = "work" /\ set.pc = "none"
  BY DEF WorkPick, Base, LockInv, SetInv
<1> QED
  BY <1>1, <1>2, <1>3 DEF PicksFor, WorkPick

\* A thread that is not created: its member is parked again.
ParksFor(c) ==
  /\ copier[c].pc = "new" /\ copier[c].m \in Members
  /\ work = "start" /\ work' = "park" /\ lock = "work" /\ set.pc = "none"
  /\ UNCHANGED <<lock, live, write, failer, thread, done, remover>>
  /\ copier'[c] = NoCopy /\ \A d \in Copiers \ {c} : copier'[d] = copier[d]
  /\ state[copier[c].m] = "FAILED" => "failed_start" \in Races
  /\ state'[copier[c].m] = "NEEDS_RESYNC"
  /\ \A n \in Members \ {copier[c].m} : state'[n] = state[n]
  /\ set' = [pc |-> "live", m |-> copier[c].m, st |-> "NEEDS_RESYNC"]

\* That is what rc_volume_rebuild_fn does when kthread_run fails.
LEMMA NoThreadFacts ==
  ASSUME Base, WorkNoThread
  PROVE  \E c \in Copiers : ParksFor(c)
<1>1. PICK c \in Copiers : /\ copier[c].pc = "new" /\ Store(copier[c].m, "NEEDS_RESYNC")
                           /\ copier' = [copier EXCEPT ![c] = NoCopy]
                           /\ state[copier[c].m] = "FAILED" => "failed_start" \in Races
  BY DEF WorkNoThread
<1>2. copier[c].m \in Members
  BY <1>1 DEF Base, TypeOK, CallInv, Copier
<1>3. copier'[c] = NoCopy /\ \A d \in Copiers \ {c} : copier'[d] = copier[d]
  BY <1>1 DEF Base, TypeOK
<1>4. /\ state'[copier[c].m] = "NEEDS_RESYNC"
      /\ \A n \in Members \ {copier[c].m} : state'[n] = state[n]
      /\ set' = [pc |-> "live", m |-> copier[c].m, st |-> "NEEDS_RESYNC"]
  BY <1>1, <1>2 DEF Store, Base, TypeOK
<1>5. work = "start" /\ work' = "park" /\ lock = "work" /\ set.pc = "none"
      /\ UNCHANGED <<lock, live, write, failer, thread, done, remover>>
  BY DEF WorkNoThread, Base, LockInv, SetInv
<1> QED
  BY <1>1, <1>2, <1>3, <1>4, <1>5 DEF ParksFor

\* The lock passes from hand to hand: every step keeps LockInv.
LEMMA LockNext == Base /\ Next => LockInv'
<1> SUFFICES ASSUME Base, Next PROVE LockInv'
  OBVIOUS
<1> USE MemberAssumption
<1>0. /\ LockInv /\ SetInv /\ CallInv /\ TypeOK
  BY DEF Base
<1>1. CASE SetStep
  BY <1>0, <1>1 DEF SetStep, SetLive, SetWrite, SetRecheck, SetUndo, LockInv, SetInv,
     CallInv, TypeOK, Copier, Remover, HoldPcs, schedVars, maskVars
<1>2. CASE ReadmitDone
  BY <1>0, <1>2 DEF ReadmitDone, LockInv, SetInv, CallInv, TypeOK, Copier, Remover,
     HoldPcs, maskVars
<1>3. CASE WorkBegin
  BY <1>0, <1>3 DEF WorkBegin, LockInv, SetInv, CallInv, TypeOK, Copier, Remover, HoldPcs,
     maskVars
<1>4. CASE WorkPick
  <2>1. CASE Parked = {}
    BY <1>0, <1>4, <2>1 DEF WorkPick, LockInv, SetInv, CallInv, TypeOK, Copier, HoldPcs,
       maskVars
  <2>2. CASE Parked # {}
    <3>1. PICK p \in Members, c \in Copiers, r \in Copier : PicksFor(p, c, r)
      BY <1>0, <1>4, <2>2, Picked
    <3> QED
      BY <1>0, <1>4, <3>1, PickPoints, MemberAssumption DEF LockInv, HoldPcs
  <2> QED
    BY <2>1, <2>2
<1>5. CASE WorkStart
  BY <1>0, <1>5 DEF WorkStart, LockInv, SetInv, CallInv, TypeOK, Copier, Remover, HoldPcs,
     maskVars
<1>6. CASE RemoveStep /\ RemoveMark
  BY <1>0, <1>6 DEF RemoveMark, RemoveStep, LockInv, SetInv, CallInv, TypeOK, Copier,
     Remover, HoldPcs, Store
<1>7. CASE RemoveStep /\ RemoveMarked
  BY <1>0, <1>7 DEF RemoveMarked, RemoveStep, LockInv, SetInv, CallInv, TypeOK, Copier,
     Remover, HoldPcs, maskVars
<1>8. CASE RemoveStep /\ RemoveDrop
  BY <1>0, <1>8 DEF RemoveDrop, RemoveStep, LockInv, SetInv, CallInv, TypeOK, Copier,
     Remover, HoldPcs, Idle, maskVars
<1>9. ASSUME NEW m \in Members, RemoveStep, RemoveBegin(m) PROVE LockInv'
  BY <1>0, <1>9 DEF RemoveBegin, RemoveStep, LockInv, SetInv, CallInv, TypeOK, Copier,
     Remover, HoldPcs, Idle, maskVars
<1>10. ASSUME NEW f \in Failers, NEW m \in Members, FailStep(f), FailStart(f, m) PROVE LockInv'
  BY <1>0, <1>10 DEF FailStart, FailStep, LockInv, SetInv, CallInv, TypeOK, Copier,
     Remover, HoldPcs, schedVars
<1>11. ASSUME NEW f \in Failers, FailStep(f), FailFetch(f) PROVE LockInv'
  BY <1>0, <1>11 DEF FailFetch, FailStep, LockInv, SetInv, CallInv, TypeOK, Copier,
     Remover, HoldPcs, schedVars
<1>12. ASSUME NEW f \in Failers, FailStep(f), FailStore(f) PROVE LockInv'
  BY <1>0, <1>12 DEF FailStore, FailStep, LockInv, SetInv, CallInv, TypeOK, Copier,
     Remover, HoldPcs, schedVars
<1>13. ASSUME NEW f \in Failers, FailStep(f), FailRead(f) PROVE LockInv'
  BY <1>0, <1>13 DEF FailRead, FailStep, LockInv, SetInv, CallInv, TypeOK, Copier,
     Remover, HoldPcs, schedVars, maskVars
<1>14. ASSUME NEW f \in Failers, FailStep(f), FailSwap(f) PROVE LockInv'
  BY <1>0, <1>14 DEF FailSwap, FailStep, LockInv, SetInv, CallInv, TypeOK, Copier,
     Remover, HoldPcs, schedVars
<1>15. ASSUME NEW f \in Failers, FailStep(f), FailClear(f) PROVE LockInv'
  BY <1>0, <1>15 DEF FailClear, FailStep, LockInv, SetInv, CallInv, TypeOK, Copier,
     Remover, HoldPcs, schedVars
<1>16. ASSUME NEW c \in Copiers, CopyStep(c), CopyCheck(c) PROVE LockInv'
  BY <1>0, <1>16 DEF CopyCheck, CopyStep, Step, LockInv, SetInv, CallInv, TypeOK, Copier,
     Remover, HoldPcs, maskVars
<1>17. ASSUME NEW c \in Copiers, CopyStep(c), CopyPublish(c) PROVE LockInv'
  BY <1>0, <1>17 DEF CopyPublish, CopyStep, Step, LockInv, SetInv, CallInv, TypeOK,
     Copier, Remover, HoldPcs, maskVars
<1>18. ASSUME NEW c \in Copiers, CopyStep(c), CopyChunk(c) PROVE LockInv'
  BY <1>0, <1>18 DEF CopyChunk, CopyStep, Step, LockInv, SetInv, CallInv, TypeOK, Copier,
     Remover, HoldPcs, maskVars
<1>19. ASSUME NEW c \in Copiers, CopyStep(c), CopyClose(c) PROVE LockInv'
  BY <1>0, <1>19 DEF CopyClose, CopyStep, Step, LockInv, SetInv, CallInv, TypeOK, Copier,
     Remover, HoldPcs, maskVars
<1>20. ASSUME NEW c \in Copiers, CopyStep(c), CopyLock(c) PROVE LockInv'
  BY <1>0, <1>20 DEF CopyLock, CopyStep, Step, LockInv, SetInv, CallInv, TypeOK, Copier,
     Remover, HoldPcs, maskVars
<1>21. ASSUME NEW c \in Copiers, CopyStep(c), CopySettle(c) PROVE LockInv'
  BY <1>0, <1>21, SettleFacts DEF LockInv, HoldPcs
<1>22. ASSUME NEW c \in Copiers, CopyStep(c), CopyFinish(c) PROVE LockInv'
  BY <1>0, <1>22 DEF CopyFinish, CopyStep, LockInv, SetInv, CallInv, TypeOK, Copier,
     Remover, HoldPcs, NoCopy, maskVars
<1>23. ASSUME NEW m \in Members, Readmit(m) PROVE LockInv'
  BY <1>0, <1>23 DEF Readmit, LockInv, SetInv, CallInv, TypeOK, Copier, Remover, HoldPcs,
     Store, schedVars
<1>24. CASE WorkNoThread
  <2>1. Base
    OBVIOUS
  <2>2. PICK c \in Copiers : ParksFor(c)
    BY <1>24, <2>1, NoThreadFacts
  <2> QED
    BY <1>0, <2>2 DEF ParksFor, LockInv, HoldPcs, NoCopy
<1>25. CASE WorkParked
  BY <1>0, <1>25 DEF WorkParked, LockInv, SetInv, CallInv, TypeOK, Copier, Remover, HoldPcs,
     maskVars
<1> QED
  BY <1>1, <1>2, <1>3, <1>4, <1>5, <1>6, <1>7, <1>8, <1>9, <1>10, <1>11, <1>12, <1>13,
     <1>14, <1>15, <1>16, <1>17, <1>18, <1>19, <1>20, <1>21, <1>22, <1>23, <1>24,
     <1>25 DEF Next, WorkStep, RemoveStep, FailStep, CopyStep

\* Every step keeps SetInv: the states are stored under the lock, failures apart.
LEMMA SetNext == Base /\ Next => SetInv'
<1> SUFFICES ASSUME Base, Next PROVE SetInv'
  OBVIOUS
<1> USE MemberAssumption
<1>0. /\ LockInv /\ SetInv /\ CallInv /\ TypeOK
  BY DEF Base
<1>1. CASE SetStep
  BY <1>0, <1>1 DEF SetStep, SetLive, SetWrite, SetRecheck, SetUndo, LockInv, SetInv,
     TypeOK, SetCall, States, HoldPcs, NoSet, schedVars, maskVars
<1>2. CASE ReadmitDone
  BY <1>0, <1>2 DEF ReadmitDone, LockInv, SetInv, TypeOK, SetCall, States, HoldPcs, NoSet,
     maskVars
<1>3. CASE WorkBegin
  BY <1>0, <1>3 DEF WorkBegin, LockInv, SetInv, TypeOK, SetCall, States, HoldPcs, NoSet,
     maskVars
<1>4. CASE WorkPick
  <2>1. CASE Parked = {}
    BY <1>0, <1>4, <2>1 DEF WorkPick, LockInv, SetInv, TypeOK, SetCall, States, HoldPcs,
       NoSet, maskVars
  <2>2. CASE Parked # {}
    <3>1. PICK p \in Members, c \in Copiers, r \in Copier : PicksFor(p, c, r)
      BY <1>0, <1>4, <2>2, Picked
    <3> QED
      BY <1>0, <1>4, <3>1, PickPoints, MemberAssumption DEF SetInv, NoSet
  <2> QED
    BY <2>1, <2>2
<1>5. CASE WorkStart
  BY <1>0, <1>5 DEF WorkStart, LockInv, SetInv, TypeOK, SetCall, States, HoldPcs, NoSet,
     maskVars
<1>6. CASE RemoveStep /\ RemoveMark
  <2>1. remover.m \in Members
    BY <1>0, <1>6 DEF RemoveMark, CallInv, TypeOK, Remover
  <2> QED
    BY <1>0, <1>6, <2>1 DEF RemoveMark, SetInv, Store, TypeOK, NoSet, RemoveStep, LockInv
<1>7. CASE RemoveStep /\ RemoveMarked
  BY <1>0, <1>7 DEF RemoveMarked, RemoveStep, LockInv, SetInv, TypeOK, SetCall, States,
     HoldPcs, NoSet, maskVars
<1>8. CASE RemoveStep /\ RemoveDrop
  BY <1>0, <1>8 DEF RemoveDrop, RemoveStep, LockInv, SetInv, TypeOK, SetCall, States,
     HoldPcs, NoSet, maskVars
<1>9. ASSUME NEW m \in Members, RemoveStep, RemoveBegin(m) PROVE SetInv'
  BY <1>0, <1>9 DEF RemoveBegin, RemoveStep, LockInv, SetInv, TypeOK, SetCall, States,
     HoldPcs, NoSet, maskVars
<1>10. ASSUME NEW f \in Failers, NEW m \in Members, FailStep(f), FailStart(f, m) PROVE SetInv'
  BY <1>0, <1>10 DEF FailStart, FailStep, LockInv, SetInv, TypeOK, SetCall, States,
     HoldPcs, NoSet, schedVars
<1>11. ASSUME NEW f \in Failers, FailStep(f), FailFetch(f) PROVE SetInv'
  BY <1>0, <1>11 DEF FailFetch, FailStep, LockInv, SetInv, TypeOK, SetCall, States,
     HoldPcs, NoSet, schedVars
<1>12. ASSUME NEW f \in Failers, FailStep(f), FailStore(f) PROVE SetInv'
  BY <1>0, <1>12 DEF FailStore, FailStep, LockInv, SetInv, TypeOK, SetCall, States,
     HoldPcs, NoSet, schedVars
<1>13. ASSUME NEW f \in Failers, FailStep(f), FailRead(f) PROVE SetInv'
  BY <1>0, <1>13 DEF FailRead, FailStep, LockInv, SetInv, TypeOK, SetCall, States,
     HoldPcs, NoSet, schedVars, maskVars
<1>14. ASSUME NEW f \in Failers, FailStep(f), FailSwap(f) PROVE SetInv'
  BY <1>0, <1>14 DEF FailSwap, FailStep, LockInv, SetInv, TypeOK, SetCall, States,
     HoldPcs, NoSet, schedVars
<1>15. ASSUME NEW f \in Failers, FailStep(f), FailClear(f) PROVE SetInv'
  BY <1>0, <1>15 DEF FailClear, FailStep, LockInv, SetInv, TypeOK, SetCall, States,
     HoldPcs, NoSet, schedVars
<1>16. ASSUME NEW c \in Copiers, CopyStep(c), CopyCheck(c) PROVE SetInv'
  BY <1>0, <1>16 DEF CopyCheck, CopyStep, Step, LockInv, SetInv, TypeOK, SetCall, States,
     HoldPcs, NoSet, maskVars
<1>17. ASSUME NEW c \in Copiers, CopyStep(c), CopyPublish(c) PROVE SetInv'
  BY <1>0, <1>17 DEF CopyPublish, CopyStep, Step, LockInv, SetInv, TypeOK, SetCall,
     States, HoldPcs, NoSet, maskVars
<1>18. ASSUME NEW c \in Copiers, CopyStep(c), CopyChunk(c) PROVE SetInv'
  BY <1>0, <1>18 DEF CopyChunk, CopyStep, Step, LockInv, SetInv, TypeOK, SetCall, States,
     HoldPcs, NoSet, maskVars
<1>19. ASSUME NEW c \in Copiers, CopyStep(c), CopyClose(c) PROVE SetInv'
  BY <1>0, <1>19 DEF CopyClose, CopyStep, Step, LockInv, SetInv, TypeOK, SetCall, States,
     HoldPcs, NoSet, maskVars
<1>20. ASSUME NEW c \in Copiers, CopyStep(c), CopyLock(c) PROVE SetInv'
  BY <1>0, <1>20 DEF CopyLock, CopyStep, Step, LockInv, SetInv, TypeOK, SetCall, States,
     HoldPcs, NoSet, maskVars
<1>21. ASSUME NEW c \in Copiers, CopyStep(c), CopySettle(c) PROVE SetInv'
  BY <1>0, <1>21, SettleFacts DEF LockInv, SetInv, HoldPcs
<1>22. ASSUME NEW c \in Copiers, CopyStep(c), CopyFinish(c) PROVE SetInv'
  BY <1>0, <1>22 DEF CopyFinish, CopyStep, LockInv, SetInv, TypeOK, SetCall, States,
     HoldPcs, NoSet, maskVars
<1>23. ASSUME NEW m \in Members, Readmit(m) PROVE SetInv'
  BY <1>0, <1>23 DEF Readmit, LockInv, SetInv, TypeOK, SetCall, States, HoldPcs, NoSet,
     Store, schedVars
<1>24. CASE WorkNoThread
  <2>1. Base
    OBVIOUS
  <2>2. PICK c \in Copiers : ParksFor(c)
    BY <1>24, <2>1, NoThreadFacts
  <2> QED
    BY <1>0, <2>2 DEF ParksFor, SetInv, NoSet
<1>25. CASE WorkParked
  BY <1>0, <1>25 DEF WorkParked, LockInv, SetInv, TypeOK, SetCall, States, HoldPcs, NoSet,
     maskVars
<1> QED
  BY <1>1, <1>2, <1>3, <1>4, <1>5, <1>6, <1>7, <1>8, <1>9, <1>10, <1>11, <1>12, <1>13,
     <1>14, <1>15, <1>16, <1>17, <1>18, <1>19, <1>20, <1>21, <1>22, <1>23, <1>24,
     <1>25 DEF Next, WorkStep, RemoveStep, FailStep, CopyStep

\* Every step keeps FailInv: only a re-admission takes a member out of FAILED, and
\* it waits for the calls that fail it.
LEMMA FailNext == Base /\ Next => FailInv'
<1> SUFFICES ASSUME Base, Next PROVE FailInv'
  OBVIOUS
<1> USE MemberAssumption
<1>0. FailInv /\ CallInv /\ TypeOK
  BY DEF Base
<1>1. CASE SetStep
  BY <1>0, <1>1 DEF SetStep, SetLive, SetWrite, SetRecheck, SetUndo, FailInv, TypeOK,
     FailCall, States, Served, schedVars, maskVars
<1>2. CASE ReadmitDone
  BY <1>0, <1>2 DEF ReadmitDone, FailInv, TypeOK, FailCall, States, Served, maskVars
<1>3. CASE WorkBegin
  BY <1>0, <1>3 DEF WorkBegin, FailInv, TypeOK, FailCall, States, Served, maskVars
<1>4. CASE WorkPick
  <2>1. CASE Parked = {}
    BY <1>0, <1>4, <2>1 DEF WorkPick, FailInv, TypeOK, FailCall, States, maskVars
  <2>2. CASE Parked # {}
    <3>1. PICK p \in Members, c \in Copiers, r \in Copier : PicksFor(p, c, r)
      BY <1>0, <1>4, <2>2, Picked
    <3>2. \A f \in Failers :
            failer[f].pc \in {"clear_write", "clear_live"} /\ "failed_start" \notin Races
              => failer[f].m \in Members \ {p}
      <4> SUFFICES ASSUME NEW f \in Failers, failer[f].pc \in {"clear_write", "clear_live"},
                          "failed_start" \notin Races
                   PROVE  failer[f].m \in Members \ {p}
        OBVIOUS
      <4>1. failer[f].m # None /\ state[failer[f].m] = "FAILED"
        BY <1>0 DEF FailInv
      <4>2. failer[f].m \in Members \cup {None}
        BY <1>0 DEF TypeOK, FailCall
      <4>3. state[p] = "NEEDS_RESYNC"
        BY <3>1 DEF PicksFor
      <4> QED
        BY <4>1, <4>2, <4>3
    <3>3. UNCHANGED failer /\ \A m \in Members \ {p} : state'[m] = state[m]
      BY <1>0, <1>4, <3>1, PickPoints
    <3> QED
      BY <1>0, <3>2, <3>3 DEF FailInv
  <2> QED
    BY <2>1, <2>2
<1>5. CASE WorkStart
  BY <1>0, <1>5 DEF WorkStart, FailInv, TypeOK, FailCall, States, Served, maskVars
<1>6. CASE RemoveStep /\ RemoveMark
  BY <1>0, <1>6 DEF RemoveMark, RemoveStep, FailInv, TypeOK, FailCall, States, Served,
     Store
<1>7. CASE RemoveStep /\ RemoveMarked
  BY <1>0, <1>7 DEF RemoveMarked, RemoveStep, FailInv, TypeOK, FailCall, States, Served,
     maskVars
<1>8. CASE RemoveStep /\ RemoveDrop
  BY <1>0, <1>8 DEF RemoveDrop, RemoveStep, FailInv, TypeOK, FailCall, States, Served,
     Failing, maskVars
<1>9. ASSUME NEW m \in Members, RemoveStep, RemoveBegin(m) PROVE FailInv'
  BY <1>0, <1>9 DEF RemoveBegin, RemoveStep, FailInv, TypeOK, FailCall, States, Served,
     maskVars
<1>10. ASSUME NEW f \in Failers, NEW m \in Members, FailStep(f), FailStart(f, m) PROVE FailInv'
  BY <1>0, <1>10 DEF FailStart, FailStep, FailInv, TypeOK, FailCall, States, Served,
     schedVars
<1>11. ASSUME NEW f \in Failers, FailStep(f), FailFetch(f) PROVE FailInv'
  BY <1>0, <1>11 DEF FailFetch, FailStep, FailInv, TypeOK, FailCall, States, Served,
     schedVars
<1>12. ASSUME NEW f \in Failers, FailStep(f), FailStore(f) PROVE FailInv'
  BY <1>0, <1>12 DEF FailStore, FailStep, FailInv, TypeOK, FailCall, States, NoFail,
     Served, schedVars
<1>13. ASSUME NEW f \in Failers, FailStep(f), FailRead(f) PROVE FailInv'
  BY <1>0, <1>13 DEF FailRead, FailStep, FailInv, TypeOK, FailCall, States, NoFail,
     Served, schedVars, maskVars
<1>14. ASSUME NEW f \in Failers, FailStep(f), FailSwap(f) PROVE FailInv'
  BY <1>0, <1>14 DEF FailSwap, FailStep, FailInv, TypeOK, FailCall, States, NoFail,
     Served, schedVars
<1>15. ASSUME NEW f \in Failers, FailStep(f), FailClear(f) PROVE FailInv'
  BY <1>0, <1>15 DEF FailClear, FailStep, FailInv, TypeOK, FailCall, States, NoFail,
     Served, schedVars
<1>16. ASSUME NEW c \in Copiers, CopyStep(c), CopyCheck(c) PROVE FailInv'
  BY <1>0, <1>16 DEF CopyCheck, CopyStep, Step, FailInv, TypeOK, FailCall, States, Served,
     maskVars
<1>17. ASSUME NEW c \in Copiers, CopyStep(c), CopyPublish(c) PROVE FailInv'
  BY <1>0, <1>17 DEF CopyPublish, CopyStep, Step, FailInv, TypeOK, FailCall, States,
     Served, Failing, maskVars
<1>18. ASSUME NEW c \in Copiers, CopyStep(c), CopyChunk(c) PROVE FailInv'
  BY <1>0, <1>18 DEF CopyChunk, CopyStep, Step, FailInv, TypeOK, FailCall, States, Served,
     maskVars
<1>19. ASSUME NEW c \in Copiers, CopyStep(c), CopyClose(c) PROVE FailInv'
  BY <1>0, <1>19 DEF CopyClose, CopyStep, Step, FailInv, TypeOK, FailCall, States, Served,
     maskVars
<1>20. ASSUME NEW c \in Copiers, CopyStep(c), CopyLock(c) PROVE FailInv'
  BY <1>0, <1>20 DEF CopyLock, CopyStep, Step, FailInv, TypeOK, FailCall, States, Served,
     maskVars
<1>21. ASSUME NEW c \in Copiers, CopyStep(c), CopySettle(c) PROVE FailInv'
  <2>1. \A f \in Failers : failer[f].pc \in {"clear_write", "clear_live"}
                             => failer[f].m \in Members
    BY <1>0 DEF FailInv, TypeOK, FailCall
  <2>2. \A m \in Members : state[m] = "FAILED" => state'[m] = "FAILED"
    BY <1>0, <1>21, SettleFacts DEF TypeOK
  <2>3. UNCHANGED failer
    BY <1>0, <1>21, SettleFacts
  <2> QED
    BY <1>0, <2>1, <2>2, <2>3 DEF FailInv
<1>22. ASSUME NEW c \in Copiers, CopyStep(c), CopyFinish(c) PROVE FailInv'
  BY <1>0, <1>22 DEF CopyFinish, CopyStep, FailInv, TypeOK, FailCall, States, Served,
     maskVars
<1>23. ASSUME NEW m \in Members, Readmit(m) PROVE FailInv'
  BY <1>0, <1>23 DEF Readmit, FailInv, TypeOK, FailCall, States, Served, Failing, Store,
     schedVars
<1>24. CASE WorkNoThread
  <2>1. Base
    OBVIOUS
  <2>2. PICK c \in Copiers : ParksFor(c)
    BY <1>24, <2>1, NoThreadFacts
  <2>3. \A f \in Failers :
          failer[f].pc \in {"clear_write", "clear_live"} /\ "failed_start" \notin Races
            => failer[f].m \in Members \ {copier[c].m}
    <3> SUFFICES ASSUME NEW f \in Failers, failer[f].pc \in {"clear_write", "clear_live"},
                        "failed_start" \notin Races
                 PROVE  failer[f].m \in Members \ {copier[c].m}
      OBVIOUS
    <3>1. failer[f].m # None /\ state[failer[f].m] = "FAILED"
      BY <1>0 DEF FailInv
    <3>2. failer[f].m \in Members \cup {None}
      BY <1>0 DEF TypeOK, FailCall
    <3> QED
      BY <2>2, <3>1, <3>2 DEF ParksFor
  <2>4. UNCHANGED failer /\ \A n \in Members \ {copier[c].m} : state'[n] = state[n]
    BY <2>2 DEF ParksFor
  <2> QED
    BY <1>0, <2>3, <2>4 DEF FailInv
<1>25. CASE WorkParked
  BY <1>0, <1>25 DEF WorkParked, FailInv, TypeOK, FailCall, States, Served, maskVars
<1> QED
  BY <1>1, <1>2, <1>3, <1>4, <1>5, <1>6, <1>7, <1>8, <1>9, <1>10, <1>11, <1>12, <1>13,
     <1>14, <1>15, <1>16, <1>17, <1>18, <1>19, <1>20, <1>21, <1>22, <1>23, <1>24,
     <1>25 DEF Next, WorkStep, RemoveStep, FailStep, CopyStep

\* Every step keeps CallInv.
LEMMA CallNext == Base /\ Next => CallInv'
<1> SUFFICES ASSUME Base, Next PROVE CallInv'
  OBVIOUS
<1> USE MemberAssumption
<1>0. /\ LockInv /\ SetInv /\ CallInv /\ TypeOK
  BY DEF Base
<1>1. CASE SetStep
  BY <1>0, <1>1 DEF SetStep, SetLive, SetWrite, SetRecheck, SetUndo, LockInv, SetInv,
     CallInv, TypeOK, Copier, Remover, schedVars, maskVars
<1>2. CASE ReadmitDone
  BY <1>0, <1>2 DEF ReadmitDone, LockInv, SetInv, CallInv, TypeOK, Copier, Remover,
     maskVars
<1>3. CASE WorkBegin
  BY <1>0, <1>3 DEF WorkBegin, LockInv, SetInv, CallInv, TypeOK, Copier, Remover, maskVars
<1>4. CASE WorkPick
  <2>1. CASE Parked = {}
    BY <1>0, <1>4, <2>1 DEF WorkPick, CallInv, TypeOK, Copier, Remover
  <2>2. CASE Parked # {}
    <3>1. PICK p \in Members, c \in Copiers, r \in Copier : PicksFor(p, c, r)
      BY <1>0, <1>4, <2>2, Picked
    <3>2. /\ copier'[c] = r /\ r.pc = "new" /\ r.m = p /\ r.at = 0 /\ ~r.ok
          /\ \A d \in Copiers \ {c} : copier'[d] = copier[d]
          /\ UNCHANGED remover
      BY <1>0, <1>4, <3>1, PickPoints
    <3>3. p # None
      BY MemberAssumption
    <3>4. ASSUME NEW d \in Copiers
          PROVE  /\ copier'[d].pc = "none" <=> copier'[d].m = None
                 /\ copier'[d].pc \in {"none", "new"} => ~copier'[d].ok /\ copier'[d].at = 0
      <4>1. CASE d = c
        BY <3>2, <3>3, <4>1
      <4>2. CASE d # c
        <5>1. copier'[d] = copier[d]
          BY <3>2, <4>2
        <5>2. CallInv
          BY <1>0
        <5> QED
          BY <5>1, <5>2 DEF CallInv
      <4> QED
        BY <4>1, <4>2
    <3>5. CallInv
      BY <1>0
    <3> QED
      BY <3>2, <3>4, <3>5 DEF CallInv
  <2> QED
    BY <2>1, <2>2
<1>5. CASE WorkStart
  BY <1>0, <1>5 DEF WorkStart, LockInv, SetInv, CallInv, TypeOK, Copier, Remover, maskVars
<1>6. CASE RemoveStep /\ RemoveMark
  BY <1>0, <1>6 DEF RemoveMark, RemoveStep, LockInv, SetInv, CallInv, TypeOK, Copier,
     Remover, Store
<1>7. CASE RemoveStep /\ RemoveMarked
  BY <1>0, <1>7 DEF RemoveMarked, RemoveStep, LockInv, SetInv, CallInv, TypeOK, Copier,
     Remover, maskVars
<1>8. CASE RemoveStep /\ RemoveDrop
  BY <1>0, <1>8 DEF RemoveDrop, RemoveStep, LockInv, SetInv, CallInv, TypeOK, Copier,
     Remover, Idle, maskVars
<1>9. ASSUME NEW m \in Members, RemoveStep, RemoveBegin(m) PROVE CallInv'
  BY <1>0, <1>9 DEF RemoveBegin, RemoveStep, LockInv, SetInv, CallInv, TypeOK, Copier,
     Remover, Idle, maskVars
<1>10. ASSUME NEW f \in Failers, NEW m \in Members, FailStep(f), FailStart(f, m) PROVE CallInv'
  BY <1>0, <1>10 DEF FailStart, FailStep, LockInv, SetInv, CallInv, TypeOK, Copier,
     Remover, schedVars
<1>11. ASSUME NEW f \in Failers, FailStep(f), FailFetch(f) PROVE CallInv'
  BY <1>0, <1>11 DEF FailFetch, FailStep, LockInv, SetInv, CallInv, TypeOK, Copier,
     Remover, schedVars
<1>12. ASSUME NEW f \in Failers, FailStep(f), FailStore(f) PROVE CallInv'
  BY <1>0, <1>12 DEF FailStore, FailStep, LockInv, SetInv, CallInv, TypeOK, Copier,
     Remover, schedVars
<1>13. ASSUME NEW f \in Failers, FailStep(f), FailRead(f) PROVE CallInv'
  BY <1>0, <1>13 DEF FailRead, FailStep, LockInv, SetInv, CallInv, TypeOK, Copier,
     Remover, schedVars, maskVars
<1>14. ASSUME NEW f \in Failers, FailStep(f), FailSwap(f) PROVE CallInv'
  BY <1>0, <1>14 DEF FailSwap, FailStep, LockInv, SetInv, CallInv, TypeOK, Copier,
     Remover, schedVars
<1>15. ASSUME NEW f \in Failers, FailStep(f), FailClear(f) PROVE CallInv'
  BY <1>0, <1>15 DEF FailClear, FailStep, LockInv, SetInv, CallInv, TypeOK, Copier,
     Remover, schedVars
<1>16. ASSUME NEW c \in Copiers, CopyStep(c), CopyCheck(c) PROVE CallInv'
  BY <1>0, <1>16, MoveFacts DEF CallInv, CopyStep
<1>17. ASSUME NEW c \in Copiers, CopyStep(c), CopyPublish(c) PROVE CallInv'
  BY <1>0, <1>17, MoveFacts DEF CallInv, CopyStep
<1>18. ASSUME NEW c \in Copiers, CopyStep(c), CopyChunk(c) PROVE CallInv'
  BY <1>0, <1>18, MoveFacts DEF CallInv, CopyStep
<1>19. ASSUME NEW c \in Copiers, CopyStep(c), CopyClose(c) PROVE CallInv'
  BY <1>0, <1>19, MoveFacts DEF CallInv, CopyStep
<1>20. ASSUME NEW c \in Copiers, CopyStep(c), CopyLock(c) PROVE CallInv'
  BY <1>0, <1>20 DEF CopyLock, CopyStep, Step, LockInv, SetInv, CallInv, TypeOK, Copier,
     Remover, maskVars
<1>21. ASSUME NEW c \in Copiers, CopyStep(c), CopySettle(c) PROVE CallInv'
  BY <1>0, <1>21, SettleFacts DEF CallInv
<1>22. ASSUME NEW c \in Copiers, CopyStep(c), CopyFinish(c) PROVE CallInv'
  BY <1>0, <1>22 DEF CopyFinish, CopyStep, LockInv, SetInv, CallInv, TypeOK, Copier,
     Remover, NoCopy, maskVars
<1>23. ASSUME NEW m \in Members, Readmit(m) PROVE CallInv'
  BY <1>0, <1>23 DEF Readmit, LockInv, SetInv, CallInv, TypeOK, Copier, Remover, Store,
     schedVars
<1>24. CASE WorkNoThread
  <2>1. Base
    OBVIOUS
  <2>2. PICK c \in Copiers : ParksFor(c)
    BY <1>24, <2>1, NoThreadFacts
  <2> QED
    BY <1>0, <2>2 DEF ParksFor, CallInv, NoCopy
<1>25. CASE WorkParked
  BY <1>0, <1>25 DEF WorkParked, LockInv, SetInv, CallInv, TypeOK, Copier, Remover, maskVars
<1> QED
  BY <1>1, <1>2, <1>3, <1>4, <1>5, <1>6, <1>7, <1>8, <1>9, <1>10, <1>11, <1>12, <1>13,
     <1>14, <1>15, <1>16, <1>17, <1>18, <1>19, <1>20, <1>21, <1>22, <1>23, <1>24,
     <1>25 DEF Next, WorkStep, RemoveStep, FailStep, CopyStep

\* Every step keeps OneInv: a rebuild waits for the thread a removal has taken.
LEMMA OneNext == Deep /\ Next => OneInv'
<1> SUFFICES ASSUME Deep, Next PROVE OneInv'
  OBVIOUS
<1> USE MemberAssumption
<1>0. /\ LockInv /\ CallInv /\ OneInv /\ TypeOK /\ Races = {}
  BY DEF Deep, Base
<1>1. CASE SetStep
  BY <1>0, <1>1 DEF SetStep, SetLive, SetWrite, SetRecheck, SetUndo, LockInv, CallInv,
     OneInv, TypeOK, Copier, Remover, HoldPcs, schedVars, maskVars
<1>2. CASE ReadmitDone
  BY <1>0, <1>2 DEF ReadmitDone, LockInv, CallInv, OneInv, TypeOK, Copier, Remover,
     HoldPcs, maskVars
<1>3. CASE WorkBegin
  BY <1>0, <1>3 DEF WorkBegin, LockInv, CallInv, OneInv, TypeOK, Copier, Remover, HoldPcs,
     maskVars
<1>4. CASE WorkPick
  <2>1. CASE Parked = {}
    BY <1>0, <1>4, <2>1 DEF WorkPick, LockInv, CallInv, OneInv, TypeOK, Copier, Remover,
       HoldPcs
  <2>2. CASE Parked # {}
    <3>1. PICK p \in Members, c \in Copiers, r \in Copier : PicksFor(p, c, r)
      BY <1>0, <1>4, <2>2, Picked DEF Base
    <3>2. Base
      BY DEF Deep
    <3>3. /\ \A d \in Copiers : copier[d].pc = "none"
          /\ remover'.t = None /\ thread' = None /\ work' = "start"
          /\ copier'[c].pc = "new" /\ \A d \in Copiers \ {c} : copier'[d] = copier[d]
      BY <1>0, <1>4, <3>1, <3>2, PickFacts
    <3>4. \A d \in Copiers \ {c} : copier'[d].pc = "none"
      BY <3>3
    <3> QED
      BY <3>3, <3>4 DEF OneInv
  <2> QED
    BY <2>1, <2>2
<1>5. CASE WorkStart
  BY <1>0, <1>5 DEF WorkStart, LockInv, CallInv, OneInv, TypeOK, Copier, Remover, HoldPcs,
     maskVars
<1>6. CASE RemoveStep /\ RemoveMark
  BY <1>0, <1>6 DEF RemoveMark, RemoveStep, LockInv, CallInv, OneInv, TypeOK, Copier,
     Remover, HoldPcs
<1>7. CASE RemoveStep /\ RemoveMarked
  BY <1>0, <1>7 DEF RemoveMarked, RemoveStep, LockInv, CallInv, OneInv, TypeOK, Copier,
     Remover, HoldPcs, maskVars
<1>8. CASE RemoveStep /\ RemoveDrop
  BY <1>0, <1>8 DEF RemoveDrop, RemoveStep, LockInv, CallInv, OneInv, TypeOK, Copier,
     Remover, Idle, HoldPcs, maskVars
<1>9. ASSUME NEW m \in Members, RemoveStep, RemoveBegin(m) PROVE OneInv'
  BY <1>0, <1>9 DEF RemoveBegin, RemoveStep, LockInv, CallInv, OneInv, TypeOK, Copier,
     Remover, Idle, HoldPcs, maskVars
<1>10. ASSUME NEW f \in Failers, NEW m \in Members, FailStep(f), FailStart(f, m) PROVE OneInv'
  BY <1>0, <1>10 DEF FailStart, FailStep, LockInv, CallInv, OneInv, TypeOK, Copier,
     Remover, HoldPcs, schedVars
<1>11. ASSUME NEW f \in Failers, FailStep(f), FailFetch(f) PROVE OneInv'
  BY <1>0, <1>11 DEF FailFetch, FailStep, LockInv, CallInv, OneInv, TypeOK, Copier,
     Remover, HoldPcs, schedVars
<1>12. ASSUME NEW f \in Failers, FailStep(f), FailStore(f) PROVE OneInv'
  BY <1>0, <1>12 DEF FailStore, FailStep, LockInv, CallInv, OneInv, TypeOK, Copier,
     Remover, HoldPcs, schedVars
<1>13. ASSUME NEW f \in Failers, FailStep(f), FailRead(f) PROVE OneInv'
  BY <1>0, <1>13 DEF FailRead, FailStep, LockInv, CallInv, OneInv, TypeOK, Copier,
     Remover, HoldPcs, schedVars, maskVars
<1>14. ASSUME NEW f \in Failers, FailStep(f), FailSwap(f) PROVE OneInv'
  BY <1>0, <1>14 DEF FailSwap, FailStep, LockInv, CallInv, OneInv, TypeOK, Copier,
     Remover, HoldPcs, schedVars
<1>15. ASSUME NEW f \in Failers, FailStep(f), FailClear(f) PROVE OneInv'
  BY <1>0, <1>15 DEF FailClear, FailStep, LockInv, CallInv, OneInv, TypeOK, Copier,
     Remover, HoldPcs, schedVars
<1>16. ASSUME NEW c \in Copiers, CopyStep(c), CopyCheck(c) PROVE OneInv'
  BY <1>0, <1>16 DEF CopyCheck, CopyStep, Step, LockInv, CallInv, OneInv, TypeOK, Copier,
     Remover, HoldPcs, maskVars
<1>17. ASSUME NEW c \in Copiers, CopyStep(c), CopyPublish(c) PROVE OneInv'
  BY <1>0, <1>17 DEF CopyPublish, CopyStep, Step, LockInv, CallInv, OneInv, TypeOK,
     Copier, Remover, HoldPcs, maskVars
<1>18. ASSUME NEW c \in Copiers, CopyStep(c), CopyChunk(c) PROVE OneInv'
  BY <1>0, <1>18 DEF CopyChunk, CopyStep, Step, LockInv, CallInv, OneInv, TypeOK, Copier,
     Remover, HoldPcs, maskVars
<1>19. ASSUME NEW c \in Copiers, CopyStep(c), CopyClose(c) PROVE OneInv'
  BY <1>0, <1>19 DEF CopyClose, CopyStep, Step, LockInv, CallInv, OneInv, TypeOK, Copier,
     Remover, HoldPcs, maskVars
<1>20. ASSUME NEW c \in Copiers, CopyStep(c), CopyLock(c) PROVE OneInv'
  BY <1>0, <1>20 DEF CopyLock, CopyStep, Step, LockInv, CallInv, OneInv, TypeOK, Copier,
     Remover, HoldPcs, maskVars
<1>21. ASSUME NEW c \in Copiers, CopyStep(c), CopySettle(c) PROVE OneInv'
  <2>1. Base
    BY DEF Deep
  <2> QED
    BY <1>0, <1>21, <2>1, SettleFacts DEF OneInv
<1>22. ASSUME NEW c \in Copiers, CopyStep(c), CopyFinish(c) PROVE OneInv'
  BY <1>0, <1>22 DEF CopyFinish, CopyStep, LockInv, CallInv, OneInv, TypeOK, Copier,
     Remover, NoCopy, HoldPcs, maskVars
<1>23. ASSUME NEW m \in Members, Readmit(m) PROVE OneInv'
  BY <1>0, <1>23 DEF Readmit, LockInv, CallInv, OneInv, TypeOK, Copier, Remover, HoldPcs,
     schedVars
<1>24. CASE WorkNoThread
  <2>1. Base
    BY DEF Deep
  <2>2. PICK c \in Copiers : ParksFor(c)
    BY <1>24, <2>1, NoThreadFacts
  <2> QED
    BY <1>0, <2>2 DEF ParksFor, OneInv, NoCopy
<1>25. CASE WorkParked
  BY <1>0, <1>25 DEF WorkParked, LockInv, CallInv, OneInv, TypeOK, Copier, Remover, HoldPcs,
     maskVars
<1> QED
  BY <1>1, <1>2, <1>3, <1>4, <1>5, <1>6, <1>7, <1>8, <1>9, <1>10, <1>11, <1>12, <1>13,
     <1>14, <1>15, <1>16, <1>17, <1>18, <1>19, <1>20, <1>21, <1>22, <1>23, <1>24,
     <1>25 DEF Next, WorkStep, RemoveStep, FailStep, CopyStep

\* Every step keeps CopyInv.
LEMMA CopyNext == Deep /\ Next => CopyInv'
<1> SUFFICES ASSUME Deep, Next PROVE CopyInv'
  OBVIOUS
<1> USE MemberAssumption
<1>0. /\ LockInv /\ SetInv /\ CallInv /\ OneInv /\ CopyInv /\ TypeOK
  BY DEF Deep, Base
<1>1. CASE SetStep
  BY <1>0, <1>1 DEF SetStep, SetLive, SetWrite, SetRecheck, SetUndo, LockInv, SetInv,
     CallInv, OneInv, CopyInv, TypeOK, Copier, HoldPcs, Served, States, schedVars,
     maskVars
<1>2. CASE ReadmitDone
  BY <1>0, <1>2 DEF ReadmitDone, LockInv, SetInv, CallInv, OneInv, CopyInv, TypeOK,
     Copier, HoldPcs, Served, States, maskVars
<1>3. CASE WorkBegin
  BY <1>0, <1>3 DEF WorkBegin, LockInv, SetInv, CallInv, OneInv, CopyInv, TypeOK, Copier,
     HoldPcs, Served, States, maskVars
<1>4. CASE WorkPick
  <2>1. CASE Parked = {}
    BY <1>0, <1>4, <2>1 DEF WorkPick, LockInv, CallInv, OneInv, CopyInv, TypeOK, Copier,
       HoldPcs, Served
  <2>2. CASE Parked # {}
    <3>1. PICK p \in Members, c \in Copiers, r \in Copier : PicksFor(p, c, r)
      BY <1>0, <1>4, <2>2, Picked DEF Base
    <3>2. Base
      BY DEF Deep
    <3> QED
      BY <1>0, <1>4, <3>1, <3>2, PickFacts DEF CopyInv
  <2> QED
    BY <2>1, <2>2
<1>5. CASE WorkStart
  BY <1>0, <1>5 DEF WorkStart, LockInv, SetInv, CallInv, OneInv, CopyInv, TypeOK, Copier,
     HoldPcs, Served, States, maskVars
<1>6. CASE RemoveStep /\ RemoveMark
  BY <1>0, <1>6 DEF RemoveMark, RemoveStep, LockInv, SetInv, CallInv, OneInv, CopyInv,
     TypeOK, Copier, HoldPcs, Served, States, Store
<1>7. CASE RemoveStep /\ RemoveMarked
  BY <1>0, <1>7 DEF RemoveMarked, RemoveStep, LockInv, SetInv, CallInv, OneInv, CopyInv,
     TypeOK, Copier, HoldPcs, Served, States, maskVars
<1>8. CASE RemoveStep /\ RemoveDrop
  BY <1>0, <1>8 DEF RemoveDrop, RemoveStep, LockInv, SetInv, CallInv, OneInv, CopyInv,
     TypeOK, Copier, HoldPcs, Served, States, maskVars
<1>9. ASSUME NEW m \in Members, RemoveStep, RemoveBegin(m) PROVE CopyInv'
  BY <1>0, <1>9 DEF RemoveBegin, RemoveStep, LockInv, SetInv, CallInv, OneInv, CopyInv,
     TypeOK, Copier, HoldPcs, Served, States, maskVars
<1>10. ASSUME NEW f \in Failers, NEW m \in Members, FailStep(f), FailStart(f, m) PROVE CopyInv'
  BY <1>0, <1>10 DEF FailStart, FailStep, LockInv, SetInv, CallInv, OneInv, CopyInv,
     TypeOK, Copier, HoldPcs, Served, States, schedVars
<1>11. ASSUME NEW f \in Failers, FailStep(f), FailFetch(f) PROVE CopyInv'
  BY <1>0, <1>11 DEF FailFetch, FailStep, LockInv, SetInv, CallInv, OneInv, CopyInv,
     TypeOK, Copier, HoldPcs, Served, States, schedVars
<1>12. ASSUME NEW f \in Failers, FailStep(f), FailStore(f) PROVE CopyInv'
  BY <1>0, <1>12 DEF FailStore, FailStep, LockInv, SetInv, CallInv, OneInv, CopyInv,
     TypeOK, Copier, HoldPcs, Served, States, schedVars
<1>13. ASSUME NEW f \in Failers, FailStep(f), FailRead(f) PROVE CopyInv'
  BY <1>0, <1>13 DEF FailRead, FailStep, LockInv, SetInv, CallInv, OneInv, CopyInv,
     TypeOK, Copier, HoldPcs, Served, States, schedVars, maskVars
<1>14. ASSUME NEW f \in Failers, FailStep(f), FailSwap(f) PROVE CopyInv'
  BY <1>0, <1>14 DEF FailSwap, FailStep, LockInv, SetInv, CallInv, OneInv, CopyInv,
     TypeOK, Copier, HoldPcs, Served, States, schedVars
<1>15. ASSUME NEW f \in Failers, FailStep(f), FailClear(f) PROVE CopyInv'
  BY <1>0, <1>15 DEF FailClear, FailStep, LockInv, SetInv, CallInv, OneInv, CopyInv,
     TypeOK, Copier, HoldPcs, Served, States, schedVars
<1>16. ASSUME NEW c \in Copiers, CopyStep(c), CopyCheck(c) PROVE CopyInv'
  <2>1. Base
    BY DEF Deep
  <2> QED
    BY <1>0, <1>16, <2>1, MoveFacts DEF CopyInv
<1>17. ASSUME NEW c \in Copiers, CopyStep(c), CopyPublish(c) PROVE CopyInv'
  <2>1. Base
    BY DEF Deep
  <2> QED
    BY <1>0, <1>17, <2>1, MoveFacts DEF CopyInv
<1>18. ASSUME NEW c \in Copiers, CopyStep(c), CopyChunk(c) PROVE CopyInv'
  <2>1. Base
    BY DEF Deep
  <2> QED
    BY <1>0, <1>18, <2>1, MoveFacts DEF CopyInv
<1>19. ASSUME NEW c \in Copiers, CopyStep(c), CopyClose(c) PROVE CopyInv'
  <2>1. Base
    BY DEF Deep
  <2> QED
    BY <1>0, <1>19, <2>1, MoveFacts DEF CopyInv
<1>20. ASSUME NEW c \in Copiers, CopyStep(c), CopyLock(c) PROVE CopyInv'
  BY <1>0, <1>20 DEF CopyLock, CopyStep, Step, LockInv, SetInv, CallInv, OneInv, CopyInv,
     TypeOK, Copier, HoldPcs, Served, States, maskVars
<1>21. ASSUME NEW c \in Copiers, CopyStep(c), CopySettle(c) PROVE CopyInv'
  <2>1. Base
    BY DEF Deep
  <2> QED
    BY <1>0, <1>21, <2>1, SettleFacts DEF CallInv, CopyInv, OneInv, Served
<1>22. ASSUME NEW c \in Copiers, CopyStep(c), CopyFinish(c) PROVE CopyInv'
  BY <1>0, <1>22 DEF CopyFinish, CopyStep, LockInv, SetInv, CallInv, OneInv, CopyInv,
     TypeOK, Copier, HoldPcs, Served, States, NoCopy, maskVars
<1>23. ASSUME NEW m \in Members, Readmit(m) PROVE CopyInv'
  BY <1>0, <1>23 DEF Readmit, LockInv, SetInv, CallInv, OneInv, CopyInv, TypeOK, Copier,
     HoldPcs, Served, States, Store, schedVars
<1>24. CASE WorkNoThread
  <2>1. Base
    BY DEF Deep
  <2>2. PICK c \in Copiers : ParksFor(c)
    BY <1>24, <2>1, NoThreadFacts
  <2> QED
    BY <1>0, <2>2 DEF ParksFor, CopyInv, OneInv, NoCopy
<1>25. CASE WorkParked
  BY <1>0, <1>25 DEF WorkParked, CopyInv, maskVars
<1> QED
  BY <1>1, <1>2, <1>3, <1>4, <1>5, <1>6, <1>7, <1>8, <1>9, <1>10, <1>11, <1>12, <1>13,
     <1>14, <1>15, <1>16, <1>17, <1>18, <1>19, <1>20, <1>21, <1>22, <1>23, <1>24,
     <1>25 DEF Next, WorkStep, RemoveStep, FailStep, CopyStep

\* Every step keeps StoreInv: a copy does not publish its window while its member
\* is being failed.
LEMMA StoreNext == Deep /\ Next => StoreInv'
<1> SUFFICES ASSUME Deep, Next PROVE StoreInv'
  OBVIOUS
<1> USE MemberAssumption
<1>0. /\ LockInv /\ SetInv /\ FailSure /\ CallInv /\ OneInv /\ StoreInv /\ LiveInv
      /\ TypeOK /\ Races = {}
  BY DEF Deep, Base, FailInv, FailSure
<1>1. CASE SetStep
  BY <1>0, <1>1 DEF SetStep, SetLive, SetWrite, SetRecheck, SetUndo, LockInv, SetInv,
     FailSure, CallInv, StoreInv, LiveInv, EarlyPcs, TypeOK, Copier, FailCall, HoldPcs,
     schedVars, maskVars
<1>2. CASE ReadmitDone
  BY <1>0, <1>2 DEF ReadmitDone, LockInv, SetInv, FailSure, CallInv, StoreInv, LiveInv,
     EarlyPcs, TypeOK, Copier, FailCall, HoldPcs, maskVars
<1>3. CASE WorkBegin
  BY <1>0, <1>3 DEF WorkBegin, LockInv, SetInv, FailSure, CallInv, StoreInv, LiveInv,
     EarlyPcs, TypeOK, Copier, FailCall, HoldPcs, maskVars
<1>4. CASE WorkPick
  <2>1. CASE Parked = {}
    BY <1>0, <1>4, <2>1 DEF WorkPick, StoreInv, FailSure, CallInv, TypeOK, Copier
  <2>2. CASE Parked # {}
    <3>1. PICK p \in Members, c \in Copiers, r \in Copier : PicksFor(p, c, r)
      BY <1>0, <1>4, <2>2, Picked DEF Base
    <3>2. Base
      BY DEF Deep
    <3> QED
      BY <1>0, <1>4, <3>1, <3>2, PickFacts DEF StoreInv, FailSure, Base, CallInv
  <2> QED
    BY <2>1, <2>2
<1>5. CASE WorkStart
  BY <1>0, <1>5 DEF WorkStart, LockInv, SetInv, FailSure, CallInv, StoreInv, LiveInv,
     EarlyPcs, TypeOK, Copier, FailCall, HoldPcs, maskVars
<1>6. CASE RemoveStep /\ RemoveMark
  BY <1>0, <1>6 DEF RemoveMark, RemoveStep, LockInv, SetInv, FailSure, CallInv, StoreInv,
     LiveInv, EarlyPcs, TypeOK, Copier, FailCall, HoldPcs, Store
<1>7. CASE RemoveStep /\ RemoveMarked
  BY <1>0, <1>7 DEF RemoveMarked, RemoveStep, LockInv, SetInv, FailSure, CallInv, StoreInv,
     LiveInv, EarlyPcs, TypeOK, Copier, FailCall, HoldPcs, maskVars
<1>8. CASE RemoveStep /\ RemoveDrop
  BY <1>0, <1>8 DEF RemoveDrop, RemoveStep, LockInv, SetInv, FailSure, CallInv, StoreInv,
     LiveInv, EarlyPcs, TypeOK, Copier, FailCall, HoldPcs, Failing, maskVars
<1>9. ASSUME NEW m \in Members, RemoveStep, RemoveBegin(m) PROVE StoreInv'
  BY <1>0, <1>9 DEF RemoveBegin, RemoveStep, LockInv, SetInv, FailSure, CallInv, StoreInv,
     LiveInv, EarlyPcs, TypeOK, Copier, FailCall, HoldPcs, maskVars
<1>10. ASSUME NEW f \in Failers, NEW m \in Members, FailStep(f), FailStart(f, m) PROVE StoreInv'
  BY <1>0, <1>10 DEF FailStart, FailStep, LockInv, SetInv, FailSure, CallInv, StoreInv,
     LiveInv, EarlyPcs, TypeOK, Copier, FailCall, HoldPcs, schedVars
<1>11. ASSUME NEW f \in Failers, FailStep(f), FailFetch(f) PROVE StoreInv'
  BY <1>0, <1>11 DEF FailFetch, FailStep, LockInv, SetInv, FailSure, CallInv, StoreInv,
     LiveInv, EarlyPcs, TypeOK, Copier, FailCall, HoldPcs, schedVars
<1>12. ASSUME NEW f \in Failers, FailStep(f), FailStore(f) PROVE StoreInv'
  BY <1>0, <1>12 DEF FailStore, FailStep, LockInv, SetInv, FailSure, CallInv, StoreInv,
     LiveInv, EarlyPcs, TypeOK, Copier, FailCall, HoldPcs, NoFail, schedVars
<1>13. ASSUME NEW f \in Failers, FailStep(f), FailRead(f) PROVE StoreInv'
  BY <1>0, <1>13 DEF FailRead, FailStep, LockInv, SetInv, FailSure, CallInv, StoreInv,
     LiveInv, EarlyPcs, TypeOK, Copier, FailCall, HoldPcs, NoFail, schedVars, maskVars
<1>14. ASSUME NEW f \in Failers, FailStep(f), FailSwap(f) PROVE StoreInv'
  BY <1>0, <1>14 DEF FailSwap, FailStep, LockInv, SetInv, FailSure, CallInv, StoreInv,
     LiveInv, EarlyPcs, TypeOK, Copier, FailCall, HoldPcs, NoFail, schedVars
<1>15. ASSUME NEW f \in Failers, FailStep(f), FailClear(f) PROVE StoreInv'
  BY <1>0, <1>15 DEF FailClear, FailStep, LockInv, SetInv, FailSure, CallInv, StoreInv,
     LiveInv, EarlyPcs, TypeOK, Copier, FailCall, HoldPcs, NoFail, schedVars
<1>16. ASSUME NEW c \in Copiers, CopyStep(c), CopyCheck(c) PROVE StoreInv'
  <2>1. Base
    BY DEF Deep
  <2>2. /\ copier[c].pc = "check" /\ UNCHANGED <<live, failer>> /\ copier'[c].at = copier[c].at
        /\ copier'[c].pc \in {"close", "publish"}
        /\ copier'[c].ok => copier[c].ok \/ copier[c].at = Total
    BY <1>0, <1>16 DEF CopyCheck, CopyStep, Step, TypeOK, Copier, maskVars
  <2> QED
    BY <1>0, <1>16, <2>1, <2>2, MoveFacts, MemberAssumption DEF StoreInv
<1>17. ASSUME NEW c \in Copiers, CopyStep(c), CopyPublish(c) PROVE StoreInv'
  <2>1. ~Failing(copier[c].m)
    BY <1>0, <1>17 DEF CopyPublish
  <2>2. \A d \in Copiers \ {c} : copier'[d] = copier[d]
    BY <1>0, <1>17 DEF CopyPublish, CopyStep, Step, TypeOK
  <2>3. copier'[c].m = copier[c].m /\ UNCHANGED <<live, failer>>
    BY <1>0, <1>17 DEF CopyPublish, CopyStep, Step, TypeOK, Copier, maskVars, FailStep
  <2> QED
    BY <1>0, <2>1, <2>2, <2>3 DEF StoreInv, Failing
<1>18. ASSUME NEW c \in Copiers, CopyStep(c), CopyChunk(c) PROVE StoreInv'
  BY <1>0, <1>18 DEF CopyChunk, CopyStep, Step, LockInv, SetInv, FailSure, CallInv,
     StoreInv, LiveInv, EarlyPcs, TypeOK, Copier, FailCall, HoldPcs, maskVars
<1>19. ASSUME NEW c \in Copiers, CopyStep(c), CopyClose(c) PROVE StoreInv'
  BY <1>0, <1>19 DEF CopyClose, CopyStep, Step, LockInv, SetInv, FailSure, CallInv,
     StoreInv, LiveInv, EarlyPcs, TypeOK, Copier, FailCall, HoldPcs, maskVars
<1>20. ASSUME NEW c \in Copiers, CopyStep(c), CopyLock(c) PROVE StoreInv'
  BY <1>0, <1>20 DEF CopyLock, CopyStep, Step, LockInv, SetInv, FailSure, CallInv,
     StoreInv, LiveInv, EarlyPcs, TypeOK, Copier, FailCall, HoldPcs, maskVars
<1>21. ASSUME NEW c \in Copiers, CopyStep(c), CopySettle(c) PROVE StoreInv'
  <2>1. Base
    BY DEF Deep
  <2> QED
    BY <1>0, <1>21, <2>1, SettleFacts DEF StoreInv
<1>22. ASSUME NEW c \in Copiers, CopyStep(c), CopyFinish(c) PROVE StoreInv'
  BY <1>0, <1>22 DEF CopyFinish, CopyStep, LockInv, SetInv, FailSure, CallInv, StoreInv,
     LiveInv, EarlyPcs, TypeOK, Copier, FailCall, HoldPcs, NoCopy, maskVars
<1>23. ASSUME NEW m \in Members, Readmit(m) PROVE StoreInv'
  BY <1>0, <1>23 DEF Readmit, LockInv, SetInv, FailSure, CallInv, StoreInv, LiveInv,
     EarlyPcs, TypeOK, Copier, FailCall, HoldPcs, Failing, Store, schedVars
<1>24. CASE WorkNoThread
  <2>1. Base
    BY DEF Deep
  <2>2. PICK c \in Copiers : ParksFor(c)
    BY <1>24, <2>1, NoThreadFacts
  <2> QED
    BY <1>0, <2>2 DEF ParksFor, StoreInv, NoCopy, FailSure
<1>25. CASE WorkParked
  BY <1>0, <1>25 DEF WorkParked, StoreInv, maskVars
<1> QED
  BY <1>1, <1>2, <1>3, <1>4, <1>5, <1>6, <1>7, <1>8, <1>9, <1>10, <1>11, <1>12, <1>13,
     <1>14, <1>15, <1>16, <1>17, <1>18, <1>19, <1>20, <1>21, <1>22, <1>23, <1>24,
     <1>25 DEF Next, WorkStep, RemoveStep, FailStep, CopyStep

\* Every step keeps LiveInv.
LEMMA LiveNext == Deep /\ Next => LiveInv'
<1> SUFFICES ASSUME Deep, Next PROVE LiveInv'
  OBVIOUS
<1> USE MemberAssumption
<1>0. /\ LockInv /\ SetInv /\ FailSure /\ CallInv /\ CopyInv /\ OneInv /\ StoreInv /\ LiveInv
      /\ TypeOK /\ Races = {}
  BY DEF Deep, Base, FailInv, FailSure
<1>1. CASE SetStep
  BY <1>0, <1>1 DEF SetStep, SetLive, SetWrite, SetRecheck, SetUndo, LockInv, SetInv,
     FailSure, CallInv, StoreInv, LiveInv, OneInv, CopyInv, EarlyPcs, TypeOK, Copier,
     FailCall, HoldPcs, schedVars, maskVars
<1>2. CASE ReadmitDone
  BY <1>0, <1>2 DEF ReadmitDone, LockInv, SetInv, FailSure, CallInv, StoreInv, LiveInv,
     OneInv, CopyInv, EarlyPcs, TypeOK, Copier, FailCall, HoldPcs, maskVars
<1>3. CASE WorkBegin
  BY <1>0, <1>3 DEF WorkBegin, LockInv, SetInv, FailSure, CallInv, StoreInv, LiveInv,
     OneInv, CopyInv, EarlyPcs, TypeOK, Copier, FailCall, HoldPcs, maskVars
<1>4. CASE WorkPick
  <2>1. CASE Parked = {}
    BY <1>0, <1>4, <2>1 DEF WorkPick, LockInv, SetInv, LiveInv, EarlyPcs, FailSure,
       CallInv, OneInv, TypeOK, Copier
  <2>2. CASE Parked # {}
    <3>1. PICK p \in Members, c \in Copiers, r \in Copier : PicksFor(p, c, r)
      BY <1>0, <1>4, <2>2, Picked DEF Base
    <3>2. Base
      BY DEF Deep
    <3>3. p \notin live /\ live \subseteq Members
      <4>1. /\ state[p] = "NEEDS_RESYNC" /\ set.m = None
            /\ \A d \in Copiers : copier[d].m = None
        BY <1>0, <1>4, <3>1, <3>2, PickFacts
      <4>2. p # None
        BY MemberAssumption
      <4>3. \A f \in Failers : failer[f].m = p =>
              failer[f].pc \notin {"clear_write", "clear_live"}
        BY <1>0, <4>1 DEF FailSure
      <4>4. live \subseteq Members
        BY <1>0 DEF TypeOK
      <4>5. p \in live =>
              \/ state[p] = "LIVE"
              \/ set.m = p
              \/ \E f \in Failers : failer[f].m = p
                   /\ failer[f].pc \in {"clear_write", "clear_live"}
              \/ \E d \in Copiers : copier[d].m = p
        <5>1. LiveInv
          BY <1>0
        <5> QED
          BY <5>1 DEF LiveInv
      <4> QED
        BY <4>1, <4>2, <4>3, <4>4, <4>5
    <3>4. \A d \in Copiers : copier'[d].pc \in EarlyPcs => copier'[d].m \notin live'
      BY <1>0, <1>4, <3>1, <3>2, <3>3, PickFacts DEF LiveInv, EarlyPcs
    <3>5. \A m \in live : 
            \/ state[m] = "LIVE"
            \/ \E f \in Failers :
                 failer[f].m = m /\ failer[f].pc \in {"clear_write", "clear_live"}
      BY <1>0, <1>4, <3>1, <3>2, PickFacts DEF LiveInv
    <3>6. ASSUME NEW d \in Copiers PROVE copier'[d].pc # "swap"
      <4>0. copier'[c].pc = "new"
        BY <1>0, <1>4, <3>1, <3>2, PickFacts
      <4>1. CASE d = c
        BY <4>0, <4>1
      <4>2. CASE d # c
        BY <1>0, <1>4, <3>1, <3>2, <4>2, PickFacts
      <4> QED
        BY <4>1, <4>2
    <3>7. /\ UNCHANGED <<live, failer>> /\ state'[p] = "RESYNCING"
          /\ \A m \in Members \ {p} : state'[m] = state[m]
      BY <1>0, <1>4, <3>1, <3>2, PickFacts
    <3> QED
      BY <1>0, <1>4, <3>1, <3>2, <3>3, <3>4, <3>5, <3>6, <3>7 DEF LiveInv, FailSure,
         EarlyPcs
  <2> QED
    BY <2>1, <2>2
<1>5. CASE WorkStart
  BY <1>0, <1>5 DEF WorkStart, LockInv, SetInv, FailSure, CallInv, StoreInv, LiveInv,
     OneInv, CopyInv, EarlyPcs, TypeOK, Copier, FailCall, HoldPcs, maskVars
<1>6. CASE RemoveStep /\ RemoveMark
  BY <1>0, <1>6 DEF RemoveMark, RemoveStep, LockInv, SetInv, FailSure, CallInv, StoreInv,
     LiveInv, OneInv, CopyInv, EarlyPcs, TypeOK, Copier, FailCall, HoldPcs, Store
<1>7. CASE RemoveStep /\ RemoveMarked
  BY <1>0, <1>7 DEF RemoveMarked, RemoveStep, LockInv, SetInv, FailSure, CallInv, StoreInv,
     LiveInv, OneInv, CopyInv, EarlyPcs, TypeOK, Copier, FailCall, HoldPcs, maskVars
<1>8. CASE RemoveStep /\ RemoveDrop
  BY <1>0, <1>8 DEF RemoveDrop, RemoveStep, LockInv, SetInv, FailSure, CallInv, StoreInv,
     LiveInv, OneInv, CopyInv, EarlyPcs, TypeOK, Copier, FailCall, HoldPcs, Failing,
     maskVars
<1>9. ASSUME NEW m \in Members, RemoveStep, RemoveBegin(m) PROVE LiveInv'
  BY <1>0, <1>9 DEF RemoveBegin, RemoveStep, LockInv, SetInv, FailSure, CallInv, StoreInv,
     LiveInv, OneInv, CopyInv, EarlyPcs, TypeOK, Copier, FailCall, HoldPcs, maskVars
<1>10. ASSUME NEW f \in Failers, NEW m \in Members, FailStep(f), FailStart(f, m) PROVE LiveInv'
  BY <1>0, <1>10 DEF FailStart, FailStep, LockInv, SetInv, FailSure, CallInv, StoreInv,
     LiveInv, OneInv, CopyInv, EarlyPcs, TypeOK, Copier, FailCall, HoldPcs, schedVars
<1>11. ASSUME NEW f \in Failers, FailStep(f), FailFetch(f) PROVE LiveInv'
  <2> DEFINE m == failer[f].m
  <2>1. /\ failer[f].pc = "fetch" /\ live' = live \ {m}
        /\ UNCHANGED <<state, set, copier>>
    BY <1>11 DEF FailFetch, FailStep
  <2>2. /\ failer'[f].m = m /\ failer'[f].pc = IF m \in live THEN "store" ELSE "read"
        /\ \A g \in Failers \ {f} : failer'[g] = failer[g]
    BY <1>0, <1>11 DEF FailFetch, TypeOK, FailCall
  <2>3. live \subseteq Members /\ LiveInv
    BY <1>0 DEF TypeOK
  <2> HIDE DEF m
  <2>4. \A d \in Copiers : copier'[d].pc \in EarlyPcs => copier'[d].m \notin live'
    BY <2>1, <2>3 DEF LiveInv
  <2>5. ASSUME NEW n \in live'
        PROVE  \/ state'[n] = "LIVE"
               \/ set'.m = n /\ set'.pc = "live"
               \/ \E g \in Failers : failer'[g].m = n
                    /\ failer'[g].pc \in {"clear_write", "clear_live"}
               \/ \E d \in Copiers : copier'[d].m = n
                                     /\ copier'[d].pc \in {"swap", "undo_write", "undo_live"}
    <3>1. n \in live /\ n # m
      BY <2>1
    <3>2. \A g \in Failers : failer[g].m = n => failer'[g] = failer[g]
      BY <2>2, <3>1 DEF m
    <3> QED
      BY <2>1, <2>3, <3>1, <3>2 DEF LiveInv
  <2>6. ASSUME NEW n \in Members,
               n \notin live => \E g \in Failers : failer[g].m = n /\ failer[g].pc = "store",
               n \notin live'
        PROVE  \E g \in Failers : failer'[g].m = n /\ failer'[g].pc = "store"
    <3>1. CASE n \in live
      BY <2>1, <2>2, <2>6, <3>1
    <3>2. CASE n \notin live
      <4>1. PICK g \in Failers : failer[g].m = n /\ failer[g].pc = "store"
        BY <2>6, <3>2
      <4>2. g # f
        BY <2>1, <4>1
      <4> QED
        BY <2>2, <4>1, <4>2
    <3> QED
      BY <3>1, <3>2
  <2>7. \A n \in Members : state'[n] = "LIVE" /\ n \notin live' =>
          \E g \in Failers : failer'[g].m = n /\ failer'[g].pc = "store"
    <3>1. \A n \in Members : state[n] = "LIVE" /\ n \notin live =>
            \E g \in Failers : failer[g].m = n /\ failer[g].pc = "store"
      BY <2>3 DEF LiveInv
    <3> QED
      BY <2>1, <2>6, <3>1
  <2>8. ASSUME NEW d \in Copiers, copier'[d].pc = "swap", state'[copier'[d].m] = "RESYNCING",
               copier'[d].m \notin live'
        PROVE  \E g \in Failers : failer'[g].m = copier'[d].m /\ failer'[g].pc = "store"
    <3>1. copier'[d] = copier[d] /\ copier[d].m \in Members
      BY <1>0, <2>1, <2>8 DEF TypeOK, CallInv, Copier
    <3>2. copier[d].m \notin live =>
            \E g \in Failers : failer[g].m = copier[d].m /\ failer[g].pc = "store"
      BY <2>1, <2>3, <2>8 DEF LiveInv
    <3> QED
      BY <2>6, <2>8, <3>1, <3>2
  <2> QED
    BY <2>4, <2>5, <2>7, <2>8 DEF LiveInv
<1>12. ASSUME NEW f \in Failers, FailStep(f), FailStore(f) PROVE LiveInv'
  BY <1>0, <1>12 DEF FailStore, FailStep, LockInv, SetInv, FailSure, CallInv, StoreInv,
     LiveInv, OneInv, CopyInv, EarlyPcs, TypeOK, Copier, FailCall, HoldPcs, NoFail,
     schedVars
<1>13. ASSUME NEW f \in Failers, FailStep(f), FailRead(f) PROVE LiveInv'
  BY <1>0, <1>13 DEF FailRead, FailStep, LockInv, SetInv, FailSure, CallInv, StoreInv,
     LiveInv, OneInv, CopyInv, EarlyPcs, TypeOK, Copier, FailCall, HoldPcs, NoFail,
     schedVars, maskVars
<1>14. ASSUME NEW f \in Failers, FailStep(f), FailSwap(f) PROVE LiveInv'
  <2>0. /\ failer[f].pc = "swap" /\ failer[f].m \in Members /\ UNCHANGED <<live, copier, set>>
        /\ \A e \in Failers \ {f} : failer'[e] = failer[e]
        /\ live \subseteq Members
        /\ \A c \in Copiers : copier[c].pc = "swap" => copier[c].m \in Members
    BY <1>0, <1>14 DEF FailSwap, FailStep, TypeOK, FailSure, FailCall, CallInv, Copier
  <2>1. CASE state[failer[f].m] = failer[f].old
    <3>1. /\ state'[failer[f].m] = "FAILED"
          /\ \A m \in Members \ {failer[f].m} : state'[m] = state[m]
          /\ failer'[f].m = failer[f].m /\ failer'[f].pc = "clear_write"
      BY <1>0, <1>14, <2>0, <2>1 DEF FailSwap, TypeOK, FailCall
    <3>2. \A m \in live' :
            \/ state'[m] = "LIVE"
            \/ set'.m = m /\ set'.pc = "live"
            \/ \E e \in Failers : failer'[e].m = m
                 /\ failer'[e].pc \in {"clear_write", "clear_live"}
            \/ \E c \in Copiers : copier'[c].m = m
                                  /\ copier'[c].pc \in {"swap", "undo_write", "undo_live"}
      <4>1. SUFFICES ASSUME NEW m \in live, m # failer[f].m
                     PROVE  \/ state'[m] = "LIVE"
                            \/ set'.m = m /\ set'.pc = "live"
                            \/ \E e \in Failers : failer'[e].m = m
                                 /\ failer'[e].pc \in {"clear_write", "clear_live"}
                            \/ \E c \in Copiers : copier'[c].m = m
                                                  /\ copier'[c].pc \in {"swap", "undo_write", "undo_live"}
        BY <2>0, <3>1
      <4>2. state'[m] = state[m] /\ \A e \in Failers : failer[e].m = m => failer'[e] = failer[e]
        BY <2>0, <3>1, <4>1
      <4> QED
        BY <1>0, <2>0, <4>2 DEF LiveInv
    <3>3. \A e \in Failers : failer[e].pc = "store" => failer'[e] = failer[e]
      BY <2>0
    <3>4. \A m \in Members : state'[m] = "LIVE" /\ m \notin live =>
            \E e \in Failers : failer'[e].m = m /\ failer'[e].pc = "store"
      <4>1. SUFFICES ASSUME NEW m \in Members, state[m] = "LIVE", m \notin live
                     PROVE  \E e \in Failers : failer'[e].m = m /\ failer'[e].pc = "store"
        <5>1. \A m \in Members : state'[m] = "LIVE" => state[m] = "LIVE"
          BY <3>1
        <5> QED
          BY <5>1
      <4>2. PICK e \in Failers : failer[e].m = m /\ failer[e].pc = "store"
        BY <1>0, <4>1 DEF LiveInv
      <4> QED
        BY <3>3, <4>2
    <3>5. \A c \in Copiers : copier[c].pc = "swap" /\ state'[copier[c].m] = "RESYNCING"
                              /\ copier[c].m \notin live =>
            \E e \in Failers : failer'[e].m = copier[c].m /\ failer'[e].pc = "store"
      <4>1. SUFFICES ASSUME NEW c \in Copiers, copier[c].pc = "swap",
                            state'[copier[c].m] = "RESYNCING", copier[c].m \notin live
                     PROVE  \E e \in Failers : failer'[e].m = copier[c].m /\ failer'[e].pc = "store"
        OBVIOUS
      <4>2. state[copier[c].m] = "RESYNCING"
        BY <2>0, <3>1, <4>1
      <4>3. PICK e \in Failers : failer[e].m = copier[c].m /\ failer[e].pc = "store"
        BY <1>0, <4>1, <4>2 DEF LiveInv
      <4> QED
        BY <3>3, <4>3
    <3>6. UNCHANGED <<live, copier>>
      BY <2>0
    <3> QED
      BY <1>0, <3>2, <3>4, <3>5, <3>6 DEF LiveInv
  <2>2. CASE state[failer[f].m] # failer[f].old
    <3>1. UNCHANGED state /\ failer'[f].pc \in {"none", "swap"}
      BY <1>0, <1>14, <2>2 DEF FailSwap, TypeOK, FailCall, NoFail
    <3>2. \A e \in Failers : failer[e].pc \in {"store", "clear_write", "clear_live"}
                             => failer'[e] = failer[e]
      BY <2>0
    <3>3. UNCHANGED <<state, live, copier, set>>
      BY <2>0, <3>1
    <3> QED
      BY <1>0, <3>2, <3>3 DEF LiveInv
  <2> QED
    BY <2>1, <2>2
<1>15. ASSUME NEW f \in Failers, FailStep(f), FailClear(f) PROVE LiveInv'
  <2>0. /\ failer[f].pc \in {"clear_write", "clear_live"} /\ failer[f].m \in Members
        /\ UNCHANGED <<state, copier, set>> /\ state[failer[f].m] = "FAILED"
        /\ \A e \in Failers \ {f} : failer'[e] = failer[e]
        /\ live \subseteq Members
    BY <1>0, <1>15 DEF FailClear, FailStep, TypeOK, FailSure, FailCall
  <2>1. CASE failer[f].pc = "clear_write"
    <3>1. UNCHANGED live /\ failer'[f].pc = "clear_live" /\ failer'[f].m = failer[f].m
      BY <1>0, <1>15, <2>1 DEF FailClear, TypeOK, FailCall
    <3> QED
      BY <1>0, <2>0, <3>1 DEF LiveInv
  <2>2. CASE failer[f].pc = "clear_live"
    <3>1. live' = live \ {failer[f].m} /\ failer'[f].pc = "none"
      BY <1>0, <1>15, <2>2 DEF FailClear, TypeOK, FailCall, NoFail
    <3> QED
      BY <1>0, <2>0, <2>2, <3>1 DEF LiveInv
  <2> QED
    BY <2>0, <2>1, <2>2
<1>16. ASSUME NEW c \in Copiers, CopyStep(c), CopyCheck(c) PROVE LiveInv'
  <2>1. Base
    BY DEF Deep
  <2> QED
    BY <1>0, <1>16, <2>1, MoveFacts DEF LiveInv, EarlyPcs
<1>17. ASSUME NEW c \in Copiers, CopyStep(c), CopyPublish(c) PROVE LiveInv'
  <2>1. Base
    BY DEF Deep
  <2> QED
    BY <1>0, <1>17, <2>1, MoveFacts DEF LiveInv, EarlyPcs
<1>18. ASSUME NEW c \in Copiers, CopyStep(c), CopyChunk(c) PROVE LiveInv'
  <2>1. Base
    BY DEF Deep
  <2> QED
    BY <1>0, <1>18, <2>1, MoveFacts DEF LiveInv, EarlyPcs
<1>19. ASSUME NEW c \in Copiers, CopyStep(c), CopyClose(c) PROVE LiveInv'
  <2>1. Base
    BY DEF Deep
  <2> QED
    BY <1>0, <1>19, <2>1, MoveFacts DEF LiveInv, EarlyPcs
<1>20. ASSUME NEW c \in Copiers, CopyStep(c), CopyLock(c) PROVE LiveInv'
  BY <1>0, <1>20 DEF CopyLock, CopyStep, Step, LockInv, SetInv, FailSure, CallInv,
     StoreInv, LiveInv, OneInv, CopyInv, EarlyPcs, TypeOK, Copier, FailCall, HoldPcs,
     maskVars
<1>21. ASSUME NEW c \in Copiers, CopyStep(c), CopySettle(c) PROVE LiveInv'
  <2>1. Base
    BY DEF Deep
  <2> DEFINE m == copier[c].m
  <2>2. \A d \in Copiers : copier'[d].pc \in EarlyPcs => copier'[d].m \notin live'
    <3>1. \A d \in Copiers : d # c => copier[d].pc \notin EarlyPcs \/ copier[d].m # m
      BY <1>0, <1>21, <2>1, SettleFacts DEF OneInv, LockInv, HoldPcs, EarlyPcs
    <3> QED
      BY <1>0, <1>21, <2>1, <3>1, SettleFacts DEF LiveInv, EarlyPcs
  <2>3. \A n \in live' :
          \/ state'[n] = "LIVE"
          \/ set'.m = n /\ set'.pc = "live"
          \/ \E f \in Failers : failer'[f].m = n
               /\ failer'[f].pc \in {"clear_write", "clear_live"}
          \/ \E d \in Copiers : copier'[d].m = n
                                /\ copier'[d].pc \in {"swap", "undo_write", "undo_live"}
    <3> SUFFICES ASSUME NEW n \in live'
                 PROVE  \/ state'[n] = "LIVE"
                        \/ set'.m = n /\ set'.pc = "live"
                        \/ \E f \in Failers : failer'[f].m = n
                             /\ failer'[f].pc \in {"clear_write", "clear_live"}
                        \/ \E d \in Copiers : copier'[d].m = n
                                              /\ copier'[d].pc \in {"swap", "undo_write", "undo_live"}
      OBVIOUS
    <3>1. live \subseteq Members
      BY <1>0 DEF TypeOK
    <3>2. CASE n # m
      <4>1. n \in live /\ state'[n] = state[n] /\ UNCHANGED <<set, failer>>
        <5>1. live' \subseteq live \cup {m}
          BY <1>21, <2>1, SettleFacts
        <5>2. UNCHANGED <<set, failer>> /\ \A k \in Members \ {m} : state'[k] = state[k]
          BY <1>21, <2>1, SettleFacts
        <5> QED
          BY <3>1, <3>2, <5>1, <5>2
      <4>2. \A d \in Copiers : copier[d].m = n => copier'[d] = copier[d]
        BY <1>21, <2>1, <3>2, SettleFacts
      <4> QED
        BY <1>0, <4>1, <4>2 DEF LiveInv
    <3>3. CASE n = m
      BY <1>0, <1>21, <2>1, <3>3, SettleFacts DEF LiveInv, EarlyPcs
    <3> QED
      BY <3>2, <3>3
  <2>4. \A n \in Members : state'[n] = "LIVE" /\ n \notin live' =>
          \E f \in Failers : failer'[f].m = n /\ failer'[f].pc = "store"
    BY <1>0, <1>21, <2>1, SettleFacts DEF LiveInv, CopyInv
  <2>5. \A d \in Copiers :
          copier'[d].pc = "swap" /\ state'[copier'[d].m] = "RESYNCING" /\ copier'[d].m \notin live'
            => \E f \in Failers : failer'[f].m = copier'[d].m /\ failer'[f].pc = "store"
    BY <1>0, <1>21, <2>1, SettleFacts DEF LiveInv, LockInv, HoldPcs
  <2> QED
    BY <2>2, <2>3, <2>4, <2>5 DEF LiveInv
<1>22. ASSUME NEW c \in Copiers, CopyStep(c), CopyFinish(c) PROVE LiveInv'
  BY <1>0, <1>22 DEF CopyFinish, CopyStep, LockInv, SetInv, FailSure, CallInv, StoreInv,
     LiveInv, OneInv, CopyInv, EarlyPcs, TypeOK, Copier, FailCall, HoldPcs, NoCopy,
     maskVars
<1>23. ASSUME NEW m \in Members, Readmit(m) PROVE LiveInv'
  <2>1. /\ UNCHANGED <<live, failer, copier>> /\ state[m] = "FAILED" /\ state'[m] = "NEEDS_RESYNC"
        /\ \A n \in Members \ {m} : state'[n] = state[n]
        /\ set'.m = m /\ set'.pc = "live" /\ lock = None /\ set.pc = "none"
    BY <1>0, <1>23 DEF Readmit, Store, TypeOK, SetInv
  <2>2. live \subseteq Members
        /\ \A c \in Copiers : copier[c].pc # "none" => copier[c].m \in Members
    BY <1>0 DEF TypeOK, CallInv, Copier
  <2>3. \A c \in Copiers : copier[c].pc # "swap"
    BY <1>0, <2>1, MemberAssumption DEF LockInv, HoldPcs
  <2>4. LiveInv
    BY <1>0
  <2>5. \A d \in Copiers : copier'[d].pc \in EarlyPcs => copier'[d].m \notin live'
    BY <2>1, <2>4 DEF LiveInv
  <2>6. ASSUME NEW n \in live'
        PROVE  \/ state'[n] = "LIVE"
               \/ set'.m = n /\ set'.pc = "live"
               \/ \E f \in Failers : failer'[f].m = n
                    /\ failer'[f].pc \in {"clear_write", "clear_live"}
               \/ \E d \in Copiers : copier'[d].m = n
                                     /\ copier'[d].pc \in {"swap", "undo_write", "undo_live"}
    <3>1. n \in live /\ n \in Members
      BY <2>1, <2>2
    <3>2. CASE n = m
      BY <2>1, <3>2
    <3>3. CASE n # m
      <4>1. state'[n] = state[n]
        BY <2>1, <3>1, <3>3
      <4> QED
        BY <2>1, <2>4, <3>1, <4>1 DEF LiveInv
    <3> QED
      BY <3>2, <3>3
  <2>7. ASSUME NEW n \in Members, state'[n] = "LIVE", n \notin live'
        PROVE  \E f \in Failers : failer'[f].m = n /\ failer'[f].pc = "store"
    <3>1. state[n] = "LIVE" /\ n \notin live
      BY <2>1, <2>7
    <3> QED
      BY <2>1, <2>4, <3>1 DEF LiveInv
  <2>8. \A c \in Copiers : copier'[c].pc # "swap"
    BY <2>1, <2>3
  <2> QED
    BY <2>5, <2>6, <2>7, <2>8 DEF LiveInv
<1>24. CASE WorkNoThread
  <2>1. Base
    BY DEF Deep
  <2>2. PICK c \in Copiers : ParksFor(c)
    BY <1>24, <2>1, NoThreadFacts
  <2> DEFINE m == copier[c].m
  <2>3. /\ UNCHANGED <<live, failer>> /\ m \in Members /\ copier'[c].pc = "none"
        /\ state'[m] = "NEEDS_RESYNC" /\ lock = "work" /\ set.pc = "none"
        /\ \A d \in Copiers \ {c} : copier'[d] = copier[d]
        /\ \A n \in Members \ {m} : state'[n] = state[n]
    BY <2>2 DEF ParksFor, NoCopy
  <2>4. m \notin live /\ live \subseteq Members
    BY <1>0, <2>2 DEF ParksFor, LiveInv, EarlyPcs, TypeOK
  <2>5. \A d \in Copiers : copier[d].pc \notin HoldPcs
    BY <1>0, <2>3, MemberAssumption DEF LockInv
  <2>6. \A d \in Copiers : copier'[d].pc \notin HoldPcs
    BY <2>3, <2>5 DEF HoldPcs
  <2>7. \A n \in live : \/ state'[n] = "LIVE"
                        \/ \E f \in Failers : failer'[f].m = n
                             /\ failer'[f].pc \in {"clear_write", "clear_live"}
    <3> SUFFICES ASSUME NEW n \in live
                 PROVE  \/ state'[n] = "LIVE"
                        \/ \E f \in Failers : failer'[f].m = n
                             /\ failer'[f].pc \in {"clear_write", "clear_live"}
      OBVIOUS
    <3>1. \/ state[n] = "LIVE"
          \/ set.m = n /\ set.pc = "live"
          \/ \E f \in Failers : failer[f].m = n
               /\ failer[f].pc \in {"clear_write", "clear_live"}
          \/ \E d \in Copiers : copier[d].m = n
                                /\ copier[d].pc \in {"swap", "undo_write", "undo_live"}
      BY <1>0 DEF LiveInv
    <3>2. \A d \in Copiers : copier[d].pc \notin {"swap", "undo_write", "undo_live"}
      BY <2>5 DEF HoldPcs
    <3>3. set.pc # "live" /\ UNCHANGED failer
      BY <2>3
    <3>4. state'[n] = state[n]
      <4>1. n \in Members \ {m}
        BY <2>4
      <4> QED
        BY <2>3, <4>1
    <3> QED
      BY <3>1, <3>2, <3>3, <3>4
  <2>8. \A d \in Copiers : copier'[d].pc \in EarlyPcs => copier'[d].m \notin live'
    BY <1>0, <2>3 DEF LiveInv, EarlyPcs
  <2>9. \A n \in Members : state'[n] = "LIVE" /\ n \notin live' =>
          \E f \in Failers : failer'[f].m = n /\ failer'[f].pc = "store"
    BY <1>0, <2>3 DEF LiveInv
  <2> QED
    <3>1. \A d \in Copiers : copier'[d].pc # "swap"
      BY <2>6 DEF HoldPcs
    <3> QED
      BY <2>3, <2>7, <2>8, <2>9, <3>1 DEF LiveInv
<1>25. CASE WorkParked
  BY <1>0, <1>25 DEF WorkParked, LiveInv, maskVars
<1> QED
  BY <1>1, <1>2, <1>3, <1>4, <1>5, <1>6, <1>7, <1>8, <1>9, <1>10, <1>11, <1>12, <1>13,
     <1>14, <1>15, <1>16, <1>17, <1>18, <1>19, <1>20, <1>21, <1>22, <1>23, <1>24,
     <1>25 DEF Next, WorkStep, RemoveStep, FailStep, CopyStep

\* Every step keeps WriteInv.
LEMMA WriteNext == Deep /\ Next => WriteInv'
<1> SUFFICES ASSUME Deep, Next PROVE WriteInv'
  OBVIOUS
<1> USE MemberAssumption
<1>0. /\ LockInv /\ SetInv /\ FailSure /\ CallInv /\ CopyInv /\ OneInv /\ WriteInv /\ TypeOK
  BY DEF Deep, Base, FailInv, FailSure
<1>1. CASE SetStep
  <2>0. UNCHANGED <<state, failer, copier>> /\ set \in SetCall
    BY <1>0, <1>1 DEF SetStep, SetLive, SetWrite, SetRecheck, SetUndo, maskVars, TypeOK
  <2>1. CASE SetLive
    <3>1. set.pc = "live" /\ set'.pc = "write" /\ set'.m = set.m /\ UNCHANGED write
      BY <1>0, <2>0, <2>1 DEF SetLive, SetCall
    <3> QED
      BY <1>0, <2>0, <3>1 DEF WriteInv
  <2>2. CASE SetWrite
    <3>1. set.pc = "write" /\ set.m \in Members /\ state[set.m] \in {set.st, "FAILED"}
      BY <1>0, <2>2 DEF SetWrite, SetInv
    <3>2. \/ set.st \in Served /\ write' = write \cup {set.m}
          \/ set.st \notin Served /\ write' = write \ {set.m}
      BY <2>2 DEF SetWrite
    <3> QED
      BY <1>0, <2>0, <3>1, <3>2 DEF WriteInv, Served
  <2>3. CASE SetRecheck
    <3>1. set.pc = "recheck" /\ UNCHANGED write
      BY <2>3 DEF SetRecheck, maskVars
    <3> QED
      BY <1>0, <2>0, <3>1 DEF WriteInv
  <2>4. CASE SetUndo
    <3>1. /\ set.pc \in {"undo", "undo_write"} /\ state[set.m] = "FAILED"
          /\ write' = write \/ write' = write \ {set.m}
      BY <1>0, <2>4 DEF SetUndo, SetInv
    <3> QED
      BY <1>0, <2>0, <3>1 DEF WriteInv, Served
  <2> QED
    BY <1>1, <2>1, <2>2, <2>3, <2>4 DEF SetStep
<1>2. CASE ReadmitDone
  BY <1>0, <1>2 DEF ReadmitDone, LockInv, SetInv, FailSure, CallInv, CopyInv, WriteInv,
     TypeOK, Copier, FailCall, HoldPcs, Served, maskVars
<1>3. CASE WorkBegin
  BY <1>0, <1>3 DEF WorkBegin, LockInv, SetInv, FailSure, CallInv, CopyInv, WriteInv,
     TypeOK, Copier, FailCall, HoldPcs, Served, maskVars
<1>4. CASE WorkPick
  <2>1. CASE Parked = {}
    BY <1>0, <1>4, <2>1 DEF WorkPick, LockInv, SetInv, WriteInv, TypeOK, Served, HoldPcs,
       Copier
  <2>2. CASE Parked # {}
    <3>1. PICK p \in Members, c \in Copiers, r \in Copier : PicksFor(p, c, r)
      BY <1>0, <1>4, <2>2, Picked DEF Base
    <3>2. Base
      BY DEF Deep
    <3> QED
      BY <1>0, <1>4, <3>1, <3>2, PickFacts DEF WriteInv, Served
  <2> QED
    BY <2>1, <2>2
<1>5. CASE WorkStart
  BY <1>0, <1>5 DEF WorkStart, LockInv, SetInv, FailSure, CallInv, CopyInv, WriteInv,
     TypeOK, Copier, FailCall, HoldPcs, Served, maskVars
<1>6. CASE RemoveStep /\ RemoveMark
  BY <1>0, <1>6 DEF RemoveMark, RemoveStep, LockInv, SetInv, FailSure, CallInv, CopyInv,
     WriteInv, TypeOK, Copier, FailCall, HoldPcs, Served, Store
<1>7. CASE RemoveStep /\ RemoveMarked
  BY <1>0, <1>7 DEF RemoveMarked, RemoveStep, LockInv, SetInv, FailSure, CallInv, CopyInv,
     WriteInv, TypeOK, Copier, FailCall, HoldPcs, Served, maskVars
<1>8. CASE RemoveStep /\ RemoveDrop
  BY <1>0, <1>8 DEF RemoveDrop, RemoveStep, LockInv, SetInv, FailSure, CallInv, CopyInv,
     WriteInv, TypeOK, Copier, FailCall, HoldPcs, Served, Failing, maskVars
<1>9. ASSUME NEW m \in Members, RemoveStep, RemoveBegin(m) PROVE WriteInv'
  BY <1>0, <1>9 DEF RemoveBegin, RemoveStep, LockInv, SetInv, FailSure, CallInv, CopyInv,
     WriteInv, TypeOK, Copier, FailCall, HoldPcs, Served, maskVars
<1>10. ASSUME NEW f \in Failers, NEW m \in Members, FailStep(f), FailStart(f, m) PROVE WriteInv'
  BY <1>0, <1>10 DEF FailStart, FailStep, LockInv, SetInv, FailSure, CallInv, CopyInv,
     WriteInv, TypeOK, Copier, FailCall, HoldPcs, Served, schedVars
<1>11. ASSUME NEW f \in Failers, FailStep(f), FailFetch(f) PROVE WriteInv'
  BY <1>0, <1>11 DEF FailFetch, FailStep, LockInv, SetInv, FailSure, CallInv, CopyInv,
     WriteInv, TypeOK, Copier, FailCall, HoldPcs, Served, schedVars
<1>12. ASSUME NEW f \in Failers, FailStep(f), FailStore(f) PROVE WriteInv'
  BY <1>0, <1>12 DEF FailStore, FailStep, LockInv, SetInv, FailSure, CallInv, CopyInv,
     WriteInv, TypeOK, Copier, FailCall, HoldPcs, Served, NoFail, schedVars
<1>13. ASSUME NEW f \in Failers, FailStep(f), FailRead(f) PROVE WriteInv'
  BY <1>0, <1>13 DEF FailRead, FailStep, LockInv, SetInv, FailSure, CallInv, CopyInv,
     WriteInv, TypeOK, Copier, FailCall, HoldPcs, Served, NoFail, schedVars, maskVars
<1>14. ASSUME NEW f \in Failers, FailStep(f), FailSwap(f) PROVE WriteInv'
  BY <1>0, <1>14 DEF FailSwap, FailStep, LockInv, SetInv, FailSure, CallInv, CopyInv,
     WriteInv, TypeOK, Copier, FailCall, HoldPcs, Served, NoFail, schedVars
<1>15. ASSUME NEW f \in Failers, FailStep(f), FailClear(f) PROVE WriteInv'
  <2> DEFINE m == failer[f].m
  <2>1. /\ failer[f].pc \in {"clear_write", "clear_live"}
        /\ write' = write \/ write' = write \ {m}
        /\ UNCHANGED <<state, set, copier>>
    BY <1>15 DEF FailClear, FailStep
  <2>2. \A g \in Failers \ {f} : failer'[g] = failer[g]
    BY <1>0, <1>15 DEF FailClear, TypeOK
  <2>3. state[m] = "FAILED"
    BY <1>0, <2>1 DEF FailSure
  <2>4. WriteInv
    BY <1>0
  <2> HIDE DEF m
  <2>5. ASSUME NEW n \in Members, state'[n] \in Served, n \notin write'
        PROVE  \/ set'.m = n /\ set'.pc \in {"live", "write"}
               \/ \E g \in Failers : failer'[g].m = n
                    /\ failer'[g].pc \in {"fetch", "store", "read", "swap"}
    <3>1. state[n] \in Served /\ n \notin write
      BY <2>1, <2>3, <2>5 DEF Served
    <3>2. \A g \in Failers : failer[g].pc \in {"fetch", "store", "read", "swap"} =>
            failer'[g] = failer[g]
      BY <2>1, <2>2
    <3> QED
      BY <2>1, <2>4, <3>1, <3>2 DEF WriteInv
  <2>6. ASSUME NEW n \in Members, state'[n] = "NEEDS_RESYNC", n \in write'
        PROVE  \/ set'.m = n /\ set'.pc \in {"live", "write"}
               \/ \E c \in Copiers : copier'[c].m = n
                    /\ copier'[c].pc \in {"or_live", "swap", "undo_write", "park_write"}
    <3>1. state[n] = "NEEDS_RESYNC" /\ n \in write
      BY <2>1, <2>6
    <3> QED
      BY <2>1, <2>4, <3>1 DEF WriteInv
  <2> QED
    BY <2>5, <2>6 DEF WriteInv
<1>16. ASSUME NEW c \in Copiers, CopyStep(c), CopyCheck(c) PROVE WriteInv'
  <2>1. Base
    BY DEF Deep
  <2>2. \A d \in Copiers : copier[d].pc \in {"or_live", "swap", "undo_write", "park_write"}
                            => copier'[d] = copier[d]
    BY <1>16, <2>1, MoveFacts
  <2> QED
    BY <1>0, <1>16, <2>1, <2>2, MoveFacts DEF WriteInv
<1>17. ASSUME NEW c \in Copiers, CopyStep(c), CopyPublish(c) PROVE WriteInv'
  <2>1. Base
    BY DEF Deep
  <2> QED
    BY <1>0, <1>17, <2>1, MoveFacts DEF WriteInv
<1>18. ASSUME NEW c \in Copiers, CopyStep(c), CopyChunk(c) PROVE WriteInv'
  <2>1. Base
    BY DEF Deep
  <2> QED
    BY <1>0, <1>18, <2>1, MoveFacts DEF WriteInv
<1>19. ASSUME NEW c \in Copiers, CopyStep(c), CopyClose(c) PROVE WriteInv'
  <2>1. Base
    BY DEF Deep
  <2> QED
    BY <1>0, <1>19, <2>1, MoveFacts DEF WriteInv
<1>20. ASSUME NEW c \in Copiers, CopyStep(c), CopyLock(c) PROVE WriteInv'
  BY <1>0, <1>20 DEF CopyLock, CopyStep, Step, LockInv, SetInv, FailSure, CallInv, CopyInv,
     WriteInv, TypeOK, Copier, FailCall, HoldPcs, Served, maskVars
<1>21. ASSUME NEW c \in Copiers, CopyStep(c), CopySettle(c) PROVE WriteInv'
  <2>1. Base
    BY DEF Deep
  <2> QED
    BY <1>0, <1>21, <2>1, SettleFacts DEF WriteInv, CopyInv, Served
<1>22. ASSUME NEW c \in Copiers, CopyStep(c), CopyFinish(c) PROVE WriteInv'
  BY <1>0, <1>22 DEF CopyFinish, CopyStep, LockInv, SetInv, FailSure, CallInv, CopyInv,
     WriteInv, TypeOK, Copier, FailCall, HoldPcs, Served, NoCopy, maskVars
<1>23. ASSUME NEW m \in Members, Readmit(m) PROVE WriteInv'
  <2>1. /\ state' = [state EXCEPT ![m] = "NEEDS_RESYNC"] /\ lock = None
        /\ set' = [pc |-> "live", m |-> m, st |-> "NEEDS_RESYNC"]
        /\ write' = write /\ failer' = failer /\ copier' = copier
    BY <1>23 DEF Readmit, Store
  <2>2. state'[m] = "NEEDS_RESYNC" /\ \A n \in Members \ {m} : state'[n] = state[n]
    BY <1>0, <2>1 DEF TypeOK
  <2>3. set.pc = "none"
    BY <1>0, <2>1 DEF SetInv
  <2>4. set'.m = m /\ set'.pc = "live"
    BY <2>1
  <2> SUFFICES ASSUME NEW n \in Members
               PROVE  (/\ state[n] \in Served /\ n \notin write =>
                            \/ set.m = n /\ set.pc \in {"live", "write"}
                            \/ \E f \in Failers : failer[f].m = n
                                  /\ failer[f].pc \in {"fetch", "store", "read", "swap"}
                       /\ state[n] = "NEEDS_RESYNC" /\ n \in write =>
                            \/ set.m = n /\ set.pc \in {"live", "write"}
                            \/ \E c \in Copiers : copier[c].m = n
                                  /\ copier[c].pc \in {"or_live", "swap", "undo_write",
                                                       "park_write"})'
    BY DEF WriteInv
  <2>5. CASE n = m
    BY <2>2, <2>4, <2>5
  <2>6. CASE n # m
    <3>1. state'[n] = state[n]
      BY <2>2, <2>6
    <3>2. /\ state[n] \in Served /\ n \notin write =>
               \E f \in Failers : failer[f].m = n
                 /\ failer[f].pc \in {"fetch", "store", "read", "swap"}
          /\ state[n] = "NEEDS_RESYNC" /\ n \in write =>
               \E c \in Copiers : copier[c].m = n
                 /\ copier[c].pc \in {"or_live", "swap", "undo_write", "park_write"}
      BY <1>0, <2>3 DEF WriteInv
    <3> QED
      BY <2>1, <3>1, <3>2
  <2> QED
    BY <2>5, <2>6
<1>24. CASE WorkNoThread
  <2>1. Base
    BY DEF Deep
  <2>2. PICK c \in Copiers : ParksFor(c)
    BY <1>24, <2>1, NoThreadFacts
  <2> DEFINE m == copier[c].m
  <2>3. /\ UNCHANGED <<write, failer>> /\ m \in Members /\ lock = "work" /\ set.pc = "none"
        /\ state'[m] = "NEEDS_RESYNC" /\ set'.m = m /\ set'.pc = "live"
        /\ \A n \in Members \ {m} : state'[n] = state[n]
    BY <2>2 DEF ParksFor
  <2>4. \A d \in Copiers : copier[d].pc \notin HoldPcs
    BY <1>0, <2>3, MemberAssumption DEF LockInv
  <2>5. \A n \in Members \ {m} :
          /\ state[n] \in Served /\ n \notin write =>
               \E f \in Failers : failer[f].m = n
                 /\ failer[f].pc \in {"fetch", "store", "read", "swap"}
          /\ ~(state[n] = "NEEDS_RESYNC" /\ n \in write)
    BY <1>0, <2>3, <2>4 DEF WriteInv, HoldPcs
  <2> QED
    BY <2>3, <2>5 DEF WriteInv, Served
<1>25. CASE WorkParked
  BY <1>0, <1>25 DEF WorkParked, WriteInv, maskVars
<1> QED
  BY <1>1, <1>2, <1>3, <1>4, <1>5, <1>6, <1>7, <1>8, <1>9, <1>10, <1>11, <1>12, <1>13,
     <1>14, <1>15, <1>16, <1>17, <1>18, <1>19, <1>20, <1>21, <1>22, <1>23, <1>24,
     <1>25 DEF Next, WorkStep, RemoveStep, FailStep, CopyStep

\* Base is inductive.
LEMMA BaseNext == Base /\ [Next]_vars => Base'
<1> SUFFICES ASSUME Base, [Next]_vars PROVE Base'
  OBVIOUS
<1>1. CASE Next
  <2>1. TypeOK'
    BY <1>1, TypeSet, TypeFail, TypeAdmit, TypeWork, TypeCopy, TypeRemove DEF Next
  <2> QED
    BY <1>1, <2>1, LockNext, SetNext, FailNext, CallNext DEF Base
<1>2. CASE UNCHANGED vars
  BY <1>2 DEF Base, TypeOK, LockInv, SetInv, FailInv, CallInv, vars, maskVars, schedVars
<1> QED
  BY <1>1, <1>2

\* Base holds at the start.
LEMMA BaseInit == Init => Base
<1> SUFFICES ASSUME Init PROVE Base
  OBVIOUS
<1>1. TypeOK
  BY TypeInit
<1>2. /\ LockInv /\ SetInv /\ FailInv /\ CallInv
  BY MemberAssumption DEF Init, LockInv, SetInv, FailInv, CallInv, HoldPcs, NoSet, NoFail,
     NoCopy, Idle
<1> QED
  BY <1>1, <1>2 DEF Base

\* Deep holds at the start.
LEMMA DeepInit == Races = {} /\ Init => Deep
<1> SUFFICES ASSUME Races = {}, Init PROVE Deep
  OBVIOUS
<1>1. Base
  BY BaseInit
<1>2. OneInv /\ CopyInv /\ StoreInv /\ LiveInv
  BY MemberAssumption DEF Init, OneInv, CopyInv, StoreInv, LiveInv, EarlyPcs, NoFail,
     NoCopy, Idle
<1>3. WriteInv
  BY DEF Init, WriteInv, Served
<1> QED
  BY <1>1, <1>2, <1>3 DEF Deep

\* Deep is inductive.
LEMMA DeepNext == Deep /\ [Next]_vars => Deep'
<1> SUFFICES ASSUME Deep, [Next]_vars PROVE Deep'
  OBVIOUS
<1>1. Base' /\ Races = {}
  BY BaseNext DEF Deep
<1>2. CASE Next
  BY <1>1, <1>2, OneNext, CopyNext, StoreNext, LiveNext, WriteNext DEF Deep
<1>3. CASE UNCHANGED vars
  BY <1>1, <1>3 DEF Deep, OneInv, CopyInv, StoreInv, LiveInv, WriteInv, vars, maskVars,
     schedVars
<1> QED
  BY <1>2, <1>3

\* The states, the masks, the lock and every call have their types, and set_state
\* runs only under rc_volume_lock, however failures, copies and removals interleave.
THEOREM MemberTypeCorrect == Spec => []TypeOK
<1>1. Base => TypeOK
  BY DEF Base
<1> QED
  BY <1>1, BaseInit, BaseNext, PTL DEF Spec

\* A call of mark_failed that returns leaves its member neither served nor rebuilt.
LEMMA LandsNext ==
  ASSUME Base, "failed_start" \notin Races, [Next]_vars, NEW f \in Failers,
         failer[f].m # None, failer'[f].m = None
  PROVE  state'[failer[f].m] \notin Served
<1>0. /\ failer \in [Failers -> FailCall] /\ state \in [Members -> States]
      /\ failer[f].m \in Members
      /\ failer[f].pc \in {"clear_write", "clear_live"} => state[failer[f].m] = "FAILED"
  BY DEF Base, TypeOK, FailInv, FailCall
<1>1. failer' # failer
  BY Zenon
<1>2. PICK e \in Failers : FailStep(e)
  <2>1. Next
    <3>1. ~ UNCHANGED vars
      BY <1>1 DEF vars
    <3> QED
      BY <3>1
  <2>2. ~SetStep /\ ~ReadmitDone /\ ~WorkStep
    BY <1>1 DEF SetStep, ReadmitDone, WorkStep, WorkBegin, WorkPick, WorkStart,
       WorkNoThread, WorkParked
  <2>3. ~RemoveStep /\ \A m \in Members : ~Readmit(m)
    BY <1>1 DEF RemoveStep, Readmit
  <2>4. \A c \in Copiers : ~CopyStep(c)
    BY <1>1 DEF CopyStep, CopyCheck, CopyPublish, CopyChunk, CopyClose, CopyLock,
       CopySettle, CopyFinish
  <2> QED
    BY <2>1, <2>2, <2>3, <2>4 DEF Next
<1>3. failer[f].pc # "none"
  BY <1>0, MemberAssumption DEF Base, FailInv
<1>4. e = f
  BY <1>0, <1>2 DEF FailStep, FailFetch, FailStore, FailRead, FailSwap, FailClear,
     FailStart
<1>5. CASE FailStore(f)
  BY <1>0, <1>5 DEF FailStore, Served
<1>6. CASE FailRead(f)
  BY <1>0, <1>6, MemberAssumption DEF FailRead, Served, FailCall, maskVars
<1>7. CASE FailSwap(f)
  BY <1>0, <1>7, MemberAssumption DEF FailSwap, Served, FailCall
<1>8. CASE FailClear(f)
  BY <1>0, <1>8, MemberAssumption DEF FailClear, Served, FailCall
<1>9. CASE FailFetch(f)
  BY <1>0, <1>9, MemberAssumption DEF FailFetch, FailCall
<1> QED
  BY <1>2, <1>3, <1>4, <1>5, <1>6, <1>7, <1>8, <1>9 DEF FailStep, FailStart

\* A mask bit that lags "must not let a genuine failure be swallowed": when
\* rc_volume_member_mark_failed returns its member is neither served nor being
\* rebuilt, for any number of failures at once, of copies and of removals - as long
\* as a rebuild's thread is created for every member that is failed after it was
\* picked.
THEOREM FailureLands ==
  ASSUME "failed_start" \notin Races
  PROVE  Spec => FailLands
<1>1. Base /\ [Next]_vars =>
        [\A f \in Failers :
           failer[f].m # None /\ failer'[f].m = None => state'[failer[f].m] \notin Served]_vars
  BY LandsNext
<1> QED
  BY <1>1, BaseInit, BaseNext, PTL DEF Spec, FailLands

\* Whenever nobody is between two of the stores about a member, reads go to it
\* exactly when it is live, a served or rebuilt member misses no write and a parked
\* one gets none: however mark_failed, set_state, the copies and the removals
\* interleave, with one copier and no failure that outlasts a copy.
THEOREM MembersSettle ==
  ASSUME Races = {}
  PROVE  Spec => []Settled
<1>1. Deep => Settled
  <2> SUFFICES ASSUME Deep, NEW m \in Members, ~Settling(m)
               PROVE  /\ m \in live <=> state[m] = "LIVE"
                      /\ state[m] \in Served => m \in write
                      /\ state[m] = "NEEDS_RESYNC" => m \notin write
    BY DEF Settled
  <2>1. LiveInv /\ WriteInv
    BY DEF Deep
  <2>2. m \in live <=> state[m] = "LIVE"
    BY <2>1 DEF LiveInv, Settling, Failing
  <2>3. state[m] \in Served => m \in write
    BY <2>1 DEF WriteInv, Settling, Failing
  <2>4. state[m] = "NEEDS_RESYNC" => m \notin write
    BY <2>1 DEF WriteInv, Settling, Failing
  <2> QED
    BY <2>2, <2>3, <2>4
<1> QED
  BY <1>1, DeepInit, DeepNext, PTL DEF Spec

\* "Members are rebuilt one at a time": one thread copies, for any number of parked
\* members, removals and failed copies.
THEOREM RebuiltOneByOne ==
  ASSUME Races = {}
  PROVE  Spec => []OneCopier
<1>1. Deep => OneCopier
  <2> SUFFICES ASSUME Deep PROVE OneCopier
    OBVIOUS
  <2> DEFINE busy == {c \in Copiers : copier[c].pc \notin {"none", "new"}}
             x == IF thread # None THEN thread ELSE remover.t
  <2>1. busy \subseteq {x}
    BY MemberAssumption DEF Deep, OneInv
  <2>2. IsFiniteSet({x}) /\ Cardinality({x}) = 1
    BY FS_Singleton
  <2>3. Cardinality(busy) <= 1
    BY <2>1, <2>2, FS_Subset
  <2> QED
    BY <2>3 DEF OneCopier
<1> QED
  BY <1>1, DeepInit, DeepNext, PTL DEF Spec

-----------------------------------------------------------------------------
(* The paths of a device.                                                   *)

ProbeNames == {"alloc", "enable", "bars", "vectors", "irq", "admin", "on", "queues",
               "register", "attach", "sysfs", "debugfs"}
NvmeNames  == {"admin", "on", "queues", "register"}
Tear       == {"t_group", "t_readers", "t_lock", "t_free", "t_end"}
Early      == {"undebugfs", "debugfs_wait", "unsysfs", "sysfs_wait"}
Last       == {"release", "unmap", "disable", "free"}
LeaveNames == Early \cup Last \cup Tear \cup {"t_begin", "leave", "part", "drop", "detach",
                "q_irq", "q_wait", "q_free", "off", "unadmin", "unirq", "irq_wait"}

\* What follows each step of a probe.
Succ(d, s) ==
  CASE s = "alloc" -> "enable"
    [] s = "enable" -> "bars"
    [] s = "bars" -> "vectors"
    [] s = "vectors" -> "irq"
    [] s = "irq" -> IF kind[d] = "nvme" THEN "admin" ELSE "attach"
    [] s = "admin" -> "on"
    [] s = "on" -> "queues"
    [] s = "queues" -> "register"
    [] s = "register" -> "attach"
    [] s = "attach" -> "sysfs"
    [] OTHER -> "debugfs"
ProbePath(d, p) ==
  /\ p \in Seq(ProbeNames) /\ p # <<>> /\ p[Len(p)] = "debugfs"
  /\ \A i \in 1 .. Len(p) - 1 : p[i] # "debugfs" /\ p[i + 1] = Succ(d, p[i])
  /\ kind[d] = "nvme" \/ \A i \in 1 .. Len(p) : p[i] \notin NvmeNames

\* What a probe has obtained when it comes to a step.
Common   == {"adapter", "enabled", "bars", "vectors", "irq"}
Whole(d) == Common \cup (IF kind[d] = "nvme" THEN {"admin", "on"} ELSE {})
Got(d, s) ==
  CASE s = "alloc" -> {}
    [] s = "enable" -> {"adapter"}
    [] s = "bars" -> {"adapter", "enabled"}
    [] s = "vectors" -> {"adapter", "enabled", "bars"}
    [] s = "irq" -> {"adapter", "enabled", "bars", "vectors"}
    [] s = "admin" -> Common
    [] s = "on" -> Common \cup {"admin"}
    [] s \in {"queues", "register"} -> Common \cup {"admin", "on"}
    [] s \in {"attach", "sysfs"} -> Whole(d)
    [] OTHER -> Whole(d) \cup {"sysfs"}

\* The steps of a list.
Names(p) == {p[i] : i \in 1 .. Len(p)}

\* Two steps that belong together: b follows a at once, and nothing else precedes it.
Pair(p, a, b) ==
  /\ \A i \in 2 .. Len(p) : p[i] = b => p[i - 1] = a
  /\ \A i \in 1 .. Len(p) : p[i] = a => i < Len(p) /\ p[i + 1] = b
LeavePairs(p) ==
  /\ Pair(p, "undebugfs", "debugfs_wait") /\ Pair(p, "unsysfs", "sysfs_wait")
  /\ Pair(p, "q_irq", "q_wait") /\ Pair(p, "q_wait", "q_free")
  /\ Pair(p, "off", "unadmin") /\ Pair(p, "unirq", "irq_wait")
TearPairs(p) ==
  /\ Pair(p, "t_begin", "t_group") /\ Pair(p, "t_group", "t_readers")
  /\ Pair(p, "t_readers", "t_lock") /\ Pair(p, "t_lock", "t_free") /\ Pair(p, "t_free", "t_end")
ModPairs(p) == Pair(p, "undriver", "removes") /\ Pair(p, "unroot", "root_wait")

\* Steps that come first, if at all.
Starters == {"part", "drop", "t_begin"}
Begins(p) == \A i \in 2 .. Len(p) : p[i] \notin Starters

\* Nothing but a step of Last follows one, nothing else precedes one of Early.
Sorted(p) ==
  \A i, j \in 1 .. Len(p) :
    i < j => (p[i] \in Last => p[j] \in Last) /\ (p[j] \in Early => p[i] \in Early)

Tidy(p) ==
  p \in Seq(LeaveNames) /\ LeavePairs(p) /\ TearPairs(p) /\ Begins(p) /\ Sorted(p)

\* The step that returns what a probe has obtained.
Items == {"debugfs", "sysfs", "on", "admin", "irq", "vectors", "bars", "enabled", "adapter",
          "unhooked"}
Taker(x) ==
  CASE x = "debugfs" -> "undebugfs"
    [] x = "sysfs" -> "unsysfs"
    [] x = "on" -> "off"
    [] x = "admin" -> "unadmin"
    [] x = "irq" -> "unirq"
    [] x = "vectors" -> "release"
    [] x = "bars" -> "unmap"
    [] x = "enabled" -> "disable"
    [] x = "adapter" -> "free"
    [] OTHER -> "q_free"

\* A registered member is taken out of the registry before anything it needs goes.
MemberSteps == {"leave", "part", "drop", "t_free"}
Harmless    == Early \cup Tear \cup MemberSteps \cup {"t_begin", "detach"}
MemberFirst(p) ==
  \E i \in 1 .. Len(p) : p[i] \in MemberSteps /\ \A j \in 1 .. i : p[j] \in Harmless

Top(t) == IF path[t] = <<>> THEN "nothing" ELSE Head(path[t])
InSlot(d) == \E i \in 1 .. Slots : slots[i] = d

ProbeInv(d) ==
  Top(d) \in ProbeNames =>
    /\ ProbePath(d, path[d]) /\ d \notin bound
    /\ held[d] = Got(d, Top(d))
    /\ ioq[d] # {} <=> kind[d] = "nvme" /\ Top(d) \in {"register", "attach", "sysfs", "debugfs"}
    /\ d \in member => kind[d] = "nvme" /\ Top(d) \in {"attach", "sysfs", "debugfs"}
    /\ InSlot(d) => Top(d) \in {"sysfs", "debugfs"}

LeaveInv(d) ==
  path[d] # <<>> /\ Top(d) \notin ProbeNames =>
    /\ Tidy(path[d]) /\ d \notin bound
    /\ held[d] \subseteq Items
    /\ \A x \in held[d] : Taker(x) \in Names(path[d])
    /\ ioq[d] # {} => "q_free" \in Names(path[d])
    /\ d \in member => MemberFirst(path[d])
    /\ InSlot(d) => "detach" \in Names(path[d])
    /\ Top(d) \notin Last => {"adapter", "bars", "vectors"} \subseteq held[d]
    /\ Top(d) \in Early /\ kind[d] = "nvme" => "admin" \in held[d] /\ ioq[d] # {}
    /\ Top(d) = "unadmin" => "on" \notin held[d]
    /\ Top(d) \in {"q_wait", "q_free"} /\ ioq[d] # {} => "unhooked" \in held[d]

RestInv(d) ==
  path[d] = <<>> =>
    IF d \in bound
    THEN /\ held[d] \ {"debugfs"} = Whole(d) \cup {"sysfs"}
         /\ kind[d] = "nvme" <=> ioq[d] # {}
         /\ d \in member => kind[d] = "nvme"
    ELSE held[d] = {} /\ ioq[d] = {} /\ d \notin member /\ ~InSlot(d)

OwnInv(d) ==
  /\ d \in member => {"adapter", "bars", "admin"} \subseteq held[d] /\ ioq[d] # {}
  /\ "on" \in held[d] => "admin" \in held[d]
  /\ "irq" \in held[d] => "vectors" \in held[d]
  /\ nvec[d] \in {0} \cup Vectors /\ ("vectors" \in held[d] => nvec[d] \in Vectors)
  /\ ioq[d] \in SUBSET (Nat \ {0})
  /\ nvec[d] > 1 => \A q \in ioq[d] : q < nvec[d]

DeviceInv(d) == ProbeInv(d) /\ LeaveInv(d) /\ RestInv(d) /\ OwnInv(d)

\* What each guest relies on: what it entered by is there, or is being waited for.
DumpSafe(d)     == "debugfs" \in held[d] \/ Top(d) = "debugfs_wait"
AttrSafe(d)     == "sysfs" \in held[d] \/ Top(d) = "sysfs_wait"
LineSafe(d)     == "irq" \in held[d] \/ Top(d) = "irq_wait"
QueueSafe(d, q) == q \in ioq[d] /\ ("unhooked" \notin held[d] \/ Top(d) = "q_wait")
VolumeSafe      == disk /\ \A t \in Threads : Top(t) \notin {"t_lock", "t_free", "t_end"}
RootSafe        == "root" \in has \/ Top("mod") = "root_wait"
ConfigSafe      == mod = "live" \/ Top("mod") = "loaded"

GuestOps == {"irq", "attr", "reset", "dump", "registers", "volattr", "volfile", "config"}
GuestInv ==
  /\ guest \in [op : GuestOps \cup {NoOne}, dev : Devs \cup {NoOne}, vec : Nat,
                qs : SUBSET Nat, tags : {FALSE}, locked : BOOLEAN]
  /\ guest.op = NoOne => guest = Nobody
  /\ guest.op \in {"irq", "attr", "reset", "dump", "registers"} <=> guest.dev # NoOne
  /\ guest.op \in {"dump", "registers"} => DumpSafe(guest.dev)
  /\ guest.op \in {"attr", "reset"} => AttrSafe(guest.dev)
  /\ guest.op = "reset" => kind[guest.dev] = "nvme"
  /\ guest.op = "irq" /\ guest.vec = 0 =>
       LineSafe(guest.dev) /\ (1 \notin Vectors => guest.qs = {})
  /\ guest.op = "irq" /\ guest.vec > 0 => guest.qs = {guest.vec} /\ QueueSafe(guest.dev, guest.vec)
  /\ guest.op = "volattr" => VolumeSafe
  /\ guest.op = "volfile" => RootSafe
  /\ guest.op = "config" => ConfigSafe

VolumeInv ==
  /\ disk => \E d \in member : ~Dropping(d)
  /\ armed => member # {} /\ tlock = NoOne
  /\ group => disk /\ \A t \in Threads : Top(t) \notin Tear \ {"t_group"}
  /\ \A t \in Threads : Top(t) \in Tear <=> tlock = t
  /\ tlock \in Threads \cup {NoOne}
  /\ \A d \in Devs : Dropping(d) => disk /\ tlock = NoOne
  /\ member \subseteq Devs

LoadNames == {"async", "blkdev", "root", "driver", "probes", "misc", "loaded"}
LoadSucc(s) ==
  CASE s = "async" -> "blkdev"
    [] s = "blkdev" -> "root"
    [] s = "root" -> "driver"
    [] s = "driver" -> "probes"
    [] s = "probes" -> "misc"
    [] OTHER -> "loaded"
LoadGot(s) ==
  CASE s = "async" -> {}
    [] s = "blkdev" -> {"async"}
    [] s = "root" -> {"async", "blkdev"}
    [] s = "driver" -> {"async", "blkdev"}
    [] s \in {"probes", "misc"} -> {"async", "blkdev", "driver"}
    [] OTHER -> {"async", "blkdev", "driver", "misc"}
UnloadNames == Tear \cup {"t_begin", "unasync", "unmisc", "undriver", "removes", "unroot",
                  "root_wait", "unblkdev", "unloaded"}
ModTaker(x) ==
  CASE x = "async" -> "unasync"
    [] x = "misc" -> "unmisc"
    [] x = "driver" -> "undriver"
    [] x = "root" -> "unroot"
    [] OTHER -> "unblkdev"

LoadPath(p) ==
  /\ p \in Seq(LoadNames) /\ p # <<>> /\ p[Len(p)] = "loaded"
  /\ \A i \in 1 .. Len(p) - 1 : p[i] # "loaded" /\ p[i + 1] = LoadSucc(p[i])
UnloadPath(p) ==
  /\ p \in Seq(UnloadNames) /\ TearPairs(p) /\ ModPairs(p) /\ Begins(p)
  /\ p # <<>> /\ p[Len(p)] = "unloaded" /\ \A i \in 1 .. Len(p) - 1 : p[i] # "unloaded"

ModuleInv ==
  /\ mod \in {"absent", "loading", "live", "going"}
  /\ path["mod"] = <<>> <=> mod \in {"absent", "live"}
  /\ has \subseteq ModObtains
  /\ mod = "absent" => has = {}
  /\ mod = "live" => "driver" \in has
  /\ mod = "loading" =>
       /\ LoadPath(path["mod"])
       /\ has \ {"root"} = LoadGot(Top("mod"))
       /\ "root" \in has => Top("mod") \notin {"async", "blkdev", "root"}
  /\ mod = "going" =>
       /\ UnloadPath(path["mod"])
       /\ \A x \in has : ModTaker(x) \in Names(path["mod"])
  /\ \A d \in Devs : Present(d) => "driver" \in has \/ Top("mod") = "removes"

AllNames == ProbeNames \cup LeaveNames \cup LoadNames \cup UnloadNames
Shapes ==
  /\ kind \in [Devs -> {"nvme", "ahci"}] /\ path \in [Threads -> Seq(AllNames)]
  /\ held \in [Devs -> SUBSET Items] /\ nvec \in [Devs -> Nat] /\ ioq \in [Devs -> SUBSET Nat]
  /\ slots \in [1 .. Slots -> Devs \cup {NoOne, Other}] /\ bound \subseteq Devs

AdapterInv ==
  Shapes /\ (\A d \in Devs : DeviceInv(d)) /\ GuestInv /\ VolumeInv /\ ModuleInv


-----------------------------------------------------------------------------
(* Lists of steps.                                                          *)

\* What is left of a list when its first step is taken.
LEMMA TailIs ==
  ASSUME NEW S, NEW p \in Seq(S), p # <<>>
  PROVE  /\ Len(p) \in Nat \ {0} /\ Head(p) \in S /\ Head(p) = p[1]
         /\ Tail(p) \in Seq(S) /\ Len(Tail(p)) = Len(p) - 1
         /\ \A i \in 1 .. Len(p) - 1 : Tail(p)[i] = p[i + 1]
         /\ Tail(p) = <<>> <=> Len(p) = 1
         /\ Tail(p) # <<>> => Head(Tail(p)) = p[2]
<1>1. Len(p) \in Nat \ {0} /\ Head(p) = p[1] /\ p[1] \in S
  OBVIOUS
<1>2. Tail(p) \in Seq(S) /\ Len(Tail(p)) = Len(p) - 1
  OBVIOUS
<1>3. \A i \in 1 .. Len(p) - 1 : Tail(p)[i] = p[i + 1]
  OBVIOUS
<1> DEFINE q == Tail(p)
<1>4. q \in Seq(S) /\ Len(q) = Len(p) - 1 /\ \A i \in 1 .. Len(p) - 1 : q[i] = p[i + 1]
  BY <1>2, <1>3
<1> HIDE DEF q
<1>5. q = <<>> <=> Len(p) = 1
  BY <1>1, <1>4
<1>6. ASSUME q # <<>>
      PROVE  Head(q) = p[2]
  <2>1. 1 \in 1 .. Len(p) - 1 /\ 1 + 1 = 2 /\ Head(q) = q[1]
    BY <1>1, <1>4, <1>5, <1>6
  <2> QED
    BY <1>4, <2>1
<1> QED
  BY <1>1, <1>2, <1>3, <1>5, <1>6 DEF q

\* The names in it.
LEMMA NamesTail ==
  ASSUME NEW S, NEW p \in Seq(S), p # <<>>
  PROVE  /\ Names(Tail(p)) \subseteq Names(p) /\ Names(p) \subseteq S
         /\ Head(p) \in Names(p)
         /\ \A s \in Names(p) : s = Head(p) \/ s \in Names(Tail(p))
         /\ Tail(p) # <<>> => Head(Tail(p)) \in Names(Tail(p))
<1>1. /\ Len(p) \in Nat \ {0} /\ Head(p) = p[1] /\ Len(Tail(p)) = Len(p) - 1
      /\ \A i \in 1 .. Len(p) - 1 : Tail(p)[i] = p[i + 1]
      /\ Tail(p) = <<>> <=> Len(p) = 1
      /\ Tail(p) # <<>> => Head(Tail(p)) = p[2]
  BY TailIs
<1>2. \A i \in 1 .. Len(p) : p[i] \in S
  OBVIOUS
<1>3. \A i \in 1 .. Len(p) : i = 1 \/ (i - 1 \in 1 .. Len(p) - 1 /\ Tail(p)[i - 1] = p[i])
  BY <1>1
<1>4. Tail(p) # <<>> => 1 \in 1 .. Len(Tail(p)) /\ Tail(p)[1] = p[2]
  BY <1>1
<1>5. Names(p) \subseteq S /\ Head(p) \in Names(p)
  BY <1>1, <1>2 DEF Names
<1>6. ASSUME NEW s \in Names(p), s # Head(p)
      PROVE  s \in Names(Tail(p))
  <2>1. PICK i \in 1 .. Len(p) : s = p[i]
    BY DEF Names
  <2>2. i - 1 \in 1 .. Len(Tail(p)) /\ Tail(p)[i - 1] = s
    BY <1>1, <1>3, <1>6, <2>1
  <2> QED
    BY <2>2 DEF Names
<1>7. \A i \in 1 .. Len(p) - 1 : i + 1 \in 1 .. Len(p)
  BY <1>1
<1>8. Names(Tail(p)) \subseteq Names(p)
  BY <1>1, <1>7 DEF Names
<1>9. Tail(p) # <<>> => Head(Tail(p)) \in Names(Tail(p))
  BY <1>1, <1>4 DEF Names
<1> QED
  BY <1>5, <1>6, <1>8, <1>9

\* One list after the other.
LEMMA JoinIs ==
  ASSUME NEW S, NEW a \in Seq(S), NEW b \in Seq(S)
  PROVE  /\ a \o b \in Seq(S) /\ Len(a \o b) = Len(a) + Len(b)
         /\ Len(a) \in Nat /\ Len(b) \in Nat
         /\ \A i \in 1 .. Len(a) : (a \o b)[i] = a[i]
         /\ \A i \in 1 .. Len(b) : (a \o b)[Len(a) + i] = b[i]
OBVIOUS

\* An element of the joined list is one of either.
LEMMA JoinAt ==
  ASSUME NEW S, NEW a \in Seq(S), NEW b \in Seq(S), NEW i \in 1 .. Len(a \o b)
  PROVE  \/ i \in 1 .. Len(a) /\ (a \o b)[i] = a[i]
         \/ /\ i > Len(a) /\ i - Len(a) \in 1 .. Len(b) /\ (a \o b)[i] = b[i - Len(a)]
<1>1. /\ Len(a \o b) = Len(a) + Len(b) /\ Len(a) \in Nat /\ Len(b) \in Nat
      /\ \A k \in 1 .. Len(a) : (a \o b)[k] = a[k]
      /\ \A k \in 1 .. Len(b) : (a \o b)[Len(a) + k] = b[k]
  BY JoinIs
<1>2. CASE i <= Len(a)
  BY <1>1, <1>2
<1>3. CASE i > Len(a)
  <2>1. i - Len(a) \in 1 .. Len(b) /\ Len(a) + (i - Len(a)) = i
    BY <1>1, <1>3
  <2> QED
    BY <1>1, <1>3, <2>1
<1> QED
  BY <1>1, <1>2, <1>3

\* The names of both.
LEMMA NamesJoin ==
  ASSUME NEW S, NEW a \in Seq(S), NEW b \in Seq(S)
  PROVE  Names(a \o b) = Names(a) \cup Names(b)
<1>1. /\ Len(a \o b) = Len(a) + Len(b) /\ Len(a) \in Nat /\ Len(b) \in Nat
      /\ \A k \in 1 .. Len(a) : (a \o b)[k] = a[k]
      /\ \A k \in 1 .. Len(b) : (a \o b)[Len(a) + k] = b[k]
  BY JoinIs
<1>2. \A i \in 1 .. Len(a \o b) : (a \o b)[i] \in Names(a) \cup Names(b)
  BY <1>1, JoinAt DEF Names
<1>3. \A k \in 1 .. Len(a) : k \in 1 .. Len(a \o b)
  BY <1>1
<1>4. \A k \in 1 .. Len(b) : Len(a) + k \in 1 .. Len(a \o b)
  BY <1>1
<1>5. Names(a) \subseteq Names(a \o b)
  BY <1>1, <1>3 DEF Names
<1>6. Names(b) \subseteq Names(a \o b)
  BY <1>1, <1>4 DEF Names
<1>7. Names(a \o b) \subseteq Names(a) \cup Names(b)
  BY <1>2 DEF Names
<1> QED
  BY <1>5, <1>6, <1>7

\* Steps that belong together still do when the first step is taken.
LEMMA PairTail ==
  ASSUME NEW S, NEW p \in Seq(S), p # <<>>, NEW a, NEW b, Pair(p, a, b)
  PROVE  /\ Pair(Tail(p), a, b)
         /\ Head(p) = a => Tail(p) # <<>> /\ Head(Tail(p)) = b
         /\ Tail(p) # <<>> /\ Head(Tail(p)) = b => Head(p) = a
<1>1. /\ Len(p) \in Nat \ {0} /\ Head(p) = p[1] /\ Len(Tail(p)) = Len(p) - 1
      /\ \A i \in 1 .. Len(p) - 1 : Tail(p)[i] = p[i + 1]
      /\ Tail(p) = <<>> <=> Len(p) = 1
      /\ Tail(p) # <<>> => Head(Tail(p)) = p[2]
  BY TailIs
<1>2. \A i \in 2 .. Len(Tail(p)) : Tail(p)[i] = b => Tail(p)[i - 1] = a
  <2> SUFFICES ASSUME NEW i \in 2 .. Len(Tail(p)), Tail(p)[i] = b
               PROVE  Tail(p)[i - 1] = a
    OBVIOUS
  <2>1. i + 1 \in 2 .. Len(p) /\ i - 1 \in 1 .. Len(p) - 1 /\ i \in 1 .. Len(p) - 1
        /\ (i + 1) - 1 = i /\ (i - 1) + 1 = i
    BY <1>1
  <2>2. p[i + 1] = b
    BY <1>1, <2>1
  <2>3. p[i] = a
    BY <2>1, <2>2 DEF Pair
  <2> QED
    BY <1>1, <2>1, <2>3
<1>3. \A i \in 1 .. Len(Tail(p)) : Tail(p)[i] = a => i < Len(Tail(p)) /\ Tail(p)[i + 1] = b
  <2> SUFFICES ASSUME NEW i \in 1 .. Len(Tail(p)), Tail(p)[i] = a
               PROVE  i < Len(Tail(p)) /\ Tail(p)[i + 1] = b
    OBVIOUS
  <2>1. i + 1 \in 1 .. Len(p) /\ i \in 1 .. Len(p) - 1
    BY <1>1
  <2>2. p[i + 1] = a
    BY <1>1, <2>1
  <2>3. i + 1 < Len(p) /\ p[(i + 1) + 1] = b
    BY <2>1, <2>2 DEF Pair
  <2>4. i + 1 \in 1 .. Len(p) - 1
    BY <1>1, <2>1, <2>3
  <2> QED
    BY <1>1, <2>3, <2>4
<1>4. Head(p) = a => Tail(p) # <<>> /\ Head(Tail(p)) = b
  <2>1. 1 \in 1 .. Len(p) /\ 1 + 1 = 2
    BY <1>1
  <2>2. p[1] = a => 1 < Len(p) /\ p[2] = b
    BY <2>1 DEF Pair
  <2> QED
    BY <1>1, <2>2
<1>5. Tail(p) # <<>> /\ Head(Tail(p)) = b => Head(p) = a
  <2>1. Tail(p) # <<>> => 2 \in 2 .. Len(p) /\ 2 - 1 = 1
    BY <1>1
  <2>2. 2 \in 2 .. Len(p) /\ p[2] = b => p[1] = a
    BY <2>1 DEF Pair
  <2> QED
    BY <1>1, <2>1, <2>2
<1> QED
  BY <1>2, <1>3, <1>4, <1>5 DEF Pair

\* And when another list is put before it.
LEMMA PairJoin ==
  ASSUME NEW S, NEW p \in Seq(S), NEW q \in Seq(S), NEW a, NEW b, Pair(p, a, b), Pair(q, a, b),
         q = <<>> \/ Head(q) # b
  PROVE  Pair(p \o q, a, b)
<1>1. /\ Len(p \o q) = Len(p) + Len(q) /\ Len(p) \in Nat /\ Len(q) \in Nat
      /\ \A k \in 1 .. Len(p) : (p \o q)[k] = p[k]
      /\ \A k \in 1 .. Len(q) : (p \o q)[Len(p) + k] = q[k]
  BY JoinIs
<1>2. ASSUME NEW i \in 2 .. Len(p \o q), (p \o q)[i] = b
      PROVE  (p \o q)[i - 1] = a
  <2>1. i \in 1 .. Len(p \o q)
    BY <1>1
  <2>2. CASE i \in 1 .. Len(p) /\ (p \o q)[i] = p[i]
    <3>1. i \in 2 .. Len(p) /\ i - 1 \in 1 .. Len(p)
      BY <1>1, <2>2
    <3>2. p[i - 1] = a
      BY <1>2, <2>2, <3>1 DEF Pair
    <3> QED
      BY <1>1, <3>1, <3>2
  <2>3. CASE i > Len(p) /\ i - Len(p) \in 1 .. Len(q) /\ (p \o q)[i] = q[i - Len(p)]
    <3> DEFINE k == i - Len(p)
    <3>1. k # 1
      <4>1. k = 1 => q # <<>> /\ q[1] = b /\ Head(q) = q[1]
        BY <1>2, <2>3
      <4> QED
        BY <4>1
    <3>2. k \in 2 .. Len(q) /\ k - 1 \in 1 .. Len(q) /\ Len(p) + (k - 1) = i - 1
      BY <1>1, <2>3, <3>1
    <3>3. q[k - 1] = a
      BY <1>2, <2>3, <3>2 DEF Pair
    <3>4. (p \o q)[Len(p) + (k - 1)] = q[k - 1]
      BY <1>1, <3>2
    <3> QED
      BY <3>2, <3>3, <3>4
  <2> QED
    BY <2>1, <2>2, <2>3, JoinAt
<1>3. ASSUME NEW i \in 1 .. Len(p \o q), (p \o q)[i] = a
      PROVE  i < Len(p \o q) /\ (p \o q)[i + 1] = b
  <2>2. CASE i \in 1 .. Len(p) /\ (p \o q)[i] = p[i]
    <3>1. i < Len(p) /\ p[i + 1] = b
      BY <1>3, <2>2 DEF Pair
    <3>2. i + 1 \in 1 .. Len(p)
      BY <1>1, <2>2, <3>1
    <3> QED
      BY <1>1, <3>1, <3>2
  <2>3. CASE i > Len(p) /\ i - Len(p) \in 1 .. Len(q) /\ (p \o q)[i] = q[i - Len(p)]
    <3> DEFINE k == i - Len(p)
    <3>1. k < Len(q) /\ q[k + 1] = b
      BY <1>3, <2>3 DEF Pair
    <3>2. k + 1 \in 1 .. Len(q) /\ Len(p) + (k + 1) = i + 1 /\ i < Len(p \o q)
      BY <1>1, <2>3, <3>1
    <3>3. (p \o q)[Len(p) + (k + 1)] = q[k + 1]
      BY <1>1, <3>2
    <3> QED
      BY <3>1, <3>2, <3>3
  <2> QED
    BY <2>2, <2>3, JoinAt
<1> QED
  BY <1>2, <1>3 DEF Pair


-----------------------------------------------------------------------------
(* The lists of the paths.                                                  *)

\* The step after the first.
Second(p) == IF Tail(p) = <<>> THEN "nothing" ELSE Head(Tail(p))
LeaveSteps(h, n) ==
  /\ h = "undebugfs" <=> n = "debugfs_wait"
  /\ h = "unsysfs" <=> n = "sysfs_wait"
  /\ h = "q_irq" <=> n = "q_wait"
  /\ h = "q_wait" <=> n = "q_free"
  /\ h = "off" <=> n = "unadmin"
  /\ h = "unirq" <=> n = "irq_wait"
TearSteps(h, n) ==
  /\ h = "t_begin" <=> n = "t_group"
  /\ h = "t_group" <=> n = "t_readers"
  /\ h = "t_readers" <=> n = "t_lock"
  /\ h = "t_lock" <=> n = "t_free"
  /\ h = "t_free" <=> n = "t_end"

\* One of two steps that belong together is first if and only if the other is second.
LEMMA PairStep ==
  ASSUME NEW S, NEW p \in Seq(S), p # <<>>, NEW a, NEW b, b # "nothing", Pair(p, a, b)
  PROVE  Pair(Tail(p), a, b) /\ (Head(p) = a <=> Second(p) = b)
BY PairTail DEF Second

\* A teardown goes on as it began.
LEMMA TearTail ==
  ASSUME NEW S, NEW p \in Seq(S), p # <<>>, TearPairs(p), Begins(p)
  PROVE  /\ TearPairs(Tail(p)) /\ TearSteps(Head(p), Second(p))
         /\ Begins(Tail(p)) /\ Second(p) \notin Starters
<1>1. /\ Len(p) \in Nat \ {0} /\ Len(Tail(p)) = Len(p) - 1
      /\ \A i \in 1 .. Len(p) - 1 : Tail(p)[i] = p[i + 1]
      /\ Tail(p) = <<>> <=> Len(p) = 1
      /\ Tail(p) # <<>> => Head(Tail(p)) = p[2]
  BY TailIs
<1>2. Begins(Tail(p))
  <2> SUFFICES ASSUME NEW i \in 2 .. Len(Tail(p))
               PROVE  Tail(p)[i] \notin Starters
    BY DEF Begins
  <2>1. i + 1 \in 2 .. Len(p) /\ Tail(p)[i] = p[i + 1]
    BY <1>1
  <2> QED
    BY <2>1 DEF Begins
<1>3. Second(p) \notin Starters
  <2>1. CASE Tail(p) = <<>>
    BY <2>1 DEF Second, Starters
  <2>2. CASE Tail(p) # <<>>
    <3>1. 2 \in 2 .. Len(p)
      BY <1>1, <2>2
    <3> QED
      BY <1>1, <2>2, <3>1 DEF Second, Begins
  <2> QED
    BY <2>1, <2>2
<1>4. Pair(Tail(p), "t_begin", "t_group") /\ (Head(p) = "t_begin" <=> Second(p) = "t_group")
  BY PairStep DEF TearPairs
<1>5. Pair(Tail(p), "t_group", "t_readers") /\ (Head(p) = "t_group" <=> Second(p) = "t_readers")
  BY PairStep DEF TearPairs
<1>6. Pair(Tail(p), "t_readers", "t_lock") /\ (Head(p) = "t_readers" <=> Second(p) = "t_lock")
  BY PairStep DEF TearPairs
<1>7. Pair(Tail(p), "t_lock", "t_free") /\ (Head(p) = "t_lock" <=> Second(p) = "t_free")
  BY PairStep DEF TearPairs
<1>8. Pair(Tail(p), "t_free", "t_end") /\ (Head(p) = "t_free" <=> Second(p) = "t_end")
  BY PairStep DEF TearPairs
<1> QED
  BY <1>2, <1>3, <1>4, <1>5, <1>6, <1>7, <1>8 DEF TearPairs, TearSteps

\* What is left of the path of a device that leaves is one.
LEMMA TidyTail ==
  ASSUME NEW p, Tidy(p), p # <<>>
  PROVE  /\ Tidy(Tail(p)) /\ LeaveSteps(Head(p), Second(p))
         /\ TearSteps(Head(p), Second(p)) /\ Second(p) \notin Starters
         /\ Head(p) \in LeaveNames /\ Second(p) \in LeaveNames \cup {"nothing"}
         /\ Head(p) \in Last => Names(p) \subseteq Last
         /\ Second(p) \in Early => Head(p) \in Early
         /\ Second(p) = "nothing" <=> Tail(p) = <<>>
<1>1. p \in Seq(LeaveNames)
  BY DEF Tidy
<1>2. /\ Len(p) \in Nat \ {0} /\ Len(Tail(p)) = Len(p) - 1 /\ Tail(p) \in Seq(LeaveNames)
      /\ Head(p) = p[1] /\ Head(p) \in LeaveNames
      /\ \A i \in 1 .. Len(p) - 1 : Tail(p)[i] = p[i + 1]
      /\ Tail(p) = <<>> <=> Len(p) = 1
      /\ Tail(p) # <<>> => Head(Tail(p)) = p[2]
  BY <1>1, TailIs
<1>3. TearPairs(Tail(p)) /\ Begins(Tail(p)) /\ TearSteps(Head(p), Second(p)) /\ Second(p) \notin Starters
  BY <1>1, TearTail DEF Tidy
<1>4. Pair(Tail(p), "undebugfs", "debugfs_wait") /\ (Head(p) = "undebugfs" <=> Second(p) = "debugfs_wait")
  BY <1>1, PairStep DEF Tidy, LeavePairs
<1>5. Pair(Tail(p), "unsysfs", "sysfs_wait") /\ (Head(p) = "unsysfs" <=> Second(p) = "sysfs_wait")
  BY <1>1, PairStep DEF Tidy, LeavePairs
<1>6. Pair(Tail(p), "q_irq", "q_wait") /\ (Head(p) = "q_irq" <=> Second(p) = "q_wait")
  BY <1>1, PairStep DEF Tidy, LeavePairs
<1>7. Pair(Tail(p), "q_wait", "q_free") /\ (Head(p) = "q_wait" <=> Second(p) = "q_free")
  BY <1>1, PairStep DEF Tidy, LeavePairs
<1>8. Pair(Tail(p), "off", "unadmin") /\ (Head(p) = "off" <=> Second(p) = "unadmin")
  BY <1>1, PairStep DEF Tidy, LeavePairs
<1>9. Pair(Tail(p), "unirq", "irq_wait") /\ (Head(p) = "unirq" <=> Second(p) = "irq_wait")
  BY <1>1, PairStep DEF Tidy, LeavePairs
<1>10. Sorted(Tail(p))
  <2> SUFFICES ASSUME NEW i \in 1 .. Len(Tail(p)), NEW j \in 1 .. Len(Tail(p)), i < j
               PROVE  /\ Tail(p)[i] \in Last => Tail(p)[j] \in Last
                      /\ Tail(p)[j] \in Early => Tail(p)[i] \in Early
    BY DEF Sorted
  <2>1. /\ i + 1 \in 1 .. Len(p) /\ j + 1 \in 1 .. Len(p) /\ i + 1 < j + 1
        /\ Tail(p)[i] = p[i + 1] /\ Tail(p)[j] = p[j + 1]
    BY <1>2
  <2> QED
    BY <2>1 DEF Tidy, Sorted
<1>11. Head(p) \in Last => Names(p) \subseteq Last
  <2> SUFFICES ASSUME Head(p) \in Last, NEW i \in 1 .. Len(p)
               PROVE  p[i] \in Last
    BY DEF Names
  <2>1. i = 1 \/ 1 < i
    BY <1>2
  <2>2. 1 \in 1 .. Len(p)
    BY <1>2
  <2> QED
    BY <1>2, <2>1, <2>2 DEF Tidy, Sorted
<1>12. CASE Tail(p) = <<>>
  <2>1. Second(p) = "nothing"
    BY <1>12 DEF Second
  <2> QED
    BY <1>2, <1>3, <1>4, <1>5, <1>6, <1>7, <1>8, <1>9, <1>10, <1>11, <1>12, <2>1
       DEF Tidy, LeavePairs, LeaveSteps, Early
<1>13. CASE Tail(p) # <<>>
  <2>1. 1 \in 1 .. Len(p) /\ 2 \in 1 .. Len(p) /\ 1 < 2
    BY <1>2, <1>13
  <2>2. Second(p) = p[2] /\ p[2] \in LeaveNames
    BY <1>1, <1>2, <1>13, <2>1 DEF Second
  <2>3. p[2] \in Early => p[1] \in Early
    BY <2>1 DEF Tidy, Sorted
  <2>4. \A s \in LeaveNames : s # "nothing"
    BY DEF LeaveNames, Early, Last, Tear
  <2> QED
    BY <1>2, <1>3, <1>4, <1>5, <1>6, <1>7, <1>8, <1>9, <1>10, <1>11, <1>13, <2>2, <2>3, <2>4
       DEF Tidy, LeavePairs, LeaveSteps
<1> QED
  BY <1>12, <1>13

\* A member is still first taken out of the registry.
LEMMA FirstTail ==
  ASSUME NEW p, Tidy(p), p # <<>>, MemberFirst(p)
  PROVE  /\ Head(p) \in Harmless
         /\ Head(p) \notin MemberSteps => MemberFirst(Tail(p)) /\ Tail(p) # <<>>
<1>1. /\ Len(p) \in Nat \ {0} /\ Len(Tail(p)) = Len(p) - 1 /\ Head(p) = p[1]
      /\ \A i \in 1 .. Len(p) - 1 : Tail(p)[i] = p[i + 1]
      /\ Tail(p) = <<>> <=> Len(p) = 1
  BY TailIs DEF Tidy
<1>2. PICK i \in 1 .. Len(p) : p[i] \in MemberSteps /\ \A j \in 1 .. i : p[j] \in Harmless
  BY DEF MemberFirst
<1>3. Head(p) \in Harmless
  BY <1>1, <1>2
<1>4. ASSUME Head(p) \notin MemberSteps
      PROVE  MemberFirst(Tail(p)) /\ Tail(p) # <<>>
  <2>1. i # 1
    BY <1>1, <1>2, <1>4
  <2>2. i - 1 \in 1 .. Len(Tail(p)) /\ (i - 1) + 1 = i /\ i - 1 \in 1 .. Len(p) - 1
    BY <1>1, <2>1
  <2>3. Tail(p)[i - 1] \in MemberSteps
    BY <1>1, <1>2, <2>2
  <2>4. \A j \in 1 .. i - 1 : j + 1 \in 1 .. i /\ j \in 1 .. Len(p) - 1
    BY <1>1
  <2>5. \A j \in 1 .. i - 1 : Tail(p)[j] \in Harmless
    BY <1>1, <1>2, <2>4
  <2> QED
    BY <1>1, <2>2, <2>3, <2>5 DEF MemberFirst
<1> QED
  BY <1>3, <1>4

\* What is left of a probe.
LEMMA ProbeTail ==
  ASSUME NEW d, NEW p, ProbePath(d, p)
  PROVE  /\ Head(p) \in ProbeNames
         /\ kind[d] = "nvme" \/ Head(p) \notin NvmeNames
         /\ Head(p) = "debugfs" <=> Tail(p) = <<>>
         /\ Tail(p) # <<>> => ProbePath(d, Tail(p)) /\ Head(Tail(p)) = Succ(d, Head(p))
<1>1. /\ Len(p) \in Nat \ {0} /\ Len(Tail(p)) = Len(p) - 1 /\ Tail(p) \in Seq(ProbeNames)
      /\ Head(p) = p[1] /\ Head(p) \in ProbeNames
      /\ \A i \in 1 .. Len(p) - 1 : Tail(p)[i] = p[i + 1]
      /\ Tail(p) = <<>> <=> Len(p) = 1
      /\ Tail(p) # <<>> => Head(Tail(p)) = p[2]
  BY TailIs DEF ProbePath
<1>2. kind[d] = "nvme" \/ Head(p) \notin NvmeNames
  <2>1. 1 \in 1 .. Len(p)
    BY <1>1
  <2> QED
    BY <1>1, <2>1 DEF ProbePath
<1>3. Head(p) = "debugfs" <=> Tail(p) = <<>>
  <2>1. Len(p) = 1 => p[1] = "debugfs"
    BY DEF ProbePath
  <2>2. Len(p) # 1 => 1 \in 1 .. Len(p) - 1
    BY <1>1
  <2>3. Len(p) # 1 => p[1] # "debugfs"
    BY <2>2 DEF ProbePath
  <2> QED
    BY <1>1, <2>1, <2>3
<1>4. ASSUME Tail(p) # <<>>
      PROVE  ProbePath(d, Tail(p)) /\ Head(Tail(p)) = Succ(d, Head(p))
  <2> DEFINE q == Tail(p)
  <2>1. 1 \in 1 .. Len(p) - 1 /\ Len(q) \in 1 .. Len(p) - 1 /\ 1 + 1 = 2 /\ Len(q) + 1 = Len(p)
    BY <1>1, <1>4
  <2>2. q[Len(q)] = "debugfs"
    BY <1>1, <2>1 DEF ProbePath
  <2>3. Head(q) = Succ(d, Head(p))
    BY <1>1, <1>4, <2>1 DEF ProbePath
  <2>4. ASSUME NEW i \in 1 .. Len(q) - 1
        PROVE  q[i] # "debugfs" /\ q[i + 1] = Succ(d, q[i])
    <3>1. /\ i \in 1 .. Len(p) - 1 /\ i + 1 \in 1 .. Len(p) - 1
          /\ q[i] = p[i + 1] /\ q[i + 1] = p[(i + 1) + 1]
      BY <1>1
    <3> QED
      BY <3>1 DEF ProbePath
  <2>5. kind[d] = "nvme" \/ \A i \in 1 .. Len(q) : q[i] \notin NvmeNames
    <3>1. \A i \in 1 .. Len(q) : i + 1 \in 1 .. Len(p) /\ q[i] = p[i + 1]
      BY <1>1
    <3> QED
      BY <3>1 DEF ProbePath
  <2> QED
    BY <1>1, <1>4, <2>2, <2>3, <2>4, <2>5 DEF ProbePath
<1> QED
  BY <1>1, <1>2, <1>3, <1>4

\* What is left of the load of the module.
LEMMA LoadTail ==
  ASSUME NEW p, LoadPath(p)
  PROVE  /\ Head(p) \in LoadNames
         /\ Head(p) = "loaded" <=> Tail(p) = <<>>
         /\ Tail(p) # <<>> => LoadPath(Tail(p)) /\ Head(Tail(p)) = LoadSucc(Head(p))
<1>1. /\ Len(p) \in Nat \ {0} /\ Len(Tail(p)) = Len(p) - 1 /\ Tail(p) \in Seq(LoadNames)
      /\ Head(p) = p[1] /\ Head(p) \in LoadNames
      /\ \A i \in 1 .. Len(p) - 1 : Tail(p)[i] = p[i + 1]
      /\ Tail(p) = <<>> <=> Len(p) = 1
      /\ Tail(p) # <<>> => Head(Tail(p)) = p[2]
  BY TailIs DEF LoadPath
<1>3. Head(p) = "loaded" <=> Tail(p) = <<>>
  <2>1. Len(p) = 1 => p[1] = "loaded"
    BY DEF LoadPath
  <2>2. Len(p) # 1 => 1 \in 1 .. Len(p) - 1
    BY <1>1
  <2>3. Len(p) # 1 => p[1] # "loaded"
    BY <2>2 DEF LoadPath
  <2> QED
    BY <1>1, <2>1, <2>3
<1>4. ASSUME Tail(p) # <<>>
      PROVE  LoadPath(Tail(p)) /\ Head(Tail(p)) = LoadSucc(Head(p))
  <2> DEFINE q == Tail(p)
  <2>1. 1 \in 1 .. Len(p) - 1 /\ Len(q) \in 1 .. Len(p) - 1 /\ 1 + 1 = 2 /\ Len(q) + 1 = Len(p)
    BY <1>1, <1>4
  <2>2. q[Len(q)] = "loaded"
    BY <1>1, <2>1 DEF LoadPath
  <2>3. Head(q) = LoadSucc(Head(p))
    BY <1>1, <1>4, <2>1 DEF LoadPath
  <2>4. ASSUME NEW i \in 1 .. Len(q) - 1
        PROVE  q[i] # "loaded" /\ q[i + 1] = LoadSucc(q[i])
    <3>1. /\ i \in 1 .. Len(p) - 1 /\ i + 1 \in 1 .. Len(p) - 1
          /\ q[i] = p[i + 1] /\ q[i + 1] = p[(i + 1) + 1]
      BY <1>1
    <3> QED
      BY <3>1 DEF LoadPath
  <2> QED
    BY <1>1, <1>4, <2>2, <2>3, <2>4 DEF LoadPath
<1> QED
  BY <1>1, <1>3, <1>4

\* And of the unload.
LEMMA UnloadTail ==
  ASSUME NEW p, UnloadPath(p)
  PROVE  /\ Head(p) \in UnloadNames
         /\ Head(p) = "unloaded" <=> Tail(p) = <<>>
         /\ Tail(p) # <<>> => UnloadPath(Tail(p))
         /\ TearSteps(Head(p), Second(p)) /\ Second(p) \notin Starters
         /\ Head(p) = "undriver" <=> Second(p) = "removes"
         /\ Head(p) = "unroot" <=> Second(p) = "root_wait"
         /\ Second(p) \in UnloadNames \cup {"nothing"}
         /\ Second(p) = "nothing" <=> Tail(p) = <<>>
<1>1. /\ Len(p) \in Nat \ {0} /\ Len(Tail(p)) = Len(p) - 1 /\ Tail(p) \in Seq(UnloadNames)
      /\ Head(p) = p[1] /\ Head(p) \in UnloadNames
      /\ \A i \in 1 .. Len(p) - 1 : Tail(p)[i] = p[i + 1]
      /\ Tail(p) = <<>> <=> Len(p) = 1
      /\ p \in Seq(UnloadNames) /\ p # <<>>
      /\ Tail(p) # <<>> => Head(Tail(p)) = p[2]
  BY TailIs DEF UnloadPath
<1>2. /\ TearPairs(Tail(p)) /\ TearSteps(Head(p), Second(p))
      /\ Begins(Tail(p)) /\ Second(p) \notin Starters
  BY <1>1, TearTail DEF UnloadPath
<1>3. Head(p) = "unloaded" <=> Tail(p) = <<>>
  <2>1. Len(p) = 1 => p[1] = "unloaded"
    BY DEF UnloadPath
  <2>2. Len(p) # 1 => 1 \in 1 .. Len(p) - 1
    BY <1>1
  <2>3. Len(p) # 1 => p[1] # "unloaded"
    BY <2>2 DEF UnloadPath
  <2> QED
    BY <1>1, <2>1, <2>3
<1>4. Pair(Tail(p), "undriver", "removes") /\ (Head(p) = "undriver" <=> Second(p) = "removes")
  BY <1>1, PairStep DEF UnloadPath, ModPairs
<1>5. Pair(Tail(p), "unroot", "root_wait") /\ (Head(p) = "unroot" <=> Second(p) = "root_wait")
  BY <1>1, PairStep DEF UnloadPath, ModPairs
<1>6. ASSUME Tail(p) # <<>>
      PROVE  UnloadPath(Tail(p)) /\ Second(p) \in UnloadNames /\ Second(p) # "nothing"
  <2> DEFINE q == Tail(p)
  <2>1. Len(q) \in 1 .. Len(p) - 1 /\ Len(q) + 1 = Len(p)
    BY <1>1, <1>6
  <2>2. q[Len(q)] = "unloaded"
    BY <1>1, <2>1 DEF UnloadPath
  <2>3. ASSUME NEW i \in 1 .. Len(q) - 1
        PROVE  q[i] # "unloaded"
    <3>1. i + 1 \in 1 .. Len(p) - 1 /\ q[i] = p[i + 1]
      BY <1>1
    <3> QED
      BY <3>1 DEF UnloadPath
  <2>4. UnloadPath(q)
    BY <1>1, <1>2, <1>4, <1>5, <1>6, <2>2, <2>3 DEF UnloadPath, ModPairs
  <2>5. Second(p) \in UnloadNames
    BY <1>1, <1>6, TailIs DEF Second
  <2>6. "nothing" \notin UnloadNames
    BY DEF UnloadNames, Tear
  <2> QED
    BY <2>4, <2>5, <2>6
<1>7. Tail(p) = <<>> => Second(p) = "nothing"
  BY DEF Second
<1> QED
  BY <1>1, <1>2, <1>3, <1>4, <1>5, <1>6, <1>7

\* A teardown in one of two lists.
LEMMA TearJoin ==
  ASSUME NEW S, NEW p \in Seq(S), NEW q \in Seq(S), TearPairs(p), TearPairs(q),
         \A b \in Tear : q = <<>> \/ Head(q) # b
  PROVE  TearPairs(p \o q)
<1>1. Pair(p \o q, "t_begin", "t_group")
  BY PairJoin DEF TearPairs, Tear
<1>2. Pair(p \o q, "t_group", "t_readers")
  BY PairJoin DEF TearPairs, Tear
<1>3. Pair(p \o q, "t_readers", "t_lock")
  BY PairJoin DEF TearPairs, Tear
<1>4. Pair(p \o q, "t_lock", "t_free")
  BY PairJoin DEF TearPairs, Tear
<1>5. Pair(p \o q, "t_free", "t_end")
  BY PairJoin DEF TearPairs, Tear
<1> QED
  BY <1>1, <1>2, <1>3, <1>4, <1>5 DEF TearPairs

\* What comes first in the first list comes first.
LEMMA BeginsJoin ==
  ASSUME NEW S, NEW p \in Seq(S), NEW q \in Seq(S), Begins(p), Names(q) \cap Starters = {}
  PROVE  Begins(p \o q)
<1> SUFFICES ASSUME NEW i \in 2 .. Len(p \o q)
             PROVE  (p \o q)[i] \notin Starters
  BY DEF Begins
<1>1. Len(p) \in Nat /\ Len(q) \in Nat /\ Len(p \o q) = Len(p) + Len(q)
  BY JoinIs
<1>2. i \in 1 .. Len(p \o q)
  BY <1>1
<1>3. CASE i \in 1 .. Len(p) /\ (p \o q)[i] = p[i]
  <2>1. i \in 2 .. Len(p)
    BY <1>1, <1>3
  <2> QED
    BY <1>3, <2>1 DEF Begins
<1>4. CASE i - Len(p) \in 1 .. Len(q) /\ (p \o q)[i] = q[i - Len(p)]
  BY <1>4 DEF Names
<1> QED
  BY <1>2, <1>3, <1>4, JoinAt

-----------------------------------------------------------------------------
(* The paths themselves.                                                    *)

\* Steps that only come right after the one they belong to.
Seconds == {"debugfs_wait", "sysfs_wait", "q_wait", "q_free", "unadmin", "irq_wait"} \cup Tear

\* Two lists one after the other.
LEMMA TidyJoin ==
  ASSUME NEW p, NEW q, Tidy(p), Tidy(q), q = <<>> \/ Head(q) \notin Seconds,
         Names(q) \cap Starters = {},
         Names(p) \cap Last = {} \/ Names(q) \subseteq Last,
         Names(q) \cap Early = {} \/ Names(p) \subseteq Early
  PROVE  Tidy(p \o q) /\ Names(p \o q) = Names(p) \cup Names(q)
<1>1. p \in Seq(LeaveNames) /\ q \in Seq(LeaveNames)
  BY DEF Tidy
<1>2. /\ p \o q \in Seq(LeaveNames) /\ Len(p \o q) = Len(p) + Len(q)
      /\ Len(p) \in Nat /\ Len(q) \in Nat
      /\ \A k \in 1 .. Len(p) : (p \o q)[k] = p[k]
      /\ \A k \in 1 .. Len(q) : (p \o q)[Len(p) + k] = q[k]
  BY <1>1, JoinIs
<1>3. LeavePairs(p \o q)
  <2>1. \A b \in Seconds : q = <<>> \/ Head(q) # b
    OBVIOUS
  <2>2. /\ "debugfs_wait" \in Seconds /\ "sysfs_wait" \in Seconds /\ "q_wait" \in Seconds
        /\ "q_free" \in Seconds /\ "unadmin" \in Seconds /\ "irq_wait" \in Seconds
    BY DEF Seconds
  <2>3. LeavePairs(p) /\ LeavePairs(q)
    BY DEF Tidy
  <2>4. Pair(p \o q, "undebugfs", "debugfs_wait")
    BY <1>1, <2>1, <2>2, <2>3, PairJoin DEF LeavePairs
  <2>5. Pair(p \o q, "unsysfs", "sysfs_wait")
    BY <1>1, <2>1, <2>2, <2>3, PairJoin DEF LeavePairs
  <2>6. Pair(p \o q, "q_irq", "q_wait")
    BY <1>1, <2>1, <2>2, <2>3, PairJoin DEF LeavePairs
  <2>7. Pair(p \o q, "q_wait", "q_free")
    BY <1>1, <2>1, <2>2, <2>3, PairJoin DEF LeavePairs
  <2>8. Pair(p \o q, "off", "unadmin")
    BY <1>1, <2>1, <2>2, <2>3, PairJoin DEF LeavePairs
  <2>9. Pair(p \o q, "unirq", "irq_wait")
    BY <1>1, <2>1, <2>2, <2>3, PairJoin DEF LeavePairs
  <2> QED
    BY <2>4, <2>5, <2>6, <2>7, <2>8, <2>9 DEF LeavePairs
<1>4. TearPairs(p \o q)
  <2>1. \A b \in Seconds : q = <<>> \/ Head(q) # b
    OBVIOUS
  <2>2. Tear \subseteq Seconds
    BY DEF Seconds
  <2>3. TearPairs(p) /\ TearPairs(q)
    BY DEF Tidy
  <2> QED
    BY <1>1, <2>1, <2>2, <2>3, TearJoin
<1>5. Begins(p \o q)
  BY <1>1, BeginsJoin DEF Tidy
<1>6. Sorted(p \o q)
  <2> SUFFICES ASSUME NEW i \in 1 .. Len(p \o q), NEW j \in 1 .. Len(p \o q), i < j
               PROVE  /\ (p \o q)[i] \in Last => (p \o q)[j] \in Last
                      /\ (p \o q)[j] \in Early => (p \o q)[i] \in Early
    BY DEF Sorted
  <2>1. \A k \in 1 .. Len(p) : p[k] \in Names(p)
    BY DEF Names
  <2>2. \A k \in 1 .. Len(q) : q[k] \in Names(q)
    BY DEF Names
  <2>3. CASE i \in 1 .. Len(p) /\ j \in 1 .. Len(p)
    <3>1. (p \o q)[i] = p[i] /\ (p \o q)[j] = p[j]
      BY <1>2, <2>3
    <3> QED
      BY <2>3, <3>1 DEF Tidy, Sorted
  <2>4. CASE i \in 1 .. Len(p) /\ j \notin 1 .. Len(p)
    <3>1. j - Len(p) \in 1 .. Len(q) /\ (p \o q)[j] = q[j - Len(p)]
      BY <1>1, <2>4, JoinAt
    <3>2. (p \o q)[i] \in Names(p) /\ (p \o q)[j] \in Names(q)
      BY <1>2, <2>1, <2>2, <2>4, <3>1
    <3> QED
      BY <3>2
  <2>5. CASE i \notin 1 .. Len(p)
    <3> DEFINE k == i - Len(p)
               l == j - Len(p)
    <3>1. k \in 1 .. Len(q) /\ (p \o q)[i] = q[k]
      BY <1>1, <2>5, JoinAt
    <3>2. j \notin 1 .. Len(p)
      BY <1>2, <2>5
    <3>3. l \in 1 .. Len(q) /\ (p \o q)[j] = q[l]
      BY <1>1, <3>2, JoinAt
    <3>4. k < l
      BY <1>2
    <3> QED
      BY <3>1, <3>3, <3>4 DEF Tidy, Sorted
  <2> QED
    BY <2>3, <2>4, <2>5
<1>7. Names(p \o q) = Names(p) \cup Names(q)
  BY <1>1, NamesJoin
<1> QED
  BY <1>2, <1>3, <1>4, <1>5, <1>6, <1>7 DEF Tidy

\* What follows the first step starts nothing, and is not early after a step that is not.
LEMMA AfterFirst ==
  ASSUME NEW p, Tidy(p), p # <<>>
  PROVE  /\ Names(Tail(p)) \cap Starters = {}
         /\ Head(p) \notin Early => Names(Tail(p)) \cap Early = {}
<1>1. /\ Len(p) \in Nat \ {0} /\ Len(Tail(p)) = Len(p) - 1 /\ Head(p) = p[1]
      /\ \A i \in 1 .. Len(p) - 1 : Tail(p)[i] = p[i + 1]
  BY TailIs DEF Tidy
<1>2. \A i \in 1 .. Len(Tail(p)) : i + 1 \in 2 .. Len(p) /\ Tail(p)[i] = p[i + 1]
  BY <1>1
<1>3. \A i \in 2 .. Len(p) : p[i] \notin Starters
  BY DEF Tidy, Begins
<1>4. \A i \in 2 .. Len(p) : i \in 1 .. Len(p) /\ 1 \in 1 .. Len(p) /\ 1 < i
  BY <1>1
<1>5. \A i \in 2 .. Len(p) : p[i] \in Early => p[1] \in Early
  BY <1>4 DEF Tidy, Sorted
<1>6. Names(Tail(p)) \cap Starters = {}
  BY <1>2, <1>3 DEF Names
<1>7. Head(p) \notin Early => Names(Tail(p)) \cap Early = {}
  BY <1>1, <1>2, <1>5 DEF Names
<1> QED
  BY <1>6, <1>7

\* A member is first taken out of the registry if harmless steps come before.
LEMMA FirstJoin ==
  ASSUME NEW p \in Seq(LeaveNames), NEW q \in Seq(LeaveNames),
         MemberFirst(p) \/ (Names(p) \subseteq Harmless /\ MemberFirst(q))
  PROVE  MemberFirst(p \o q)
<1>1. /\ Len(p \o q) = Len(p) + Len(q) /\ Len(p) \in Nat /\ Len(q) \in Nat
      /\ \A k \in 1 .. Len(p) : (p \o q)[k] = p[k]
      /\ \A k \in 1 .. Len(q) : (p \o q)[Len(p) + k] = q[k]
  BY JoinIs
<1>2. CASE MemberFirst(p)
  <2>1. PICK i \in 1 .. Len(p) : p[i] \in MemberSteps /\ \A j \in 1 .. i : p[j] \in Harmless
    BY <1>2 DEF MemberFirst
  <2>2. i \in 1 .. Len(p \o q) /\ \A j \in 1 .. i : j \in 1 .. Len(p)
    BY <1>1
  <2>3. (p \o q)[i] \in MemberSteps /\ \A j \in 1 .. i : (p \o q)[j] \in Harmless
    BY <1>1, <2>1, <2>2
  <2> QED
    BY <2>2, <2>3 DEF MemberFirst
<1>3. CASE Names(p) \subseteq Harmless /\ MemberFirst(q)
  <2>1. PICK i \in 1 .. Len(q) : q[i] \in MemberSteps /\ \A j \in 1 .. i : q[j] \in Harmless
    BY <1>3 DEF MemberFirst
  <2>2. Len(p) + i \in 1 .. Len(p \o q) /\ \A j \in 1 .. Len(p) + i : j \in 1 .. Len(p \o q)
    BY <1>1
  <2>3. ASSUME NEW j \in 1 .. Len(p) + i
        PROVE  (p \o q)[j] \in Harmless
    <3>1. CASE j \in 1 .. Len(p) /\ (p \o q)[j] = p[j]
      BY <1>3, <3>1 DEF Names
    <3>2. CASE j > Len(p) /\ j - Len(p) \in 1 .. Len(q) /\ (p \o q)[j] = q[j - Len(p)]
      <4>1. j - Len(p) \in 1 .. i
        BY <1>1, <3>2
      <4> QED
        BY <2>1, <3>2, <4>1
    <3> QED
      BY <2>2, <3>1, <3>2, JoinAt
  <2> QED
    BY <1>1, <2>1, <2>2, <2>3 DEF MemberFirst
<1> QED
  BY <1>2, <1>3

\* A list of one step.
LEMMA OneStep ==
  ASSUME NEW s \in LeaveNames,
         s \notin Seconds \cup {"undebugfs", "unsysfs", "q_irq", "off", "unirq", "t_begin"}
  PROVE  Tidy(<<s>>) /\ Names(<<s>>) = {s} /\ <<s>> # <<>> /\ Head(<<s>>) = s
<1> DEFINE p == <<s>>
<1>1. p \in Seq(LeaveNames) /\ Len(p) = 1 /\ p[1] = s /\ p # <<>> /\ Head(p) = s
  OBVIOUS
<1> HIDE DEF p
<1>2. \A i \in 1 .. Len(p) : p[i] = s
  BY <1>1
<1>3. \A i \in 2 .. Len(p) : FALSE
  BY <1>1
<1>4. \A i, j \in 1 .. Len(p) : ~(i < j)
  BY <1>1
<1>5. LeavePairs(p)
  BY <1>2, <1>3 DEF LeavePairs, Pair, Seconds
<1>6. TearPairs(p)
  BY <1>2, <1>3 DEF TearPairs, Pair, Seconds, Tear
<1>7. Names(p) = {s}
  BY <1>1 DEF Names
<1>8. Tidy(p)
  BY <1>1, <1>3, <1>4, <1>5, <1>6 DEF Tidy, Begins, Sorted
<1> QED
  BY <1>1, <1>7, <1>8 DEF p

\* The empty list.
LEMMA NothingTidy == Tidy(<<>>) /\ Names(<<>>) = {}
<1> DEFINE p == <<>>
<1>1. p \in Seq(LeaveNames) /\ Len(p) = 0
  OBVIOUS
<1>2. 1 .. Len(p) = {} /\ 2 .. Len(p) = {}
  BY <1>1
<1> HIDE DEF p
<1>3. LeavePairs(p)
  BY <1>2 DEF LeavePairs, Pair
<1>4. TearPairs(p)
  BY <1>2 DEF TearPairs, Pair
<1>5. Begins(p) /\ Sorted(p) /\ Names(p) = {}
  BY <1>2 DEF Begins, Sorted, Names
<1> QED
  BY <1>1, <1>3, <1>4, <1>5 DEF Tidy, p

\* The first steps of a removal.
LEMMA EarlyTidy ==
  /\ Tidy(<<"undebugfs", "debugfs_wait", "unsysfs", "sysfs_wait">>) /\ <<"undebugfs", "debugfs_wait", "unsysfs", "sysfs_wait">> # <<>> /\ Head(<<"undebugfs", "debugfs_wait", "unsysfs", "sysfs_wait">>) = "undebugfs"
  /\ Names(<<"undebugfs", "debugfs_wait", "unsysfs", "sysfs_wait">>) = {"undebugfs", "debugfs_wait", "unsysfs", "sysfs_wait"}
<1> DEFINE p == <<"undebugfs", "debugfs_wait", "unsysfs", "sysfs_wait">>
<1>1. p \in Seq(LeaveNames)
  BY DEF LeaveNames, Early, Tear, Last
<1>2. /\ Len(p) = 4 /\ p # <<>> /\ Head(p) = p[1]
      /\ p[1] = "undebugfs" /\ p[2] = "debugfs_wait" /\ p[3] = "unsysfs" /\ p[4] = "sysfs_wait"
  OBVIOUS
<1> HIDE DEF p
<1>3. 1 .. Len(p) = {1, 2, 3, 4} /\ 2 .. Len(p) = {2, 3, 4}
  BY <1>2
<1>4. Names(p) = {p[1], p[2], p[3], p[4]}
  BY <1>3 DEF Names
<1>5. LeavePairs(p)
  BY <1>2, <1>3 DEF LeavePairs, Pair
<1>6. TearPairs(p)
  BY <1>2, <1>3 DEF TearPairs, Pair
<1>7. Begins(p) /\ Sorted(p)
  BY <1>2, <1>3 DEF Begins, Sorted, Starters, Last, Early
<1> QED
  BY <1>1, <1>2, <1>4, <1>5, <1>6, <1>7 DEF Tidy, p

\* The end of a controller.
LEMMA CleanupTidy ==
  /\ Tidy(Cleanup) /\ Cleanup # <<>> /\ Head(Cleanup) = "q_irq"
  /\ Names(Cleanup) = {"q_irq", "q_wait", "q_free", "off", "unadmin"}
<1> DEFINE p == Cleanup
<1>1. p \in Seq(LeaveNames)
  BY DEF Cleanup, LeaveNames, Early, Tear, Last
<1>2. /\ Len(p) = 5 /\ p # <<>> /\ Head(p) = p[1]
      /\ p[1] = "q_irq" /\ p[2] = "q_wait" /\ p[3] = "q_free" /\ p[4] = "off" /\ p[5] = "unadmin"
  BY DEF Cleanup
<1> HIDE DEF p
<1>3. 1 .. Len(p) = {1, 2, 3, 4, 5} /\ 2 .. Len(p) = {2, 3, 4, 5}
  BY <1>2
<1>4. Names(p) = {p[1], p[2], p[3], p[4], p[5]}
  BY <1>3 DEF Names
<1>5. LeavePairs(p)
  BY <1>2, <1>3 DEF LeavePairs, Pair
<1>6. TearPairs(p)
  BY <1>2, <1>3 DEF TearPairs, Pair
<1>7. Begins(p) /\ Sorted(p)
  BY <1>2, <1>3 DEF Begins, Sorted, Starters, Last, Early
<1> QED
  BY <1>1, <1>2, <1>4, <1>5, <1>6, <1>7 DEF Tidy, p

\* The end of its interrupt.
LEMMA FreeIrqTidy ==
  /\ Tidy(FreeIrq) /\ FreeIrq # <<>> /\ Head(FreeIrq) = "unirq"
  /\ Names(FreeIrq) = {"unirq", "irq_wait"}
<1> DEFINE p == FreeIrq
<1>1. p \in Seq(LeaveNames)
  BY DEF FreeIrq, LeaveNames, Early, Tear, Last
<1>2. /\ Len(p) = 2 /\ p # <<>> /\ Head(p) = p[1]
      /\ p[1] = "unirq" /\ p[2] = "irq_wait"
  BY DEF FreeIrq
<1> HIDE DEF p
<1>3. 1 .. Len(p) = {1, 2} /\ 2 .. Len(p) = {2}
  BY <1>2
<1>4. Names(p) = {p[1], p[2]}
  BY <1>3 DEF Names
<1>5. LeavePairs(p)
  BY <1>2, <1>3 DEF LeavePairs, Pair
<1>6. TearPairs(p)
  BY <1>2, <1>3 DEF TearPairs, Pair
<1>7. Begins(p) /\ Sorted(p)
  BY <1>2, <1>3 DEF Begins, Sorted, Starters, Last, Early
<1> QED
  BY <1>1, <1>2, <1>4, <1>5, <1>6, <1>7 DEF Tidy, p

\* The end of its function.
LEMMA DisableTidy ==
  /\ Tidy(ErrDisable) /\ ErrDisable # <<>> /\ Head(ErrDisable) = "disable"
  /\ Names(ErrDisable) = {"disable", "free"}
<1> DEFINE p == ErrDisable
<1>1. p \in Seq(LeaveNames)
  BY DEF ErrDisable, LeaveNames, Early, Tear, Last
<1>2. /\ Len(p) = 2 /\ p # <<>> /\ Head(p) = p[1]
      /\ p[1] = "disable" /\ p[2] = "free"
  BY DEF ErrDisable
<1> HIDE DEF p
<1>3. 1 .. Len(p) = {1, 2} /\ 2 .. Len(p) = {2}
  BY <1>2
<1>4. Names(p) = {p[1], p[2]}
  BY <1>3 DEF Names
<1>5. LeavePairs(p)
  BY <1>2, <1>3 DEF LeavePairs, Pair
<1>6. TearPairs(p)
  BY <1>2, <1>3 DEF TearPairs, Pair
<1>7. Begins(p) /\ Sorted(p)
  BY <1>2, <1>3 DEF Begins, Sorted, Starters, Last, Early
<1> QED
  BY <1>1, <1>2, <1>4, <1>5, <1>6, <1>7 DEF Tidy, p

\* A teardown.
LEMMA TeardownTidy ==
  /\ Tidy(Teardown) /\ Teardown # <<>> /\ Head(Teardown) = "t_begin" /\ MemberFirst(Teardown)
  /\ Names(Teardown) = {"t_begin", "t_group", "t_readers", "t_lock", "t_free", "t_end"}
<1> DEFINE p == Teardown
<1>1. p \in Seq(LeaveNames)
  BY DEF Teardown, LeaveNames, Early, Tear, Last
<1>2. /\ Len(p) = 6 /\ p # <<>> /\ Head(p) = p[1]
      /\ p[1] = "t_begin" /\ p[2] = "t_group" /\ p[3] = "t_readers" /\ p[4] = "t_lock" /\ p[5] = "t_free" /\ p[6] = "t_end"
  BY DEF Teardown
<1> HIDE DEF p
<1>3. 1 .. Len(p) = {1, 2, 3, 4, 5, 6} /\ 2 .. Len(p) = {2, 3, 4, 5, 6}
  BY <1>2
<1>4. Names(p) = {p[1], p[2], p[3], p[4], p[5], p[6]}
  BY <1>3 DEF Names
<1>5. LeavePairs(p)
  BY <1>2, <1>3 DEF LeavePairs, Pair
<1>6. TearPairs(p)
  BY <1>2, <1>3 DEF TearPairs, Pair
<1>7. Begins(p) /\ Sorted(p)
  BY <1>2, <1>3 DEF Begins, Sorted, Starters, Last, Early
<1>8. MemberFirst(p)
  <2>1. 5 \in 1 .. Len(p) /\ 1 .. 5 = {1, 2, 3, 4, 5}
    BY <1>2
  <2>2. p[5] \in MemberSteps /\ \A j \in 1 .. 5 : p[j] \in Harmless
    BY <1>2, <2>1 DEF MemberSteps, Harmless, Tear
  <2> QED
    BY <2>1, <2>2 DEF MemberFirst
<1> QED
  BY <1>1, <1>2, <1>4, <1>5, <1>6, <1>7, <1>8 DEF Tidy, p

\* The admin queue of a controller that never came on.
LEMMA UnadminTidy ==
  /\ Tidy(<<"unadmin">>) /\ Names(<<"unadmin">>) = {"unadmin"}
  /\ <<"unadmin">> # <<>> /\ Head(<<"unadmin">>) = "unadmin"
<1> DEFINE p == <<"unadmin">>
<1>1. p \in Seq(LeaveNames)
  BY DEF LeaveNames
<1>2. Len(p) = 1 /\ p # <<>> /\ Head(p) = p[1] /\ p[1] = "unadmin"
  OBVIOUS
<1> HIDE DEF p
<1>3. 1 .. Len(p) = {1} /\ 2 .. Len(p) = {}
  BY <1>2
<1>4. Names(p) = {p[1]}
  BY <1>3 DEF Names
<1>5. LeavePairs(p)
  BY <1>2, <1>3 DEF LeavePairs, Pair
<1>6. TearPairs(p)
  BY <1>2, <1>3 DEF TearPairs, Pair
<1>7. Begins(p) /\ Sorted(p)
  BY <1>2, <1>3 DEF Begins, Sorted
<1> QED
  BY <1>1, <1>2, <1>4, <1>5, <1>6, <1>7 DEF Tidy, p

\* The head of the first list is the head of both.
LEMMA HeadJoin ==
  ASSUME NEW S, NEW p \in Seq(S), NEW q \in Seq(S)
  PROVE  /\ p # <<>> => p \o q # <<>> /\ Head(p \o q) = Head(p)
         /\ p = <<>> => p \o q = q
OBVIOUS

\* The last steps of every path.
LEMMA ReleaseTidy ==
  /\ Tidy(ErrUnmap) /\ ErrUnmap # <<>> /\ Head(ErrUnmap) = "unmap"
  /\ Names(ErrUnmap) = {"unmap", "disable", "free"}
  /\ Tidy(ErrRelease) /\ ErrRelease # <<>> /\ Head(ErrRelease) = "release"
  /\ Names(ErrRelease) = Last
<1>1. /\ Tidy(<<"unmap">>) /\ Names(<<"unmap">>) = {"unmap"}
      /\ <<"unmap">> # <<>> /\ Head(<<"unmap">>) = "unmap"
  BY OneStep DEF LeaveNames, Last, Seconds, Tear
<1>2. /\ Tidy(<<"release">>) /\ Names(<<"release">>) = {"release"}
      /\ <<"release">> # <<>> /\ Head(<<"release">>) = "release"
  BY OneStep DEF LeaveNames, Last, Seconds, Tear
<1>3. "disable" \notin Seconds /\ "unmap" \notin Seconds
  BY DEF Seconds, Tear
<1>4. Tidy(ErrUnmap) /\ Names(ErrUnmap) = {"unmap"} \cup {"disable", "free"}
  BY <1>1, <1>3, DisableTidy, TidyJoin DEF ErrUnmap, Starters, Last, Early
<1>5. ErrUnmap # <<>> /\ Head(ErrUnmap) = "unmap"
  BY <1>1, DisableTidy, HeadJoin DEF ErrUnmap, Tidy
<1>6. Tidy(ErrRelease) /\ Names(ErrRelease) = {"release"} \cup Names(ErrUnmap)
  BY <1>2, <1>3, <1>4, <1>5, TidyJoin DEF ErrRelease, Starters, Last, Early
<1>7. ErrRelease # <<>> /\ Head(ErrRelease) = "release"
  BY <1>2, <1>4, HeadJoin DEF ErrRelease, Tidy
<1> QED
  BY <1>4, <1>5, <1>6, <1>7 DEF Last

\* The end of a controller and of its membership.
LeavingNames(d) ==
  IF kind[d] = "nvme" THEN {"leave", "q_irq", "q_wait", "q_free", "off", "unadmin"} ELSE {}
\* A device leaves the volume before its queues go.
LEMMA LeavingTidy ==
  ASSUME NEW d
  PROVE  /\ Tidy(Leaving(d)) /\ Names(Leaving(d)) = LeavingNames(d)
         /\ kind[d] = "nvme" => Leaving(d) # <<>> /\ Head(Leaving(d)) = "leave" /\ MemberFirst(Leaving(d))
         /\ kind[d] # "nvme" => Leaving(d) = <<>>
<1>1. CASE kind[d] = "nvme"
  <2>1. /\ Tidy(<<"leave">>) /\ Names(<<"leave">>) = {"leave"}
        /\ <<"leave">> # <<>> /\ Head(<<"leave">>) = "leave"
    BY OneStep DEF LeaveNames, Last, Seconds, Tear
  <2>2. Leaving(d) = <<"leave">> \o Cleanup
    BY <1>1 DEF Leaving
  <2>3. "q_irq" \notin Seconds
    BY DEF Seconds, Tear
  <2>4. Tidy(<<"leave">> \o Cleanup) /\ Names(<<"leave">> \o Cleanup) = {"leave"} \cup Names(Cleanup)
    BY <2>1, <2>3, CleanupTidy, TidyJoin DEF Starters, Last, Early
  <2>5. <<"leave">> \o Cleanup # <<>> /\ Head(<<"leave">> \o Cleanup) = "leave"
    BY <2>1, CleanupTidy, HeadJoin DEF Tidy
  <2>6. MemberFirst(<<"leave">> \o Cleanup)
    <3>1. <<"leave">> \in Seq(LeaveNames) /\ Cleanup \in Seq(LeaveNames)
      BY <2>1, CleanupTidy DEF Tidy
    <3>2. MemberFirst(<<"leave">>)
      BY DEF MemberFirst, MemberSteps, Harmless
    <3> QED
      BY <3>1, <3>2, FirstJoin
  <2> QED
    BY <1>1, <2>2, <2>4, <2>5, <2>6, CleanupTidy DEF LeavingNames
<1>2. CASE kind[d] # "nvme"
  <2>1. Leaving(d) = <<>>
    BY <1>2 DEF Leaving
  <2>2. Tidy(<<>>) /\ Names(<<>>) = {}
    BY NothingTidy
  <2> QED
    BY <1>2, <2>1, <2>2 DEF LeavingNames
<1> QED
  BY <1>1, <1>2

\* What every path that leaves a device with its interrupt does in the end.
LEMMA ErrNvmeTidy ==
  ASSUME NEW d
  PROVE  /\ Tidy(ErrNvme(d)) /\ ErrNvme(d) # <<>>
         /\ Names(ErrNvme(d)) = LeavingNames(d) \cup {"unirq", "irq_wait"} \cup Last
         /\ Head(ErrNvme(d)) = IF kind[d] = "nvme" THEN "leave" ELSE "unirq"
         /\ kind[d] = "nvme" => MemberFirst(ErrNvme(d))
<1> DEFINE a == Leaving(d) \o FreeIrq
<1>1. "unirq" \notin Seconds /\ "release" \notin Seconds
  BY DEF Seconds, Tear
<1>2. Tidy(a) /\ Names(a) = LeavingNames(d) \cup {"unirq", "irq_wait"}
  BY <1>1, LeavingTidy, FreeIrqTidy, TidyJoin DEF Starters, Last, Early, LeavingNames
<1>3. a # <<>> /\ Head(a) = (IF kind[d] = "nvme" THEN "leave" ELSE "unirq")
  BY LeavingTidy, FreeIrqTidy, HeadJoin DEF Tidy
<1>4. kind[d] = "nvme" => MemberFirst(a)
  BY LeavingTidy, FreeIrqTidy, FirstJoin DEF Tidy
<1> HIDE DEF a
<1>5. Tidy(a \o ErrRelease) /\ Names(a \o ErrRelease) = Names(a) \cup Last
  BY <1>1, <1>2, ReleaseTidy, TidyJoin DEF Starters, Last, Early
<1>6. a \o ErrRelease # <<>> /\ Head(a \o ErrRelease) = Head(a)
  BY <1>2, <1>3, ReleaseTidy, HeadJoin DEF Tidy
<1>7. kind[d] = "nvme" => MemberFirst(a \o ErrRelease)
  BY <1>2, <1>4, ReleaseTidy, FirstJoin DEF Tidy
<1>8. ErrNvme(d) = a \o ErrRelease
  BY DEF ErrNvme, a
<1> QED
  BY <1>2, <1>3, <1>5, <1>6, <1>7, <1>8

\* A removal.
LEMMA RemoveTidy ==
  ASSUME NEW d
  PROVE  /\ Tidy(Remove(d)) /\ Remove(d) # <<>> /\ Head(Remove(d)) = "undebugfs"
         /\ Names(Remove(d)) = Early \cup LeavingNames(d) \cup {"detach", "unirq", "irq_wait"} \cup Last
         /\ kind[d] = "nvme" => MemberFirst(Remove(d))
<1> DEFINE e == <<"undebugfs", "debugfs_wait", "unsysfs", "sysfs_wait">>
           a == e \o Leaving(d)
           b == a \o Detach
           c == b \o FreeIrq
<1>1. {"leave", "detach", "unirq", "release"} \cap Seconds = {}
  BY DEF Seconds, Tear
<1>2. Tidy(e) /\ e # <<>> /\ Head(e) = "undebugfs" /\ Names(e) = Early
  BY EarlyTidy DEF Early
<1> HIDE DEF e
<1>3. Tidy(a) /\ Names(a) = Early \cup LeavingNames(d)
  BY <1>1, <1>2, LeavingTidy, TidyJoin DEF Starters, Last, Early, LeavingNames
<1>4. a # <<>> /\ Head(a) = "undebugfs"
  BY <1>2, LeavingTidy, HeadJoin DEF Tidy
<1>5. kind[d] = "nvme" => MemberFirst(a)
  BY <1>2, LeavingTidy, FirstJoin DEF Tidy, Harmless
<1> HIDE DEF a
<1>6. /\ Tidy(Detach) /\ Names(Detach) = {"detach"} /\ Head(Detach) = "detach"
  BY OneStep DEF Detach, LeaveNames, Seconds, Tear
<1>7. Tidy(b) /\ Names(b) = Early \cup LeavingNames(d) \cup {"detach"}
  BY <1>1, <1>3, <1>6, TidyJoin DEF Starters, Last, Early, LeavingNames
<1>8. b # <<>> /\ Head(b) = "undebugfs"
  BY <1>3, <1>4, <1>6, HeadJoin DEF Tidy
<1>9. kind[d] = "nvme" => MemberFirst(b)
  BY <1>3, <1>5, <1>6, FirstJoin DEF Tidy
<1> HIDE DEF b
<1>10. Tidy(c) /\ Names(c) = Early \cup LeavingNames(d) \cup {"detach", "unirq", "irq_wait"}
  BY <1>1, <1>7, FreeIrqTidy, TidyJoin DEF Starters, Last, Early, LeavingNames
<1>11. c # <<>> /\ Head(c) = "undebugfs"
  BY <1>7, <1>8, FreeIrqTidy, HeadJoin DEF Tidy
<1>12. kind[d] = "nvme" => MemberFirst(c)
  BY <1>7, <1>9, FreeIrqTidy, FirstJoin DEF Tidy
<1> HIDE DEF c
<1>13. Tidy(c \o ErrRelease) /\ Names(c \o ErrRelease) = Names(c) \cup Last
  BY <1>1, <1>10, ReleaseTidy, TidyJoin DEF Starters, Last, Early
<1>14. c \o ErrRelease # <<>> /\ Head(c \o ErrRelease) = Head(c)
  BY <1>10, <1>11, ReleaseTidy, HeadJoin DEF Tidy
<1>15. kind[d] = "nvme" => MemberFirst(c \o ErrRelease)
  BY <1>10, <1>12, ReleaseTidy, FirstJoin DEF Tidy
<1>16. Remove(d) = c \o ErrRelease
  BY DEF Remove, e, a, b, c
<1> QED
  BY <1>10, <1>11, <1>13, <1>14, <1>15, <1>16

\* Where a probe that fails goes: every step that returns what it has obtained,
\* and the membership before anything it needs.
Unwound(d, name, p) ==
  /\ Tidy(p) /\ p # <<>>
  /\ Head(p) \in {"free", "disable", "unmap", "release", "detach", "unadmin", "q_irq", "leave", "unirq"}
  /\ \A x \in Got(d, name) : Taker(x) \in Names(p)
  /\ kind[d] = "nvme" /\ name \in {"attach", "sysfs"} => MemberFirst(p) /\ "q_free" \in Names(p)
  /\ name = "sysfs" => "detach" \in Names(p)
  /\ name \in {"bars", "enable", "vectors", "irq"} => Head(p) \in Last
  /\ Head(p) = "unadmin" => name = "on"
\* Every goto of rc_bottom_probe leads to what returns all that was obtained.
LEMMA UnwindTidy ==
  ASSUME NEW d, NEW name \in (Fallible \cup {"attach"}) \ {"alloc"},
         kind[d] = "nvme" \/ name \notin NvmeNames
  PROVE  Unwound(d, name, Unwind(d, name))
<1>1. CASE name = "enable"
  <2>1. Unwind(d, name) = <<"free">>
    BY <1>1 DEF Unwind
  <2>2. /\ Tidy(<<"free">>) /\ Names(<<"free">>) = {"free"} /\ <<"free">> # <<>> /\ Head(<<"free">>) = "free"
    BY OneStep DEF LeaveNames, Last, Seconds, Tear
  <2> QED
    BY <1>1, <2>1, <2>2 DEF Unwound, Got, Taker, Last
<1>2. CASE name = "bars"
  BY <1>2, DisableTidy DEF Unwind, Unwound, Got, Taker, Last
<1>3. CASE name = "vectors"
  BY <1>3, ReleaseTidy DEF Unwind, Unwound, Got, Taker, Last
<1>4. CASE name = "irq"
  BY <1>4, ReleaseTidy DEF Unwind, Unwound, Got, Taker, Last
<1>5. CASE name \in {"admin", "attach"}
  <2>1. Unwind(d, name) = ErrNvme(d)
    BY <1>5 DEF Unwind
  <2>2. \A x \in Got(d, name) : Taker(x) \in Names(ErrNvme(d))
    <3>1. \A x \in Common : Taker(x) \in {"unirq"} \cup Last
      BY DEF Common, Taker, Last
    <3>2. kind[d] = "nvme" => \A x \in {"admin", "on"} : Taker(x) \in LeavingNames(d)
      BY DEF Taker, LeavingNames
    <3>3. Got(d, name) \subseteq Common \cup (IF kind[d] = "nvme" THEN {"admin", "on"} ELSE {})
      BY <1>5 DEF Got, Whole
    <3> QED
      BY <3>1, <3>2, <3>3, ErrNvmeTidy
  <2>3. kind[d] = "nvme" => "q_free" \in Names(ErrNvme(d))
    BY ErrNvmeTidy DEF LeavingNames
  <2> QED
    BY <1>5, <2>1, <2>2, <2>3, ErrNvmeTidy DEF Unwound
<1>6. CASE name = "on"
  <2> DEFINE e == <<"unadmin">>
  <2>1. Unwind(d, name) = e \o ErrNvme(d)
    BY <1>6 DEF Unwind
  <2>2. Tidy(e) /\ Names(e) = {"unadmin"} /\ e # <<>> /\ Head(e) = "unadmin"
    BY UnadminTidy
  <2>3. kind[d] = "nvme"
    BY <1>6 DEF NvmeNames
  <2> HIDE DEF e
  <2>4. "leave" \notin Seconds
    BY DEF Seconds, Tear
  <2>5. Tidy(e \o ErrNvme(d)) /\ Names(e \o ErrNvme(d)) = Names(e) \cup Names(ErrNvme(d))
    BY <2>2, <2>3, <2>4, ErrNvmeTidy, TidyJoin DEF Starters, Last, Early, LeavingNames
  <2>6. e \o ErrNvme(d) # <<>> /\ Head(e \o ErrNvme(d)) = "unadmin"
    BY <2>2, ErrNvmeTidy, HeadJoin DEF Tidy
  <2>7. \A x \in Got(d, name) : Taker(x) \in {"unadmin", "unirq"} \cup Last
    BY <1>6 DEF Got, Common, Taker, Last
  <2> QED
    BY <1>6, <2>1, <2>2, <2>5, <2>6, <2>7, ErrNvmeTidy DEF Unwound
<1>7. CASE name = "queues"
  <2> DEFINE e == Cleanup
  <2>1. Unwind(d, name) = e \o ErrNvme(d)
    BY <1>7 DEF Unwind
  <2>2. /\ Tidy(e) /\ Names(e) = {"q_irq", "q_wait", "q_free", "off", "unadmin"}
        /\ e # <<>> /\ Head(e) = "q_irq"
    BY CleanupTidy
  <2>3. kind[d] = "nvme"
    BY <1>7 DEF NvmeNames
  <2> HIDE DEF e
  <2>4. "leave" \notin Seconds
    BY DEF Seconds, Tear
  <2>5. Tidy(e \o ErrNvme(d)) /\ Names(e \o ErrNvme(d)) = Names(e) \cup Names(ErrNvme(d))
    BY <2>2, <2>3, <2>4, ErrNvmeTidy, TidyJoin DEF Starters, Last, Early, LeavingNames
  <2>6. e \o ErrNvme(d) # <<>> /\ Head(e \o ErrNvme(d)) = "q_irq"
    BY <2>2, ErrNvmeTidy, HeadJoin DEF Tidy
  <2>7. \A x \in Got(d, name) : Taker(x) \in {"unadmin", "off", "unirq"} \cup Last
    BY <1>7 DEF Got, Common, Taker, Last
  <2> QED
    BY <1>7, <2>1, <2>2, <2>5, <2>6, <2>7, ErrNvmeTidy DEF Unwound
<1>8. CASE name = "sysfs"
  <2> DEFINE e == Detach
  <2>1. Unwind(d, name) = e \o ErrNvme(d)
    BY <1>8 DEF Unwind
  <2>2. Tidy(e) /\ Names(e) = {"detach"} /\ e # <<>> /\ Head(e) = "detach"
    BY OneStep DEF Detach, LeaveNames, Seconds, Tear
  <2> HIDE DEF e
  <2>4. {"leave", "unirq"} \cap Seconds = {}
    BY DEF Seconds, Tear
  <2>5. Tidy(e \o ErrNvme(d)) /\ Names(e \o ErrNvme(d)) = Names(e) \cup Names(ErrNvme(d))
    BY <2>2, <2>4, ErrNvmeTidy, TidyJoin DEF Starters, Last, Early, LeavingNames
  <2>6. e \o ErrNvme(d) # <<>> /\ Head(e \o ErrNvme(d)) = "detach"
    BY <2>2, ErrNvmeTidy, HeadJoin DEF Tidy
  <2>7. \A x \in Got(d, name) : Taker(x) \in Names(ErrNvme(d))
    <3>1. \A x \in Common : Taker(x) \in {"unirq"} \cup Last
      BY DEF Common, Taker, Last
    <3>2. kind[d] = "nvme" => \A x \in {"admin", "on"} : Taker(x) \in LeavingNames(d)
      BY DEF Taker, LeavingNames
    <3>3. Got(d, name) \subseteq Common \cup (IF kind[d] = "nvme" THEN {"admin", "on"} ELSE {})
      BY <1>8 DEF Got, Whole
    <3> QED
      BY <3>1, <3>2, <3>3, ErrNvmeTidy
  <2>8. kind[d] = "nvme" => MemberFirst(e \o ErrNvme(d)) /\ "q_free" \in Names(ErrNvme(d))
    BY <2>2, ErrNvmeTidy, FirstJoin DEF Tidy, Harmless, LeavingNames
  <2> QED
    BY <1>8, <2>1, <2>2, <2>5, <2>6, <2>7, <2>8 DEF Unwound
<1> QED
  BY <1>1, <1>2, <1>3, <1>4, <1>5, <1>6, <1>7, <1>8 DEF Fallible

\* A probe begins with nothing.
LEMMA ProbeIs ==
  ASSUME NEW d
  PROVE  ProbePath(d, Probe(d)) /\ Head(Probe(d)) = "alloc"
<1> DEFINE a == <<"alloc", "enable", "bars", "vectors", "irq">>
           b == Bringup(d)
           c == <<"attach", "sysfs", "debugfs">>
           q == a \o b
           p == q \o c
<1>1. /\ a \in Seq(ProbeNames) /\ Len(a) = 5 /\ a[1] = "alloc" /\ a[2] = "enable"
      /\ a[3] = "bars" /\ a[4] = "vectors" /\ a[5] = "irq"
  BY DEF ProbeNames
<1>2. c \in Seq(ProbeNames) /\ Len(c) = 3 /\ c[1] = "attach" /\ c[2] = "sysfs" /\ c[3] = "debugfs"
  BY DEF ProbeNames
<1>3. kind[d] = "nvme" => /\ b \in Seq(ProbeNames) /\ Len(b) = 4 /\ b[1] = "admin" /\ b[2] = "on"
                          /\ b[3] = "queues" /\ b[4] = "register"
  BY DEF Bringup, ProbeNames
<1>4. kind[d] # "nvme" => b \in Seq(ProbeNames) /\ Len(b) = 0
  BY DEF Bringup
<1>5. p = Probe(d)
  BY DEF Probe
<1> HIDE DEF a, b, c
<1>6. CASE kind[d] = "nvme"
  <2>0. /\ q \in Seq(ProbeNames) /\ Len(q) = Len(a) + Len(b)
        /\ \A i \in 1 .. Len(a) : q[i] = a[i]
        /\ \A i \in 1 .. Len(b) : q[Len(a) + i] = b[i]
    <3>1. a \in Seq(ProbeNames) /\ b \in Seq(ProbeNames)
      BY <1>1, <1>3, <1>6
    <3> QED
      BY <3>1, JoinIs
  <2> HIDE DEF q
  <2>1. /\ Len(q) = 5 + 4
        /\ \A i \in 1 .. 5 : q[i] = a[i]
        /\ \A i \in 1 .. 4 : q[5 + i] = b[i]
    BY <1>1, <1>3, <1>6, <2>0
  <2>2. /\ q[1] = "alloc" /\ q[2] = "enable" /\ q[3] = "bars" /\ q[4] = "vectors" /\ q[5] = "irq"
        /\ Len(q) = 9
    BY <1>1, <2>1
  <2>3. q[6] = "admin" /\ q[7] = "on" /\ q[8] = "queues" /\ q[9] = "register"
    <3>1. q[5 + 1] = "admin" /\ q[5 + 2] = "on" /\ q[5 + 3] = "queues" /\ q[5 + 4] = "register"
      BY <1>3, <1>6, <2>1
    <3>2. 5 + 1 = 6 /\ 5 + 2 = 7 /\ 5 + 3 = 8 /\ 5 + 4 = 9
      OBVIOUS
    <3> QED
      BY <3>1, <3>2
  <2>10. /\ p \in Seq(ProbeNames) /\ Len(p) = Len(q) + Len(c)
         /\ \A i \in 1 .. Len(q) : p[i] = q[i]
         /\ \A i \in 1 .. Len(c) : p[Len(q) + i] = c[i]
    <3>1. q \in Seq(ProbeNames) /\ c \in Seq(ProbeNames)
      BY <1>2, <2>0, <2>2
    <3> QED
      BY <3>1, JoinIs
  <2> HIDE DEF p
  <2>4. /\ Len(p) = 9 + 3
        /\ \A i \in 1 .. 9 : p[i] = q[i]
        /\ \A i \in 1 .. 3 : p[9 + i] = c[i]
    <3>1. Len(q) = 9 /\ Len(c) = 3
      BY <1>2, <2>2
    <3>2. /\ Len(p) = Len(q) + Len(c)
          /\ \A i \in 1 .. Len(q) : p[i] = q[i]
          /\ \A i \in 1 .. Len(c) : p[Len(q) + i] = c[i]
      BY <2>10
    <3> QED
      BY <3>1, <3>2
  <2>5. /\ p[1] = "alloc" /\ p[2] = "enable" /\ p[3] = "bars" /\ p[4] = "vectors" /\ p[5] = "irq"
        /\ p[6] = "admin" /\ p[7] = "on" /\ p[8] = "queues" /\ p[9] = "register"
    BY <2>2, <2>3, <2>4
  <2>6. p[10] = "attach" /\ p[11] = "sysfs" /\ p[12] = "debugfs"
    <3>1. 9 + 1 = 10 /\ 9 + 2 = 11 /\ 9 + 3 = 12
      OBVIOUS
    <3>2. p[9 + 1] = c[1] /\ p[9 + 2] = c[2] /\ p[9 + 3] = c[3]
      BY <2>4
    <3> QED
      BY <1>2, <3>1, <3>2
  <2>7. Len(p) = 12 /\ p # <<>> /\ Head(p) = p[1]
    <3>1. Len(p) = 12
      BY <2>4
    <3>2. p \in Seq(ProbeNames) /\ Len(p) # 0
      BY <2>10, <3>1
    <3>3. p # <<>> /\ Head(p) = p[1]
      BY <3>2
    <3> QED
      BY <3>1, <3>3
  <2>8. 1 .. Len(p) - 1 = {1, 2, 3, 4, 5, 6, 7, 8, 9, 10, 11}
    BY <2>7
  <2>9. \A i \in 1 .. Len(p) - 1 : p[i] # "debugfs" /\ p[i + 1] = Succ(d, p[i])
    <3>1. /\ Succ(d, "alloc") = "enable" /\ Succ(d, "enable") = "bars"
          /\ Succ(d, "bars") = "vectors" /\ Succ(d, "vectors") = "irq"
          /\ Succ(d, "irq") = "admin" /\ Succ(d, "admin") = "on"
      BY <1>6 DEF Succ
    <3>2. /\ Succ(d, "on") = "queues" /\ Succ(d, "queues") = "register"
          /\ Succ(d, "register") = "attach" /\ Succ(d, "attach") = "sysfs"
          /\ Succ(d, "sysfs") = "debugfs"
      BY DEF Succ
    <3>3. ASSUME NEW i \in {1, 2, 3, 4, 5, 6}
          PROVE  p[i] # "debugfs" /\ p[i + 1] = Succ(d, p[i])
      BY <2>5, <3>1
    <3>4. ASSUME NEW i \in {7, 8, 9, 10, 11}
          PROVE  p[i] # "debugfs" /\ p[i + 1] = Succ(d, p[i])
      BY <2>5, <2>6, <3>2
    <3>5. \A i \in {1, 2, 3, 4, 5, 6, 7, 8, 9, 10, 11} :
            i \in {1, 2, 3, 4, 5, 6} \/ i \in {7, 8, 9, 10, 11}
      OBVIOUS
    <3> QED
      BY <2>8, <3>3, <3>4, <3>5
  <2>11. p \in Seq(ProbeNames) /\ p # <<>> /\ p[Len(p)] = "debugfs"
    <3>1. p[Len(p)] = "debugfs"
      <4>1. Len(p) = 12 /\ p[12] = "debugfs"
        BY <2>6, <2>7
      <4> QED
        BY <4>1
    <3>2. p \in Seq(ProbeNames)
      BY <2>10
    <3>3. p # <<>>
      BY <2>7
    <3> QED
      BY <3>1, <3>2, <3>3
  <2>12. ProbePath(d, p)
    BY <1>6, <2>9, <2>11 DEF ProbePath
  <2>13. Head(p) = "alloc"
    <3>1. Head(p) = p[1]
      BY <2>7
    <3>2. p[1] = "alloc"
      BY <2>5
    <3> QED
      BY <3>1, <3>2
  <2> QED
    BY <1>5, <2>12, <2>13
<1>7. CASE kind[d] # "nvme"
  <2>0. /\ q \in Seq(ProbeNames) /\ Len(q) = Len(a) + Len(b)
        /\ \A i \in 1 .. Len(a) : q[i] = a[i]
        /\ \A i \in 1 .. Len(b) : q[Len(a) + i] = b[i]
    <3>1. a \in Seq(ProbeNames) /\ b \in Seq(ProbeNames)
      BY <1>1, <1>4, <1>7
    <3> QED
      BY <3>1, JoinIs
  <2> HIDE DEF q
  <2>1. /\ Len(q) = 5 + 0
        /\ \A i \in 1 .. 5 : q[i] = a[i]
        /\ \A i \in 1 .. 0 : q[5 + i] = b[i]
    BY <1>1, <1>4, <1>7, <2>0
  <2>2. Len(q) = 5
    BY <2>1
  <2>11. /\ p \in Seq(ProbeNames) /\ Len(p) = Len(q) + Len(c)
         /\ \A i \in 1 .. Len(q) : p[i] = q[i]
         /\ \A i \in 1 .. Len(c) : p[Len(q) + i] = c[i]
    <3>1. q \in Seq(ProbeNames) /\ c \in Seq(ProbeNames)
      BY <1>2, <2>0, <2>2
    <3> QED
      BY <3>1, JoinIs
  <2> HIDE DEF p
  <2>4. /\ Len(p) = 5 + 3
        /\ \A i \in 1 .. 5 : p[i] = q[i]
        /\ \A i \in 1 .. 3 : p[5 + i] = c[i]
    <3>1. Len(q) = 5 /\ Len(c) = 3
      BY <1>2, <2>2
    <3>2. /\ Len(p) = Len(q) + Len(c)
          /\ \A i \in 1 .. Len(q) : p[i] = q[i]
          /\ \A i \in 1 .. Len(c) : p[Len(q) + i] = c[i]
      BY <2>11
    <3> QED
      BY <3>1, <3>2
  <2>5. p[1] = "alloc" /\ p[2] = "enable" /\ p[3] = "bars" /\ p[4] = "vectors" /\ p[5] = "irq"
    BY <1>1, <2>1, <2>4
  <2>6. p[6] = "attach" /\ p[7] = "sysfs" /\ p[8] = "debugfs"
    <3>1. 5 + 1 = 6 /\ 5 + 2 = 7 /\ 5 + 3 = 8
      OBVIOUS
    <3>2. p[5 + 1] = c[1] /\ p[5 + 2] = c[2] /\ p[5 + 3] = c[3]
      BY <2>4
    <3> QED
      BY <1>2, <3>1, <3>2
  <2>7. Len(p) = 8 /\ p # <<>> /\ Head(p) = p[1]
    <3>1. Len(p) = 8
      BY <2>4
    <3>2. p \in Seq(ProbeNames) /\ Len(p) # 0
      BY <2>11, <3>1
    <3>3. p # <<>> /\ Head(p) = p[1]
      BY <3>2
    <3> QED
      BY <3>1, <3>3
  <2>8. 1 .. Len(p) - 1 = {1, 2, 3, 4, 5, 6, 7} /\ 1 .. Len(p) = {1, 2, 3, 4, 5, 6, 7, 8}
    BY <2>7
  <2>9. \A i \in 1 .. Len(p) - 1 : p[i] # "debugfs" /\ p[i + 1] = Succ(d, p[i])
    <3>1. /\ Succ(d, "alloc") = "enable" /\ Succ(d, "enable") = "bars"
          /\ Succ(d, "bars") = "vectors" /\ Succ(d, "vectors") = "irq"
          /\ Succ(d, "irq") = "attach" /\ Succ(d, "attach") = "sysfs"
          /\ Succ(d, "sysfs") = "debugfs"
      BY <1>7 DEF Succ
    <3>2. ASSUME NEW i \in {1, 2, 3, 4, 5, 6, 7}
          PROVE  p[i] # "debugfs" /\ p[i + 1] = Succ(d, p[i])
      BY <2>5, <2>6, <3>1
    <3> QED
      BY <2>8, <3>2
  <2>10. \A i \in 1 .. Len(p) : p[i] \notin NvmeNames
    BY <2>5, <2>6, <2>8 DEF NvmeNames
  <2>12. p[Len(p)] = "debugfs"
    <3>1. Len(p) = 8 /\ p[8] = "debugfs"
      BY <2>6, <2>7
    <3> QED
      BY <3>1
  <2>13. p \in Seq(ProbeNames)
    BY <2>11
  <2>14. p # <<>> /\ Head(p) = "alloc"
    <3>1. p # <<>> /\ Head(p) = p[1]
      BY <2>7
    <3>2. p[1] = "alloc"
      BY <2>5
    <3> QED
      BY <3>1, <3>2
  <2>15. ProbePath(d, p)
    BY <2>9, <2>10, <2>12, <2>13, <2>14 DEF ProbePath
  <2> QED
    BY <1>5, <2>14, <2>15
<1> QED
  BY <1>6, <1>7

\* The load of the module begins with nothing.
LEMMA LoadIs == LoadPath(Load) /\ Load # <<>> /\ Head(Load) = "async"
<1> DEFINE p == Load
<1>1. /\ p \in Seq(LoadNames) /\ Len(p) = 7 /\ p # <<>> /\ Head(p) = p[1]
  BY DEF Load, LoadNames
<1>2. /\ p[1] = "async" /\ p[2] = "blkdev" /\ p[3] = "root" /\ p[4] = "driver" /\ p[5] = "probes"
      /\ p[6] = "misc" /\ p[7] = "loaded"
  BY DEF Load
<1> HIDE DEF p
<1>3. 1 .. Len(p) - 1 = {1, 2, 3, 4, 5, 6}
  BY <1>1
<1>4. \A i \in 1 .. Len(p) - 1 : p[i] # "loaded" /\ p[i + 1] = LoadSucc(p[i])
  BY <1>2, <1>3 DEF LoadSucc
<1> QED
  BY <1>1, <1>2, <1>4 DEF LoadPath, p

\* What may come in the path of an unload before its end.
UnloadPart(p) ==
  p \in Seq(UnloadNames) /\ TearPairs(p) /\ ModPairs(p) /\ Begins(p) /\ "unloaded" \notin Names(p)
\* Parts of an unload put together are one.
LEMMA UnloadJoin ==
  ASSUME NEW p, NEW q, UnloadPart(p), q # <<>>, Names(q) \cap Starters = {},
         Head(q) \notin Tear \cup {"removes", "root_wait"}
  PROVE  /\ UnloadPart(q) => UnloadPart(p \o q)
         /\ UnloadPath(q) => UnloadPath(p \o q)
         /\ UnloadPart(q) \/ UnloadPath(q) => Names(p \o q) = Names(p) \cup Names(q)
<1> SUFFICES ASSUME UnloadPart(q) \/ UnloadPath(q)
             PROVE  /\ UnloadPart(q) => UnloadPart(p \o q)
                    /\ UnloadPath(q) => UnloadPath(p \o q)
                    /\ Names(p \o q) = Names(p) \cup Names(q)
  OBVIOUS
<1>1. /\ p \in Seq(UnloadNames) /\ TearPairs(p) /\ ModPairs(p) /\ Begins(p)
      /\ q \in Seq(UnloadNames) /\ TearPairs(q) /\ ModPairs(q) /\ Begins(q)
  BY DEF UnloadPart, UnloadPath
<1>2. /\ p \o q \in Seq(UnloadNames) /\ Len(p \o q) = Len(p) + Len(q)
      /\ Len(p) \in Nat /\ Len(q) \in Nat \ {0}
      /\ \A k \in 1 .. Len(p) : (p \o q)[k] = p[k]
      /\ \A k \in 1 .. Len(q) : (p \o q)[Len(p) + k] = q[k]
  <2>1. Len(q) # 0
    BY <1>1
  <2> QED
    BY <1>1, <2>1, JoinIs
<1>3. TearPairs(p \o q)
  BY <1>1, TearJoin
<1>4. Pair(p \o q, "undriver", "removes") /\ Pair(p \o q, "unroot", "root_wait")
  BY <1>1, PairJoin DEF ModPairs
<1>5. Begins(p \o q)
  BY <1>1, BeginsJoin
<1>6. Names(p \o q) = Names(p) \cup Names(q)
  BY <1>1, NamesJoin
<1>7. UnloadPart(q) => UnloadPart(p \o q)
  BY <1>2, <1>3, <1>4, <1>5, <1>6 DEF UnloadPart, ModPairs
<1>8. ASSUME UnloadPath(q)
      PROVE  UnloadPath(p \o q)
  <2> DEFINE r == p \o q
  <2>1. Len(r) = Len(p) + Len(q) /\ Len(q) \in 1 .. Len(q) /\ r # <<>>
    BY <1>2
  <2>2. r[Len(r)] = "unloaded"
    BY <1>2, <1>8, <2>1 DEF UnloadPath
  <2>3. ASSUME NEW i \in 1 .. Len(r) - 1
        PROVE  r[i] # "unloaded"
    <3>1. i \in 1 .. Len(r)
      BY <1>2
    <3>2. CASE i \in 1 .. Len(p) /\ r[i] = p[i]
      BY <3>2 DEF UnloadPart, Names
    <3>3. CASE i > Len(p) /\ i - Len(p) \in 1 .. Len(q) /\ r[i] = q[i - Len(p)]
      <4>1. i - Len(p) \in 1 .. Len(q) - 1
        BY <1>2, <3>3
      <4> QED
        BY <1>8, <3>3, <4>1 DEF UnloadPath
    <3> QED
      BY <1>1, <3>1, <3>2, <3>3, JoinAt
  <2> QED
    BY <1>2, <1>3, <1>4, <1>5, <2>1, <2>2, <2>3 DEF UnloadPath, ModPairs
<1> QED
  BY <1>6, <1>7, <1>8

\* The teardown an unload begins with.
LEMMA TeardownUnloads ==
  UnloadPart(Teardown) /\ Teardown # <<>> /\ Head(Teardown) = "t_begin"
  /\ Names(Teardown) = {"t_begin", "t_group", "t_readers", "t_lock", "t_free", "t_end"}
<1> DEFINE p == Teardown
<1>1. p \in Seq(UnloadNames)
  BY DEF Teardown, UnloadNames, Tear
<1>2. /\ Len(p) = 6 /\ p # <<>> /\ Head(p) = p[1]
      /\ p[1] = "t_begin" /\ p[2] = "t_group" /\ p[3] = "t_readers" /\ p[4] = "t_lock" /\ p[5] = "t_free" /\ p[6] = "t_end"
  BY DEF Teardown
<1> HIDE DEF p
<1>3. 1 .. Len(p) = {1, 2, 3, 4, 5, 6} /\ 2 .. Len(p) = {2, 3, 4, 5, 6} /\ 1 .. Len(p) - 1 = {1, 2, 3, 4, 5}
  BY <1>2
<1>4. Names(p) = {p[1], p[2], p[3], p[4], p[5], p[6]}
  BY <1>3 DEF Names
<1>5. ModPairs(p)
  BY <1>2, <1>3 DEF ModPairs, Pair
<1>6. TearPairs(p)
  BY <1>2, <1>3 DEF TearPairs, Pair
<1>7. Begins(p)
  BY <1>2, <1>3 DEF Begins, Starters
<1> QED
  BY <1>1, <1>2, <1>3, <1>4, <1>5, <1>6, <1>7 DEF UnloadPart, p

\* The engine and the configuration device.
LEMMA EnginesUnload ==
  UnloadPart(<<"unasync", "unmisc">>) /\ <<"unasync", "unmisc">> # <<>> /\ Head(<<"unasync", "unmisc">>) = "unasync"
  /\ Names(<<"unasync", "unmisc">>) = {"unasync", "unmisc"}
<1> DEFINE p == <<"unasync", "unmisc">>
<1>1. p \in Seq(UnloadNames)
  BY DEF UnloadNames, Tear
<1>2. /\ Len(p) = 2 /\ p # <<>> /\ Head(p) = p[1]
      /\ p[1] = "unasync" /\ p[2] = "unmisc"
  OBVIOUS
<1> HIDE DEF p
<1>3. 1 .. Len(p) = {1, 2} /\ 2 .. Len(p) = {2} /\ 1 .. Len(p) - 1 = {1}
  BY <1>2
<1>4. Names(p) = {p[1], p[2]}
  BY <1>3 DEF Names
<1>5. ModPairs(p)
  BY <1>2, <1>3 DEF ModPairs, Pair
<1>6. TearPairs(p)
  BY <1>2, <1>3 DEF TearPairs, Pair
<1>7. Begins(p)
  BY <1>2, <1>3 DEF Begins, Starters
<1> QED
  BY <1>1, <1>2, <1>3, <1>4, <1>5, <1>6, <1>7 DEF UnloadPart, p

\* The driver.
LEMMA UndriverUnloads ==
  UnloadPart(Undriver) /\ Undriver # <<>> /\ Head(Undriver) = "undriver"
  /\ Names(Undriver) = {"undriver", "removes"}
<1> DEFINE p == Undriver
<1>1. p \in Seq(UnloadNames)
  BY DEF Undriver, UnloadNames, Tear
<1>2. /\ Len(p) = 2 /\ p # <<>> /\ Head(p) = p[1]
      /\ p[1] = "undriver" /\ p[2] = "removes"
  BY DEF Undriver
<1> HIDE DEF p
<1>3. 1 .. Len(p) = {1, 2} /\ 2 .. Len(p) = {2} /\ 1 .. Len(p) - 1 = {1}
  BY <1>2
<1>4. Names(p) = {p[1], p[2]}
  BY <1>3 DEF Names
<1>5. ModPairs(p)
  BY <1>2, <1>3 DEF ModPairs, Pair
<1>6. TearPairs(p)
  BY <1>2, <1>3 DEF TearPairs, Pair
<1>7. Begins(p)
  BY <1>2, <1>3 DEF Begins, Starters
<1> QED
  BY <1>1, <1>2, <1>3, <1>4, <1>5, <1>6, <1>7 DEF UnloadPart, p

\* The debugfs directory and the block device number.
LEMMA UnrootUnloads ==
  UnloadPart(Unroot) /\ Unroot # <<>> /\ Head(Unroot) = "unroot"
  /\ Names(Unroot) = {"unroot", "root_wait", "unblkdev"}
<1> DEFINE p == Unroot
<1>1. p \in Seq(UnloadNames)
  BY DEF Unroot, UnloadNames, Tear
<1>2. /\ Len(p) = 3 /\ p # <<>> /\ Head(p) = p[1]
      /\ p[1] = "unroot" /\ p[2] = "root_wait" /\ p[3] = "unblkdev"
  BY DEF Unroot
<1> HIDE DEF p
<1>3. 1 .. Len(p) = {1, 2, 3} /\ 2 .. Len(p) = {2, 3} /\ 1 .. Len(p) - 1 = {1, 2}
  BY <1>2
<1>4. Names(p) = {p[1], p[2], p[3]}
  BY <1>3 DEF Names
<1>5. ModPairs(p)
  BY <1>2, <1>3 DEF ModPairs, Pair
<1>6. TearPairs(p)
  BY <1>2, <1>3 DEF TearPairs, Pair
<1>7. Begins(p)
  BY <1>2, <1>3 DEF Begins, Starters
<1> QED
  BY <1>1, <1>2, <1>3, <1>4, <1>5, <1>6, <1>7 DEF UnloadPart, p

\* The end.
LEMMA UnloadedUnloads ==
  UnloadPath(<<"unloaded">>) /\ <<"unloaded">> # <<>> /\ Head(<<"unloaded">>) = "unloaded"
  /\ Names(<<"unloaded">>) = {"unloaded"}
<1> DEFINE p == <<"unloaded">>
<1>1. p \in Seq(UnloadNames)
  BY DEF UnloadNames, Tear
<1>2. /\ Len(p) = 1 /\ p # <<>> /\ Head(p) = p[1]
      /\ p[1] = "unloaded"
  OBVIOUS
<1> HIDE DEF p
<1>3. 1 .. Len(p) = {1} /\ 2 .. Len(p) = {} /\ 1 .. Len(p) - 1 = {}
  BY <1>2
<1>4. Names(p) = {p[1]}
  BY <1>3 DEF Names
<1>5. ModPairs(p)
  BY <1>2, <1>3 DEF ModPairs, Pair
<1>6. TearPairs(p)
  BY <1>2, <1>3 DEF TearPairs, Pair
<1>7. Begins(p)
  BY <1>2, <1>3 DEF Begins, Starters
<1> QED
  BY <1>1, <1>2, <1>3, <1>4, <1>5, <1>6, <1>7 DEF UnloadPath, p

\* The end of a load that fails.
LEMMA UnasyncUnloads ==
  UnloadPath(<<"unasync", "unloaded">>) /\ <<"unasync", "unloaded">> # <<>> /\ Head(<<"unasync", "unloaded">>) = "unasync"
  /\ Names(<<"unasync", "unloaded">>) = {"unasync", "unloaded"}
<1> DEFINE p == <<"unasync", "unloaded">>
<1>1. p \in Seq(UnloadNames)
  BY DEF UnloadNames, Tear
<1>2. /\ Len(p) = 2 /\ p # <<>> /\ Head(p) = p[1]
      /\ p[1] = "unasync" /\ p[2] = "unloaded"
  OBVIOUS
<1> HIDE DEF p
<1>3. 1 .. Len(p) = {1, 2} /\ 2 .. Len(p) = {2} /\ 1 .. Len(p) - 1 = {1}
  BY <1>2
<1>4. Names(p) = {p[1], p[2]}
  BY <1>3 DEF Names
<1>5. ModPairs(p)
  BY <1>2, <1>3 DEF ModPairs, Pair
<1>6. TearPairs(p)
  BY <1>2, <1>3 DEF TearPairs, Pair
<1>7. Begins(p)
  BY <1>2, <1>3 DEF Begins, Starters
<1> QED
  BY <1>1, <1>2, <1>3, <1>4, <1>5, <1>6, <1>7 DEF UnloadPath, p

\* An unload.
LEMMA ExitIs ==
  /\ UnloadPath(Exit) /\ Exit # <<>> /\ Head(Exit) = "t_begin"
  /\ \A x \in ModObtains : ModTaker(x) \in Names(Exit)
<1> DEFINE a == Teardown \o <<"unasync", "unmisc">>
           b == a \o Undriver
           c == b \o Unroot
<1>1. UnloadPart(a) /\ Names(a) = Names(Teardown) \cup {"unasync", "unmisc"}
  BY TeardownUnloads, EnginesUnload, UnloadJoin DEF Starters, Tear
<1> HIDE DEF a
<1>2. UnloadPart(b) /\ Names(b) = Names(a) \cup {"undriver", "removes"}
  BY <1>1, UndriverUnloads, UnloadJoin DEF Starters, Tear
<1> HIDE DEF b
<1>3. UnloadPart(c) /\ Names(c) = Names(b) \cup {"unroot", "root_wait", "unblkdev"}
  BY <1>2, UnrootUnloads, UnloadJoin DEF Starters, Tear
<1> HIDE DEF c
<1>4. UnloadPath(c \o <<"unloaded">>) /\ Names(c \o <<"unloaded">>) = Names(c) \cup {"unloaded"}
  BY <1>3, UnloadedUnloads, UnloadJoin DEF Starters, Tear
<1>5. Exit = c \o <<"unloaded">>
  BY DEF Exit, a, b, c
<1>6. a # <<>> /\ Head(a) = "t_begin"
  BY TeardownUnloads, EnginesUnload, HeadJoin DEF UnloadPart, a
<1>7. b # <<>> /\ Head(b) = "t_begin"
  BY <1>1, <1>6, UndriverUnloads, HeadJoin DEF UnloadPart, b
<1>8. c # <<>> /\ Head(c) = "t_begin"
  BY <1>2, <1>7, UnrootUnloads, HeadJoin DEF UnloadPart, c
<1>9. Head(c \o <<"unloaded">>) = "t_begin"
  BY <1>3, <1>8, UnloadedUnloads, HeadJoin DEF UnloadPart, UnloadPath
<1>10. \A x \in ModObtains : ModTaker(x) \in Names(Exit)
  BY <1>1, <1>2, <1>3, <1>4, <1>5 DEF ModObtains, ModTaker
<1> QED
  BY <1>4, <1>5, <1>9, <1>10 DEF UnloadPath

\* Where a load that fails goes.
LEMMA UnwindLoadIs ==
  ASSUME NEW name \in ModObtains \ {"root"}
  PROVE  /\ UnloadPath(UnwindLoad(name))
         /\ Head(UnwindLoad(name)) \in {"unloaded", "unasync", "unroot", "undriver"}
         /\ \A x \in LoadGot(name) : ModTaker(x) \in Names(UnwindLoad(name))
         /\ name \in {"driver", "misc"} => "unroot" \in Names(UnwindLoad(name))
<1>1. CASE name = "async"
  BY <1>1, UnloadedUnloads DEF UnwindLoad, LoadGot
<1>2. CASE name = "blkdev"
  BY <1>2, UnasyncUnloads DEF UnwindLoad, LoadGot, ModTaker
<1> DEFINE e == <<"unasync", "unloaded">>
<1>3. UnloadPath(e) /\ Names(e) = {"unasync", "unloaded"} /\ e # <<>> /\ Head(e) = "unasync"
  BY UnasyncUnloads
<1> HIDE DEF e
<1>4. CASE name = "driver"
  <2>1. UnloadPath(Unroot \o e) /\ Names(Unroot \o e) = Names(Unroot) \cup Names(e)
    BY <1>3, UnrootUnloads, UnloadJoin DEF Starters, Tear
  <2>2. Head(Unroot \o e) = "unroot"
    BY <1>3, UnrootUnloads, HeadJoin DEF UnloadPart, UnloadPath
  <2>3. UnwindLoad(name) = Unroot \o e
    BY <1>4 DEF UnwindLoad, e
  <2> QED
    BY <1>3, <1>4, <2>1, <2>2, <2>3, UnrootUnloads DEF LoadGot, ModTaker
<1>5. CASE name = "misc"
  <2> DEFINE a == Undriver \o Unroot
  <2>1. UnloadPart(a) /\ Names(a) = Names(Undriver) \cup Names(Unroot)
    BY UnrootUnloads, UndriverUnloads, UnloadJoin DEF Starters, Tear
  <2>2. a # <<>> /\ Head(a) = "undriver"
    BY UndriverUnloads, UnrootUnloads, HeadJoin DEF UnloadPart
  <2> HIDE DEF a
  <2>3. UnloadPath(a \o e) /\ Names(a \o e) = Names(a) \cup Names(e)
    BY <1>3, <2>1, UnloadJoin DEF Starters, Tear
  <2>4. Head(a \o e) = "undriver"
    BY <1>3, <2>1, <2>2, HeadJoin DEF UnloadPart, UnloadPath
  <2>5. UnwindLoad(name) = a \o e
    BY <1>5 DEF UnwindLoad, e, a
  <2> QED
    BY <1>3, <1>5, <2>1, <2>3, <2>4, <2>5, UndriverUnloads, UnrootUnloads DEF LoadGot, ModTaker
<1> QED
  BY <1>1, <1>2, <1>4, <1>5 DEF ModObtains

\* A registered member at its turn.
LEMMA PartTidy ==
  ASSUME NEW p, Tidy(p), p # <<>>, Head(p) \in {"leave", "part"},
         NEW q \in {<<"part">>, <<"drop">>, Teardown}
  PROVE  /\ Tidy(q \o Tail(p)) /\ q \o Tail(p) # <<>> /\ Head(q \o Tail(p)) = Head(q)
         /\ Head(q) \in {"part", "drop", "t_begin"}
         /\ Names(Tail(p)) \subseteq Names(q \o Tail(p)) /\ MemberFirst(q \o Tail(p))
<1>1. /\ Tidy(q) /\ q # <<>> /\ Head(q) \in {"part", "drop", "t_begin"} /\ Names(q) \cap Last = {}
      /\ MemberFirst(q)
  <2>1. CASE q = <<"part">>
    <3>1. Tidy(<<"part">>) /\ Names(<<"part">>) = {"part"} /\ <<"part">> # <<>> /\ Head(<<"part">>) = "part"
      BY OneStep DEF LeaveNames, Seconds, Tear
    <3>2. MemberFirst(<<"part">>)
      BY DEF MemberFirst, MemberSteps, Harmless
    <3> QED
      BY <2>1, <3>1, <3>2 DEF Last
  <2>2. CASE q = <<"drop">>
    <3>1. Tidy(<<"drop">>) /\ Names(<<"drop">>) = {"drop"} /\ <<"drop">> # <<>> /\ Head(<<"drop">>) = "drop"
      BY OneStep DEF LeaveNames, Seconds, Tear
    <3>2. MemberFirst(<<"drop">>)
      BY DEF MemberFirst, MemberSteps, Harmless
    <3> QED
      BY <2>2, <3>1, <3>2 DEF Last
  <2>3. CASE q = Teardown
    BY <2>3, TeardownTidy DEF Last
  <2> QED
    BY <2>1, <2>2, <2>3
<1>2. /\ Tidy(Tail(p)) /\ Names(Tail(p)) \cap Starters = {} /\ Names(Tail(p)) \cap Early = {}
  BY TidyTail, AfterFirst DEF Early
<1>3. Tail(p) = <<>> \/ Head(Tail(p)) \notin Seconds
  <2>1. Second(p) \notin Seconds
    BY TidyTail DEF LeaveSteps, TearSteps, Seconds, Tear
  <2> QED
    BY <2>1 DEF Second
<1>4. Tidy(q \o Tail(p)) /\ Names(q \o Tail(p)) = Names(q) \cup Names(Tail(p))
  BY <1>1, <1>2, <1>3, TidyJoin
<1>5. q \o Tail(p) # <<>> /\ Head(q \o Tail(p)) = Head(q) /\ MemberFirst(q \o Tail(p))
  BY <1>1, <1>2, HeadJoin, FirstJoin DEF Tidy
<1> QED
  BY <1>1, <1>4, <1>5

-----------------------------------------------------------------------------
(* The steps of a device.                                                   *)

\* What a step changes of one device's standing, it changes of no other's.
Same(d) ==
  /\ kind' = kind /\ path'[d] = path[d] /\ held'[d] = held[d] /\ nvec'[d] = nvec[d]
  /\ ioq'[d] = ioq[d] /\ (d \in bound' <=> d \in bound)
  /\ d \in member' => d \in member
  /\ InSlot(d)' => InSlot(d)

\* A device that a step leaves alone.
LEMMA Untouched ==
  ASSUME NEW d, DeviceInv(d), Same(d)
  PROVE  DeviceInv(d)' /\ Top(d)' = Top(d)
<1>1. Top(d)' = Top(d)
  BY DEF Same, Top
<1>2. ProbeInv(d)'
  <2>1. Top(d) \in ProbeNames => ProbePath(d, path[d])' /\ Got(d, Top(d))' = Got(d, Top(d))
    BY <1>1 DEF Same, DeviceInv, ProbeInv, ProbePath, Succ, Got, Whole
  <2> QED
    BY <1>1, <2>1 DEF Same, DeviceInv, ProbeInv
<1>3. LeaveInv(d)'
  BY <1>1 DEF Same, DeviceInv, LeaveInv
<1>4. RestInv(d)'
  BY DEF Same, DeviceInv, RestInv, Whole
<1>5. OwnInv(d)'
  BY DEF Same, DeviceInv, OwnInv
<1> QED
  BY <1>1, <1>2, <1>3, <1>4, <1>5 DEF DeviceInv

\* A step of a device that is leaving: it returns what it is named for, and no more.
LeavingStep(d) ==
  LET h == Top(d) IN
  /\ d \in Devs /\ path[d] # <<>> /\ h \notin ProbeNames /\ path'[d] = Tail(path[d])
  /\ kind' = kind /\ nvec'[d] = nvec[d] /\ bound' = bound
  /\ \A x \in held'[d] : (x \in held[d] \/ (x = "unhooked" /\ h = "q_irq")) /\ Taker(x) # h
  /\ \A x \in held[d] : Taker(x) # h => x \in held'[d]
  /\ ioq'[d] = IF h = "q_free" THEN {} ELSE ioq[d]
  /\ h = "q_irq" /\ ioq[d] # {} => "unhooked" \in held'[d]
  /\ d \in member' => d \in member /\ h \notin MemberSteps
  /\ InSlot(d)' => InSlot(d) /\ h # "detach"

\* What a member needs stays with it.
LEMMA OwnKept ==
  ASSUME NEW d, DeviceInv(d), LeavingStep(d)
  PROVE  OwnInv(d)'
<1> DEFINE h == Top(d)
<1>1. /\ path[d] # <<>> /\ Head(path[d]) = h /\ h \notin ProbeNames
      /\ kind' = kind /\ nvec'[d] = nvec[d]
  BY DEF LeavingStep, Top
<1>2. /\ Tidy(path[d]) /\ held[d] \subseteq Items
      /\ \A x \in held[d] : Taker(x) \in Names(path[d])
      /\ d \in member => MemberFirst(path[d])
      /\ h = "unadmin" => "on" \notin held[d]
  BY <1>1 DEF DeviceInv, LeaveInv
<1>3. h \in Last => Names(path[d]) \subseteq Last
  BY <1>1, <1>2, TidyTail
<1>4. /\ \A x \in held'[d] : (x \in held[d] \/ (x = "unhooked" /\ h = "q_irq")) /\ Taker(x) # h
      /\ \A x \in held[d] : Taker(x) # h => x \in held'[d]
      /\ ioq'[d] = IF h = "q_free" THEN {} ELSE ioq[d]
      /\ d \in member' => d \in member /\ h \notin MemberSteps
  BY DEF LeavingStep
<1>5. d \in member' => d \in member /\ h \in Harmless
  BY <1>1, <1>2, <1>4, FirstTail
<1>6. /\ h \in Harmless => h \notin {Taker("adapter"), Taker("bars"), Taker("admin"), "q_free"}
  BY DEF Harmless, Early, Tear, MemberSteps, Taker
<1>7. d \in member' => {"adapter", "bars", "admin"} \subseteq held'[d] /\ ioq'[d] # {}
  BY <1>4, <1>5, <1>6 DEF DeviceInv, OwnInv
<1>8. "on" \in held'[d] => "admin" \in held'[d]
  BY <1>2, <1>4 DEF DeviceInv, OwnInv, Taker
<1>9. "irq" \in held'[d] => "vectors" \in held'[d]
  <2>1. Taker("irq") \notin Last /\ Taker("vectors") \in Last
    BY DEF Taker, Last
  <2>2. "irq" \in held[d] => h \notin Last
    BY <1>2, <1>3, <2>1
  <2> QED
    BY <1>4, <2>1, <2>2 DEF DeviceInv, OwnInv
<1>10. ioq'[d] \subseteq ioq[d]
  BY <1>4
<1>11. "vectors" \in held'[d] => nvec'[d] \in Vectors
  BY <1>1, <1>4 DEF DeviceInv, OwnInv
<1> QED
  BY <1>1, <1>7, <1>8, <1>9, <1>10, <1>11 DEF DeviceInv, OwnInv

\* It leaves the device as a device that is leaving, or at rest with nothing.
LEMMA LeaveGoes ==
  ASSUME NEW d, DeviceInv(d), LeavingStep(d)
  PROVE  DeviceInv(d)' /\ Top(d)' = Second(path[d])
<1> DEFINE h == Top(d)
           q == Tail(path[d])
<1>1. /\ path[d] # <<>> /\ Head(path[d]) = h /\ h \notin ProbeNames /\ path'[d] = q
      /\ kind' = kind /\ nvec'[d] = nvec[d] /\ bound' = bound
  BY DEF LeavingStep, Top
<1>2. /\ Tidy(path[d]) /\ d \notin bound /\ held[d] \subseteq Items
      /\ \A x \in held[d] : Taker(x) \in Names(path[d])
      /\ ioq[d] # {} => "q_free" \in Names(path[d])
      /\ d \in member => MemberFirst(path[d])
      /\ InSlot(d) => "detach" \in Names(path[d])
      /\ h \notin Last => {"adapter", "bars", "vectors"} \subseteq held[d]
      /\ h \in Early /\ kind[d] = "nvme" => "admin" \in held[d] /\ ioq[d] # {}
      /\ h = "unadmin" => "on" \notin held[d]
      /\ h \in {"q_wait", "q_free"} /\ ioq[d] # {} => "unhooked" \in held[d]
  BY <1>1 DEF DeviceInv, LeaveInv
<1>3. /\ Tidy(q) /\ LeaveSteps(h, Second(path[d])) /\ TearSteps(h, Second(path[d]))
      /\ Second(path[d]) \in LeaveNames \cup {"nothing"}
      /\ h \in Last => Names(path[d]) \subseteq Last
      /\ Second(path[d]) \in Early => h \in Early
      /\ Second(path[d]) = "nothing" <=> q = <<>>
  BY <1>1, <1>2, TidyTail
<1>4. Top(d)' = Second(path[d])
  BY <1>1 DEF Top, Second
<1>5. Second(path[d]) \notin ProbeNames
  BY <1>3 DEF LeaveNames, ProbeNames, Early, Last, Tear
<1>6. \A s \in Names(path[d]) : s = h \/ s \in Names(q)
  BY <1>1, <1>2, NamesTail DEF Tidy
<1>7. /\ \A x \in held'[d] : (x \in held[d] \/ (x = "unhooked" /\ h = "q_irq")) /\ Taker(x) # h
      /\ \A x \in held[d] : Taker(x) # h => x \in held'[d]
      /\ ioq'[d] = IF h = "q_free" THEN {} ELSE ioq[d]
      /\ h = "q_irq" /\ ioq[d] # {} => "unhooked" \in held'[d]
      /\ d \in member' => d \in member /\ h \notin MemberSteps
      /\ InSlot(d)' => InSlot(d) /\ h # "detach"
  BY DEF LeavingStep
<1>8. h = "q_irq" => q # <<>> /\ Second(path[d]) = "q_wait" /\ "q_free" \in Names(q)
  <2>1. h = "q_irq" => Second(path[d]) = "q_wait" /\ q # <<>>
    BY <1>3 DEF LeaveSteps
  <2>2. ASSUME q # <<>>, Head(q) = "q_wait"
        PROVE  "q_free" \in Names(q)
    <3>1. LeaveSteps("q_wait", Second(q)) /\ (Second(q) = "nothing" <=> Tail(q) = <<>>)
      BY <1>3, <2>2, TidyTail
    <3>2. Tail(q) # <<>> /\ Head(Tail(q)) = "q_free"
      BY <3>1 DEF LeaveSteps, Second
    <3>3. Tail(q) \in Seq(LeaveNames) /\ q \in Seq(LeaveNames)
      BY <1>3, <2>2, TailIs DEF Tidy
    <3>4. "q_free" \in Names(Tail(q))
      BY <3>2, <3>3, NamesTail
    <3> QED
      BY <2>2, <3>3, <3>4, NamesTail
  <2> QED
    BY <2>1, <2>2 DEF Second
<1>9. \A x \in held'[d] : x \in Items /\ Taker(x) \in Names(q)
  <2> SUFFICES ASSUME NEW x \in held'[d]
               PROVE  x \in Items /\ Taker(x) \in Names(q)
    OBVIOUS
  <2>1. CASE x \in held[d]
    BY <1>2, <1>6, <1>7, <2>1
  <2>2. CASE x = "unhooked" /\ h = "q_irq"
    BY <1>8, <2>2 DEF Taker, Items
  <2> QED
    BY <1>7, <2>1, <2>2
<1>10. ioq'[d] # {} => "q_free" \in Names(q)
  BY <1>2, <1>6, <1>7
<1>11. d \in member' => MemberFirst(q) /\ q # <<>> /\ h \in Harmless /\ h \notin MemberSteps /\ d \in member
  BY <1>1, <1>2, <1>7, FirstTail
<1>12. InSlot(d)' => "detach" \in Names(q)
  BY <1>2, <1>6, <1>7
<1>13. CASE q # <<>>
  <2>1. Second(path[d]) \notin Last => {"adapter", "bars", "vectors"} \subseteq held'[d]
    <3>1. Second(path[d]) = Head(q)
      BY <1>13 DEF Second
    <3>2. Head(q) \in Names(path[d])
      BY <1>1, <1>2, <1>13, NamesTail DEF Tidy
    <3>3. Second(path[d]) \notin Last => h \notin Last
      BY <1>3, <3>1, <3>2
    <3>4. /\ Taker("adapter") \in Last /\ Taker("bars") \in Last /\ Taker("vectors") \in Last
      BY DEF Taker, Last
    <3> QED
      BY <1>2, <1>7, <3>3, <3>4
  <2>2. Second(path[d]) \in Early /\ kind[d] = "nvme" => "admin" \in held'[d] /\ ioq'[d] # {}
    <3>1. h \in Early => h # "q_free" /\ Taker("admin") # h
      BY DEF Early, Taker
    <3> QED
      BY <1>2, <1>3, <1>7, <3>1
  <2>3. Second(path[d]) = "unadmin" => "on" \notin held'[d]
    BY <1>3, <1>7 DEF LeaveSteps, Taker
  <2>4. Second(path[d]) \in {"q_wait", "q_free"} /\ ioq'[d] # {} => "unhooked" \in held'[d]
    BY <1>2, <1>3, <1>7 DEF LeaveSteps, Taker
  <2>5. LeaveInv(d)'
    BY <1>1, <1>2, <1>3, <1>4, <1>9, <1>10, <1>11, <1>12, <2>1, <2>2, <2>3, <2>4 DEF LeaveInv
  <2>6. ProbeInv(d)' /\ RestInv(d)'
    BY <1>1, <1>4, <1>5, <1>13 DEF ProbeInv, RestInv
  <2> QED
    BY <2>5, <2>6, <1>4, OwnKept DEF DeviceInv
<1>14. CASE q = <<>>
  <2>1. Names(q) = {}
    BY <1>14, NothingTidy
  <2>2. held'[d] = {} /\ ioq'[d] = {} /\ d \notin member' /\ ~InSlot(d)' /\ d \notin bound'
    BY <1>1, <1>2, <1>9, <1>10, <1>11, <1>12, <1>14, <2>1
  <2>3. RestInv(d)'
    BY <2>2 DEF RestInv
  <2>4. LeaveInv(d)' /\ ProbeInv(d)'
    BY <1>1, <1>4, <1>5, <1>14 DEF LeaveInv, ProbeInv
  <2> QED
    BY <2>3, <2>4, <1>4, OwnKept DEF DeviceInv
<1> QED
  BY <1>4, <1>13, <1>14

\* What a guest of a device relies on is still there after a step.
GuestStep(e) ==
  /\ guest.dev = e /\ guest.op \in {"dump", "registers"} /\ DumpSafe(e) => DumpSafe(e)'
  /\ guest.dev = e /\ guest.op \in {"attr", "reset"} /\ AttrSafe(e) => AttrSafe(e)'
  /\ guest.dev = e /\ guest.op = "irq" /\ guest.vec = 0 /\ LineSafe(e) => LineSafe(e)'
  /\ \A q \in ioq[e] : guest.dev = e /\ guest.op = "irq" /\ guest.vec = q /\ q > 0
                       /\ QueueSafe(e, q) => QueueSafe(e, q)'

\* Then the guest goes on as before.
LEMMA GuestKept ==
  ASSUME GuestInv, guest' = guest, kind' = kind, \A e \in Devs : GuestStep(e),
         guest.op = "volattr" /\ VolumeSafe => VolumeSafe',
         guest.op = "volfile" /\ RootSafe => RootSafe',
         guest.op = "config" /\ ConfigSafe => ConfigSafe'
  PROVE  GuestInv'
<1>1. /\ guest \in [op : GuestOps \cup {NoOne}, dev : Devs \cup {NoOne}, vec : Nat,
                   qs : SUBSET Nat, tags : {FALSE}, locked : BOOLEAN]
      /\ guest.op = NoOne => guest = Nobody
      /\ guest.op \in {"irq", "attr", "reset", "dump", "registers"} <=> guest.dev # NoOne
      /\ guest.op = "irq" /\ guest.vec = 0 => (1 \notin Vectors => guest.qs = {})
      /\ guest.op = "irq" /\ guest.vec > 0 => guest.qs = {guest.vec}
      /\ guest.op = "reset" => kind[guest.dev] = "nvme"
      /\ guest.op = "volattr" => VolumeSafe
      /\ guest.op = "volfile" => RootSafe
      /\ guest.op = "config" => ConfigSafe
  BY DEF GuestInv
<1>2. CASE guest.dev = NoOne
  BY <1>1, <1>2 DEF GuestInv, Nobody
<1>3. CASE guest.dev # NoOne
  <2>1. PICK e \in Devs : e = guest.dev
    BY <1>1, <1>3
  <2>2. /\ guest.op \in {"dump", "registers"} => DumpSafe(e)
        /\ guest.op \in {"attr", "reset"} => AttrSafe(e)
        /\ guest.op = "irq" /\ guest.vec = 0 => LineSafe(e)
        /\ guest.op = "irq" /\ guest.vec > 0 => QueueSafe(e, guest.vec)
    BY <2>1 DEF GuestInv
  <2>3. guest.op \in {"dump", "registers"} => DumpSafe(guest.dev)'
    <3>1. guest.op \in {"dump", "registers"} => DumpSafe(e)'
      BY <2>1, <2>2 DEF GuestStep
    <3> QED
      BY <2>1, <3>1 DEF DumpSafe, Top
  <2>4. guest.op \in {"attr", "reset"} => AttrSafe(guest.dev)'
    <3>1. guest.op \in {"attr", "reset"} => AttrSafe(e)'
      BY <2>1, <2>2 DEF GuestStep
    <3> QED
      BY <2>1, <3>1 DEF AttrSafe, Top
  <2>5. guest.op = "irq" /\ guest.vec = 0 => LineSafe(guest.dev)'
    <3>1. guest.op = "irq" /\ guest.vec = 0 => LineSafe(e)'
      BY <2>1, <2>2 DEF GuestStep
    <3> QED
      BY <2>1, <3>1 DEF LineSafe, Top
  <2>6. guest.op = "irq" /\ guest.vec > 0 => QueueSafe(guest.dev, guest.vec)'
    <3> SUFFICES ASSUME guest.op = "irq" /\ guest.vec > 0
                 PROVE  QueueSafe(guest.dev, guest.vec)'
      OBVIOUS
    <3>1. PICK q \in ioq[e] : q = guest.vec
      BY <2>2 DEF QueueSafe
    <3>2. QueueSafe(e, q)'
      BY <2>1, <2>2, <3>1 DEF GuestStep
    <3> QED
      BY <2>1, <3>1, <3>2 DEF QueueSafe, Top
  <2> QED
    BY <1>1, <1>3, <2>3, <2>4, <2>5, <2>6 DEF GuestInv, Nobody
<1> QED
  BY <1>2, <1>3

\* Nobody loses anything by a step that leaves its device alone.
LEMMA GuestUntouched ==
  ASSUME NEW e, Same(e)
  PROVE  GuestStep(e)
<1>1. Top(e)' = Top(e)
  BY DEF Same, Top
<1> QED
  BY <1>1 DEF Same, GuestStep, DumpSafe, AttrSafe, LineSafe, QueueSafe

\* A step that waits waits for whoever is still inside.
Waits     == {"debugfs_wait", "sysfs_wait", "irq_wait", "q_wait"}
Waited(d) == Top(d) \in Waits => Drained(d, Top(d))

\* Nor by a step of a device that leaves, which waits for whoever is still inside.
LEMMA LeaveGuests ==
  ASSUME NEW d, DeviceInv(d), LeavingStep(d), Waited(d)
  PROVE  GuestStep(d)
<1> DEFINE h == Top(d)
<1>1. Top(d)' = Second(path[d]) /\ LeaveSteps(h, Second(path[d])) /\ h # "nothing"
  <2>1. Tidy(path[d]) /\ path[d] # <<>> /\ Head(path[d]) = h
    BY DEF LeavingStep, DeviceInv, LeaveInv, Top
  <2>2. Head(path[d]) \in LeaveNames
    BY <2>1, TidyTail
  <2> QED
    BY <2>1, <2>2, TidyTail, LeaveGoes DEF LeaveNames, Early, Last, Tear
<1>2. /\ \A x \in held'[d] : (x \in held[d] \/ (x = "unhooked" /\ h = "q_irq"))
      /\ \A x \in held[d] : Taker(x) # h => x \in held'[d]
      /\ ioq'[d] = IF h = "q_free" THEN {} ELSE ioq[d]
  BY DEF LeavingStep
<1>3. guest.dev = d /\ guest.op \in {"dump", "registers"} /\ DumpSafe(d) => DumpSafe(d)'
  <2>1. guest.dev = d /\ guest.op \in {"dump", "registers"} => h # "debugfs_wait"
    BY DEF Waited, Waits, Drained
  <2> QED
    BY <1>1, <1>2, <2>1 DEF DumpSafe, LeaveSteps, Taker
<1>4. guest.dev = d /\ guest.op \in {"attr", "reset"} /\ AttrSafe(d) => AttrSafe(d)'
  <2>1. guest.dev = d /\ guest.op \in {"attr", "reset"} => h # "sysfs_wait"
    BY DEF Waited, Waits, Drained
  <2> QED
    BY <1>1, <1>2, <2>1 DEF AttrSafe, LeaveSteps, Taker
<1>5. guest.dev = d /\ guest.op = "irq" /\ guest.vec = 0 /\ LineSafe(d) => LineSafe(d)'
  <2>1. guest.dev = d /\ guest.op = "irq" /\ guest.vec = 0 => h # "irq_wait"
    BY DEF Waited, Waits, Drained
  <2> QED
    BY <1>1, <1>2, <2>1 DEF LineSafe, LeaveSteps, Taker
<1>6. ASSUME NEW q \in ioq[d], guest.dev = d, guest.op = "irq", guest.vec = q, q > 0, QueueSafe(d, q)
      PROVE  QueueSafe(d, q)'
  <2>1. h # "q_wait"
    BY <1>6 DEF Waited, Waits, Drained
  <2>2. h = "q_free" => "unhooked" \in held[d]
    BY <1>6 DEF DeviceInv, LeaveInv, LeavingStep
  <2>3. h # "q_free" /\ "unhooked" \notin held[d]
    BY <1>6, <2>1, <2>2 DEF QueueSafe
  <2> QED
    BY <1>1, <1>2, <1>6, <2>1, <2>3 DEF QueueSafe, LeaveSteps
<1> QED
  BY <1>3, <1>4, <1>5, <1>6 DEF GuestStep

\* The volume is not concerned by a step outside it.
Calm(t) ==
  Top(t)' = Top(t) \/ (Top(t) \notin Tear \cup {"drop"} /\ Top(t)' \notin Tear \cup {"drop"})
\* The volume's part of the invariant is kept by a step outside it.
LEMMA VolumeKept ==
  ASSUME VolumeInv, disk' = disk, group' = group, armed' => armed, member' = member,
         tlock' = tlock, \A t \in Threads : Calm(t)
  PROVE  VolumeInv' /\ (VolumeSafe => VolumeSafe')
<1>1. \A t \in Threads : \A s \in Tear \cup {"drop"} : Top(t)' = s <=> Top(t) = s
  BY DEF Calm
<1>2. \A t \in Threads : Dropping(t)' <=> Dropping(t)
  <2>1. \A t \in Threads : (Top(t)' = "drop" <=> Dropping(t)') /\ (Top(t) = "drop" <=> Dropping(t))
    BY DEF Dropping, At, Top
  <2> QED
    BY <1>1, <2>1
<1>3. \A t \in Threads : Top(t)' \in Tear <=> Top(t) \in Tear
  BY <1>1
<1>4. \A t \in Threads : Top(t)' \in Tear \ {"t_group"} <=> Top(t) \in Tear \ {"t_group"}
  BY <1>1
<1>5. Devs \subseteq Threads
  BY DEF Threads
<1>6. disk => \E e \in member : ~Dropping(e)'
  BY <1>2, <1>5 DEF VolumeInv
<1>7. \A e \in Devs : Dropping(e)' => disk /\ tlock = NoOne
  BY <1>2, <1>5 DEF VolumeInv
<1>8. VolumeInv'
  BY <1>3, <1>4, <1>6, <1>7 DEF VolumeInv
<1>9. VolumeSafe => VolumeSafe'
  <2>1. {"t_lock", "t_free", "t_end"} \subseteq Tear
    BY DEF Tear
  <2> QED
    BY <1>1, <2>1 DEF VolumeSafe
<1> QED
  BY <1>8, <1>9

\* Nor is the module by a step outside it.
LEMMA ModuleKept ==
  ASSUME ModuleInv, mod' = mod, has' = has, path'["mod"] = path["mod"],
         \A d \in Devs : Present(d)' => Present(d) \/ "driver" \in has
  PROVE  ModuleInv' /\ (RootSafe => RootSafe') /\ (ConfigSafe => ConfigSafe')
<1>1. Top("mod")' = Top("mod")
  BY DEF Top
<1>2. \A d \in Devs : Present(d)' => "driver" \in has \/ Top("mod") = "removes"
  BY DEF ModuleInv
<1> QED
  BY <1>1, <1>2 DEF ModuleInv, RootSafe, ConfigSafe

-----------------------------------------------------------------------------
(* Steps of a device outside the volume.                                    *)

\* The invariant is kept by a step of one device if the device and its guest keep theirs.
LEMMA QuietStep ==
  ASSUME AdapterInv, NEW d \in Devs, Shapes', DeviceInv(d)', GuestStep(d), Calm(d),
         kind' = kind, guest' = guest, modVars' = modVars,
         disk' = disk, group' = group, armed' => armed, member' = member, tlock' = tlock,
         \A t \in Threads \ {d} : path'[t] = path[t],
         \A e \in Devs \ {d} : Same(e),
         Present(d)' => Present(d) \/ "driver" \in has
  PROVE  AdapterInv'
<1>1. \A e \in Devs : DeviceInv(e)' /\ GuestStep(e)
  BY Untouched, GuestUntouched DEF AdapterInv
<1>2. \A t \in Threads \ {d} : Calm(t)
  BY DEF Calm, Top
<1>3. VolumeInv' /\ (VolumeSafe => VolumeSafe')
  BY <1>2, VolumeKept DEF AdapterInv
<1>4. \A e \in Devs : Present(e)' => Present(e) \/ "driver" \in has
  <2>1. \A e \in Devs \ {d} : e \in Threads \ {d}
    BY DEF Threads
  <2> QED
    BY <2>1 DEF Same, Present
<1>5. path'["mod"] = path["mod"]
  <2>1. "mod" \in Threads \ {d}
    BY AdapterAssumption DEF Threads
  <2> QED
    BY <2>1
<1>6. ModuleInv' /\ (RootSafe => RootSafe') /\ (ConfigSafe => ConfigSafe')
  BY <1>4, <1>5, ModuleKept DEF AdapterInv, modVars
<1>7. GuestInv'
  BY <1>1, <1>3, <1>6, GuestKept DEF AdapterInv
<1> QED
  BY <1>1, <1>3, <1>6, <1>7 DEF AdapterInv

\* By a step of a device that leaves, other than one of the volume's.
LEMMA LeaveQuietly ==
  ASSUME AdapterInv, NEW d \in Devs, Shapes', LeavingStep(d), Waited(d),
         Top(d) \notin Tear \cup {"drop", "t_begin"},
         guest' = guest, modVars' = modVars,
         disk' = disk, group' = group, armed' => armed, member' = member, tlock' = tlock,
         \A t \in Threads \ {d} : path'[t] = path[t],
         \A e \in Devs \ {d} : Same(e)
  PROVE  AdapterInv'
<1>1. DeviceInv(d)
  BY DEF AdapterInv
<1>2. DeviceInv(d)' /\ Top(d)' = Second(path[d]) /\ GuestStep(d)
  BY <1>1, LeaveGoes, LeaveGuests
<1>3. Tidy(path[d]) /\ path[d] # <<>> /\ Head(path[d]) = Top(d)
  BY <1>1 DEF LeavingStep, DeviceInv, LeaveInv, Top
<1>4. Second(path[d]) \notin Tear \cup {"drop"}
  <2>1. TearSteps(Top(d), Second(path[d])) /\ Second(path[d]) \notin Starters
    BY <1>3, TidyTail
  <2> QED
    BY <2>1 DEF TearSteps, Starters, Tear
<1>5. Calm(d)
  BY <1>2, <1>4 DEF Calm
<1>6. Present(d)
  BY <1>3 DEF Present
<1> QED
  BY <1>2, <1>5, <1>6, QuietStep DEF LeavingStep

\* What is left of a path is one.
LEMMA PathsGo ==
  ASSUME Shapes, NEW t \in Threads, path[t] # <<>>, Goes(t)
  PROVE  /\ path' \in [Threads -> Seq(AllNames)] /\ path'[t] = Tail(path[t])
         /\ \A u \in Threads \ {t} : path'[u] = path[u]
<1>1. path \in [Threads -> Seq(AllNames)] /\ path[t] \in Seq(AllNames)
  BY DEF Shapes
<1>2. Tail(path[t]) \in Seq(AllNames)
  BY <1>1, TailIs
<1> QED
  BY <1>1, <1>2 DEF Goes

\* A device in a slot is in it.
LEMMA SlotsStay == ASSUME slots' = slots, NEW d PROVE InSlot(d)' = InSlot(d)
BY DEF InSlot

\* debugfs_remove, sysfs_remove_group, free_irq: who is inside leaves first.
LEMMA RemoveWaitKeeps ==
  ASSUME AdapterInv, NEW d \in Devs, RemoveWait(d)
  PROVE  AdapterInv'
<1>1. /\ path[d] # <<>> /\ Head(path[d]) = Top(d) /\ Goes(d) /\ Drained(d, Top(d))
      /\ Top(d) \in {"debugfs_wait", "sysfs_wait", "irq_wait", "q_wait"}
  BY DEF RemoveWait, Top
<1>2. d \in Threads
  BY DEF Threads
<1>3. /\ path' \in [Threads -> Seq(AllNames)] /\ path'[d] = Tail(path[d])
      /\ \A u \in Threads \ {d} : path'[u] = path[u]
  BY <1>1, <1>2, PathsGo DEF AdapterInv
<1>4. /\ kind' = kind /\ bound' = bound /\ held' = held /\ nvec' = nvec /\ ioq' = ioq /\ slots' = slots
      /\ disk' = disk /\ group' = group /\ armed' = armed /\ member' = member /\ tlock' = tlock
      /\ modVars' = modVars /\ guest' = guest
  BY DEF RemoveWait, devVars, volVars, modVars
<1>5. Shapes'
  BY <1>3, <1>4 DEF AdapterInv, Shapes
<1>6. \A e \in Devs \ {d} : Same(e)
  BY <1>3, <1>4, SlotsStay DEF Same, Threads
<1>7. LeavingStep(d)
  <2>1. Top(d) \notin ProbeNames \cup MemberSteps \cup {"q_irq", "q_free", "detach"}
    BY <1>1 DEF ProbeNames, MemberSteps
  <2>2. \A x : Taker(x) # Top(d)
    BY <1>1 DEF Taker
  <2> QED
    BY <1>1, <1>3, <1>4, <2>1, <2>2, SlotsStay DEF LeavingStep
<1>8. Top(d) \notin Tear \cup {"drop", "t_begin"}
  BY <1>1 DEF Tear
<1> QED
  BY <1>1, <1>3, <1>4, <1>5, <1>6, <1>7, <1>8, LeaveQuietly DEF Waited

\* What each step of rc_bottom_remove returns.
LEMMA TakesAre ==
  ASSUME NEW h \in DOMAIN Takes
  PROVE  /\ Takes[h] \in Items \ {"unhooked"} /\ Taker(Takes[h]) = h
         /\ \A x \in Items : Taker(x) = h => x = Takes[h]
         /\ h \notin ProbeNames \cup MemberSteps \cup Tear
         /\ h \notin {"q_irq", "q_free", "detach", "drop", "t_begin"}
         /\ h \notin {"debugfs_wait", "sysfs_wait", "irq_wait", "q_wait"}
<1>1. DOMAIN Takes = {"undebugfs", "unsysfs", "off", "unadmin", "unirq", "release", "unmap",
                      "disable", "free"}
  BY DEF Takes
<1>2. /\ Takes["undebugfs"] = "debugfs" /\ Takes["unsysfs"] = "sysfs" /\ Takes["off"] = "on"
      /\ Takes["unadmin"] = "admin" /\ Takes["unirq"] = "irq" /\ Takes["release"] = "vectors"
      /\ Takes["unmap"] = "bars" /\ Takes["disable"] = "enabled" /\ Takes["free"] = "adapter"
  BY DEF Takes
<1>3. /\ h \notin ProbeNames \cup MemberSteps \cup Tear
      /\ h \notin {"q_irq", "q_free", "detach", "drop", "t_begin"}
      /\ h \notin {"debugfs_wait", "sysfs_wait", "irq_wait", "q_wait"}
  BY <1>1 DEF ProbeNames, MemberSteps, Tear
<1>4. Takes[h] \in Items \ {"unhooked"} /\ Taker(Takes[h]) = h
  BY <1>1, <1>2 DEF Items, Taker
<1>5. \A x, y \in Items \ {"unhooked"} : Taker(x) = Taker(y) => x = y
  BY DEF Items, Taker
<1>6. Taker("unhooked") = "q_free"
  BY DEF Taker
<1> QED
  BY <1>3, <1>4, <1>5, <1>6

\* What a removal, or the error path of a probe, returns.
LEMMA RemovalStepKeeps ==
  ASSUME AdapterInv, NEW d \in Devs, RemovalStep(d)
  PROVE  AdapterInv'
<1> DEFINE h == Top(d)
           x == Takes[h]
<1>1. path[d] # <<>> /\ Head(path[d]) = h /\ Goes(d) /\ h \in DOMAIN Takes
  BY DEF RemovalStep, Top
<1>2. d \in Threads
  BY DEF Threads
<1>3. /\ path' \in [Threads -> Seq(AllNames)] /\ path'[d] = Tail(path[d])
      /\ \A u \in Threads \ {d} : path'[u] = path[u]
  BY <1>1, <1>2, PathsGo DEF AdapterInv
<1>4. /\ kind' = kind /\ bound' = bound /\ nvec' = nvec /\ ioq' = ioq /\ slots' = slots
      /\ disk' = disk /\ group' = group /\ armed' = armed /\ member' = member /\ tlock' = tlock
      /\ modVars' = modVars /\ guest' = guest
  BY DEF RemovalStep, volVars, modVars
<1>5. held' = [held EXCEPT ![d] = @ \ {x}] /\ held \in [Devs -> SUBSET Items]
  BY DEF RemovalStep, Returns, AdapterInv, Shapes, Top
<1>6. /\ x \in Items \ {"unhooked"} /\ Taker(x) = h
      /\ \A y \in Items : Taker(y) = h => y = x
      /\ h \notin ProbeNames \cup MemberSteps \cup Tear
      /\ h \notin {"q_irq", "q_free", "detach", "drop", "t_begin"}
      /\ h \notin {"debugfs_wait", "sysfs_wait", "irq_wait", "q_wait"}
  BY <1>1, TakesAre
<1> HIDE DEF x
<1>7. /\ held'[d] = held[d] \ {x} /\ held' \in [Devs -> SUBSET Items] /\ held[d] \subseteq Items
      /\ \A e \in Devs \ {d} : held'[e] = held[e]
  BY <1>5
<1>8. Shapes'
  BY <1>3, <1>4, <1>7 DEF AdapterInv, Shapes
<1>9. \A e \in Devs \ {d} : Same(e)
  BY <1>3, <1>4, <1>7, SlotsStay DEF Same, Threads
<1>10. LeavingStep(d)
  BY <1>1, <1>3, <1>4, <1>6, <1>7, SlotsStay DEF LeavingStep
<1>11. Waited(d)
  BY <1>6 DEF Waited, Waits
<1> QED
  BY <1>3, <1>4, <1>6, <1>8, <1>9, <1>10, <1>11, LeaveQuietly

\* rc_nvme_destroy_io_queues, the interrupts of the queues.
LEMMA UnhookQueuesKeeps ==
  ASSUME AdapterInv, NEW d \in Devs, UnhookQueues(d)
  PROVE  AdapterInv'
<1> DEFINE h == Top(d)
<1>1. path[d] # <<>> /\ Head(path[d]) = h /\ Goes(d) /\ h = "q_irq"
  BY DEF UnhookQueues, Top, At
<1>2. d \in Threads
  BY DEF Threads
<1>3. /\ path' \in [Threads -> Seq(AllNames)] /\ path'[d] = Tail(path[d])
      /\ \A u \in Threads \ {d} : path'[u] = path[u]
  BY <1>1, <1>2, PathsGo DEF AdapterInv
<1>4. /\ kind' = kind /\ bound' = bound /\ nvec' = nvec /\ ioq' = ioq /\ slots' = slots
      /\ disk' = disk /\ group' = group /\ armed' = armed /\ member' = member /\ tlock' = tlock
      /\ modVars' = modVars /\ guest' = guest
  BY DEF UnhookQueues, volVars, modVars
<1>5. /\ held' = [held EXCEPT ![d] = (@ \cup (IF ioq[d] = {} THEN {} ELSE {"unhooked"}))]
      /\ held \in [Devs -> SUBSET Items] /\ "unhooked" \in Items
  BY DEF UnhookQueues, AdapterInv, Shapes, Items
<1>7. /\ held'[d] = held[d] \cup (IF ioq[d] = {} THEN {} ELSE {"unhooked"})
      /\ held' \in [Devs -> SUBSET Items] /\ held[d] \subseteq Items
      /\ \A e \in Devs \ {d} : held'[e] = held[e]
  BY <1>5
<1>8. Shapes'
  BY <1>3, <1>4, <1>7 DEF AdapterInv, Shapes
<1>9. \A e \in Devs \ {d} : Same(e)
  BY <1>3, <1>4, <1>7, SlotsStay DEF Same, Threads
<1>6. \A x : Taker(x) # h
  BY <1>1 DEF Taker
<1>10. h \notin ProbeNames \cup MemberSteps \cup Tear \cup {"drop", "t_begin"}
  BY <1>1 DEF ProbeNames, MemberSteps, Tear
<1>11. LeavingStep(d)
  BY <1>1, <1>3, <1>4, <1>6, <1>7, <1>10, SlotsStay DEF LeavingStep
<1>12. Waited(d)
  BY <1>1 DEF Waited, Waits
<1> QED
  BY <1>3, <1>4, <1>8, <1>9, <1>10, <1>11, <1>12, LeaveQuietly

\* rc_nvme_destroy_io_queues, the memory of the queues.
LEMMA FreeQueuesKeeps ==
  ASSUME AdapterInv, NEW d \in Devs, FreeQueues(d)
  PROVE  AdapterInv'
<1> DEFINE h == Top(d)
<1>1. path[d] # <<>> /\ Head(path[d]) = h /\ Goes(d) /\ h = "q_free"
  BY DEF FreeQueues, Top, At
<1>2. d \in Threads
  BY DEF Threads
<1>3. /\ path' \in [Threads -> Seq(AllNames)] /\ path'[d] = Tail(path[d])
      /\ \A u \in Threads \ {d} : path'[u] = path[u]
  BY <1>1, <1>2, PathsGo DEF AdapterInv
<1>4. /\ kind' = kind /\ bound' = bound /\ nvec' = nvec /\ slots' = slots
      /\ disk' = disk /\ group' = group /\ armed' = armed /\ member' = member /\ tlock' = tlock
      /\ modVars' = modVars /\ guest' = guest
  BY DEF FreeQueues, volVars, modVars
<1>5. /\ held' = [held EXCEPT ![d] = @ \ {"unhooked"}] /\ ioq' = [ioq EXCEPT ![d] = {}]
      /\ held \in [Devs -> SUBSET Items] /\ ioq \in [Devs -> SUBSET Nat]
  BY DEF FreeQueues, Returns, AdapterInv, Shapes
<1>7. /\ held'[d] = held[d] \ {"unhooked"} /\ ioq'[d] = {}
      /\ held' \in [Devs -> SUBSET Items] /\ held[d] \subseteq Items /\ ioq' \in [Devs -> SUBSET Nat]
      /\ \A e \in Devs \ {d} : held'[e] = held[e] /\ ioq'[e] = ioq[e]
  BY <1>5
<1>8. Shapes'
  BY <1>3, <1>4, <1>7 DEF AdapterInv, Shapes
<1>9. \A e \in Devs \ {d} : Same(e)
  BY <1>3, <1>4, <1>7, SlotsStay DEF Same, Threads
<1>6. \A x \in Items : Taker(x) = h <=> x = "unhooked"
  BY <1>1 DEF Taker, Items
<1>10. h \notin ProbeNames \cup MemberSteps \cup Tear \cup {"drop", "t_begin"}
  BY <1>1 DEF ProbeNames, MemberSteps, Tear
<1>11. LeavingStep(d)
  BY <1>1, <1>3, <1>4, <1>6, <1>7, <1>10, SlotsStay DEF LeavingStep
<1>12. Waited(d)
  BY <1>1 DEF Waited, Waits
<1> QED
  BY <1>3, <1>4, <1>8, <1>9, <1>10, <1>11, <1>12, LeaveQuietly

\* rc_bottom_detach_adapter.
LEMMA DetachAdapterKeeps ==
  ASSUME AdapterInv, NEW d \in Devs, DetachAdapter(d)
  PROVE  AdapterInv'
<1> DEFINE h == Top(d)
<1>1. path[d] # <<>> /\ Head(path[d]) = h /\ Goes(d) /\ h = "detach"
  BY DEF DetachAdapter, Top, At
<1>2. d \in Threads
  BY DEF Threads
<1>3. /\ path' \in [Threads -> Seq(AllNames)] /\ path'[d] = Tail(path[d])
      /\ \A u \in Threads \ {d} : path'[u] = path[u]
  BY <1>1, <1>2, PathsGo DEF AdapterInv
<1>4. /\ kind' = kind /\ bound' = bound /\ nvec' = nvec /\ held' = held /\ ioq' = ioq
      /\ disk' = disk /\ group' = group /\ armed' = armed /\ member' = member /\ tlock' = tlock
      /\ modVars' = modVars /\ guest' = guest
  BY DEF DetachAdapter, volVars, modVars
<1>5. /\ slots' = [i \in DOMAIN slots |-> IF slots[i] = d THEN NoOne ELSE slots[i]]
      /\ slots \in [1 .. Slots -> Devs \cup {NoOne, Other}] /\ NoOne # d
  BY AdapterAssumption DEF DetachAdapter, AdapterInv, Shapes
<1>7. /\ slots' \in [1 .. Slots -> Devs \cup {NoOne, Other}]
      /\ \A i \in 1 .. Slots : slots'[i] # d /\ (slots'[i] = slots[i] \/ slots'[i] = NoOne)
  BY <1>5
<1>8. Shapes'
  BY <1>3, <1>4, <1>7 DEF AdapterInv, Shapes
<1>14. ~InSlot(d)' /\ \A e \in Devs : InSlot(e)' => InSlot(e)
  BY <1>7, AdapterAssumption DEF InSlot
<1>9. \A e \in Devs \ {d} : Same(e)
  BY <1>3, <1>4, <1>14 DEF Same, Threads
<1>6. \A x : Taker(x) # h
  BY <1>1 DEF Taker
<1>10. h \notin ProbeNames \cup MemberSteps \cup Tear \cup {"drop", "t_begin"}
  BY <1>1 DEF ProbeNames, MemberSteps, Tear
<1>11. LeavingStep(d)
  BY <1>1, <1>3, <1>4, <1>6, <1>10, <1>14 DEF LeavingStep
<1>12. Waited(d)
  BY <1>1 DEF Waited, Waits
<1> QED
  BY <1>3, <1>4, <1>8, <1>9, <1>10, <1>11, <1>12, LeaveQuietly

-----------------------------------------------------------------------------
(* Steps of the volume.                                                     *)

\* What a device holds while it moves on without waiting.
LEMMA HeldStays ==
  ASSUME NEW d, held'[d] = held[d], ioq'[d] = ioq[d], Top(d) \notin Waits
  PROVE  GuestStep(d)
BY DEF GuestStep, DumpSafe, AttrSafe, LineSafe, QueueSafe, Waits

\* A member at its turn goes on to part, to drop, or to the teardown.
LEMMA PartGoes ==
  ASSUME Shapes, NEW d \in Devs, DeviceInv(d), path[d] # <<>>, Top(d) \in {"leave", "part"},
         NEW q \in {<<"part">>, <<"drop">>, Teardown}, Jumps(d, q \o Tail(path[d])),
         kind' = kind, held' = held, nvec' = nvec, ioq' = ioq, bound' = bound,
         slots' = slots, member' = member
  PROVE  /\ Shapes' /\ DeviceInv(d)' /\ GuestStep(d) /\ Top(d)' = Head(q) /\ path'[d] # <<>>
         /\ \A t \in Threads \ {d} : path'[t] = path[t]
         /\ \A e \in Devs \ {d} : Same(e)
<1> DEFINE h == Top(d)
           r == q \o Tail(path[d])
<1>1. Head(path[d]) = h /\ h \notin ProbeNames \cup Last \cup Waits /\ \A x : Taker(x) # h
      /\ h # "q_free" /\ h # "detach"
  BY DEF Top, ProbeNames, Last, Waits, Taker
<1>2. /\ Tidy(path[d]) /\ d \notin bound /\ held[d] \subseteq Items
      /\ \A x \in held[d] : Taker(x) \in Names(path[d])
      /\ ioq[d] # {} => "q_free" \in Names(path[d])
      /\ InSlot(d) => "detach" \in Names(path[d])
      /\ {"adapter", "bars", "vectors"} \subseteq held[d]
  BY <1>1 DEF DeviceInv, LeaveInv
<1>3. /\ Tidy(r) /\ r # <<>> /\ Head(r) = Head(q) /\ Head(q) \in {"part", "drop", "t_begin"}
      /\ Names(Tail(path[d])) \subseteq Names(r) /\ MemberFirst(r)
  BY <1>1, <1>2, PartTidy
<1>4. \A s \in Names(path[d]) : s = h \/ s \in Names(r)
  BY <1>1, <1>2, <1>3, NamesTail DEF Tidy
<1>5. r \in Seq(AllNames)
  <2>1. r \in Seq(LeaveNames)
    BY <1>3 DEF Tidy
  <2> HIDE DEF r
  <2>2. LeaveNames \subseteq AllNames
    BY DEF AllNames
  <2> QED
    BY <2>1, <2>2
<1> HIDE DEF r
<1>6. path' = [path EXCEPT ![d] = r] /\ path \in [Threads -> Seq(AllNames)] /\ d \in Threads
  BY DEF Jumps, r, Shapes, Threads
<1>7. /\ path' \in [Threads -> Seq(AllNames)] /\ path'[d] = r
      /\ \A t \in Threads \ {d} : path'[t] = path[t]
  BY <1>5, <1>6
<1>8. Shapes'
  BY <1>7 DEF Shapes
<1>9. \A e \in Devs \ {d} : Same(e)
  BY <1>7, SlotsStay DEF Same, Threads
<1>10. Top(d)' = Head(q)
  BY <1>3, <1>7 DEF Top
<1>11. LeaveInv(d)'
  <2>1. Head(q) \notin Early \cup {"unadmin", "q_wait", "q_free"}
    BY <1>3 DEF Early
  <2>2. InSlot(d)' => "detach" \in Names(r)
    BY <1>1, <1>2, <1>4, SlotsStay
  <2>3. ioq[d] # {} => "q_free" \in Names(r)
    BY <1>1, <1>2, <1>4
  <2>4. \A x \in held[d] : Taker(x) \in Names(r)
    BY <1>1, <1>2, <1>4
  <2> QED
    BY <1>2, <1>3, <1>7, <1>10, <2>1, <2>2, <2>3, <2>4 DEF LeaveInv
<1>12. ProbeInv(d)' /\ RestInv(d)'
  <2>1. Head(q) \notin ProbeNames
    BY <1>3 DEF ProbeNames
  <2> QED
    BY <1>3, <1>7, <1>10, <2>1 DEF ProbeInv, RestInv
<1>13. OwnInv(d)'
  BY DEF DeviceInv, OwnInv
<1> QED
  BY <1>1, <1>3, <1>7, <1>8, <1>9, <1>10, <1>11, <1>12, <1>13, HeldStays DEF DeviceInv

\* rc_volume_remove_member cancels the timer for a member.
LEMMA LeaveKeeps ==
  ASSUME AdapterInv, NEW d \in Devs, Leave(d)
  PROVE  AdapterInv'
<1>1. path[d] # <<>> /\ Head(path[d]) = Top(d) /\ Top(d) = "leave" /\ Top(d) \in {"leave", "part"}
  BY DEF Leave, Top, At
<1>2. /\ kind' = kind /\ bound' = bound /\ nvec' = nvec /\ held' = held /\ ioq' = ioq /\ slots' = slots
      /\ disk' = disk /\ group' = group /\ member' = member /\ tlock' = tlock
      /\ modVars' = modVars /\ guest' = guest
  BY DEF Leave, devVars, modVars
<1>3. Top(d) \notin Tear \cup {"drop", "t_begin"} \cup ProbeNames \cup Waits /\ \A x : Taker(x) # Top(d)
  BY <1>1 DEF Tear, ProbeNames, Waits, Taker
<1>4. CASE d \in member
  <2>1. armed' = FALSE /\ Jumps(d, <<"part">> \o Tail(path[d]))
    BY <1>4 DEF Leave
  <2>2. Shapes /\ DeviceInv(d)
    BY DEF AdapterInv
  <2>3. /\ Shapes' /\ DeviceInv(d)' /\ GuestStep(d) /\ Top(d)' = Head(<<"part">>)
        /\ \A t \in Threads \ {d} : path'[t] = path[t]
        /\ \A e \in Devs \ {d} : Same(e)
    BY <1>1, <1>2, <2>1, <2>2, PartGoes
  <2>4. Calm(d)
    BY <1>3, <2>3 DEF Calm, Tear
  <2>5. Present(d)
    BY <1>1 DEF Present
  <2> QED
    BY <1>2, <2>1, <2>3, <2>4, <2>5, QuietStep
<1>5. CASE d \notin member
  <2>1. armed' = armed /\ Goes(d) /\ d \in Threads
    BY <1>5 DEF Leave, Threads
  <2>2. /\ path' \in [Threads -> Seq(AllNames)] /\ path'[d] = Tail(path[d])
        /\ \A u \in Threads \ {d} : path'[u] = path[u]
    BY <1>1, <2>1, PathsGo DEF AdapterInv
  <2>3. Shapes'
    BY <1>2, <2>2 DEF AdapterInv, Shapes
  <2>4. \A e \in Devs \ {d} : Same(e)
    BY <1>2, <2>2, SlotsStay DEF Same, Threads
  <2>5. LeavingStep(d)
    BY <1>1, <1>2, <1>3, <1>5, <2>2, SlotsStay DEF LeavingStep
  <2>6. Waited(d)
    BY <1>3 DEF Waited
  <2> QED
    BY <1>2, <1>3, <2>1, <2>2, <2>3, <2>4, <2>5, <2>6, LeaveQuietly
<1> QED
  BY <1>4, <1>5

\* rc_volume_remove_member: the volume goes on without the device, or is torn down.
LEMMA PartKeeps ==
  ASSUME Admit = {}, AdapterInv, NEW d \in Devs, Part(d)
  PROVE  AdapterInv'
<1>1. path[d] # <<>> /\ Head(path[d]) = Top(d) /\ Top(d) = "part" /\ Top(d) \in {"leave", "part"}
  BY DEF Part, Top, At
<1>2. /\ kind' = kind /\ bound' = bound /\ nvec' = nvec /\ held' = held /\ ioq' = ioq /\ slots' = slots
      /\ disk' = disk /\ group' = group /\ armed' = armed /\ member' = member /\ tlock' = tlock
      /\ modVars' = modVars /\ guest' = guest
  BY DEF Part, devVars, volVars, modVars
<1>3. Top(d) \notin Tear \cup {"drop", "t_begin"} \cup ProbeNames \cup Waits /\ \A x : Taker(x) # Top(d)
  BY <1>1 DEF Tear, ProbeNames, Waits, Taker
<1>4. PICK keeps \in BOOLEAN :
      /\ keeps => disk /\ \E e \in member \ {d} : ~Dropping(e)
      /\ keeps => tlock = NoOne
      /\ Jumps(d, (IF d \notin member THEN <<>> ELSE IF keeps THEN <<"drop">> ELSE Teardown)
                  \o Tail(path[d]))
  BY DEF Part
<1>5. Shapes /\ DeviceInv(d) /\ Present(d)
  BY <1>1 DEF AdapterInv, Present
<1>6. CASE d \notin member
  <2>1. <<>> \o Tail(path[d]) = Tail(path[d])
    <3>1. Tail(path[d]) \in Seq(LeaveNames)
      BY <1>1, <1>3, <1>5, TidyTail DEF DeviceInv, LeaveInv, Tidy
    <3> QED
      BY <3>1
  <2>2. Goes(d) /\ d \in Threads
    BY <1>4, <1>6, <2>1 DEF Jumps, Goes, Threads
  <2>3. /\ path' \in [Threads -> Seq(AllNames)] /\ path'[d] = Tail(path[d])
        /\ \A u \in Threads \ {d} : path'[u] = path[u]
    BY <1>1, <1>5, <2>2, PathsGo
  <2>4. Shapes'
    BY <1>2, <1>5, <2>3 DEF Shapes
  <2>5. \A e \in Devs \ {d} : Same(e)
    BY <1>2, <2>3, SlotsStay DEF Same, Threads
  <2>6. LeavingStep(d)
    BY <1>1, <1>2, <1>3, <1>6, <2>3, SlotsStay DEF LeavingStep
  <2>7. Waited(d)
    BY <1>3 DEF Waited
  <2> QED
    BY <1>2, <1>3, <2>3, <2>4, <2>5, <2>6, <2>7, LeaveQuietly
<1>7. CASE d \in member /\ ~keeps
  <2>1. Jumps(d, Teardown \o Tail(path[d]))
    BY <1>4, <1>7
  <2>2. /\ Shapes' /\ DeviceInv(d)' /\ GuestStep(d) /\ Top(d)' = Head(Teardown)
        /\ \A t \in Threads \ {d} : path'[t] = path[t]
        /\ \A e \in Devs \ {d} : Same(e)
    BY <1>1, <1>2, <1>5, <2>1, PartGoes
  <2>3. Calm(d)
    BY <1>3, <2>2, TeardownTidy DEF Calm, Tear
  <2> QED
    BY <1>2, <1>5, <2>2, <2>3, QuietStep
<1>8. CASE d \in member /\ keeps
  <2>1. Jumps(d, <<"drop">> \o Tail(path[d]))
    BY <1>4, <1>8
  <2>2. /\ Shapes' /\ DeviceInv(d)' /\ GuestStep(d) /\ Top(d)' = Head(<<"drop">>) /\ path'[d] # <<>>
        /\ \A t \in Threads \ {d} : path'[t] = path[t]
        /\ \A e \in Devs \ {d} : Same(e)
    BY <1>1, <1>2, <1>5, <2>1, PartGoes
  <2>3. Top(d)' = "drop"
    BY <2>2
  <2>4. \A t \in Threads \ {d} : Top(t)' = Top(t) /\ (Dropping(t)' <=> Dropping(t))
    BY <2>2 DEF Top, Dropping, At
  <2>5. VolumeInv'
    <3>1. disk /\ tlock = NoOne /\ \E e \in member \ {d} : ~Dropping(e)
      BY <1>4, <1>8
    <3>2. VolumeInv /\ member \subseteq Devs /\ Devs \subseteq Threads
      BY DEF AdapterInv, VolumeInv, Threads
    <3>3. \E e \in member : ~Dropping(e)'
      BY <2>4, <3>1, <3>2
    <3>4. \A t \in Threads : Top(t)' \in Tear => Top(t) \in Tear /\ Top(t)' = Top(t)
      BY <2>3, <2>4 DEF Tear
    <3>5. \A t \in Threads : Top(t)' \in Tear <=> tlock = t
      <4>1. \A t \in Threads : tlock # t
        BY <3>1, AdapterAssumption DEF Threads
      <4> QED
        BY <3>2, <3>4, <4>1 DEF VolumeInv
    <3>6. group => \A t \in Threads : Top(t)' \notin Tear \ {"t_group"}
      BY <3>2, <3>4 DEF VolumeInv
    <3>7. armed => member # {}
      BY <3>2 DEF VolumeInv
    <3> QED
      BY <1>2, <3>1, <3>2, <3>3, <3>5, <3>6, <3>7 DEF VolumeInv
  <2>6. VolumeSafe => VolumeSafe'
    BY <1>2, <2>3, <2>4 DEF VolumeSafe
  <2>7. \A e \in Devs : DeviceInv(e)' /\ GuestStep(e)
    BY <2>2, Untouched, GuestUntouched DEF AdapterInv
  <2>8. \A e \in Devs : Present(e)' => Present(e)
    <3>1. \A e \in Devs \ {d} : e \in Threads \ {d}
      BY DEF Threads
    <3> QED
      BY <1>5, <2>2, <3>1 DEF Same, Present
  <2>9. path'["mod"] = path["mod"]
    BY <2>2, AdapterAssumption DEF Threads
  <2>10. ModuleInv' /\ (RootSafe => RootSafe') /\ (ConfigSafe => ConfigSafe')
    BY <1>2, <2>8, <2>9, ModuleKept DEF AdapterInv, modVars
  <2>11. GuestInv'
    BY <1>2, <2>6, <2>7, <2>10, GuestKept DEF AdapterInv
  <2> QED
    BY <2>2, <2>5, <2>7, <2>10, <2>11 DEF AdapterInv
<1> QED
  BY <1>6, <1>7, <1>8

\* The member is out of the registry; another serves.
LEMMA DropKeeps ==
  ASSUME AdapterInv, NEW d \in Devs, Drop(d)
  PROVE  AdapterInv'
<1>1. path[d] # <<>> /\ Head(path[d]) = Top(d) /\ Top(d) = "drop" /\ Goes(d) /\ d \in Threads /\ Dropping(d)
  BY DEF Drop, Top, At, Threads, Dropping
<1>2. /\ kind' = kind /\ bound' = bound /\ nvec' = nvec /\ held' = held /\ ioq' = ioq /\ slots' = slots
      /\ disk' = disk /\ group' = group /\ armed' = armed /\ member' = member \ {d} /\ tlock' = tlock
      /\ modVars' = modVars /\ guest' = guest
  BY DEF Drop, devVars, modVars
<1>3. Top(d) \notin Tear \cup ProbeNames \cup Waits /\ \A x : Taker(x) # Top(d)
  BY <1>1 DEF Tear, ProbeNames, Waits, Taker
<1>4. Shapes /\ DeviceInv(d) /\ Present(d)
  BY <1>1 DEF AdapterInv, Present
<1>5. /\ path' \in [Threads -> Seq(AllNames)] /\ path'[d] = Tail(path[d])
      /\ \A u \in Threads \ {d} : path'[u] = path[u]
  BY <1>1, <1>4, PathsGo
<1>6. Shapes'
  BY <1>2, <1>4, <1>5 DEF Shapes
<1>7. \A e \in Devs \ {d} : Same(e)
  BY <1>2, <1>5, SlotsStay DEF Same, Threads
<1>8. LeavingStep(d) /\ Waited(d)
  BY <1>1, <1>2, <1>3, <1>5, SlotsStay DEF LeavingStep, Waited
<1>9. DeviceInv(d)' /\ GuestStep(d) /\ Top(d)' = Second(path[d])
  BY <1>4, <1>8, LeaveGoes, LeaveGuests
<1>10. Second(path[d]) \notin Tear \cup {"drop"}
  <2>1. Tidy(path[d])
    BY <1>1, <1>3, <1>4 DEF DeviceInv, LeaveInv
  <2>2. TearSteps("drop", Second(path[d])) /\ Second(path[d]) \notin Starters
    BY <1>1, <2>1, TidyTail
  <2> QED
    BY <2>2 DEF TearSteps, Starters, Tear
<1>11. \A t \in Threads \ {d} : Top(t)' = Top(t) /\ (Dropping(t)' <=> Dropping(t))
  BY <1>5 DEF Top, Dropping, At
<1>12. ~Dropping(d)'
  BY <1>9, <1>10 DEF Dropping, At, Top
<1>13. VolumeInv'
  <2>1. VolumeInv /\ member \subseteq Devs /\ Devs \subseteq Threads
    BY DEF AdapterInv, VolumeInv, Threads
  <2>2. disk /\ tlock = NoOne
    BY <1>1, <2>1 DEF VolumeInv
  <2>3. \E e \in member \ {d} : ~Dropping(e)
    BY <1>1, <2>1, <2>2 DEF VolumeInv
  <2>4. \E e \in member \ {d} : ~Dropping(e)'
    BY <1>11, <2>1, <2>3
  <2>5. \A t \in Threads : Top(t)' \in Tear <=> Top(t) \in Tear
    BY <1>3, <1>9, <1>10, <1>11
  <2>6. \A t \in Threads : Top(t)' \in Tear \ {"t_group"} <=> Top(t) \in Tear \ {"t_group"}
    BY <1>3, <1>9, <1>10, <1>11
  <2> QED
    BY <1>2, <2>1, <2>2, <2>4, <2>5, <2>6 DEF VolumeInv
<1>14. VolumeSafe => VolumeSafe'
  BY <1>2, <1>9, <1>10, <1>11 DEF VolumeSafe, Tear
<1>15. \A e \in Devs : DeviceInv(e)' /\ GuestStep(e)
  BY <1>7, <1>9, Untouched, GuestUntouched DEF AdapterInv
<1>16. \A e \in Devs : Present(e)' => Present(e)
  BY <1>4, <1>5, <1>7 DEF Same, Present, Threads
<1>17. path'["mod"] = path["mod"]
  BY <1>5, AdapterAssumption DEF Threads
<1>18. ModuleInv' /\ (RootSafe => RootSafe') /\ (ConfigSafe => ConfigSafe')
  BY <1>2, <1>16, <1>17, ModuleKept DEF AdapterInv, modVars
<1>19. GuestInv'
  BY <1>2, <1>14, <1>15, <1>18, GuestKept DEF AdapterInv
<1> QED
  BY <1>6, <1>13, <1>15, <1>18, <1>19 DEF AdapterInv


\* A member drops out when that is its next step.
LEMMA TopDrops ==
  ASSUME NEW t
  PROVE  (Dropping(t) <=> Top(t) = "drop") /\ (Dropping(t)' <=> Top(t)' = "drop")
BY DEF Dropping, At, Top

-----------------------------------------------------------------------------
(* The teardown, of a device that leaves or of the module.                  *)

\* The path a teardown is on.
LEMMA TearTops ==
  ASSUME AdapterInv, NEW t \in Threads, path[t] # <<>>, Top(t) \in Tear \cup {"t_begin"}, Goes(t)
  PROVE  /\ Head(path[t]) = Top(t) /\ Top(t)' = Second(path[t])
         /\ TearSteps(Top(t), Second(path[t])) /\ Second(path[t]) \notin Starters
         /\ t = "mod" => mod = "going" /\ UnloadPath(path[t])
         /\ \A u \in Threads \ {t} : Top(u)' = Top(u) /\ (Dropping(u)' <=> Dropping(u))
         /\ ~Dropping(t) /\ ~Dropping(t)'
         /\ path' \in [Threads -> Seq(AllNames)] /\ path'[t] = Tail(path[t])
         /\ \A u \in Threads \ {t} : path'[u] = path[u]
<1>1. Head(path[t]) = Top(t) /\ Top(t) \notin ProbeNames \cup LoadNames \cup {"drop"}
  BY DEF Top, Tear, ProbeNames, LoadNames
<1>2. /\ path' \in [Threads -> Seq(AllNames)] /\ path'[t] = Tail(path[t])
      /\ \A u \in Threads \ {t} : path'[u] = path[u]
  BY PathsGo DEF AdapterInv
<1>3. Top(t)' = Second(path[t])
  BY <1>2 DEF Top, Second
<1>4. \A u \in Threads \ {t} : Top(u)' = Top(u) /\ (Dropping(u)' <=> Dropping(u))
  BY <1>2 DEF Top, Dropping, At
<1>5. CASE t = "mod"
  <2>1. mod \in {"loading", "going"}
    BY <1>5 DEF AdapterInv, ModuleInv
  <2>2. mod # "loading"
    <3>1. mod = "loading" => Head(path["mod"]) \in LoadNames
      BY LoadTail DEF AdapterInv, ModuleInv
    <3> QED
      BY <1>1, <1>5, <3>1
  <2>3. mod = "going" /\ UnloadPath(path[t])
    BY <1>5, <2>1, <2>2 DEF AdapterInv, ModuleInv
  <2>4. TearSteps(Top(t), Second(path[t])) /\ Second(path[t]) \notin Starters
    BY <1>1, <2>3, UnloadTail
  <2> QED
    BY <1>1, <1>2, <1>3, <1>4, <2>3, <2>4, TopDrops DEF Starters
<1>6. CASE t # "mod"
  <2>1. t \in Devs
    BY <1>6 DEF Threads
  <2>2. Tidy(path[t])
    BY <1>1, <2>1 DEF AdapterInv, DeviceInv, LeaveInv
  <2>3. TearSteps(Top(t), Second(path[t])) /\ Second(path[t]) \notin Starters
    BY <1>1, <2>2, TidyTail
  <2> QED
    BY <1>1, <1>2, <1>3, <1>4, <1>6, <2>3, TopDrops DEF Starters
<1> QED
  BY <1>5, <1>6

\* It keeps the invariant if it keeps the volume's.
LEMMA TearKeeps ==
  ASSUME AdapterInv, NEW t \in Threads, path[t] # <<>>, Top(t) \in Tear \cup {"t_begin"}, Goes(t),
         kind' = kind, devVars' = devVars, modVars' = modVars, guest' = guest,
         member' = IF Top(t) = "t_free" THEN {} ELSE member,
         VolumeInv', guest.op = "volattr" /\ VolumeSafe => VolumeSafe'
  PROVE  AdapterInv'
<1>1. /\ Head(path[t]) = Top(t) /\ Top(t)' = Second(path[t]) 
      /\ t = "mod" => mod = "going" /\ UnloadPath(path[t])
      /\ path' \in [Threads -> Seq(AllNames)] /\ path'[t] = Tail(path[t])
      /\ \A u \in Threads \ {t} : path'[u] = path[u]
  BY TearTops
<1>2. /\ bound' = bound /\ held' = held /\ nvec' = nvec /\ ioq' = ioq /\ slots' = slots
      /\ mod' = mod /\ has' = has
  BY DEF devVars, modVars
<1>3. \A d \in member' : d \in member
  OBVIOUS
<1>4. \A e \in Devs \ {t} : Same(e)
  BY <1>1, <1>2, <1>3, SlotsStay DEF Same, Threads
<1>5. Shapes'
  BY <1>1, <1>2 DEF AdapterInv, Shapes
<1>6. /\ Top(t) \notin ProbeNames \cup {"q_irq", "q_free", "detach", "loaded", "unloaded", "root_wait"}
      /\ Top(t) \notin {"undriver", "unroot", "removes"} \cup Waits
      /\ \A x : Taker(x) # Top(t) /\ ModTaker(x) # Top(t)
  BY DEF Tear, ProbeNames, Taker, ModTaker, Waits
<1>7. CASE t # "mod"
  <2>1. t \in Devs /\ DeviceInv(t) /\ Present(t)
    BY <1>7 DEF Threads, AdapterInv, Present
  <2>2. t \in member' => Top(t) \notin MemberSteps
    BY DEF Tear, MemberSteps
  <2>3. LeavingStep(t) /\ Waited(t)
    BY <1>1, <1>2, <1>3, <1>6, <2>1, <2>2, SlotsStay DEF LeavingStep, Waited
  <2>4. DeviceInv(t)' /\ GuestStep(t)
    BY <2>1, <2>3, LeaveGoes, LeaveGuests
  <2>5. \A e \in Devs : DeviceInv(e)' /\ GuestStep(e)
    BY <1>4, <2>4, Untouched, GuestUntouched DEF AdapterInv
  <2>6. \A e \in Devs : Present(e)' => Present(e)
    BY <1>1, <1>4, <2>1 DEF Same, Present, Threads
  <2>7. path'["mod"] = path["mod"]
    BY <1>1, <1>7 DEF Threads
  <2>8. ModuleInv' /\ (RootSafe => RootSafe') /\ (ConfigSafe => ConfigSafe')
    BY <1>2, <2>6, <2>7, ModuleKept DEF AdapterInv
  <2>9. GuestInv'
    BY <2>5, <2>8, GuestKept DEF AdapterInv
  <2> QED
    BY <1>5, <2>5, <2>8, <2>9 DEF AdapterInv
<1>8. CASE t = "mod"
  <2>1. \A e \in Devs : Same(e)
    BY <1>4, <1>8, AdapterAssumption
  <2>2. \A e \in Devs : DeviceInv(e)' /\ GuestStep(e)
    BY <2>1, Untouched, GuestUntouched DEF AdapterInv
  <2>3. \A e \in Devs : Present(e)' => Present(e)
    BY <2>1 DEF Same, Present
  <2>4. path'["mod"] = Tail(path["mod"]) /\ mod = "going" /\ UnloadPath(path["mod"])
        /\ Head(path["mod"]) = Top("mod") /\ Top("mod")' = Second(path["mod"])
    BY <1>1, <1>8
  <2>5. Tail(path["mod"]) # <<>> /\ UnloadPath(Tail(path["mod"])) /\ Second(path["mod"]) # "removes"
    BY <1>6, <1>8, <2>4, UnloadTail
  <2>6. \A x \in has : ModTaker(x) \in Names(Tail(path["mod"]))
    <3>1. \A x \in has : ModTaker(x) \in Names(path["mod"])
      BY <2>4 DEF AdapterInv, ModuleInv
    <3>2. path["mod"] \in Seq(UnloadNames) /\ path["mod"] # <<>>
      BY <2>4 DEF UnloadPath
    <3> QED
      BY <1>6, <1>8, <2>4, <3>1, <3>2, NamesTail
  <2>7. \A e \in Devs : Present(e)' => "driver" \in has
    BY <1>6, <1>8, <2>3 DEF AdapterInv, ModuleInv
  <2>8. ModuleInv'
    BY <1>2, <2>4, <2>5, <2>6, <2>7 DEF AdapterInv, ModuleInv
  <2>9. (RootSafe => RootSafe') /\ (ConfigSafe => ConfigSafe')
    BY <1>2, <1>6, <1>8, <2>4 DEF RootSafe, ConfigSafe
  <2>10. GuestInv'
    BY <2>2, <2>9, GuestKept DEF AdapterInv
  <2> QED
    BY <1>5, <2>2, <2>8, <2>10 DEF AdapterInv
<1> QED
  BY <1>7, <1>8

\* rc_volume_teardown takes its lock and cancels the timer.
LEMMA TeardownBeginKeeps ==
  ASSUME Admit = {}, AdapterInv, NEW t \in Threads, TeardownBegin(t)
  PROVE  AdapterInv'
<1>1. path[t] # <<>> /\ Top(t) = "t_begin" /\ Goes(t) /\ tlock = NoOne /\ tlock' = t /\ armed' = FALSE
      /\ \A d \in Devs : ~Dropping(d)
  BY DEF TeardownBegin, Top, At
<1>2. /\ kind' = kind /\ devVars' = devVars /\ modVars' = modVars /\ guest' = guest
      /\ member' = member /\ disk' = disk /\ group' = group
  BY DEF TeardownBegin
<1>3. /\ Top(t)' = "t_group" /\ ~Dropping(t)'
      /\ \A u \in Threads \ {t} : Top(u)' = Top(u) /\ (Dropping(u)' <=> Dropping(u))
  BY <1>1, TearTops DEF TearSteps
<1>4. VolumeInv /\ Devs \subseteq Threads
  BY DEF AdapterInv, Threads
<1>5. \A u \in Threads : Top(u) \notin Tear
  BY <1>1, <1>4, AdapterAssumption DEF VolumeInv, Threads
<1>6. \A u \in Threads : Top(u)' \in Tear <=> u = t
  BY <1>3, <1>5 DEF Tear
<1>7. \A u \in Threads : Top(u)' \notin Tear \ {"t_group"}
  BY <1>3, <1>5
<1>8. \A d \in Devs : ~Dropping(d)'
  BY <1>1, <1>3, <1>4
<1>9. VolumeInv'
  BY <1>1, <1>2, <1>4, <1>6, <1>7, <1>8 DEF VolumeInv
<1>10. VolumeSafe => VolumeSafe'
  BY <1>2, <1>7 DEF VolumeSafe, Tear
<1> QED
  BY <1>1, <1>2, <1>9, <1>10, TearKeeps

\* The steps between: the teardown lock stays.
LEMMA TearMiddle ==
  ASSUME AdapterInv, NEW t \in Threads, path[t] # <<>>, Goes(t),
         Top(t) \in {"t_group", "t_readers", "t_lock"},
         kind' = kind, devVars' = devVars, modVars' = modVars, guest' = guest,
         member' = member, disk' = disk, armed' = armed, tlock' = tlock,
         group' = group \/ group' = FALSE, Top(t) = "t_group" => group' = FALSE,
         Top(t) = "t_readers" => guest.op # "volattr"
  PROVE  AdapterInv'
<1>1. /\ Top(t)' = Second(path[t]) /\ TearSteps(Top(t), Second(path[t])) /\ ~Dropping(t)'
      /\ \A u \in Threads \ {t} : Top(u)' = Top(u) /\ (Dropping(u)' <=> Dropping(u))
  BY TearTops DEF Tear
<1>2. Top(t) \in Tear /\ Top(t)' \in Tear
  BY <1>1 DEF TearSteps, Tear
<1>3. VolumeInv /\ Devs \subseteq Threads
  BY DEF AdapterInv, Threads
<1>4. tlock = t /\ ~group'
  <2>1. Top(t) # "t_group" => ~group
    BY <1>2, <1>3 DEF VolumeInv
  <2> QED
    BY <1>2, <1>3, <2>1 DEF VolumeInv
<1>5. \A u \in Threads : Top(u)' \in Tear <=> Top(u) \in Tear
  BY <1>1, <1>2
<1>6. \A d \in Devs : Dropping(d)' => Dropping(d)
  BY <1>1, <1>3
<1>7. disk => \E d \in member : ~Dropping(d)'
  BY <1>3, <1>6 DEF VolumeInv
<1>8. VolumeInv'
  BY <1>3, <1>4, <1>5, <1>6, <1>7 DEF VolumeInv
<1>9. guest.op = "volattr" /\ VolumeSafe => VolumeSafe'
  <2>1. Top(t) = "t_group" => Top(t)' = "t_readers"
    BY <1>1 DEF TearSteps
  <2>2. Top(t) = "t_lock" => ~VolumeSafe
    BY DEF VolumeSafe
  <2>3. Top(t) = "t_group" /\ VolumeSafe => VolumeSafe'
    BY <1>1, <2>1 DEF VolumeSafe
  <2> QED
    BY <2>2, <2>3
<1> QED
  BY <1>2, <1>8, <1>9, TearKeeps

\* rc_volume_sysfs_unregister: no new readers.
LEMMA UngroupKeeps ==
  ASSUME AdapterInv, NEW t \in Threads, Ungroup(t)
  PROVE  AdapterInv'
BY TearMiddle DEF Ungroup, At, Top

\* And the last reader leaves.
LEMMA AwaitReadersKeeps ==
  ASSUME AdapterInv, NEW t \in Threads, AwaitReaders(t)
  PROVE  AdapterInv'
BY TearMiddle DEF AwaitReaders, At, Top, volVars

\* rc_volume_teardown takes rc_volume_lock.
LEMMA LockVolumeKeeps ==
  ASSUME AdapterInv, NEW t \in Threads, LockVolume(t)
  PROVE  AdapterInv'
BY TearMiddle DEF LockVolume, At, Top

\* The disk goes, and the registry is cleared.
LEMMA DismantleKeeps ==
  ASSUME AdapterInv, NEW t \in Threads, Dismantle(t)
  PROVE  AdapterInv'
<1>1. path[t] # <<>> /\ Top(t) = "t_free" /\ Goes(t) /\ member' = {} /\ disk' = FALSE
  BY DEF Dismantle, Top, At
<1>2. /\ kind' = kind /\ devVars' = devVars /\ modVars' = modVars /\ guest' = guest
      /\ group' = group /\ armed' = armed /\ tlock' = tlock
  BY DEF Dismantle
<1>3. /\ Top(t)' = "t_end" /\ ~Dropping(t)'
      /\ \A u \in Threads \ {t} : Top(u)' = Top(u) /\ (Dropping(u)' <=> Dropping(u))
  BY <1>1, TearTops DEF TearSteps, Tear
<1>4. VolumeInv /\ Devs \subseteq Threads
  BY DEF AdapterInv, Threads
<1>5. Top(t) \in Tear \ {"t_group"} /\ Top(t)' \in Tear
  BY <1>1, <1>3 DEF Tear
<1>6. tlock = t /\ ~group /\ ~armed
  <2>1. tlock = t /\ ~group
    BY <1>4, <1>5 DEF VolumeInv
  <2>2. tlock # NoOne
    BY <2>1, AdapterAssumption DEF Threads
  <2> QED
    BY <1>4, <2>1, <2>2 DEF VolumeInv
<1>7. \A u \in Threads : Top(u)' \in Tear <=> Top(u) \in Tear
  BY <1>3, <1>5
<1>8. \A d \in Devs : ~Dropping(d)'
  <2>1. \A d \in Devs : ~Dropping(d)
    BY <1>4, <1>6, AdapterAssumption DEF VolumeInv, Threads
  <2> QED
    BY <1>3, <1>4, <2>1
<1>9. VolumeInv'
  BY <1>1, <1>2, <1>4, <1>6, <1>7, <1>8 DEF VolumeInv
<1>10. ~VolumeSafe
  BY <1>1 DEF VolumeSafe
<1> QED
  BY <1>1, <1>2, <1>5, <1>9, <1>10, TearKeeps

\* Both locks are returned.
LEMMA TeardownEndKeeps ==
  ASSUME AdapterInv, NEW t \in Threads, TeardownEnd(t)
  PROVE  AdapterInv'
<1>1. path[t] # <<>> /\ Top(t) = "t_end" /\ Goes(t) /\ tlock' = NoOne
  BY DEF TeardownEnd, Top, At
<1>2. /\ kind' = kind /\ devVars' = devVars /\ modVars' = modVars /\ guest' = guest
      /\ group' = group /\ armed' = armed /\ member' = member /\ disk' = disk
  BY DEF TeardownEnd
<1>3. /\ Top(t)' \notin Tear \cup {"drop"} /\ ~Dropping(t)'
      /\ \A u \in Threads \ {t} : Top(u)' = Top(u) /\ (Dropping(u)' <=> Dropping(u))
  BY <1>1, TearTops DEF TearSteps, Tear, Starters
<1>4. VolumeInv /\ Devs \subseteq Threads
  BY DEF AdapterInv, Threads
<1>5. Top(t) \in Tear \ {"t_group"}
  BY <1>1 DEF Tear
<1>6. tlock = t /\ ~group /\ t # NoOne
  BY <1>4, <1>5, AdapterAssumption DEF VolumeInv, Threads
<1>7. \A u \in Threads : Top(u)' \notin Tear /\ u # NoOne
  BY <1>3, <1>4, <1>6, AdapterAssumption DEF VolumeInv, Threads
<1>8. \A d \in Devs : ~Dropping(d) /\ ~Dropping(d)'
  <2>1. \A d \in Devs : ~Dropping(d)
    BY <1>4, <1>6 DEF VolumeInv
  <2> QED
    BY <1>3, <1>4, <2>1
<1>9. VolumeInv'
  BY <1>1, <1>2, <1>4, <1>6, <1>7, <1>8 DEF VolumeInv
<1>10. ~VolumeSafe
  BY <1>1 DEF VolumeSafe
<1> QED
  BY <1>1, <1>2, <1>5, <1>9, <1>10, TearKeeps

\* rc_volume_assemble_fn.
LEMMA TimerKeeps ==
  ASSUME AdapterInv, Timer
  PROVE  AdapterInv'
<1>1. /\ armed /\ armed' = FALSE /\ disk' = (disk \/ member # {})
      /\ group' = (group \/ (disk' /\ ~disk))
      /\ kind' = kind /\ path' = path /\ member' = member /\ tlock' = tlock
      /\ devVars' = devVars /\ modVars' = modVars /\ guest' = guest
  BY DEF Timer
<1>2. /\ bound' = bound /\ held' = held /\ nvec' = nvec /\ ioq' = ioq /\ slots' = slots
      /\ mod' = mod /\ has' = has
  BY <1>1 DEF devVars, modVars
<1>3. VolumeInv /\ member # {} /\ tlock = NoOne /\ disk'
  BY <1>1 DEF AdapterInv, VolumeInv
<1>4. \A t \in Threads : Top(t)' = Top(t) /\ (Dropping(t)' <=> Dropping(t)) /\ Top(t) \notin Tear
  BY <1>1, <1>3, AdapterAssumption DEF Top, Dropping, At, VolumeInv, Threads
<1>5. \E d \in member : ~Dropping(d)
  <2>1. CASE disk
    BY <1>3, <2>1 DEF VolumeInv
  <2>2. CASE ~disk
    BY <1>3, <2>2 DEF VolumeInv
  <2> QED
    BY <2>1, <2>2
<1>6. Devs \subseteq Threads /\ member \subseteq Devs
  BY <1>3 DEF Threads, VolumeInv
<1>7. VolumeInv'
  <2>1. \E d \in member : ~Dropping(d)'
    BY <1>4, <1>5, <1>6
  <2>2. \A d \in Devs : Dropping(d)' => disk'
    BY <1>3
  <2>3. \A t \in Threads : Top(t)' \notin Tear /\ t # NoOne
    BY <1>4, AdapterAssumption DEF Threads
  <2> QED
    BY <1>1, <1>3, <1>6, <2>1, <2>3 DEF VolumeInv
<1>8. VolumeSafe => VolumeSafe'
  BY <1>3, <1>4 DEF VolumeSafe
<1>9. \A e \in Devs : Same(e) /\ DeviceInv(e)' /\ GuestStep(e)
  <2>1. \A e \in Devs : Same(e)
    BY <1>1, <1>2, SlotsStay DEF Same
  <2> QED
    BY <2>1, Untouched, GuestUntouched DEF AdapterInv
<1>10. \A e \in Devs : Present(e)' => Present(e)
  BY <1>1, <1>2 DEF Present
<1>11. ModuleInv' /\ (RootSafe => RootSafe') /\ (ConfigSafe => ConfigSafe')
  BY <1>1, <1>2, <1>10, ModuleKept DEF AdapterInv
<1>12. GuestInv'
  BY <1>1, <1>8, <1>9, <1>11, GuestKept DEF AdapterInv
<1>13. Shapes'
  BY <1>1, <1>2 DEF AdapterInv, Shapes
<1> QED
  BY <1>7, <1>9, <1>11, <1>12, <1>13 DEF AdapterInv

-----------------------------------------------------------------------------
(* A probe.                                                                 *)

\* What a probe has obtained is of Items, and grows.
LEMMA GotItems ==
  ASSUME NEW d, NEW s
  PROVE  Got(d, s) \subseteq Items \ {"unhooked", "debugfs"}
BY DEF Got, Common, Whole, Items

\* A step of a probe obtains what the next one finds.
ProbingStep(d) ==
  LET h == Top(d) IN
  /\ path[d] # <<>> /\ h \in ProbeNames /\ path'[d] = Tail(path[d]) /\ kind' = kind
  /\ bound' = IF h = "debugfs" THEN bound \cup {d} ELSE bound
  /\ h # "debugfs" => held'[d] = Got(d, Succ(d, h))
  /\ h = "debugfs" => held'[d] \ {"debugfs"} = Whole(d) \cup {"sysfs"}
  /\ nvec'[d] \in {0} \cup Vectors /\ ("vectors" \in held'[d] => nvec'[d] \in Vectors)
  /\ ioq[d] \subseteq ioq'[d] /\ ioq'[d] \in SUBSET (Nat \ {0})
  /\ ioq'[d] # {} <=> ioq[d] # {} \/ h = "queues"
  /\ nvec'[d] > 1 => \A q \in ioq'[d] : q < nvec'[d]
  /\ d \in member' => d \in member \/ h = "register"
  /\ InSlot(d)' => InSlot(d) \/ h = "attach"

\* Only a controller that is NVMe is brought up.
LEMMA ProbeKind ==
  ASSUME NEW d, DeviceInv(d), path[d] # <<>>, Top(d) \in NvmeNames
  PROVE  kind[d] = "nvme"
<1>1. Top(d) \in ProbeNames /\ Head(path[d]) = Top(d)
  BY DEF NvmeNames, ProbeNames, Top
<1> QED
  BY <1>1, ProbeTail DEF DeviceInv, ProbeInv

\* Nobody loses anything by it.
LEMMA ProbeGuests ==
  ASSUME NEW d, DeviceInv(d), ProbingStep(d)
  PROVE  GuestStep(d)
<1> DEFINE h == Top(d)
<1>1. path[d] # <<>> /\ h \in ProbeNames /\ held[d] = Got(d, h) /\ ioq[d] \subseteq ioq'[d]
      /\ (h = "debugfs" => held'[d] \ {"debugfs"} = Whole(d) \cup {"sysfs"})
      /\ (h # "debugfs" => held'[d] = Got(d, Succ(d, h)))
  BY DEF ProbingStep, DeviceInv, ProbeInv
<1>2. held[d] \subseteq held'[d]
  <2>1. CASE h = "debugfs"
    BY <1>1, <2>1 DEF Got
  <2>2. CASE h # "debugfs"
    <3>1. CASE h \in {"alloc", "enable", "bars", "vectors", "irq"}
      BY <1>1, <2>2, <3>1 DEF Got, Succ, Whole, Common
    <3>2. CASE h \in {"admin", "on", "queues", "register", "attach", "sysfs"}
      BY <1>1, <2>2, <3>2, ProbeKind DEF Got, Succ, Whole, Common, NvmeNames
    <3> QED
      BY <1>1, <2>2, <3>1, <3>2 DEF ProbeNames
  <2> QED
    BY <2>1, <2>2
<1>3. "unhooked" \notin held'[d]
  <2>1. CASE h = "debugfs"
    BY <1>1, <2>1 DEF Whole, Common
  <2>2. CASE h # "debugfs"
    BY <1>1, <2>2, GotItems
  <2> QED
    BY <2>1, <2>2
<1>4. h \notin Waits
  BY <1>1 DEF ProbeNames, Waits
<1> QED
  BY <1>1, <1>2, <1>3, <1>4 DEF GuestStep, DumpSafe, AttrSafe, LineSafe, QueueSafe, Waits

\* A device that is probed keeps its part of the invariant by such a step.
LEMMA ProbeGoes ==
  ASSUME NEW d, DeviceInv(d), ProbingStep(d)
  PROVE  DeviceInv(d)' /\ GuestStep(d) /\ Top(d)' \in ProbeNames \cup {"nothing"}
<1> DEFINE h == Top(d)
           q == Tail(path[d])
<1>1. /\ path[d] # <<>> /\ Head(path[d]) = h /\ h \in ProbeNames /\ path'[d] = q /\ kind' = kind
      /\ bound' = IF h = "debugfs" THEN bound \cup {d} ELSE bound
  BY DEF ProbingStep, Top
<1>2. /\ ProbePath(d, path[d]) /\ d \notin bound /\ held[d] = Got(d, h)
      /\ ioq[d] # {} <=> kind[d] = "nvme" /\ h \in {"register", "attach", "sysfs", "debugfs"}
      /\ d \in member => kind[d] = "nvme" /\ h \in {"attach", "sysfs", "debugfs"}
      /\ InSlot(d) => h \in {"sysfs", "debugfs"}
  BY <1>1 DEF DeviceInv, ProbeInv
<1>3. /\ kind[d] = "nvme" \/ h \notin NvmeNames
      /\ h = "debugfs" <=> q = <<>>
      /\ q # <<>> => ProbePath(d, q) /\ Head(q) = Succ(d, h) /\ Head(q) \in ProbeNames
  <2>1. q # <<>> /\ ProbePath(d, q) => Head(q) \in ProbeNames
    BY ProbeTail
  <2> QED
    BY <1>1, <1>2, <2>1, ProbeTail
<1>4. /\ h # "debugfs" => held'[d] = Got(d, Succ(d, h))
      /\ h = "debugfs" => held'[d] \ {"debugfs"} = Whole(d) \cup {"sysfs"}
      /\ nvec'[d] \in {0} \cup Vectors /\ ("vectors" \in held'[d] => nvec'[d] \in Vectors)
      /\ ioq[d] \subseteq ioq'[d] /\ ioq'[d] \in SUBSET (Nat \ {0})
      /\ ioq'[d] # {} <=> ioq[d] # {} \/ h = "queues"
      /\ nvec'[d] > 1 => \A k \in ioq'[d] : k < nvec'[d]
      /\ d \in member' => d \in member \/ h = "register"
      /\ InSlot(d)' => InSlot(d) \/ h = "attach"
  BY DEF ProbingStep
<1>5. "queues" \in NvmeNames /\ "register" \in NvmeNames
  BY DEF NvmeNames
<1>6. d \in member' => kind[d] = "nvme" /\ h \in {"register", "attach", "sysfs", "debugfs"}
  BY <1>2, <1>3, <1>4, <1>5
<1>7. ioq'[d] # {} <=> kind[d] = "nvme" /\ h \in {"queues", "register", "attach", "sysfs", "debugfs"}
  BY <1>2, <1>3, <1>4, <1>5
<1>8. OwnInv(d)'
  <2>1. d \in member' => {"adapter", "bars", "admin"} \subseteq held'[d] /\ ioq'[d] # {}
    <3>1. CASE h = "debugfs"
      BY <1>4, <1>6, <1>7, <3>1 DEF Whole, Common
    <3>2. CASE h # "debugfs"
      BY <1>4, <1>6, <1>7, <3>2 DEF Got, Succ, Whole, Common
    <3> QED
      BY <3>1, <3>2
  <2>2. ("on" \in held'[d] => "admin" \in held'[d]) /\ ("irq" \in held'[d] => "vectors" \in held'[d])
    <3>1. CASE h = "debugfs"
      BY <1>4, <3>1 DEF Whole, Common
    <3>2. CASE h # "debugfs"
      <4>1. \A s : ("on" \in Got(d, s) => "admin" \in Got(d, s)) /\ ("irq" \in Got(d, s) => "vectors" \in Got(d, s))
        BY DEF Got, Whole, Common
      <4> QED
        BY <1>4, <3>2, <4>1
    <3> QED
      BY <3>1, <3>2
  <2> QED
    BY <1>4, <2>1, <2>2 DEF OwnInv
<1>9. CASE q # <<>>
  <2>1. Top(d)' = Succ(d, h) /\ Succ(d, h) \in ProbeNames /\ h # "debugfs"
    BY <1>1, <1>3, <1>9 DEF Top
  <2>2. ProbePath(d, path[d])' /\ Got(d, Top(d))' = Got(d, Succ(d, h))
    <3>1. ProbePath(d, q)
      BY <1>3, <1>9
    <3>2. ProbePath(d, path[d])'
      BY <1>1, <3>1 DEF ProbePath, Succ
    <3>3. Got(d, Top(d))' = Got(d, Succ(d, h))
      BY <1>1, <2>1 DEF Got, Whole
    <3> QED
      BY <3>2, <3>3
  <2>3. ioq'[d] # {} <=> kind[d] = "nvme" /\ Succ(d, h) \in {"register", "attach", "sysfs", "debugfs"}
    <3>1. CASE kind[d] # "nvme"
      BY <1>7, <3>1
    <3>2. CASE kind[d] = "nvme"
      <4>1. h \in {"alloc", "enable", "bars", "vectors", "irq", "admin", "on", "queues", "register",
                   "attach", "sysfs"}
        BY <1>1, <2>1 DEF ProbeNames
      <4>2. Succ(d, h) \in {"register", "attach", "sysfs", "debugfs"}
            <=> h \in {"queues", "register", "attach", "sysfs"}
        BY <3>2, <4>1 DEF Succ
      <4> QED
        BY <1>7, <2>1, <3>2, <4>2
    <3> QED
      BY <3>1, <3>2
  <2>4. /\ d \in member' => kind[d] = "nvme" /\ Succ(d, h) \in {"attach", "sysfs", "debugfs"}
        /\ InSlot(d)' => Succ(d, h) \in {"sysfs", "debugfs"}
    BY <1>2, <1>4, <1>6, <2>1 DEF Succ
  <2>5. ProbeInv(d)'
    BY <1>1, <1>2, <1>4, <2>1, <2>2, <2>3, <2>4 DEF ProbeInv
  <2>6. LeaveInv(d)' /\ RestInv(d)'
    BY <1>1, <1>9, <2>1 DEF LeaveInv, RestInv
  <2> QED
    BY <1>8, <2>1, <2>5, <2>6, ProbeGuests DEF DeviceInv
<1>10. CASE q = <<>>
  <2>1. Top(d)' = "nothing" /\ h = "debugfs" /\ "nothing" \notin ProbeNames
    BY <1>1, <1>3, <1>10 DEF Top, ProbeNames
  <2>2. RestInv(d)'
    BY <1>1, <1>4, <1>6, <1>7, <2>1 DEF RestInv, Whole
  <2>3. LeaveInv(d)' /\ ProbeInv(d)'
    BY <1>1, <1>10, <2>1 DEF LeaveInv, ProbeInv
  <2> QED
    BY <1>8, <2>1, <2>2, <2>3, ProbeGuests DEF DeviceInv
<1> QED
  BY <1>9, <1>10

\* The invariant is kept by a step of a probe outside the volume.
LEMMA ProbeQuietly ==
  ASSUME AdapterInv, NEW d \in Devs, Shapes', ProbingStep(d),
         guest' = guest, modVars' = modVars,
         disk' = disk, group' = group, armed' = armed, member' = member, tlock' = tlock,
         \A t \in Threads \ {d} : path'[t] = path[t],
         \A e \in Devs \ {d} : Same(e)
  PROVE  AdapterInv'
<1>1. DeviceInv(d)' /\ GuestStep(d) /\ Top(d)' \in ProbeNames \cup {"nothing"}
  BY ProbeGoes DEF AdapterInv
<1>2. Top(d) \in ProbeNames /\ Present(d) /\ kind' = kind
  BY DEF ProbingStep, Present
<1>3. Calm(d)
  BY <1>1, <1>2 DEF Calm, Tear, ProbeNames
<1> QED
  BY <1>1, <1>2, <1>3, QuietStep

\* What the probe of a device stands at.
LEMMA ProbeStands ==
  ASSUME AdapterInv, NEW d \in Devs, path[d] # <<>>, Top(d) \in ProbeNames
  PROVE  /\ held[d] = Got(d, Top(d)) /\ d \notin bound
         /\ ioq[d] # {} <=> kind[d] = "nvme" /\ Top(d) \in {"register", "attach", "sysfs", "debugfs"}
         /\ d \in member => kind[d] = "nvme" /\ Top(d) \in {"attach", "sysfs", "debugfs"}
         /\ InSlot(d) => Top(d) \in {"sysfs", "debugfs"}
         /\ nvec[d] \in {0} \cup Vectors /\ ("vectors" \in held[d] => nvec[d] \in Vectors)
         /\ ioq[d] \in SUBSET (Nat \ {0}) /\ (nvec[d] > 1 => \A q \in ioq[d] : q < nvec[d])
         /\ Top(d) \in NvmeNames => kind[d] = "nvme"
<1>1. DeviceInv(d)
  BY DEF AdapterInv
<1> QED
  BY <1>1, ProbeKind DEF DeviceInv, ProbeInv, OwnInv

\* What a probe obtains.
LEMMA ProbeStepKeeps ==
  ASSUME AdapterInv, NEW d \in Devs, ProbeStep(d)
  PROVE  AdapterInv'
<1> DEFINE h == Top(d)
           x == Gives[h]
<1>1. path[d] # <<>> /\ h \in DOMAIN Gives /\ Goes(d) /\ d \in Threads /\ held' = [held EXCEPT ![d] = @ \cup {x}]
  BY DEF ProbeStep, Top, Threads, Obtains
<1>2. h \in {"alloc", "enable", "bars", "irq", "admin", "on", "sysfs"}
  BY <1>1 DEF Gives
<1>3. /\ kind' = kind /\ bound' = bound /\ nvec' = nvec /\ ioq' = ioq /\ slots' = slots
      /\ disk' = disk /\ group' = group /\ armed' = armed /\ member' = member /\ tlock' = tlock
      /\ modVars' = modVars /\ guest' = guest
  BY DEF ProbeStep, volVars, modVars
<1>4. h \in ProbeNames
  BY <1>2 DEF ProbeNames
<1>5. /\ held[d] = Got(d, h) /\ nvec[d] \in {0} \cup Vectors
      /\ ("vectors" \in held[d] => nvec[d] \in Vectors)
      /\ ioq[d] \in SUBSET (Nat \ {0}) /\ (nvec[d] > 1 => \A q \in ioq[d] : q < nvec[d])
      /\ h \in NvmeNames => kind[d] = "nvme"
  BY <1>1, <1>4, ProbeStands
<1>6. /\ path' \in [Threads -> Seq(AllNames)] /\ path'[d] = Tail(path[d])
      /\ \A u \in Threads \ {d} : path'[u] = path[u]
  BY <1>1, PathsGo DEF AdapterInv
<1>7. Got(d, h) \cup {x} = Got(d, Succ(d, h)) /\ x \in Items \ {"vectors"}
  <2>1. /\ Gives["alloc"] = "adapter" /\ Gives["enable"] = "enabled" /\ Gives["bars"] = "bars"
        /\ Gives["irq"] = "irq" /\ Gives["admin"] = "admin" /\ Gives["on"] = "on"
        /\ Gives["sysfs"] = "sysfs"
    BY DEF Gives
  <2>2. CASE h \in {"alloc", "enable", "bars", "sysfs"}
    BY <2>1, <2>2 DEF Got, Succ, Items
  <2>3. CASE h = "irq"
    <3>1. CASE kind[d] = "nvme"
      BY <2>1, <2>3, <3>1 DEF Got, Succ, Common, Items
    <3>2. CASE kind[d] # "nvme"
      BY <2>1, <2>3, <3>2 DEF Got, Succ, Whole, Common, Items
    <3> QED
      BY <3>1, <3>2
  <2>4. CASE h \in {"admin", "on"}
    BY <2>1, <2>4 DEF Got, Succ, Common, Items
  <2> QED
    BY <1>2, <2>2, <2>3, <2>4
<1> HIDE DEF x
<1>8. /\ held'[d] = Got(d, Succ(d, h)) /\ held' \in [Devs -> SUBSET Items]
      /\ \A e \in Devs \ {d} : held'[e] = held[e]
      /\ "vectors" \in held'[d] => "vectors" \in held[d]
  <2>1. held \in [Devs -> SUBSET Items]
    BY DEF AdapterInv, Shapes
  <2>2. held'[d] = held[d] \cup {x} /\ \A e \in Devs \ {d} : held'[e] = held[e]
    BY <1>1, <2>1
  <2>3. held' \in [Devs -> SUBSET Items]
    BY <1>1, <1>7, <2>1
  <2> QED
    BY <1>5, <1>7, <2>2, <2>3
<1>9. Shapes'
  BY <1>3, <1>6, <1>8 DEF AdapterInv, Shapes
<1>10. \A e \in Devs \ {d} : Same(e)
  BY <1>3, <1>6, <1>8, SlotsStay DEF Same, Threads
<1>11. ProbingStep(d)
  <2>1. h # "debugfs" /\ h # "queues"
    BY <1>2
  <2> QED
    BY <1>1, <1>3, <1>4, <1>5, <1>6, <1>8, <2>1, SlotsStay DEF ProbingStep
<1> QED
  BY <1>3, <1>6, <1>9, <1>10, <1>11, ProbeQuietly

\* rc_bottom_setup_interrupts.
LEMMA SetupInterruptsKeeps ==
  ASSUME AdapterInv, NEW d \in Devs, SetupInterrupts(d)
  PROVE  AdapterInv'
<1> DEFINE h == Top(d)
<1>1. path[d] # <<>> /\ h = "vectors" /\ Goes(d) /\ d \in Threads /\ held' = [held EXCEPT ![d] = @ \cup {"vectors"}]
  BY DEF SetupInterrupts, At, Top, Threads, Obtains
<1>2. PICK n \in Vectors : nvec' = [nvec EXCEPT ![d] = n]
  BY DEF SetupInterrupts
<1>3. /\ kind' = kind /\ bound' = bound /\ ioq' = ioq /\ slots' = slots
      /\ disk' = disk /\ group' = group /\ armed' = armed /\ member' = member /\ tlock' = tlock
      /\ modVars' = modVars /\ guest' = guest
  BY DEF SetupInterrupts, volVars, modVars
<1>4. h \in ProbeNames
  BY <1>1 DEF ProbeNames
<1>5. held[d] = Got(d, h) /\ ioq[d] = {}
  BY <1>1, <1>4, ProbeStands
<1>6. /\ path' \in [Threads -> Seq(AllNames)] /\ path'[d] = Tail(path[d])
      /\ \A u \in Threads \ {d} : path'[u] = path[u]
  BY <1>1, PathsGo DEF AdapterInv
<1>7. Got(d, h) \cup {"vectors"} = Got(d, Succ(d, h)) /\ "vectors" \in Items
  BY <1>1 DEF Got, Succ, Items
<1>8. /\ held'[d] = Got(d, Succ(d, h)) /\ held' \in [Devs -> SUBSET Items]
      /\ \A e \in Devs \ {d} : held'[e] = held[e]
  BY <1>1, <1>5, <1>7 DEF AdapterInv, Shapes
<1>9. nvec'[d] = n /\ nvec' \in [Devs -> Nat] /\ \A e \in Devs \ {d} : nvec'[e] = nvec[e]
  BY <1>2, AdapterAssumption DEF AdapterInv, Shapes
<1>10. Shapes'
  BY <1>3, <1>6, <1>8, <1>9 DEF AdapterInv, Shapes
<1>11. \A e \in Devs \ {d} : Same(e)
  BY <1>3, <1>6, <1>8, <1>9, SlotsStay DEF Same, Threads
<1>12. ProbingStep(d)
  BY <1>1, <1>3, <1>4, <1>5, <1>6, <1>8, <1>9, SlotsStay DEF ProbingStep
<1> QED
  BY <1>3, <1>6, <1>10, <1>11, <1>12, ProbeQuietly

\* The least of four.
LEMMA LeastOfFour ==
  ASSUME NEW a \in Int, NEW b \in Int, NEW c \in Int, NEW e \in Int
  PROVE  LET n == CHOOSE m \in {a, b, c, e} : \A k \in {a, b, c, e} : m <= k IN
         n \in {a, b, c, e} /\ \A k \in {a, b, c, e} : n <= k
<1>1. \E m \in {a, b, c, e} : \A k \in {a, b, c, e} : m <= k
  <2>1. CASE a <= b /\ a <= c /\ a <= e
    BY <2>1
  <2>2. CASE b <= a /\ b <= c /\ b <= e
    BY <2>2
  <2>3. CASE c <= a /\ c <= b /\ c <= e
    BY <2>3
  <2>4. CASE e <= a /\ e <= b /\ e <= c
    BY <2>4
  <2> QED
    BY <2>1, <2>2, <2>3, <2>4
<1> QED
  BY <1>1

\* Every queue has a vector of its own, or there is one on the admin vector.
LEMMA QueuesFit ==
  ASSUME NEW d, NEW g \in 1 .. Target, nvec[d] \in Nat \ {0}
  PROVE  /\ QueueIds(d, g) \in SUBSET (Nat \ {0}) /\ QueueIds(d, g) # {}
         /\ nvec[d] > 1 => \A q \in QueueIds(d, g) : q < nvec[d]
<1> DEFINE n == Usable(d, g)
<1>1. n \in {g, nvec[d] - 1, Cpus, Target} /\ \A k \in {g, nvec[d] - 1, Cpus, Target} : n <= k
  <2>1. g \in Int /\ nvec[d] - 1 \in Int /\ Cpus \in Int /\ Target \in Int
    BY AdapterAssumption
  <2> QED
    BY <2>1, LeastOfFour DEF Usable
<1> HIDE DEF n
<1>2. n \in Nat /\ n <= nvec[d] - 1 /\ (nvec[d] > 1 => n # 0)
  BY <1>1, AdapterAssumption
<1>3. CASE n = 0
  BY <1>2, <1>3 DEF QueueIds, n
<1>4. CASE n # 0
  <2>1. QueueIds(d, g) = 1 .. n
    BY <1>4 DEF QueueIds, n
  <2>2. 1 .. n # {} /\ 1 .. n \in SUBSET (Nat \ {0}) /\ \A q \in 1 .. n : q < nvec[d]
    <3>1. 1 \in 1 .. n
      BY <1>2, <1>4
    <3> QED
      BY <1>2, <3>1
  <2> QED
    BY <2>1, <2>2
<1> QED
  BY <1>3, <1>4

\* rc_nvme_create_io_queues.
LEMMA CreateIoQueuesKeeps ==
  ASSUME AdapterInv, NEW d \in Devs, CreateIoQueues(d)
  PROVE  AdapterInv'
<1> DEFINE h == Top(d)
<1>1. path[d] # <<>> /\ h = "queues" /\ Goes(d) /\ d \in Threads
  BY DEF CreateIoQueues, At, Top, Threads
<1>2. PICK g \in 1 .. Target : ioq' = [ioq EXCEPT ![d] = QueueIds(d, g)]
  BY DEF CreateIoQueues
<1>3. /\ kind' = kind /\ bound' = bound /\ held' = held /\ nvec' = nvec /\ slots' = slots
      /\ disk' = disk /\ group' = group /\ armed' = armed /\ member' = member /\ tlock' = tlock
      /\ modVars' = modVars /\ guest' = guest
  BY DEF CreateIoQueues, volVars, modVars
<1>4. h \in ProbeNames
  BY <1>1 DEF ProbeNames
<1>5. /\ held[d] = Got(d, h) /\ ioq[d] = {} /\ nvec[d] \in {0} \cup Vectors
      /\ "vectors" \in held[d] => nvec[d] \in Vectors
  BY <1>1, <1>4, ProbeStands
<1>6. nvec[d] \in Nat \ {0} /\ nvec[d] \in Vectors
  <2>1. "vectors" \in Got(d, h)
    BY <1>1 DEF Got, Common
  <2> QED
    BY <1>5, <2>1, AdapterAssumption
<1>7. /\ QueueIds(d, g) \in SUBSET (Nat \ {0}) /\ QueueIds(d, g) # {}
      /\ nvec[d] > 1 => \A q \in QueueIds(d, g) : q < nvec[d]
  BY <1>6, QueuesFit
<1>8. /\ ioq'[d] = QueueIds(d, g) /\ ioq' \in [Devs -> SUBSET Nat]
      /\ \A e \in Devs \ {d} : ioq'[e] = ioq[e]
  BY <1>2, <1>7 DEF AdapterInv, Shapes
<1>9. /\ path' \in [Threads -> Seq(AllNames)] /\ path'[d] = Tail(path[d])
      /\ \A u \in Threads \ {d} : path'[u] = path[u]
  BY <1>1, PathsGo DEF AdapterInv
<1>10. Shapes'
  BY <1>3, <1>8, <1>9 DEF AdapterInv, Shapes
<1>11. \A e \in Devs \ {d} : Same(e)
  BY <1>3, <1>8, <1>9, SlotsStay DEF Same, Threads
<1>12. Got(d, h) = Got(d, Succ(d, h))
  BY <1>1 DEF Got, Succ
<1>13. ProbingStep(d)
  BY <1>1, <1>3, <1>4, <1>5, <1>6, <1>7, <1>8, <1>9, <1>12, SlotsStay DEF ProbingStep
<1> QED
  BY <1>3, <1>9, <1>10, <1>11, <1>13, ProbeQuietly

\* rc_debugfs_create_adapter.
LEMMA CreateDebugfsKeeps ==
  ASSUME AdapterInv, NEW d \in Devs, CreateDebugfs(d)
  PROVE  AdapterInv'
<1> DEFINE h == Top(d)
<1>1. path[d] # <<>> /\ h = "debugfs" /\ Goes(d) /\ d \in Threads /\ bound' = bound \cup {d}
      /\ (held' = held \/ held' = [held EXCEPT ![d] = @ \cup {"debugfs"}])
  BY DEF CreateDebugfs, At, Top, Threads, Obtains
<1>3. /\ kind' = kind /\ ioq' = ioq /\ nvec' = nvec /\ slots' = slots
      /\ disk' = disk /\ group' = group /\ armed' = armed /\ member' = member /\ tlock' = tlock
      /\ modVars' = modVars /\ guest' = guest
  BY DEF CreateDebugfs, volVars, modVars
<1>4. h \in ProbeNames
  BY <1>1 DEF ProbeNames
<1>5. /\ held[d] = Got(d, h) /\ nvec[d] \in {0} \cup Vectors
      /\ ("vectors" \in held[d] => nvec[d] \in Vectors)
      /\ ioq[d] \in SUBSET (Nat \ {0}) /\ (nvec[d] > 1 => \A q \in ioq[d] : q < nvec[d])
  BY <1>1, <1>4, ProbeStands
<1>6. /\ path' \in [Threads -> Seq(AllNames)] /\ path'[d] = Tail(path[d])
      /\ \A u \in Threads \ {d} : path'[u] = path[u]
  BY <1>1, PathsGo DEF AdapterInv
<1>7. Got(d, h) = Whole(d) \cup {"sysfs"} /\ "debugfs" \in Items /\ "debugfs" \notin Whole(d) \cup {"sysfs"}
  BY <1>1 DEF Got, Items, Whole, Common
<1>8. /\ (held'[d] = held[d] \/ held'[d] = held[d] \cup {"debugfs"}) /\ held' \in [Devs -> SUBSET Items]
      /\ \A e \in Devs \ {d} : held'[e] = held[e]
  BY <1>1, <1>7 DEF AdapterInv, Shapes
<1>9. held'[d] \ {"debugfs"} = Whole(d) \cup {"sysfs"} /\ ("vectors" \in held'[d] => "vectors" \in held[d])
  BY <1>5, <1>7, <1>8
<1>10. Shapes'
  BY <1>1, <1>3, <1>6, <1>8 DEF AdapterInv, Shapes
<1>11. \A e \in Devs \ {d} : Same(e)
  BY <1>1, <1>3, <1>6, <1>8, SlotsStay DEF Same, Threads
<1>12. ProbingStep(d)
  BY <1>1, <1>3, <1>4, <1>5, <1>6, <1>8, <1>9, SlotsStay DEF ProbingStep
<1> QED
  BY <1>3, <1>6, <1>10, <1>11, <1>12, ProbeQuietly

\* A probe that fails leaves everything it has obtained to the steps it goes on to.
LEMMA FailGoes ==
  ASSUME AdapterInv, NEW d \in Devs, path[d] # <<>>, Top(d) \in Fallible \cup {"attach"},
         Jumps(d, Unwind(d, Top(d))),
         kind' = kind, bound' = bound, held' = held, nvec' = nvec, ioq' = ioq, slots' = slots,
         disk' = disk, group' = group, armed' = armed, member' = member, tlock' = tlock,
         modVars' = modVars, guest' = guest
  PROVE  AdapterInv'
<1> DEFINE h == Top(d)
           p == Unwind(d, h)
<1>1. h \in ProbeNames
  BY DEF Fallible, ProbeNames
<1>2. /\ held[d] = Got(d, h) /\ d \notin bound
      /\ ioq[d] # {} <=> kind[d] = "nvme" /\ h \in {"register", "attach", "sysfs", "debugfs"}
      /\ d \in member => kind[d] = "nvme" /\ h \in {"attach", "sysfs", "debugfs"}
      /\ InSlot(d) => h \in {"sysfs", "debugfs"}
      /\ h \in NvmeNames => kind[d] = "nvme"
  BY <1>1, ProbeStands
<1>3. h # "alloc" => Unwound(d, h, p)
  BY <1>2, UnwindTidy
<1>4. h = "alloc" => p = <<>>
  BY DEF Unwind
<1>5. p \in Seq(AllNames)
  <2>1. LeaveNames \subseteq AllNames
    BY DEF AllNames
  <2>2. p \in Seq(LeaveNames)
    <3>1. CASE h = "alloc"
      <4>1. <<>> \in Seq(LeaveNames)
        OBVIOUS
      <4> HIDE DEF p
      <4> QED
        BY <1>4, <3>1, <4>1
    <3>2. CASE h # "alloc"
      BY <1>3, <3>2 DEF Unwound, Tidy
    <3> QED
      BY <3>1, <3>2
  <2> HIDE DEF p
  <2> QED
    BY <2>1, <2>2
<1> HIDE DEF p
<1>6. path' = [path EXCEPT ![d] = p] /\ path \in [Threads -> Seq(AllNames)] /\ d \in Threads
  BY DEF Jumps, p, AdapterInv, Shapes, Threads
<1>7. /\ path' \in [Threads -> Seq(AllNames)] /\ path'[d] = p
      /\ \A t \in Threads \ {d} : path'[t] = path[t]
  BY <1>5, <1>6
<1>8. Shapes'
  BY <1>7 DEF AdapterInv, Shapes
<1>9. \A e \in Devs \ {d} : Same(e)
  BY <1>7, SlotsStay DEF Same, Threads
<1>10. OwnInv(d)'
  BY DEF AdapterInv, DeviceInv, OwnInv
<1>11. GuestStep(d)
  BY <1>1, HeldStays DEF Waits, ProbeNames
<1>12. Present(d)
  BY DEF Present
<1>13. InSlot(d)' = InSlot(d)
  BY SlotsStay
<1>14. CASE h = "alloc"
  <2>1. p = <<>> /\ Top(d)' = "nothing"
    BY <1>4, <1>7, <1>14 DEF Top
  <2>2. held[d] = {} /\ ioq[d] = {} /\ d \notin member /\ ~InSlot(d)
    BY <1>2, <1>14 DEF Got
  <2>3. RestInv(d)'
    BY <1>2, <1>13, <2>2 DEF RestInv
  <2>4. LeaveInv(d)' /\ ProbeInv(d)'
    BY <1>7, <2>1 DEF LeaveInv, ProbeInv, ProbeNames
  <2>5. Calm(d)
    BY <1>14, <2>1 DEF Calm, Tear
  <2> QED
    BY <1>7, <1>8, <1>9, <1>10, <1>11, <1>12, <2>3, <2>4, <2>5, QuietStep DEF DeviceInv
<1>15. CASE h # "alloc"
  <2>1. /\ Tidy(p) /\ p # <<>>
        /\ Head(p) \in {"free", "disable", "unmap", "release", "detach", "unadmin", "q_irq", "leave", "unirq"}
        /\ \A x \in held[d] : Taker(x) \in Names(p)
        /\ kind[d] = "nvme" /\ h \in {"attach", "sysfs"} => MemberFirst(p) /\ "q_free" \in Names(p)
        /\ h = "sysfs" => "detach" \in Names(p)
        /\ h \in {"bars", "enable", "vectors", "irq"} => Head(p) \in Last
        /\ Head(p) = "unadmin" => h = "on"
    BY <1>2, <1>3, <1>15 DEF Unwound
  <2>2. Top(d)' = Head(p) /\ Head(p) \notin ProbeNames \cup Early \cup Tear \cup {"drop", "q_wait", "q_free"}
    BY <1>7, <2>1 DEF Top, ProbeNames, Early, Tear
  <2>3. h \notin {"register", "debugfs"}
    BY DEF Fallible
  <2>4. Head(p) \notin Last => {"adapter", "bars", "vectors"} \subseteq held[d]
    <3>1. Head(p) \notin Last => h \in {"admin", "on", "queues", "attach", "sysfs"}
      BY <1>15, <2>1 DEF Fallible
    <3>2. h \in {"admin", "on", "queues", "attach", "sysfs"} => {"adapter", "bars", "vectors"} \subseteq Got(d, h)
      BY DEF Got, Whole, Common
    <3> QED
      BY <1>2, <3>1, <3>2
  <2>5. Head(p) = "unadmin" => "on" \notin held[d]
    BY <1>2, <2>1 DEF Got, Common
  <2>6. held[d] \subseteq Items
    BY <1>2, GotItems
  <2>7. /\ ioq[d] # {} => "q_free" \in Names(p)
        /\ d \in member => MemberFirst(p)
        /\ InSlot(d)' => "detach" \in Names(p)
    BY <1>2, <1>13, <2>1, <2>3
  <2>8. LeaveInv(d)'
    BY <1>2, <1>7, <2>1, <2>2, <2>4, <2>5, <2>6, <2>7 DEF LeaveInv
  <2>9. RestInv(d)' /\ ProbeInv(d)'
    BY <1>7, <2>1, <2>2 DEF RestInv, ProbeInv
  <2>10. Calm(d)
    BY <1>1, <2>2 DEF Calm, Tear, ProbeNames
  <2> QED
    BY <1>7, <1>8, <1>9, <1>10, <1>11, <1>12, <2>8, <2>9, <2>10, QuietStep DEF DeviceInv
<1> QED
  BY <1>14, <1>15

\* What a probe does not obtain: the goto leads to what returns the rest.
LEMMA ProbeFailsKeeps ==
  ASSUME Admit = {}, AdapterInv, NEW d \in Devs, ProbeFails(d)
  PROVE  AdapterInv'
<1>1. path[d] # <<>> /\ Top(d) = Head(path[d]) /\ Top(d) \in Fallible /\ Jumps(d, Unwind(d, Top(d)))
  BY DEF ProbeFails, Top
<1>2. Leaves(Top(d)) = {{}}
  BY DEF Leaves
<1>3. held' = held
  <2>1. held' = [held EXCEPT ![d] = @ \cup {}]
    BY <1>1, <1>2 DEF ProbeFails
  <2> QED
    BY <2>1 DEF AdapterInv, Shapes
<1>4. /\ kind' = kind /\ bound' = bound /\ nvec' = nvec /\ ioq' = ioq /\ slots' = slots
      /\ disk' = disk /\ group' = group /\ armed' = armed /\ member' = member /\ tlock' = tlock
      /\ modVars' = modVars /\ guest' = guest
  BY DEF ProbeFails, volVars, modVars
<1> QED
  BY <1>1, <1>3, <1>4, FailGoes

\* rc_bottom_attach_adapter.
LEMMA AttachKeeps ==
  ASSUME AdapterInv, NEW d \in Devs, Attach(d)
  PROVE  AdapterInv'
<1> DEFINE h == Top(d)
           open == {i \in 1 .. Slots : slots[i] = NoOne}
<1>1. path[d] # <<>> /\ h = "attach" /\ d \in Threads
  BY DEF Attach, At, Top, Threads
<1>2. /\ kind' = kind /\ bound' = bound /\ held' = held /\ nvec' = nvec /\ ioq' = ioq
      /\ disk' = disk /\ group' = group /\ armed' = armed /\ member' = member /\ tlock' = tlock
      /\ modVars' = modVars /\ guest' = guest
  BY DEF Attach, volVars, modVars
<1>3. CASE open = {}
  <2>1. Jumps(d, Unwind(d, h)) /\ slots' = slots
    BY <1>1, <1>3 DEF Attach
  <2> QED
    BY <1>1, <1>2, <2>1, FailGoes
<1>4. CASE open # {}
  <2>1. Goes(d) /\ \E k : slots' = [slots EXCEPT ![k] = d]
    BY <1>4 DEF Attach
  <2>2. /\ path' \in [Threads -> Seq(AllNames)] /\ path'[d] = Tail(path[d])
        /\ \A u \in Threads \ {d} : path'[u] = path[u]
    BY <1>1, <2>1, PathsGo DEF AdapterInv
  <2>3. /\ slots' \in [1 .. Slots -> Devs \cup {NoOne, Other}]
        /\ \A e \in Devs \ {d} : InSlot(e)' => InSlot(e)
    <3>1. PICK k : slots' = [slots EXCEPT ![k] = d]
      BY <2>1
    <3>2. slots \in [1 .. Slots -> Devs \cup {NoOne, Other}]
      BY DEF AdapterInv, Shapes
    <3>3. slots' \in [1 .. Slots -> Devs \cup {NoOne, Other}]
          /\ \A i \in 1 .. Slots : slots'[i] = slots[i] \/ slots'[i] = d
      BY <3>1, <3>2
    <3> QED
      BY <3>3 DEF InSlot
  <2>4. Shapes'
    BY <1>2, <2>2, <2>3 DEF AdapterInv, Shapes
  <2>5. \A e \in Devs \ {d} : Same(e)
    BY <1>2, <2>2, <2>3 DEF Same, Threads
  <2>6. h \in ProbeNames
    BY <1>1 DEF ProbeNames
  <2>7. /\ held[d] = Got(d, h) /\ nvec[d] \in {0} \cup Vectors
        /\ ("vectors" \in held[d] => nvec[d] \in Vectors)
        /\ ioq[d] \in SUBSET (Nat \ {0}) /\ (nvec[d] > 1 => \A q \in ioq[d] : q < nvec[d])
    BY <1>1, <2>6, ProbeStands
  <2>8. Got(d, h) = Got(d, Succ(d, h))
    BY <1>1 DEF Got, Succ
  <2>9. ProbingStep(d)
    BY <1>1, <1>2, <2>2, <2>6, <2>7, <2>8 DEF ProbingStep
  <2> QED
    BY <1>2, <2>2, <2>4, <2>5, <2>9, ProbeQuietly
<1> QED
  BY <1>3, <1>4

\* rc_volume_register_member.
LEMMA RegisterKeeps ==
  ASSUME Admit = {}, AdapterInv, NEW d \in Devs, Register(d)
  PROVE  AdapterInv'
<1> DEFINE h == Top(d)
<1>1. path[d] # <<>> /\ h = "register" /\ Goes(d) /\ d \in Threads
  BY DEF Register, At, Top, Threads
<1>2. /\ kind' = kind /\ bound' = bound /\ held' = held /\ nvec' = nvec /\ ioq' = ioq /\ slots' = slots
      /\ tlock' = tlock /\ modVars' = modVars /\ guest' = guest
  BY DEF Register, devVars, modVars
<1>3. /\ path' \in [Threads -> Seq(AllNames)] /\ path'[d] = Tail(path[d])
      /\ \A u \in Threads \ {d} : path'[u] = path[u]
  BY <1>1, PathsGo DEF AdapterInv
<1>4. Shapes'
  BY <1>2, <1>3 DEF AdapterInv, Shapes
<1>5. h \in ProbeNames
  BY <1>1 DEF ProbeNames
<1>6. /\ held[d] = Got(d, h) /\ nvec[d] \in {0} \cup Vectors
      /\ ("vectors" \in held[d] => nvec[d] \in Vectors)
      /\ ioq[d] \in SUBSET (Nat \ {0}) /\ (nvec[d] > 1 => \A q \in ioq[d] : q < nvec[d])
      /\ kind[d] = "nvme" /\ d \notin member
  BY <1>1, <1>5, ProbeStands DEF NvmeNames
<1>7. Got(d, h) = Got(d, Succ(d, h))
  BY <1>1, <1>6 DEF Got, Succ, Whole
<1>8. (member' = member \cup {d} \/ member' = member) => ProbingStep(d) /\ \A e \in Devs \ {d} : Same(e)
  <2> SUFFICES ASSUME member' = member \cup {d} \/ member' = member
               PROVE  ProbingStep(d) /\ \A e \in Devs \ {d} : Same(e)
    OBVIOUS
  <2>1. \A e \in Devs \ {d} : e \in member' => e \in member
    OBVIOUS
  <2>2. \A e \in Devs \ {d} : Same(e)
    BY <1>2, <1>3, <2>1, SlotsStay DEF Same, Threads
  <2>3. ProbingStep(d)
    BY <1>1, <1>2, <1>3, <1>5, <1>6, <1>7, SlotsStay DEF ProbingStep
  <2> QED
    BY <2>2, <2>3
<1>9. CASE UNCHANGED <<member, disk, group, armed>>
  BY <1>2, <1>3, <1>4, <1>8, <1>9, ProbeQuietly
<1>10. CASE /\ vlock = NoOne /\ tlock = NoOne /\ member' = member \cup {d}
            /\ disk' = (disk \/ Cardinality(member') = Expected)
            /\ group' = (group \/ (disk' /\ ~disk)) /\ armed' = (armed \/ ~disk')
  <2>1. DeviceInv(d)' /\ GuestStep(d) /\ Top(d)' \in ProbeNames \cup {"nothing"}
    BY <1>8, <1>10, ProbeGoes DEF AdapterInv
  <2>2. \A e \in Devs : DeviceInv(e)' /\ GuestStep(e)
    BY <1>8, <1>10, <2>1, Untouched, GuestUntouched DEF AdapterInv
  <2>3. VolumeInv /\ Devs \subseteq Threads /\ member \subseteq Devs
    BY DEF AdapterInv, VolumeInv, Threads
  <2>4. \A t \in Threads \ {d} : Top(t)' = Top(t)
    BY <1>3 DEF Top
  <2>5. \A t \in Threads : t # NoOne /\ Top(t) \notin Tear
    BY <1>10, <2>3, AdapterAssumption DEF VolumeInv, Threads
  <2>6. \A t \in Threads : Top(t)' \notin Tear
    BY <2>1, <2>4, <2>5 DEF ProbeNames, Tear
  <2>7. ~Dropping(d)' /\ \A e \in Devs : Dropping(e)' => Dropping(e)
    <3>1. Top(d)' # "drop"
      BY <2>1 DEF ProbeNames
    <3>2. \A e \in Devs : (Dropping(e) <=> Top(e) = "drop") /\ (Dropping(e)' <=> Top(e)' = "drop")
      BY TopDrops
    <3> QED
      BY <2>3, <2>4, <3>1, <3>2
  <2>8. VolumeInv'
    <3>1. \A e \in Devs : Dropping(e)' => disk'
      BY <1>10, <2>3, <2>7 DEF VolumeInv
    <3> QED
      BY <1>2, <1>10, <2>3, <2>5, <2>6, <2>7, <3>1 DEF VolumeInv
  <2>9. VolumeSafe => VolumeSafe'
    BY <1>10, <2>6 DEF VolumeSafe, Tear
  <2>10. \A e \in Devs : Present(e)' => Present(e)
    <3>1. Present(d) /\ \A e \in Devs \ {d} : e \in Threads \ {d}
      BY <1>1 DEF Present, Threads
    <3> QED
      BY <1>2, <1>3, <3>1 DEF Present
  <2>11. path'["mod"] = path["mod"]
    BY <1>3, AdapterAssumption DEF Threads
  <2>12. ModuleInv' /\ (RootSafe => RootSafe') /\ (ConfigSafe => ConfigSafe')
    BY <1>2, <2>10, <2>11, ModuleKept DEF AdapterInv, modVars
  <2>13. GuestInv'
    BY <1>2, <2>2, <2>9, <2>12, GuestKept DEF AdapterInv
  <2> QED
    BY <1>4, <2>2, <2>8, <2>12, <2>13 DEF AdapterInv
<1> QED
  BY <1>9, <1>10 DEF Register

\* A device is found, or bound to the driver again.
LEMMA BeginProbeKeeps ==
  ASSUME AdapterInv, NEW d \in Devs, BeginProbe(d)
  PROVE  AdapterInv'
<1>1. /\ "driver" \in has /\ ~Present(d) /\ Jumps(d, Probe(d)) /\ path[d] = <<>> /\ d \notin bound
      /\ kind' = kind /\ bound' = bound /\ held' = held /\ nvec' = nvec /\ ioq' = ioq /\ slots' = slots
      /\ disk' = disk /\ group' = group /\ armed' = armed /\ member' = member /\ tlock' = tlock
      /\ modVars' = modVars /\ guest' = guest
  BY DEF BeginProbe, Present, volVars, modVars
<1>2. held[d] = {} /\ ioq[d] = {} /\ d \notin member /\ ~InSlot(d) /\ OwnInv(d)
  BY <1>1 DEF AdapterInv, DeviceInv, RestInv
<1>3. ProbePath(d, Probe(d)) /\ Head(Probe(d)) = "alloc"
  BY ProbeIs
<1> DEFINE p == Probe(d)
<1>4. p \in Seq(AllNames) /\ p # <<>>
  <2>1. p \in Seq(ProbeNames) /\ p # <<>>
    BY <1>3 DEF ProbePath
  <2>2. ProbeNames \subseteq AllNames
    BY DEF AllNames
  <2> HIDE DEF p
  <2> QED
    BY <2>1, <2>2
<1>5. path' = [path EXCEPT ![d] = p] /\ path \in [Threads -> Seq(AllNames)] /\ d \in Threads
  BY <1>1 DEF Jumps, AdapterInv, Shapes, Threads
<1>6. ProbePath(d, p) /\ Head(p) = "alloc"
  BY <1>3
<1> HIDE DEF p
<1>7. /\ path' \in [Threads -> Seq(AllNames)] /\ path'[d] = p
      /\ \A t \in Threads \ {d} : path'[t] = path[t]
  BY <1>4, <1>5
<1>8. Shapes'
  BY <1>1, <1>7 DEF AdapterInv, Shapes
<1>9. \A e \in Devs \ {d} : Same(e)
  BY <1>1, <1>7, SlotsStay DEF Same, Threads
<1>10. Top(d)' = "alloc" /\ Top(d) = "nothing"
  BY <1>1, <1>4, <1>6, <1>7 DEF Top
<1>11. ProbeInv(d)'
  <2>1. ProbePath(d, path[d])'
    BY <1>1, <1>6, <1>7 DEF ProbePath, Succ
  <2>2. Got(d, Top(d))' = {}
    BY <1>10 DEF Got
  <2>3. ~InSlot(d)'
    BY <1>1, <1>2, SlotsStay
  <2> QED
    BY <1>1, <1>2, <1>10, <2>1, <2>2, <2>3 DEF ProbeInv
<1>12. LeaveInv(d)' /\ RestInv(d)' /\ OwnInv(d)'
  BY <1>1, <1>2, <1>4, <1>7, <1>10 DEF LeaveInv, RestInv, OwnInv, ProbeNames
<1>13. GuestStep(d)
  BY <1>1, <1>10, HeldStays DEF Waits
<1>14. Calm(d)
  BY <1>10 DEF Calm, Tear
<1> QED
  BY <1>1, <1>7, <1>8, <1>9, <1>11, <1>12, <1>13, <1>14, QuietStep DEF DeviceInv

\* An unbind, or the module leaves.
LEMMA BeginRemoveKeeps ==
  ASSUME AdapterInv, NEW d \in Devs, BeginRemove(d)
  PROVE  AdapterInv'
<1>1. /\ d \in bound /\ path[d] = <<>> /\ Jumps(d, Remove(d)) /\ bound' = bound \ {d}
      /\ kind' = kind /\ held' = held /\ nvec' = nvec /\ ioq' = ioq /\ slots' = slots
      /\ disk' = disk /\ group' = group /\ armed' = armed /\ member' = member /\ tlock' = tlock
      /\ modVars' = modVars /\ guest' = guest
  BY DEF BeginRemove, volVars, modVars
<1>2. /\ held[d] \ {"debugfs"} = Whole(d) \cup {"sysfs"} /\ (kind[d] = "nvme" <=> ioq[d] # {})
      /\ (d \in member => kind[d] = "nvme") /\ OwnInv(d)
  BY <1>1 DEF AdapterInv, DeviceInv, RestInv
<1> DEFINE p == Remove(d)
<1>3. /\ Tidy(p) /\ p # <<>> /\ Head(p) = "undebugfs"
      /\ Names(p) = Early \cup LeavingNames(d) \cup {"detach", "unirq", "irq_wait"} \cup Last
      /\ kind[d] = "nvme" => MemberFirst(p)
  BY RemoveTidy
<1>5. path' = [path EXCEPT ![d] = p] /\ path \in [Threads -> Seq(AllNames)] /\ d \in Threads
  BY <1>1 DEF Jumps, AdapterInv, Shapes, Threads
<1> HIDE DEF p
<1>4. p \in Seq(AllNames)
  <2>1. p \in Seq(LeaveNames)
    BY <1>3 DEF Tidy
  <2>2. LeaveNames \subseteq AllNames
    BY DEF AllNames
  <2> QED
    BY <2>1, <2>2
<1>7. /\ path' \in [Threads -> Seq(AllNames)] /\ path'[d] = p
      /\ \A t \in Threads \ {d} : path'[t] = path[t]
  BY <1>4, <1>5
<1>8. Shapes'
  BY <1>1, <1>7 DEF AdapterInv, Shapes
<1>9. \A e \in Devs \ {d} : Same(e)
  BY <1>1, <1>7, SlotsStay DEF Same, Threads
<1>10. Top(d)' = "undebugfs" /\ Top(d) = "nothing"
  BY <1>1, <1>3, <1>7 DEF Top
<1>11. LeaveInv(d)'
  <2>1. held[d] \subseteq Whole(d) \cup {"sysfs", "debugfs"} /\ Whole(d) \subseteq held[d]
    BY <1>2 DEF Whole, Common
  <2>2. Whole(d) \cup {"sysfs", "debugfs"} \subseteq Items /\ {"adapter", "bars", "vectors"} \subseteq Whole(d)
    BY DEF Whole, Common, Items
  <2>3. \A x \in Whole(d) \cup {"sysfs", "debugfs"} : Taker(x) \in Names(p)
    <3>1. \A x \in Common \cup {"sysfs", "debugfs"} : Taker(x) \in Early \cup {"unirq"} \cup Last
      BY DEF Common, Taker, Early, Last
    <3>2. kind[d] = "nvme" => \A x \in {"admin", "on"} : Taker(x) \in LeavingNames(d)
      BY DEF Taker, LeavingNames
    <3> QED
      BY <1>3, <3>1, <3>2 DEF Whole
  <2>4. kind[d] = "nvme" => "admin" \in Whole(d) /\ "q_free" \in Names(p)
    BY <1>3 DEF Whole, LeavingNames
  <2>5. "detach" \in Names(p) /\ d \notin bound'
    BY <1>1, <1>3
  <2>6. "undebugfs" \notin {"unadmin", "q_wait", "q_free"}
    OBVIOUS
  <2>7. /\ held[d] \subseteq Items /\ {"adapter", "bars", "vectors"} \subseteq held[d]
        /\ \A x \in held[d] : Taker(x) \in Names(p)
        /\ kind[d] = "nvme" => "admin" \in held[d]
    BY <2>1, <2>2, <2>3, <2>4
  <2> QED
    BY <1>1, <1>2, <1>3, <1>7, <1>10, <2>4, <2>5, <2>6, <2>7 DEF LeaveInv
<1>12. ProbeInv(d)' /\ RestInv(d)' /\ OwnInv(d)'
  BY <1>1, <1>2, <1>3, <1>7, <1>10 DEF ProbeInv, RestInv, OwnInv, ProbeNames
<1>13. GuestStep(d)
  BY <1>1, <1>10, HeldStays DEF Waits
<1>14. Calm(d) /\ Present(d)
  BY <1>1, <1>10 DEF Calm, Tear, Present
<1> QED
  BY <1>1, <1>7, <1>8, <1>9, <1>11, <1>12, <1>13, <1>14, QuietStep DEF DeviceInv

-----------------------------------------------------------------------------
(* The steps of the module.                                                 *)

\* The invariant is kept by a step of the module if its own part is.
LEMMA ModuleStep ==
  ASSUME AdapterInv, kind' = kind, devVars' = devVars, volVars' = volVars, guest' = guest,
         path' \in [Threads -> Seq(AllNames)], \A u \in Threads \ {"mod"} : path'[u] = path[u],
         Calm("mod"), ModuleInv',
         guest.op = "volfile" /\ RootSafe => RootSafe',
         guest.op = "config" /\ ConfigSafe => ConfigSafe'
  PROVE  AdapterInv'
<1>1. /\ bound' = bound /\ held' = held /\ nvec' = nvec /\ ioq' = ioq /\ slots' = slots
      /\ member' = member /\ disk' = disk /\ group' = group /\ armed' = armed /\ tlock' = tlock
  BY DEF devVars, volVars
<1>2. \A e \in Devs : e \in Threads \ {"mod"}
  BY AdapterAssumption DEF Threads
<1>3. \A e \in Devs : Same(e)
  BY <1>1, <1>2, SlotsStay DEF Same
<1>4. \A e \in Devs : DeviceInv(e)' /\ GuestStep(e)
  BY <1>3, Untouched, GuestUntouched DEF AdapterInv
<1>5. \A t \in Threads : Calm(t)
  BY DEF Calm, Top
<1>6. VolumeInv' /\ (VolumeSafe => VolumeSafe')
  BY <1>1, <1>5, VolumeKept DEF AdapterInv
<1>7. GuestInv'
  BY <1>4, <1>6, GuestKept DEF AdapterInv
<1>8. Shapes'
  BY <1>1 DEF AdapterInv, Shapes
<1> QED
  BY <1>4, <1>6, <1>7, <1>8 DEF AdapterInv

\* A module that is under way is on one of the two paths.
LEMMA ModWhich ==
  ASSUME AdapterInv, path["mod"] # <<>>
  PROVE  /\ mod \in {"loading", "going"} /\ Head(path["mod"]) = Top("mod")
         /\ mod = "loading" => Top("mod") \in LoadNames
         /\ mod = "going" => Top("mod") \in UnloadNames
<1>1. mod \in {"loading", "going"} /\ Head(path["mod"]) = Top("mod")
  BY DEF AdapterInv, ModuleInv, Top
<1>2. mod = "loading" => Top("mod") \in LoadNames
  BY <1>1, LoadTail DEF AdapterInv, ModuleInv
<1>3. mod = "going" => Top("mod") \in UnloadNames
  BY <1>1, UnloadTail DEF AdapterInv, ModuleInv
<1> QED
  BY <1>1, <1>2, <1>3

\* A load goes on to what follows.
LEMMA LoadGoes ==
  ASSUME AdapterInv, mod = "loading", Goes("mod")
  PROVE  /\ path["mod"] # <<>> /\ Top("mod") \in LoadNames
         /\ path' \in [Threads -> Seq(AllNames)] /\ \A u \in Threads \ {"mod"} : path'[u] = path[u]
         /\ Top("mod") = "loaded" <=> path'["mod"] = <<>>
         /\ Top("mod") # "loaded" => LoadPath(path'["mod"]) /\ Top("mod")' = LoadSucc(Top("mod"))
         /\ Calm("mod")
<1>1. "mod" \in Threads /\ path["mod"] # <<>> /\ LoadPath(path["mod"])
  BY DEF Threads, AdapterInv, ModuleInv
<1>2. Head(path["mod"]) = Top("mod") /\ Top("mod") \in LoadNames
  BY <1>1, ModWhich
<1>3. /\ path' \in [Threads -> Seq(AllNames)] /\ path'["mod"] = Tail(path["mod"])
      /\ \A u \in Threads \ {"mod"} : path'[u] = path[u]
  BY <1>1, PathsGo DEF AdapterInv
<1>4. /\ Top("mod") = "loaded" <=> path'["mod"] = <<>>
      /\ path'["mod"] # <<>> => LoadPath(path'["mod"]) /\ Head(path'["mod"]) = LoadSucc(Top("mod"))
  BY <1>1, <1>2, <1>3, LoadTail
<1>5. Top("mod") # "loaded" => Top("mod")' = LoadSucc(Top("mod"))
  BY <1>4 DEF Top
<1>6. Top("mod") = "loaded" => Top("mod")' = "nothing"
  BY <1>4 DEF Top
<1>7. Top("mod")' \notin Tear \cup {"drop"}
  BY <1>5, <1>6 DEF LoadSucc, Tear
<1>8. Top("mod") \notin Tear \cup {"drop"}
  BY <1>2 DEF LoadNames, Tear
<1> QED
  BY <1>1, <1>2, <1>3, <1>4, <1>5, <1>7, <1>8 DEF Calm

\* So does an unload, outside the teardown.
LEMMA UnloadGoes ==
  ASSUME AdapterInv, mod = "going", Goes("mod"), Top("mod") \notin Tear \cup {"t_begin"}
  PROVE  /\ path["mod"] # <<>> /\ Top("mod") \in UnloadNames
         /\ path' \in [Threads -> Seq(AllNames)] /\ \A u \in Threads \ {"mod"} : path'[u] = path[u]
         /\ Top("mod") = "unloaded" <=> path'["mod"] = <<>>
         /\ Top("mod") # "unloaded" => UnloadPath(path'["mod"])
         /\ Top("mod") = "undriver" <=> Top("mod")' = "removes"
         /\ Top("mod") = "unroot" <=> Top("mod")' = "root_wait"
         /\ \A x \in has : ModTaker(x) = Top("mod") \/ ModTaker(x) \in Names(path'["mod"])
         /\ Calm("mod")
<1>1. "mod" \in Threads /\ path["mod"] # <<>> /\ UnloadPath(path["mod"])
  BY DEF Threads, AdapterInv, ModuleInv
<1>2. Head(path["mod"]) = Top("mod") /\ Top("mod") \in UnloadNames
  BY <1>1, ModWhich
<1>3. /\ path' \in [Threads -> Seq(AllNames)] /\ path'["mod"] = Tail(path["mod"])
      /\ \A u \in Threads \ {"mod"} : path'[u] = path[u]
  BY <1>1, PathsGo DEF AdapterInv
<1>4. Top("mod")' = Second(path["mod"])
  BY <1>3 DEF Top, Second
<1>5. /\ Top("mod") = "unloaded" <=> path'["mod"] = <<>>
      /\ path'["mod"] # <<>> => UnloadPath(path'["mod"])
      /\ Top("mod") = "undriver" <=> Second(path["mod"]) = "removes"
      /\ Top("mod") = "unroot" <=> Second(path["mod"]) = "root_wait"
      /\ TearSteps(Top("mod"), Second(path["mod"])) /\ Second(path["mod"]) \notin Starters
  BY <1>1, <1>2, <1>3, UnloadTail
<1>6. Second(path["mod"]) \notin Tear \cup {"drop"}
  BY <1>5 DEF TearSteps, Starters, Tear
<1>7. \A x \in has : ModTaker(x) = Top("mod") \/ ModTaker(x) \in Names(path'["mod"])
  <2>1. \A x \in has : ModTaker(x) \in Names(path["mod"])
    BY DEF AdapterInv, ModuleInv
  <2>2. path["mod"] \in Seq(UnloadNames)
    BY <1>1 DEF UnloadPath
  <2> QED
    BY <1>1, <1>2, <1>3, <2>1, <2>2, NamesTail
<1>8. Calm("mod")
  BY <1>2, <1>4, <1>6 DEF Calm, UnloadNames, Tear
<1> QED
  BY <1>1, <1>2, <1>3, <1>4, <1>5, <1>7, <1>8

\* Whose device is there when the driver is not.
LEMMA DevicesThere ==
  ASSUME AdapterInv, bound' = bound, \A u \in Threads \ {"mod"} : path'[u] = path[u]
  PROVE  \A e \in Devs : Present(e)' => "driver" \in has \/ Top("mod") = "removes"
<1>1. \A e \in Devs : e \in Threads \ {"mod"}
  BY AdapterAssumption DEF Threads
<1> QED
  BY <1>1 DEF Present, AdapterInv, ModuleInv

\* rc_init, and what it obtains.
LEMMA LoadStepKeeps ==
  ASSUME AdapterInv, LoadStep
  PROVE  AdapterInv'
<1> DEFINE h == Top("mod")
<1>1. /\ path["mod"] # <<>> /\ Head(path["mod"]) \in ModObtains /\ Goes("mod")
      /\ has' = has \cup {Head(path["mod"])} /\ mod' = mod
      /\ kind' = kind /\ devVars' = devVars /\ volVars' = volVars /\ guest' = guest
  BY DEF LoadStep
<1>2. Head(path["mod"]) = h /\ h \in ModObtains /\ mod = "loading"
  <2>1. ModObtains \cap UnloadNames = {}
    BY DEF ModObtains, UnloadNames, Tear
  <2> QED
    BY <1>1, <2>1, ModWhich
<1>3. /\ path' \in [Threads -> Seq(AllNames)] /\ \A u \in Threads \ {"mod"} : path'[u] = path[u]
      /\ path'["mod"] # <<>> /\ LoadPath(path'["mod"]) /\ Top("mod")' = LoadSucc(h) /\ Calm("mod")
  BY <1>1, <1>2, LoadGoes DEF ModObtains
<1>4. /\ has \subseteq ModObtains /\ has \ {"root"} = LoadGot(h)
      /\ "root" \in has => h \notin {"async", "blkdev", "root"}
  BY <1>2 DEF AdapterInv, ModuleInv
<1>5. has' = has \cup {h}
  BY <1>1, <1>2
<1>6. has' \ {"root"} = LoadGot(LoadSucc(h))
  <2>1. LoadGot(LoadSucc(h)) = LoadGot(h) \cup ({h} \ {"root"})
    BY <1>2 DEF ModObtains, LoadGot, LoadSucc
  <2> QED
    BY <1>4, <1>5, <2>1
<1>7. "root" \in has' => LoadSucc(h) \notin {"async", "blkdev", "root"}
  BY <1>2, <1>4, <1>5 DEF ModObtains, LoadSucc
<1>8. \A e \in Devs : Present(e)' => "driver" \in has'
  <2>1. h # "removes"
    BY <1>2 DEF ModObtains
  <2> QED
    BY <1>1, <1>3, <1>5, <2>1, DevicesThere DEF devVars
<1>9. ModuleInv'
  BY <1>1, <1>2, <1>3, <1>4, <1>5, <1>6, <1>7, <1>8 DEF ModuleInv
<1>10. (RootSafe => RootSafe') /\ ~ConfigSafe
  BY <1>2, <1>5 DEF RootSafe, ConfigSafe, ModObtains
<1> QED
  BY <1>1, <1>3, <1>9, <1>10, ModuleStep

\* What rc_init does not obtain.
LEMMA LoadFailsKeeps ==
  ASSUME AdapterInv, LoadFails
  PROVE  AdapterInv'
<1> DEFINE h == Top("mod")
<1>1. /\ path["mod"] # <<>> /\ Head(path["mod"]) \in ModObtains /\ has' = has
      /\ kind' = kind /\ devVars' = devVars /\ volVars' = volVars /\ guest' = guest
  BY DEF LoadFails
<1>2. Head(path["mod"]) = h /\ h \in ModObtains /\ mod = "loading"
  <2>1. ModObtains \cap UnloadNames = {}
    BY DEF ModObtains, UnloadNames, Tear
  <2> QED
    BY <1>1, <2>1, ModWhich
<1>3. /\ has \subseteq ModObtains /\ has \ {"root"} = LoadGot(h)
      /\ "root" \in has => h \notin {"async", "blkdev", "root"}
  BY <1>2 DEF AdapterInv, ModuleInv
<1>4. h # "removes" /\ (RootSafe => "root" \in has) /\ ~ConfigSafe /\ h \notin Tear \cup {"drop"}
  BY <1>2 DEF ModObtains, RootSafe, ConfigSafe, Tear
<1>5. CASE h = "root"
  <2>1. Goes("mod") /\ mod' = mod
    BY <1>1, <1>2, <1>5 DEF LoadFails, At
  <2>2. /\ path' \in [Threads -> Seq(AllNames)] /\ \A u \in Threads \ {"mod"} : path'[u] = path[u]
        /\ path'["mod"] # <<>> /\ LoadPath(path'["mod"]) /\ Top("mod")' = "driver" /\ Calm("mod")
    BY <1>2, <1>5, <2>1, LoadGoes DEF LoadSucc
  <2>3. LoadGot("driver") = LoadGot(h)
    BY <1>5 DEF LoadGot
  <2>4. \A e \in Devs : Present(e)' => "driver" \in has'
    BY <1>1, <1>4, <2>2, DevicesThere DEF devVars
  <2>5. ModuleInv'
    BY <1>1, <1>2, <1>3, <2>1, <2>2, <2>3, <2>4 DEF ModuleInv
  <2>6. RootSafe => RootSafe'
    BY <1>1, <1>4 DEF RootSafe
  <2> QED
    BY <1>1, <1>4, <2>2, <2>5, <2>6, ModuleStep
<1>6. CASE h # "root"
  <2> DEFINE p == UnwindLoad(h)
  <2>1. Jumps("mod", p) /\ mod' = "going"
    BY <1>1, <1>2, <1>6 DEF LoadFails, At
  <2>2. /\ UnloadPath(p) /\ Head(p) \in {"unloaded", "unasync", "unroot", "undriver"}
        /\ \A x \in LoadGot(h) : ModTaker(x) \in Names(p)
        /\ h \in {"driver", "misc"} => "unroot" \in Names(p)
    BY <1>2, <1>6, UnwindLoadIs
  <2> HIDE DEF p
  <2>3. p # <<>> /\ p \in Seq(AllNames)
    <3>1. p # <<>> /\ p \in Seq(UnloadNames)
      BY <2>2 DEF UnloadPath
    <3>2. UnloadNames \subseteq AllNames
      BY DEF AllNames
    <3> QED
      BY <3>1, <3>2
  <2>4. path' = [path EXCEPT !["mod"] = p] /\ path \in [Threads -> Seq(AllNames)] /\ "mod" \in Threads
    BY <2>1 DEF Jumps, AdapterInv, Shapes, Threads
  <2>5. /\ path' \in [Threads -> Seq(AllNames)] /\ \A u \in Threads \ {"mod"} : path'[u] = path[u]
        /\ path'["mod"] = p
    BY <2>3, <2>4
  <2>6. Top("mod")' = Head(p)
    BY <2>3, <2>5 DEF Top
  <2>7. Calm("mod")
    BY <1>4, <2>2, <2>6 DEF Calm, Tear
  <2>8. \A x \in has : ModTaker(x) \in Names(p)
    <3>1. \A x \in has : x \in LoadGot(h) \/ x = "root"
      BY <1>3
    <3>2. "root" \in has => h \in {"driver", "misc"}
      BY <1>2, <1>3 DEF ModObtains
    <3>3. ModTaker("root") = "unroot"
      BY DEF ModTaker
    <3> QED
      BY <2>2, <3>1, <3>2, <3>3
  <2>9. \A e \in Devs : Present(e)' => "driver" \in has'
    BY <1>1, <1>4, <2>5, DevicesThere DEF devVars
  <2>10. ModuleInv'
    BY <1>1, <1>3, <2>1, <2>2, <2>3, <2>5, <2>8, <2>9 DEF ModuleInv
  <2>11. RootSafe => RootSafe'
    BY <1>1, <1>4 DEF RootSafe
  <2> QED
    BY <1>1, <1>4, <2>5, <2>7, <2>10, <2>11, ModuleStep
<1> QED
  BY <1>5, <1>6

\* The module waits for its devices, and for who reads its files.
LEMMA ModWaitKeeps ==
  ASSUME AdapterInv, ModWait
  PROVE  AdapterInv'
<1> DEFINE h == Top("mod")
<1>1. /\ path["mod"] # <<>> /\ Goes("mod") /\ h \in {"probes", "removes", "root_wait"}
      /\ h = "removes" => \A d \in Devs : ~Present(d)
      /\ h = "root_wait" => guest.op # "volfile"
      /\ kind' = kind /\ devVars' = devVars /\ volVars' = volVars /\ guest' = guest
      /\ has' = has /\ mod' = mod
  BY DEF ModWait, At, Top, modVars
<1>2. mod \in {"loading", "going"} /\ (mod = "loading" => h = "probes") /\ (mod = "going" => h # "probes")
  BY <1>1, ModWhich DEF LoadNames, UnloadNames, Tear
<1>3. (guest.op = "volfile" /\ RootSafe => RootSafe') /\ ~ConfigSafe
  BY <1>1, <1>2 DEF RootSafe, ConfigSafe
<1>4. CASE mod = "loading"
  <2>1. /\ path' \in [Threads -> Seq(AllNames)] /\ \A u \in Threads \ {"mod"} : path'[u] = path[u]
        /\ path'["mod"] # <<>> /\ LoadPath(path'["mod"]) /\ Top("mod")' = "misc" /\ Calm("mod")
    BY <1>1, <1>2, <1>4, LoadGoes DEF LoadSucc
  <2>2. LoadGot("misc") = LoadGot(h)
    BY <1>2, <1>4 DEF LoadGot
  <2>3. \A e \in Devs : Present(e)' => "driver" \in has'
    BY <1>1, <1>2, <1>4, <2>1, DevicesThere DEF devVars
  <2>4. ModuleInv'
    BY <1>1, <1>4, <2>1, <2>2, <2>3 DEF AdapterInv, ModuleInv
  <2> QED
    BY <1>1, <1>3, <2>1, <2>4, ModuleStep
<1>5. CASE mod = "going"
  <2>1. h \notin Tear \cup {"t_begin", "unloaded"} /\ \A x : ModTaker(x) # h
    BY <1>1, <1>2, <1>5 DEF Tear, ModTaker
  <2>2. /\ path' \in [Threads -> Seq(AllNames)] /\ \A u \in Threads \ {"mod"} : path'[u] = path[u]
        /\ path'["mod"] # <<>> /\ UnloadPath(path'["mod"]) /\ Calm("mod")
        /\ \A x \in has : ModTaker(x) \in Names(path'["mod"])
    BY <1>1, <1>5, <2>1, UnloadGoes
  <2>3. \A e \in Devs : Present(e)' => "driver" \in has'
    <3>1. \A e \in Devs : Present(e)' => Present(e)
      <4>1. \A e \in Devs : e \in Threads \ {"mod"}
        BY AdapterAssumption DEF Threads
      <4> QED
        BY <1>1, <2>2, <4>1 DEF Present, devVars
    <3>2. \A e \in Devs : Present(e)' => "driver" \in has \/ h = "removes"
      BY <1>1, <2>2, DevicesThere DEF devVars
    <3> QED
      BY <1>1, <3>1, <3>2
  <2>4. ModuleInv'
    BY <1>1, <1>5, <2>2, <2>3 DEF AdapterInv, ModuleInv
  <2> QED
    BY <1>1, <1>3, <2>2, <2>4, ModuleStep
<1> QED
  BY <1>2, <1>4, <1>5

\* rc_exit, and what it returns.
LEMMA UnloadStepKeeps ==
  ASSUME AdapterInv, UnloadStep
  PROVE  AdapterInv'
<1> DEFINE h == Top("mod")
           y == ModTakes[h]
<1>1. /\ path["mod"] # <<>> /\ Head(path["mod"]) = h /\ h \in DOMAIN ModTakes /\ Goes("mod")
      /\ has' = has \ {ModTakes[h]} /\ mod' = mod
      /\ kind' = kind /\ devVars' = devVars /\ volVars' = volVars /\ guest' = guest
  BY DEF UnloadStep, Top
<1>2. h \in {"unasync", "unmisc", "undriver", "unroot", "unblkdev"}
  BY <1>1 DEF ModTakes
<1>3. /\ y \in ModObtains /\ ModTaker(y) = h
      /\ \A x \in ModObtains : ModTaker(x) = h => x = y
      /\ h # "undriver" => y # "driver"
      /\ h # "unroot" => y # "root"
  BY <1>2 DEF ModTakes, ModObtains, ModTaker
<1> HIDE DEF y
<1>4. has' = has \ {y}
  BY <1>1 DEF y
<1>5. mod = "going"
  BY <1>1, <1>2, ModWhich DEF LoadNames
<1>6. h \notin Tear \cup {"t_begin", "unloaded", "removes", "root_wait"}
  BY <1>2 DEF Tear
<1>7. /\ path' \in [Threads -> Seq(AllNames)] /\ \A u \in Threads \ {"mod"} : path'[u] = path[u]
      /\ path'["mod"] # <<>> /\ UnloadPath(path'["mod"]) /\ Calm("mod")
      /\ \A x \in has : ModTaker(x) = h \/ ModTaker(x) \in Names(path'["mod"])
      /\ h = "undriver" <=> Top("mod")' = "removes"
      /\ h = "unroot" <=> Top("mod")' = "root_wait"
  BY <1>1, <1>5, <1>6, UnloadGoes
<1>8. has \subseteq ModObtains
  BY DEF AdapterInv, ModuleInv
<1>9. \A x \in has' : ModTaker(x) \in Names(path'["mod"])
  BY <1>3, <1>4, <1>7, <1>8
<1>10. \A e \in Devs : Present(e)' => "driver" \in has' \/ Top("mod")' = "removes"
  <2>1. \A e \in Devs : Present(e)' => "driver" \in has
    BY <1>1, <1>6, <1>7, DevicesThere DEF devVars
  <2> QED
    BY <1>3, <1>4, <1>7, <2>1
<1>11. ModuleInv'
  BY <1>1, <1>4, <1>5, <1>7, <1>8, <1>9, <1>10 DEF ModuleInv
<1>12. (RootSafe => RootSafe') /\ ~ConfigSafe
  <2>1. RootSafe => "root" \in has
    BY <1>6 DEF RootSafe
  <2>2. ~ConfigSafe
    BY <1>2, <1>5 DEF ConfigSafe
  <2> QED
    BY <1>3, <1>4, <1>7, <2>1, <2>2 DEF RootSafe
<1> QED
  BY <1>1, <1>7, <1>11, <1>12, ModuleStep

\* The module is there; or it has gone, and has returned all it had.
LEMMA LoadEndsKeeps ==
  ASSUME AdapterInv, LoadEnds
  PROVE  AdapterInv'
<1> DEFINE h == Top("mod")
<1>1. /\ path["mod"] # <<>> /\ Head(path["mod"]) = h /\ h \in {"loaded", "unloaded"} /\ Goes("mod")
      /\ h = "loaded" => mod' = "live"
      /\ h = "unloaded" => mod' = "absent"
      /\ kind' = kind /\ devVars' = devVars /\ volVars' = volVars /\ guest' = guest /\ has' = has
  BY DEF LoadEnds, At, Top
<1>2. mod \in {"loading", "going"} /\ (mod = "loading" => h = "loaded") /\ (mod = "going" => h = "unloaded")
  BY <1>1, ModWhich DEF LoadNames, UnloadNames, Tear
<1>3. CASE mod = "loading"
  <2>1. /\ path' \in [Threads -> Seq(AllNames)] /\ \A u \in Threads \ {"mod"} : path'[u] = path[u]
        /\ path'["mod"] = <<>> /\ Calm("mod")
    BY <1>1, <1>2, <1>3, LoadGoes
  <2>2. has \subseteq ModObtains /\ "driver" \in has
    <3>1. has \ {"root"} = LoadGot("loaded") /\ has \subseteq ModObtains
      BY <1>2, <1>3 DEF AdapterInv, ModuleInv
    <3> QED
      BY <3>1 DEF LoadGot
  <2>3. ModuleInv'
    BY <1>1, <1>2, <1>3, <2>1, <2>2 DEF ModuleInv
  <2>4. (RootSafe => RootSafe') /\ ConfigSafe'
    BY <1>1, <1>2, <1>3 DEF RootSafe, ConfigSafe
  <2> QED
    BY <1>1, <2>1, <2>3, <2>4, ModuleStep
<1>4. CASE mod = "going"
  <2>1. h \notin Tear \cup {"t_begin"} /\ \A x : ModTaker(x) # h
    BY <1>2, <1>4 DEF Tear, ModTaker
  <2>2. /\ path' \in [Threads -> Seq(AllNames)] /\ \A u \in Threads \ {"mod"} : path'[u] = path[u]
        /\ path'["mod"] = <<>> /\ Calm("mod")
        /\ \A x \in has : ModTaker(x) \in Names(path'["mod"])
    BY <1>1, <1>2, <1>4, <2>1, UnloadGoes
  <2>3. has = {}
    BY <2>2, NothingTidy
  <2>4. \A e \in Devs : ~Present(e)'
    BY <1>1, <1>2, <1>4, <2>2, <2>3, DevicesThere DEF devVars
  <2>5. ModuleInv'
    BY <1>1, <1>2, <1>4, <2>2, <2>3, <2>4 DEF ModuleInv
  <2>6. ~RootSafe /\ ~ConfigSafe
    BY <1>2, <1>4, <2>3 DEF RootSafe, ConfigSafe
  <2> QED
    BY <1>1, <2>2, <2>5, <2>6, ModuleStep
<1> QED
  BY <1>2, <1>3, <1>4

\* The module is loaded.
LEMMA BeginLoadKeeps ==
  ASSUME AdapterInv, BeginLoad
  PROVE  AdapterInv'
<1>1. /\ mod = "absent" /\ mod' = "loading" /\ Jumps("mod", Load) /\ has' = has
      /\ kind' = kind /\ devVars' = devVars /\ volVars' = volVars /\ guest' = guest
  BY DEF BeginLoad
<1>2. has = {} /\ path["mod"] = <<>> /\ Top("mod") = "nothing"
  BY <1>1 DEF AdapterInv, ModuleInv, Top
<1> DEFINE p == Load
<1>3. LoadPath(p) /\ p # <<>> /\ Head(p) = "async"
  BY LoadIs
<1>4. path' = [path EXCEPT !["mod"] = p] /\ path \in [Threads -> Seq(AllNames)] /\ "mod" \in Threads
  BY <1>1 DEF Jumps, AdapterInv, Shapes, Threads
<1> HIDE DEF p
<1>5. p \in Seq(AllNames)
  <2>1. p \in Seq(LoadNames)
    BY <1>3 DEF LoadPath
  <2>2. LoadNames \subseteq AllNames
    BY DEF AllNames
  <2> QED
    BY <2>1, <2>2
<1>6. /\ path' \in [Threads -> Seq(AllNames)] /\ \A u \in Threads \ {"mod"} : path'[u] = path[u]
      /\ path'["mod"] = p
  BY <1>4, <1>5
<1>7. Top("mod")' = "async"
  BY <1>3, <1>6 DEF Top
<1>8. Calm("mod")
  BY <1>2, <1>7 DEF Calm, Tear
<1>9. \A e \in Devs : ~Present(e)'
  BY <1>1, <1>2, <1>6, DevicesThere DEF devVars
<1>10. LoadGot("async") = {}
  BY DEF LoadGot
<1>11. ModuleInv'
  BY <1>1, <1>2, <1>3, <1>6, <1>7, <1>9, <1>10 DEF ModuleInv
<1>12. ~RootSafe /\ ~ConfigSafe
  BY <1>1, <1>2 DEF RootSafe, ConfigSafe
<1> QED
  BY <1>1, <1>6, <1>8, <1>11, <1>12, ModuleStep

\* The module is to go; nobody has its configuration device open.
LEMMA BeginExitKeeps ==
  ASSUME AdapterInv, BeginExit
  PROVE  AdapterInv'
<1>1. /\ mod = "live" /\ guest.op # "config" /\ mod' = "going" /\ Jumps("mod", Exit) /\ has' = has
      /\ kind' = kind /\ devVars' = devVars /\ volVars' = volVars /\ guest' = guest
  BY DEF BeginExit
<1>2. has \subseteq ModObtains /\ "driver" \in has /\ path["mod"] = <<>> /\ Top("mod") = "nothing"
  BY <1>1 DEF AdapterInv, ModuleInv, Top
<1> DEFINE p == Exit
<1>3. UnloadPath(p) /\ p # <<>> /\ Head(p) = "t_begin" /\ \A x \in ModObtains : ModTaker(x) \in Names(p)
  BY ExitIs
<1>4. path' = [path EXCEPT !["mod"] = p] /\ path \in [Threads -> Seq(AllNames)] /\ "mod" \in Threads
  BY <1>1 DEF Jumps, AdapterInv, Shapes, Threads
<1> HIDE DEF p
<1>5. p \in Seq(AllNames)
  <2>1. p \in Seq(UnloadNames)
    BY <1>3 DEF UnloadPath
  <2>2. UnloadNames \subseteq AllNames
    BY DEF AllNames
  <2> QED
    BY <2>1, <2>2
<1>6. /\ path' \in [Threads -> Seq(AllNames)] /\ \A u \in Threads \ {"mod"} : path'[u] = path[u]
      /\ path'["mod"] = p
  BY <1>4, <1>5
<1>7. Top("mod")' = "t_begin"
  BY <1>3, <1>6 DEF Top
<1>8. Calm("mod")
  BY <1>2, <1>7 DEF Calm, Tear
<1>9. ModuleInv'
  BY <1>1, <1>2, <1>3, <1>6 DEF ModuleInv
<1>10. RootSafe => RootSafe'
  BY <1>1, <1>2 DEF RootSafe
<1> QED
  BY <1>1, <1>6, <1>8, <1>9, <1>10, ModuleStep

-----------------------------------------------------------------------------
(* Whoever comes and goes.                                                  *)

\* The invariant is kept by a step of a guest if its own part is.
LEMMA GuestMoves ==
  ASSUME AdapterInv, kind' = kind, devVars' = devVars, path' = path, member' = member,
         disk' = disk, group' = group, armed' = armed, tlock' = tlock, modVars' = modVars, GuestInv'
  PROVE  AdapterInv'
<1>1. /\ bound' = bound /\ held' = held /\ nvec' = nvec /\ ioq' = ioq /\ slots' = slots
      /\ mod' = mod /\ has' = has
  BY DEF devVars, modVars
<1>2. \A e \in Devs : Same(e)
  BY <1>1, SlotsStay DEF Same
<1>3. \A e \in Devs : DeviceInv(e)'
  BY <1>2, Untouched DEF AdapterInv
<1>4. \A t \in Threads : Calm(t)
  BY DEF Calm, Top
<1>5. VolumeInv'
  BY <1>4, VolumeKept DEF AdapterInv
<1>6. ModuleInv'
  BY <1>1, ModuleKept DEF AdapterInv, Present
<1>7. Shapes'
  BY <1>1 DEF AdapterInv, Shapes
<1> QED
  BY <1>3, <1>5, <1>6, <1>7 DEF AdapterInv

\* Who comes to a device finds what it relies on.
LEMMA ComesToDevice ==
  ASSUME AdapterInv, NEW d \in Devs, NEW who, Comes(who),
         who \in [op : GuestOps, dev : {d}, vec : Nat, qs : SUBSET Nat, tags : {FALSE},
                  locked : {FALSE}],
         who.op \in {"irq", "attr", "reset", "dump", "registers"},
         who.op \in {"dump", "registers"} => "debugfs" \in held[d],
         who.op \in {"attr", "reset"} => "sysfs" \in held[d],
         who.op = "reset" => kind[d] = "nvme",
         who.op = "irq" /\ who.vec = 0 => "irq" \in held[d] /\ (1 \notin Vectors => who.qs = {}),
         who.op = "irq" /\ who.vec > 0 =>
           who.qs = {who.vec} /\ who.vec \in ioq[d] /\ "unhooked" \notin held[d]
  PROVE  AdapterInv'
<1>1. /\ guest' = who /\ kind' = kind /\ devVars' = devVars /\ path' = path /\ volVars' = volVars
      /\ modVars' = modVars
  BY DEF Comes
<1>2. held' = held /\ ioq' = ioq /\ member' = member /\ disk' = disk /\ group' = group
      /\ armed' = armed /\ tlock' = tlock
  BY <1>1 DEF devVars, volVars
<1>3. who.dev = d /\ d # NoOne /\ NoOne \notin GuestOps
  BY AdapterAssumption DEF GuestOps
<1>4. guest' \in [op : GuestOps \cup {NoOne}, dev : Devs \cup {NoOne}, vec : Nat,
                  qs : SUBSET Nat, tags : {FALSE}, locked : BOOLEAN]
  BY <1>1
<1>5. guest'.op # NoOne /\ guest'.op \notin {"volattr", "volfile", "config"} /\ guest'.dev # NoOne
  BY <1>1, <1>3
<1>6. /\ guest'.op \in {"dump", "registers"} => DumpSafe(guest.dev)'
      /\ guest'.op \in {"attr", "reset"} => AttrSafe(guest.dev)'
      /\ guest'.op = "reset" => kind'[guest'.dev] = "nvme"
  BY <1>1, <1>2, <1>3 DEF DumpSafe, AttrSafe
<1>7. guest'.op = "irq" /\ guest'.vec = 0 => LineSafe(guest.dev)' /\ (1 \notin Vectors => guest'.qs = {})
  BY <1>1, <1>2, <1>3 DEF LineSafe
<1>8. guest'.op = "irq" /\ guest'.vec > 0 =>
        guest'.qs = {guest'.vec} /\ QueueSafe(guest.dev, guest.vec)'
  BY <1>1, <1>2, <1>3 DEF QueueSafe
<1>9. GuestInv'
  BY <1>1, <1>4, <1>5, <1>6, <1>7, <1>8 DEF GuestInv
<1> QED
  BY <1>1, <1>2, <1>9, GuestMoves

\* Who comes to no device finds the volume, the directory or the module.
LEMMA ComesToNone ==
  ASSUME AdapterInv, NEW op \in {"volattr", "volfile", "config"}, Comes(Enters(op, NoOne)),
         op = "volattr" => VolumeSafe, op = "volfile" => RootSafe, op = "config" => ConfigSafe
  PROVE  AdapterInv'
<1>1. /\ guest' = Enters(op, NoOne) /\ kind' = kind /\ devVars' = devVars /\ path' = path
      /\ volVars' = volVars /\ modVars' = modVars
  BY DEF Comes
<1>2. member' = member /\ disk' = disk /\ group' = group /\ armed' = armed /\ tlock' = tlock
      /\ mod' = mod /\ has' = has
  BY <1>1 DEF volVars, modVars
<1>3. guest' = [op |-> op, dev |-> NoOne, vec |-> 0, qs |-> {}, tags |-> FALSE, locked |-> FALSE]
  BY <1>1 DEF Enters, Nobody
<1>4. NoOne \notin GuestOps
  BY AdapterAssumption DEF GuestOps
<1>5. (VolumeSafe => VolumeSafe') /\ (RootSafe => RootSafe') /\ (ConfigSafe => ConfigSafe')
  BY <1>1, <1>2 DEF VolumeSafe, RootSafe, ConfigSafe, Top
<1>6. GuestInv'
  BY <1>3, <1>4, <1>5 DEF GuestInv, GuestOps
<1> QED
  BY <1>1, <1>2, <1>6, GuestMoves

\* The readers and writers of the files, and the handlers of the interrupts.
LEMMA OpensKeep ==
  ASSUME AdapterInv, NEW d \in Devs, OpenAttr(d) \/ OpenReset(d) \/ OpenDump(d) \/ OpenRegisters(d)
  PROVE  AdapterInv'
<1>2. ASSUME NEW op \in {"attr", "reset", "dump", "registers"}
      PROVE  /\ Enters(op, d) \in [op : GuestOps, dev : {d}, vec : Nat, qs : SUBSET Nat,
                                   tags : {FALSE}, locked : {FALSE}]
             /\ Enters(op, d).op = op
  <2>1. PICK w : w = Enters(op, d)
    OBVIOUS
  <2>2. w = [op |-> op, dev |-> d, vec |-> 0, qs |-> {}, tags |-> FALSE, locked |-> FALSE]
    BY <2>1 DEF Enters, Nobody
  <2>3. op \in GuestOps
    BY DEF GuestOps
  <2> QED
    BY <2>1, <2>2, <2>3
<1>3. CASE OpenAttr(d)
  BY <1>2, <1>3, ComesToDevice DEF OpenAttr
<1>4. CASE OpenReset(d)
  BY <1>2, <1>4, ComesToDevice DEF OpenReset
<1>5. CASE OpenDump(d)
  BY <1>2, <1>5, ComesToDevice DEF OpenDump
<1>6. CASE OpenRegisters(d)
  BY <1>2, <1>6, ComesToDevice DEF OpenRegisters
<1> QED
  BY <1>3, <1>4, <1>5, <1>6

\* rc_hw_interrupt_handler is entered.
LEMMA InterruptKeeps ==
  ASSUME AdapterInv, NEW d \in Devs, Interrupt(d)
  PROVE  AdapterInv'
<1>1. PICK who : who = [Enters("irq", d) EXCEPT !.qs = Shared(d)] /\ Comes(who) /\ "irq" \in held[d]
  BY DEF Interrupt
<1>2. who = [op |-> "irq", dev |-> d, vec |-> 0, qs |-> Shared(d), tags |-> FALSE, locked |-> FALSE]
  BY <1>1 DEF Enters, Nobody
<1>3. nvec[d] \in {0} \cup Vectors /\ ioq[d] \in SUBSET Nat
  BY DEF AdapterInv, DeviceInv, OwnInv
<1>4. Shared(d) \in SUBSET Nat /\ (1 \notin Vectors => Shared(d) = {})
  BY <1>3 DEF Shared
<1>5. who \in [op : GuestOps, dev : {d}, vec : Nat, qs : SUBSET Nat, tags : {FALSE}, locked : {FALSE}]
  BY <1>2, <1>4 DEF GuestOps
<1>6. who.op = "irq" /\ ~(who.vec > 0) /\ who.qs = Shared(d)
  BY <1>2
<1> QED
  BY <1>1, <1>4, <1>5, <1>6, ComesToDevice

\* rc_nvme_io_queue_irq is entered.
LEMMA QueueInterruptKeeps ==
  ASSUME Admit = {}, AdapterInv, NEW d \in Devs, QueueInterrupt(d)
  PROVE  AdapterInv'
<1>1. PICK q \in ioq[d] :
        Comes([Enters("irq", d) EXCEPT !.vec = q, !.qs = {q}, !.tags = disk /\ "tags" \in Admit])
  BY DEF QueueInterrupt
<1>2. PICK who :
        /\ who = [Enters("irq", d) EXCEPT !.vec = q, !.qs = {q}, !.tags = disk /\ "tags" \in Admit]
        /\ Comes(who) /\ "unhooked" \notin held[d]
  BY <1>1 DEF QueueInterrupt
<1>3. (disk /\ "tags" \in Admit) = FALSE
  OBVIOUS
<1>4. who = [op |-> "irq", dev |-> d, vec |-> q, qs |-> {q}, tags |-> FALSE, locked |-> FALSE]
  BY <1>2, <1>3 DEF Enters, Nobody
<1>5. q \in Nat \ {0}
  BY DEF AdapterInv, DeviceInv, OwnInv
<1>6. who \in [op : GuestOps, dev : {d}, vec : Nat, qs : SUBSET Nat, tags : {FALSE}, locked : {FALSE}]
  BY <1>4, <1>5 DEF GuestOps
<1>7. who.op = "irq" /\ who.vec = q /\ who.qs = {q}
  BY <1>4
<1> QED
  BY <1>2, <1>5, <1>6, <1>7, ComesToDevice

\* The files of the volume and of the module.
LEMMA VolumeOpensKeep ==
  ASSUME AdapterInv, OpenVolumeAttr \/ OpenVolumeFile \/ OpenConfig
  PROVE  AdapterInv'
<1>1. CASE OpenVolumeAttr
  <2>1. group /\ Comes(Enters("volattr", NoOne))
    BY <1>1 DEF OpenVolumeAttr
  <2>2. VolumeSafe
    BY <2>1 DEF AdapterInv, VolumeInv, VolumeSafe, Tear
  <2> QED
    BY <2>1, <2>2, ComesToNone
<1>2. CASE OpenVolumeFile
  <2>1. RootSafe /\ Comes(Enters("volfile", NoOne))
    BY <1>2 DEF OpenVolumeFile, RootSafe
  <2> QED
    BY <2>1, ComesToNone
<1>3. CASE OpenConfig
  <2>1. "misc" \in has /\ mod # "going" /\ Comes(Enters("config", NoOne))
    BY <1>3 DEF OpenConfig
  <2>2. mod \in {"absent", "loading", "live", "going"} /\ (mod = "absent" => has = {})
        /\ (mod = "loading" => has \ {"root"} = LoadGot(Top("mod")) /\ path["mod"] # <<>>)
    BY DEF AdapterInv, ModuleInv
  <2>3. mod = "loading" => Top("mod") = "loaded"
    <3>1. mod = "loading" => Top("mod") \in LoadNames
      BY <2>2, ModWhich
    <3>2. mod = "loading" => "misc" \in LoadGot(Top("mod"))
      BY <2>1, <2>2
    <3> QED
      BY <3>1, <3>2 DEF LoadNames, LoadGot
  <2>4. ConfigSafe
    BY <2>1, <2>2, <2>3 DEF ConfigSafe
  <2> QED
    BY <2>1, <2>4, ComesToNone
<1> QED
  BY <1>1, <1>2, <1>3

\* A reader of the volume takes rc_volume_lock.
LEMMA ReadLockKeeps ==
  ASSUME AdapterInv, ReadLock
  PROVE  AdapterInv'
<1>1. /\ guest' = [guest EXCEPT !.locked = TRUE] /\ guest.op \in {"volattr", "volfile"}
      /\ kind' = kind /\ devVars' = devVars /\ path' = path /\ member' = member
      /\ disk' = disk /\ group' = group /\ armed' = armed /\ tlock' = tlock /\ modVars' = modVars
  BY DEF ReadLock, OnVolume
<1>2. guest \in [op : GuestOps \cup {NoOne}, dev : Devs \cup {NoOne}, vec : Nat,
                 qs : SUBSET Nat, tags : {FALSE}, locked : BOOLEAN]
  BY DEF AdapterInv, GuestInv
<1>3. /\ guest' \in [op : GuestOps \cup {NoOne}, dev : Devs \cup {NoOne}, vec : Nat,
                     qs : SUBSET Nat, tags : {FALSE}, locked : BOOLEAN]
      /\ guest'.op = guest.op /\ guest'.dev = guest.dev
  BY <1>1, <1>2
<1>4. (VolumeSafe => VolumeSafe') /\ (RootSafe => RootSafe') /\ NoOne \notin GuestOps
  BY <1>1, AdapterAssumption DEF VolumeSafe, RootSafe, Top, modVars, GuestOps
<1>5. guest.dev = NoOne /\ (guest.op = "volattr" => VolumeSafe) /\ (guest.op = "volfile" => RootSafe)
  BY <1>1 DEF AdapterInv, GuestInv
<1>6. GuestInv'
  BY <1>1, <1>3, <1>4, <1>5 DEF GuestInv, GuestOps
<1> QED
  BY <1>1, <1>6, GuestMoves

\* Whoever was inside is gone.
LEMMA ExitsKeeps ==
  ASSUME AdapterInv, Exits
  PROVE  AdapterInv'
<1>1. /\ guest' = Nobody
      /\ kind' = kind /\ devVars' = devVars /\ path' = path /\ member' = member
      /\ disk' = disk /\ group' = group /\ armed' = armed /\ tlock' = tlock /\ modVars' = modVars
  BY DEF Exits
<1>2. NoOne \notin GuestOps
  BY AdapterAssumption DEF GuestOps
<1>3. GuestInv'
  BY <1>1, <1>2 DEF GuestInv, GuestOps, Nobody
<1> QED
  BY <1>1, <1>3, GuestMoves

-----------------------------------------------------------------------------
(* The theorems.                                                            *)

\* At the start nothing is there.
LEMMA AdapterStarts == AdapterInit => AdapterInv
<1> SUFFICES ASSUME AdapterInit PROVE AdapterInv
  OBVIOUS
<1>1. PICK rig \in Rigs :
        /\ kind = rig.kind
        /\ slots = [i \in 1 .. Slots |-> IF i <= rig.taken THEN Other ELSE NoOne]
  BY DEF AdapterInit
<1>2. /\ bound = {} /\ path = [t \in Threads |-> <<>>]
      /\ held = [d \in Devs |-> {}] /\ nvec = [d \in Devs |-> 0] /\ ioq = [d \in Devs |-> {}]
      /\ member = {} /\ disk = FALSE /\ group = FALSE /\ armed = FALSE /\ tlock = NoOne
      /\ mod = "absent" /\ has = {} /\ guest = Nobody
  BY DEF AdapterInit
<1>3. kind \in [Devs -> {"nvme", "ahci"}]
  BY <1>1, AdapterAssumption
<1>4. slots \in [1 .. Slots -> {NoOne, Other}]
  BY <1>1
<1>5. Shapes
  BY <1>2, <1>3, <1>4 DEF Shapes
<1>6. \A t \in Threads : path[t] = <<>> /\ Top(t) = "nothing"
  BY <1>2 DEF Top
<1>7. \A d \in Devs : ~InSlot(d)
  BY <1>4, AdapterAssumption DEF InSlot
<1>8. \A d \in Devs : DeviceInv(d)
  <2> SUFFICES ASSUME NEW d \in Devs PROVE DeviceInv(d)
    OBVIOUS
  <2>1. d \in Threads
    BY DEF Threads
  <2>2. path[d] = <<>> /\ Top(d) = "nothing" /\ held[d] = {} /\ nvec[d] = 0 /\ ioq[d] = {}
    BY <1>2, <1>6, <2>1
  <2>3. ProbeInv(d) /\ LeaveInv(d)
    BY <2>2 DEF ProbeInv, LeaveInv, ProbeNames
  <2>4. RestInv(d)
    BY <1>2, <1>7, <2>2 DEF RestInv
  <2>5. OwnInv(d)
    BY <1>2, <2>2 DEF OwnInv
  <2> QED
    BY <2>3, <2>4, <2>5 DEF DeviceInv
<1>9. GuestInv
  <2>1. NoOne \notin GuestOps
    BY AdapterAssumption DEF GuestOps
  <2> QED
    BY <1>2, <2>1 DEF GuestInv, GuestOps, Nobody
<1>10. VolumeInv
  <2>1. \A t \in Threads : Top(t) \notin Tear /\ ~Dropping(t) /\ t # NoOne
    <3>1. \A t \in Threads : Top(t) \notin Tear
      BY <1>6 DEF Tear
    <3>2. \A t \in Threads : ~Dropping(t)
      BY <1>6 DEF Dropping, At
    <3> QED
      BY <3>1, <3>2, AdapterAssumption DEF Threads
  <2>2. Devs \subseteq Threads
    BY DEF Threads
  <2> QED
    BY <1>2, <2>1, <2>2 DEF VolumeInv
<1>11. ModuleInv
  <2>1. \A d \in Devs : ~Present(d)
    BY <1>2, <1>6 DEF Present, Threads
  <2>2. path["mod"] = <<>>
    BY <1>6 DEF Threads
  <2> QED
    BY <1>2, <2>1, <2>2 DEF ModuleInv
<1> QED
  BY <1>5, <1>8, <1>9, <1>10, <1>11 DEF AdapterInv

\* A step that changes nothing keeps the invariant.
LEMMA StillKeeps ==
  ASSUME AdapterInv, UNCHANGED adapterVars
  PROVE  AdapterInv'
<1>1. /\ kind' = kind /\ devVars' = devVars /\ path' = path /\ member' = member
      /\ disk' = disk /\ group' = group /\ armed' = armed /\ tlock' = tlock /\ modVars' = modVars
      /\ guest' = guest
  BY DEF adapterVars, volVars
<1>2. held' = held /\ ioq' = ioq /\ mod' = mod /\ has' = has
  BY <1>1 DEF devVars, modVars
<1>3. GuestInv'
  <2>1. \A e \in Devs : GuestStep(e)
    BY <1>1, <1>2 DEF GuestStep, DumpSafe, AttrSafe, LineSafe, QueueSafe, Top
  <2>2. (VolumeSafe => VolumeSafe') /\ (RootSafe => RootSafe') /\ (ConfigSafe => ConfigSafe')
    BY <1>1, <1>2 DEF VolumeSafe, RootSafe, ConfigSafe, Top
  <2> QED
    BY <1>1, <2>1, <2>2, GuestKept DEF AdapterInv
<1> QED
  BY <1>1, <1>3, GuestMoves

\* Every step keeps the invariant.
LEMMA AdapterKeeps ==
  ASSUME Admit = {}, AdapterInv, [AdapterNext]_adapterVars
  PROVE  AdapterInv'
<1>1. ASSUME NEW t \in Threads, Moves(t)
      PROVE  AdapterInv'
  <2>1. CASE TearingDown(t)
    BY <2>1, TeardownBeginKeeps, UngroupKeeps, AwaitReadersKeeps, LockVolumeKeeps, DismantleKeeps,
       TeardownEndKeeps DEF TearingDown
  <2>2. CASE t = "mod" /\ Module
    BY <2>2, LoadStepKeeps, LoadFailsKeeps, ModWaitKeeps, UnloadStepKeeps, LoadEndsKeeps DEF Module
  <2>3. CASE t # "mod" /\ Probing(t)
    <3>1. t \in Devs
      BY <2>3 DEF Threads
    <3> QED
      BY <2>3, <3>1, ProbeStepKeeps, ProbeFailsKeeps, SetupInterruptsKeeps, CreateIoQueuesKeeps,
         RegisterKeeps, AttachKeeps, CreateDebugfsKeeps DEF Probing
  <2>4. CASE t # "mod" /\ Removing(t)
    <3>1. t \in Devs
      BY <2>4 DEF Threads
    <3> QED
      BY <2>4, <3>1, RemovalStepKeeps, RemoveWaitKeeps, UnhookQueuesKeeps, FreeQueuesKeeps,
         DetachAdapterKeeps, LeaveKeeps, PartKeeps, DropKeeps DEF Removing
  <2> QED
    BY <1>1, <2>1, <2>2, <2>3, <2>4 DEF Moves
<1>2. ASSUME NEW d \in Devs,
             BeginProbe(d) \/ BeginRemove(d) \/ Interrupt(d) \/ QueueInterrupt(d) \/ OpenAttr(d)
             \/ OpenReset(d) \/ OpenDump(d) \/ OpenRegisters(d)
      PROVE  AdapterInv'
  BY <1>2, BeginProbeKeeps, BeginRemoveKeeps, InterruptKeeps, QueueInterruptKeeps, OpensKeep
<1>3. CASE BeginLoad \/ BeginExit \/ Timer
  BY <1>3, BeginLoadKeeps, BeginExitKeeps, TimerKeeps
<1>4. CASE OpenVolumeAttr \/ OpenVolumeFile \/ OpenConfig \/ ReadLock \/ Exits
  BY <1>4, VolumeOpensKeep, ReadLockKeeps, ExitsKeeps
<1>5. CASE UNCHANGED adapterVars
  BY <1>5, StillKeeps
<1> QED
  BY <1>1, <1>2, <1>3, <1>4, <1>5 DEF AdapterNext

\* So the invariant always holds.
THEOREM AdapterInvariant ==
  ASSUME Admit = {} PROVE AdapterSpec => []AdapterInv
<1>1. AdapterInv /\ [AdapterNext]_adapterVars => AdapterInv'
  BY AdapterKeeps
<1> QED
  BY <1>1, AdapterStarts, PTL DEF AdapterSpec

\* What is not on its way holds nothing, and a module that has gone has left nothing.
LEMMA LeftNothing == AdapterInv => NothingLeft
<1> SUFFICES ASSUME AdapterInv PROVE NothingLeft
  OBVIOUS
<1>1. ASSUME NEW d \in Devs, ~Present(d)
      PROVE  held[d] = {} /\ ioq[d] = {} /\ d \notin member /\ \A i \in 1 .. Slots : slots[i] # d
  BY <1>1 DEF Present, AdapterInv, DeviceInv, RestInv, InSlot
<1>2. ASSUME mod = "absent"
      PROVE  /\ has = {} /\ bound = {} /\ ~armed /\ ~disk /\ guest = Nobody
             /\ \A d \in Devs : path[d] = <<>>
  <2>1. has = {} /\ path["mod"] = <<>> /\ Top("mod") = "nothing"
    BY <1>2 DEF AdapterInv, ModuleInv, Top
  <2>2. \A d \in Devs : ~Present(d)
    BY <2>1 DEF AdapterInv, ModuleInv
  <2>3. \A d \in Devs : path[d] = <<>> /\ d \notin bound /\ Top(d) = "nothing"
    BY <2>2 DEF Present, Top
  <2>4. bound = {}
    BY <2>3 DEF AdapterInv, Shapes
  <2>5. member = {}
    BY <1>1, <2>2 DEF AdapterInv, VolumeInv
  <2>6. ~armed /\ ~disk
    BY <2>5 DEF AdapterInv, VolumeInv
  <2>7. \A d \in Devs : held[d] = {} /\ ioq[d] = {}
    BY <1>1, <2>2
  <2>8. \A d \in Devs : ~DumpSafe(d) /\ ~AttrSafe(d) /\ ~LineSafe(d) /\ \A q : ~QueueSafe(d, q)
    BY <2>3, <2>7 DEF DumpSafe, AttrSafe, LineSafe, QueueSafe
  <2>9. ~VolumeSafe /\ ~RootSafe /\ ~ConfigSafe
    BY <1>2, <2>1, <2>6 DEF VolumeSafe, RootSafe, ConfigSafe
  <2>10. guest.op = NoOne
    <3>1. /\ guest.op \in GuestOps \cup {NoOne} /\ guest.dev \in Devs \cup {NoOne} /\ guest.vec \in Nat
          /\ guest.op \in {"irq", "attr", "reset", "dump", "registers"} => guest.dev # NoOne
          /\ guest.op \in {"dump", "registers"} => DumpSafe(guest.dev)
          /\ guest.op \in {"attr", "reset"} => AttrSafe(guest.dev)
          /\ guest.op = "irq" /\ guest.vec = 0 => LineSafe(guest.dev)
          /\ guest.op = "irq" /\ guest.vec > 0 => QueueSafe(guest.dev, guest.vec)
          /\ guest.op \notin {"volattr", "volfile", "config"}
      BY <2>9 DEF AdapterInv, GuestInv
    <3> QED
      BY <2>8, <3>1 DEF GuestOps
  <2>11. guest = Nobody
    BY <2>10 DEF AdapterInv, GuestInv
  <2> QED
    BY <2>1, <2>3, <2>4, <2>6, <2>11
<1> QED
  BY <1>1, <1>2 DEF NothingLeft

\* A device is whole as long as one can enter by it.
LEMMA StillWhole ==
  ASSUME NEW d, DeviceInv(d),
         \/ held[d] \cap {"debugfs", "sysfs", "irq"} # {} \/ ioq[d] # {}
         \/ Top(d) \in Waits
  PROVE  {"adapter", "bars"} \subseteq held[d]
<1>1. CASE Top(d) \in ProbeNames
  <2>1. /\ held[d] = Got(d, Top(d))
        /\ ioq[d] # {} => Top(d) \in {"register", "attach", "sysfs", "debugfs"}
    BY <1>1 DEF DeviceInv, ProbeInv
  <2>2. Top(d) \notin Waits
    BY <1>1 DEF ProbeNames, Waits
  <2>3. Got(d, Top(d)) \cap {"debugfs", "sysfs", "irq"} # {} => {"adapter", "bars"} \subseteq Got(d, Top(d))
    BY <1>1 DEF ProbeNames, Got, Whole, Common
  <2>4. Top(d) \in {"register", "attach", "sysfs", "debugfs"} => {"adapter", "bars"} \subseteq Got(d, Top(d))
    BY DEF Got, Whole, Common
  <2> QED
    BY <2>1, <2>2, <2>3, <2>4
<1>2. CASE path[d] # <<>> /\ Top(d) \notin ProbeNames
  <2>1. /\ Tidy(path[d]) /\ \A x \in held[d] : Taker(x) \in Names(path[d])
        /\ ioq[d] # {} => "q_free" \in Names(path[d])
        /\ Top(d) \notin Last => {"adapter", "bars", "vectors"} \subseteq held[d]
    BY <1>2 DEF DeviceInv, LeaveInv
  <2>2. Top(d) \in Last => Names(path[d]) \subseteq Last
    BY <1>2, <2>1, TidyTail DEF Top
  <2>3. Top(d) \notin Last
    BY <2>1, <2>2 DEF Last, Taker, Waits
  <2> QED
    BY <2>1, <2>3
<1>3. CASE path[d] = <<>>
  <2>1. Top(d) = "nothing"
    BY <1>3 DEF Top
  <2> QED
    BY <1>3, <2>1 DEF DeviceInv, RestInv, Whole, Common, Waits
<1> QED
  BY <1>1, <1>2, <1>3

\* And its controller is, as long as its attributes are.
LEMMA StillResets ==
  ASSUME NEW d, DeviceInv(d), AttrSafe(d), kind[d] = "nvme"
  PROVE  "admin" \in held[d] /\ ioq[d] # {}
<1>1. CASE Top(d) \in ProbeNames
  <2>1. /\ held[d] = Got(d, Top(d))
        /\ ioq[d] # {} <=> Top(d) \in {"register", "attach", "sysfs", "debugfs"}
    BY <1>1 DEF DeviceInv, ProbeInv
  <2>2. "sysfs" \in Got(d, Top(d))
    BY <1>1, <2>1 DEF AttrSafe, ProbeNames
  <2>3. Top(d) = "debugfs"
    BY <1>1, <2>2 DEF ProbeNames, Got, Whole, Common
  <2> QED
    BY <2>1, <2>3 DEF Got, Whole
<1>2. CASE path[d] # <<>> /\ Top(d) \notin ProbeNames
  <2>1. /\ Tidy(path[d]) /\ \A x \in held[d] : Taker(x) \in Names(path[d])
        /\ Top(d) \in Early => "admin" \in held[d] /\ ioq[d] # {}
        /\ Top(d) = Head(path[d])
    BY <1>2 DEF DeviceInv, LeaveInv, Top
  <2>2. Top(d) \in Early
    <3>1. CASE Top(d) = "sysfs_wait"
      BY <3>1 DEF Early
    <3>2. CASE "sysfs" \in held[d]
      <4>1. "unsysfs" \in Names(path[d])
        BY <2>1, <3>2 DEF Taker
      <4>2. PICK i \in 1 .. Len(path[d]) : path[d][i] = "unsysfs"
        BY <4>1 DEF Names
      <4>3. path[d] \in Seq(LeaveNames)
        BY <2>1 DEF Tidy
      <4>4. Len(path[d]) \in Nat \ {0} /\ Head(path[d]) = path[d][1] /\ 1 \in 1 .. Len(path[d])
        BY <1>2, <4>3, TailIs
      <4>5. i = 1 \/ 1 < i
        BY <4>4
      <4> QED
        BY <2>1, <4>2, <4>4, <4>5 DEF Tidy, Sorted, Early
    <3> QED
      BY <3>1, <3>2 DEF AttrSafe
  <2> QED
    BY <2>1, <2>2
<1>3. CASE path[d] = <<>>
  <2>1. Top(d) = "nothing"
    BY <1>3 DEF Top
  <2> QED
    BY <1>3, <2>1 DEF DeviceInv, RestInv, Whole, AttrSafe
<1> QED
  BY <1>1, <1>2, <1>3

\* Whoever is inside finds what it touches.
LEMMA GoneNothing ==
  ASSUME AdapterInv, 1 \notin Vectors
  PROVE  NothingGone
<1>1. /\ guest.dev \in Devs \cup {NoOne} /\ guest.op \in GuestOps \cup {NoOne} /\ guest.vec \in Nat
      /\ guest.tags = FALSE
      /\ guest.op = NoOne => guest = Nobody
      /\ guest.op \in {"irq", "attr", "reset", "dump", "registers"} <=> guest.dev # NoOne
      /\ guest.op \in {"dump", "registers"} => DumpSafe(guest.dev)
      /\ guest.op \in {"attr", "reset"} => AttrSafe(guest.dev)
      /\ guest.op = "reset" => kind[guest.dev] = "nvme"
      /\ guest.op = "irq" /\ guest.vec = 0 => LineSafe(guest.dev) /\ guest.qs = {}
      /\ guest.op = "irq" /\ guest.vec > 0 => guest.qs = {guest.vec} /\ QueueSafe(guest.dev, guest.vec)
  BY DEF AdapterInv, GuestInv
<1>2. \A d \in Devs : DeviceInv(d)
  BY DEF AdapterInv
<1>3. ASSUME guest.dev # NoOne
      PROVE  {"adapter", "bars"} \subseteq held[guest.dev]
  <2>1. guest.dev \in Devs /\ DeviceInv(guest.dev)
    BY <1>1, <1>2, <1>3
  <2>2. DumpSafe(guest.dev) \/ AttrSafe(guest.dev) \/ LineSafe(guest.dev) \/ \E q : QueueSafe(guest.dev, q)
    BY <1>1, <1>3
  <2> QED
    BY <2>1, <2>2, StillWhole DEF DumpSafe, AttrSafe, LineSafe, QueueSafe, Waits
<1>4. guest.op \in {"irq", "registers"} => "bars" \in held[guest.dev]
  BY <1>1, <1>3
<1>5. guest.op = "irq" => guest.qs \subseteq ioq[guest.dev] /\ (guest.tags => disk)
  BY <1>1 DEF QueueSafe
<1>6. guest.op = "reset" => "admin" \in held[guest.dev] /\ ioq[guest.dev] # {}
  BY <1>1, <1>2, StillResets
<1>7. \A d \in member : {"adapter", "bars", "admin"} \subseteq held[d] /\ ioq[d] # {}
  BY <1>2 DEF AdapterInv, VolumeInv, DeviceInv, OwnInv
<1>8. \A d \in Devs :
        /\ Dropping(d) => disk
        /\ nvec[d] > 1 => \A q \in ioq[d] : q < nvec[d]
        /\ "irq" \in held[d] => "vectors" \in held[d]
        /\ "on" \in held[d] => "admin" \in held[d]
  BY <1>2 DEF AdapterInv, VolumeInv, DeviceInv, OwnInv
<1> QED
  BY <1>3, <1>4, <1>5, <1>6, <1>7, <1>8 DEF NothingGone

\* rc_bottom_probe, rc_bottom_remove, rc_init and rc_exit return all they obtain, whatever fails and
\* whoever interferes.
THEOREM AlwaysNothingLeft ==
  ASSUME Admit = {} PROVE AdapterSpec => []NothingLeft
BY AdapterInvariant, LeftNothing, PTL

\* Nobody inside the driver, and no member of the volume, loses what it is about to touch; with a
\* vector of its own for every queue.
THEOREM AlwaysNothingGone ==
  ASSUME Admit = {}, 1 \notin Vectors PROVE AdapterSpec => []NothingGone
<1>1. AdapterInv => NothingGone
  BY GoneNothing
<1> QED
  BY <1>1, AdapterInvariant, PTL
=============================================================================
