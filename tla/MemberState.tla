----------------------------- MODULE MemberState ----------------------------
(* The states of the members of a RAID1 or RAID10 volume, their two masks,   *)
(* and the rebuild scheduler, store by store (src/src/rc_nvme.c).            *)
(* rc_volume_member_mark_failed takes no lock and runs between any two of    *)
(* the stores.  The partner of each modelled member stays live: without it   *)
(* the volume would be torn down, which is not modelled.                     *)
EXTENDS Integers, FiniteSets

CONSTANTS
  Members,    \* slots, in the order of the scheduler's scan
  Failers,    \* contexts that may call mark_failed
  Copiers,    \* kernel threads that may run rc_volume_resync_fn
  None,
  Total,      \* chunks of a copy
  Races,      \* "second_copier": a rebuild may start while a removal still waits
              \* for the thread it has taken out of the scheduler's sight;
              \* "slow_failer": a mark_failed call may outlast a whole copy;
              \* "failed_start": a rebuild's thread may not be created although
              \* its member has been failed since it was picked
  MaxEvents   \* bound: failures of members, copies and threads, and removals

ASSUME MemberAssumption ==
  /\ Members \subseteq Nat /\ IsFiniteSet(Members) /\ IsFiniteSet(Copiers)
  /\ None \notin Members \cup Failers \cup Copiers
  /\ None \notin {"admit", "work", "remover"}
  /\ Copiers \cap {"admit", "work", "remover"} = {}
  /\ Races \subseteq {"second_copier", "slow_failer", "failed_start"}
  /\ Total \in Nat \ {0} /\ MaxEvents \in Nat

VARIABLES
  state,      \* rc_volume_member_state[]
  live,       \* rc_volume_live_mask
  write,      \* rc_volume_write_mask
  present,    \* slots whose rc_volume_members[] entry is set
  lock,       \* who holds rc_volume_lock
  set,        \* the rc_volume_member_set_state under way, if any
  failer,     \* mark_failed calls
  nudged,     \* rc_volume_rebuild_work is queued
  work,       \* rc_volume_rebuild_fn: "idle", "reap", "start" or "park"
  thread,     \* rc_volume_resync_thread
  done,       \* rc_volume_resync_done
  copier,     \* the resync threads
  window,     \* rc_volume_resync_window: the thread that has published it
  remover,    \* rc_volume_remove_member: pc and slot
  events,     \* failures and removals so far
  disturbed   \* history: the last rebuild has ended without success, and no
              \* member has come back since

maskVars  == <<state, live, write>>
schedVars == <<nudged, work, thread, done>>
vars == <<maskVars, present, lock, set, failer, schedVars, copier, window, remover,
          events, disturbed>>

States == {"LIVE", "FAILED", "NEEDS_RESYNC", "RESYNCING"}
Served == {"LIVE", "RESYNCING"}

NoSet    == [pc |-> "none", m |-> None, st |-> "FAILED"]
NoFail   == [pc |-> "none", m |-> None, old |-> "FAILED"]
NoCopy   == [pc |-> "none", m |-> None, at |-> 0, stop |-> FALSE, ok |-> FALSE]

Event == events < MaxEvents /\ events' = events + 1

(* rc_volume_member_set_state, whose caller holds rc_volume_lock.           *)

\* The state array first; the masks follow.
Store(m, st) ==
  /\ state' = [state EXCEPT ![m] = st]
  /\ set' = [pc |-> "live", m |-> m, st |-> st]

SetLive ==
  /\ set.pc = "live"
  /\ live' = IF set.st = "LIVE" THEN live \cup {set.m} ELSE live \ {set.m}
  /\ set' = [set EXCEPT !.pc = "write"]
  /\ UNCHANGED <<state, write>>

SetWrite ==
  /\ set.pc = "write"
  /\ write' = IF set.st \in Served THEN write \cup {set.m} ELSE write \ {set.m}
  /\ set' = IF set.st \in Served THEN [set EXCEPT !.pc = "recheck"] ELSE NoSet
  /\ UNCHANGED <<state, live>>

\* A failure may have landed between the state store and the masks.
SetRecheck ==
  /\ set.pc = "recheck"
  /\ set' = IF state[set.m] = "FAILED" THEN [set EXCEPT !.pc = "undo"] ELSE NoSet
  /\ UNCHANGED maskVars

SetUndo ==
  \/ set.pc = "undo" /\ live' = live \ {set.m} /\ set' = [set EXCEPT !.pc = "undo_write"]
     /\ UNCHANGED <<state, write>>
  \/ set.pc = "undo_write" /\ write' = write \ {set.m} /\ set' = NoSet
     /\ UNCHANGED <<state, live>>

SetStep ==
  /\ SetLive \/ SetWrite \/ SetRecheck \/ SetUndo
  /\ UNCHANGED <<present, lock, failer, schedVars, copier, window, remover, events,
                 disturbed>>

(* rc_volume_member_mark_failed, from an interrupt, a timeout, a dispatch or *)
(* the operator.                                                            *)

FailStart(f, m) ==
  /\ failer[f].pc = "none" /\ m \in present /\ Event
  /\ write' = write \ {m}
  /\ failer' = [failer EXCEPT ![f] = [pc |-> "fetch", m |-> m, old |-> "FAILED"]]
  /\ UNCHANGED <<state, live>>

\* atomic_fetch_andnot tells whether the member was live.
FailFetch(f) ==
  LET m == failer[f].m IN
  /\ failer[f].pc = "fetch"
  /\ live' = live \ {m}
  /\ failer' = [failer EXCEPT ![f].pc = IF m \in live THEN "store" ELSE "read"]
  /\ UNCHANGED <<state, write, events>>

\* It was: the store is unconditional.
FailStore(f) ==
  /\ failer[f].pc = "store"
  /\ state' = [state EXCEPT ![failer[f].m] = "FAILED"]
  /\ failer' = [failer EXCEPT ![f] = NoFail]
  /\ UNCHANGED <<live, write, events>>

\* Mutant: a member that has just become live is not looked at.
FailReadRebuilding(f) ==
  /\ failer[f].pc = "read"
  /\ failer' = [failer EXCEPT ![f] = IF state[failer[f].m] = "RESYNCING"
                                     THEN [@ EXCEPT !.pc = "swap", !.old = "RESYNCING"]
                                     ELSE NoFail]
  /\ UNCHANGED <<maskVars, events>>

\* It was not: the failure still lands if the state says so.
FailRead(f) ==
  /\ failer[f].pc = "read"
  /\ LET old == state[failer[f].m] IN
     failer' = [failer EXCEPT ![f] = IF old \in Served
                                     THEN [@ EXCEPT !.pc = "swap", !.old = old] ELSE NoFail]
  /\ UNCHANGED <<maskVars, events>>

\* The cmpxchg, again with what it finds until it succeeds or has no cause to.
FailSwap(f) ==
  LET m == failer[f].m
      got == state[m] IN
  /\ failer[f].pc = "swap"
  /\ IF got = failer[f].old
     THEN /\ state' = [state EXCEPT ![m] = "FAILED"]
          /\ failer' = [failer EXCEPT ![f].pc = "clear_write"]
     ELSE /\ UNCHANGED state
          /\ failer' = [failer EXCEPT ![f] = IF got \in Served
                                             THEN [@ EXCEPT !.old = got] ELSE NoFail]
  /\ UNCHANGED <<live, write, events>>

FailClear(f) ==
  LET m == failer[f].m IN
  /\ \/ /\ failer[f].pc = "clear_write" /\ write' = write \ {m} /\ UNCHANGED live
        /\ failer' = [failer EXCEPT ![f].pc = "clear_live"]
     \/ /\ failer[f].pc = "clear_live" /\ live' = live \ {m} /\ UNCHANGED write
        /\ failer' = [failer EXCEPT ![f] = NoFail]
  /\ UNCHANGED <<state, events>>

FailStep(f) ==
  /\ \/ FailFetch(f) \/ FailStore(f) \/ FailRead(f) \/ FailSwap(f) \/ FailClear(f)
     \/ \E m \in Members : FailStart(f, m)
  /\ UNCHANGED <<present, lock, set, schedVars, copier, window, remover, disturbed>>

Failing(m) == \E f \in Failers : failer[f].m = m

(* Re-admission.                                                            *)

\* rc_nvme_reset_controller has brought a failed member back, or its drive is
\* plugged in again: parked, and the scheduler is nudged.  A reset and a removal
\* wait for the contexts that may be failing the member.
Readmit(m) ==
  /\ lock = None /\ state[m] = "FAILED" /\ ~Failing(m)
  /\ remover.m # m
  /\ lock' = "admit"
  /\ present' = present \cup {m}
  /\ Store(m, "NEEDS_RESYNC")
  /\ UNCHANGED <<live, write, failer, schedVars, copier, window, remover, events, disturbed>>

ReadmitDone ==
  /\ lock = "admit" /\ set = NoSet
  /\ nudged' = TRUE /\ lock' = None /\ disturbed' = FALSE
  /\ UNCHANGED <<maskVars, present, set, failer, work, thread, done, copier, window,
                 remover, events>>

(* rc_volume_rebuild_fn.                                                    *)

\* Mutant: the lock is not taken.
WorkBeginUnlocked ==
  /\ nudged /\ work = "idle"
  /\ thread = None \/ done
  /\ nudged' = FALSE /\ work' = "reap"
  /\ UNCHANGED <<maskVars, present, lock, set, failer, thread, done, copier, window,
                 remover, events, disturbed>>

\* A thread that has finished is reaped first; a running one is left alone.
WorkBegin ==
  /\ nudged /\ work = "idle" /\ lock = None
  /\ remover.t # None => "second_copier" \in Races
  /\ nudged' = FALSE
  /\ IF thread # None /\ ~done
     THEN UNCHANGED <<lock, work, copier>>
     ELSE /\ lock' = "work" /\ work' = "reap"
          /\ copier' = IF thread = None THEN copier
                       ELSE [copier EXCEPT ![thread].stop = TRUE]
  /\ UNCHANGED <<maskVars, present, set, failer, thread, done, window, remover, events,
                 disturbed>>

Parked == {m \in present : state[m] = "NEEDS_RESYNC"}

\* A thread nobody waits for any more.
Free(c) == copier[c].pc = "none" /\ c # remover.t

\* kthread_stop returns when the thread has exited; then the first parked member
\* is picked.
WorkPick ==
  /\ work = "reap"
  /\ thread # None => copier[thread].pc = "none"
  /\ thread' = None
  /\ done' = (done /\ thread = None)
  /\ IF Parked = {}
     THEN work' = "idle" /\ lock' = None /\ UNCHANGED <<state, set, copier>>
     ELSE LET pick == CHOOSE m \in Parked : \A n \in Parked : m <= n IN
          /\ work' = "start" /\ UNCHANGED lock
          /\ Store(pick, "RESYNCING")
          /\ \E c \in Copiers :
               Free(c) /\ copier' = [copier EXCEPT ![c] = [NoCopy EXCEPT !.pc = "new", !.m = pick]]
  /\ UNCHANGED <<live, write, present, failer, nudged, window, remover, events,
                 disturbed>>

\* kthread_run.
WorkStart ==
  /\ work = "start" /\ set = NoSet
  /\ \E c \in Copiers :
       /\ copier[c].pc = "new"
       /\ copier' = [copier EXCEPT ![c].pc = "check"]
       /\ thread' = c
  /\ done' = FALSE /\ work' = "idle" /\ lock' = None
  /\ UNCHANGED <<maskVars, present, set, failer, nudged, window, remover, events,
                 disturbed>>

\* kthread_run fails: the member is parked again, whatever its state is now ...
WorkNoThread ==
  /\ work = "start" /\ set = NoSet /\ Event
  /\ \E c \in Copiers :
       /\ copier[c].pc = "new"
       /\ state[copier[c].m] = "FAILED" => "failed_start" \in Races
       /\ Store(copier[c].m, "NEEDS_RESYNC")
       /\ copier' = [copier EXCEPT ![c] = NoCopy]
  /\ work' = "park" /\ disturbed' = TRUE
  /\ UNCHANGED <<live, write, present, lock, failer, nudged, thread, done, window,
                 remover>>

\* ... and nothing is armed.
WorkParked ==
  /\ work = "park" /\ set = NoSet
  /\ work' = "idle" /\ lock' = None
  /\ UNCHANGED <<maskVars, present, set, failer, nudged, thread, done, copier, window,
                 remover, events, disturbed>>

WorkStep == WorkBegin \/ WorkPick \/ WorkStart \/ WorkNoThread \/ WorkParked

(* rc_volume_resync_fn.                                                     *)

Step(c, pc) == copier' = [copier EXCEPT ![c].pc = pc]

\* Both ends must still be usable.
CopyCheck(c) ==
  LET m == copier[c].m IN
  /\ copier[c].pc = "check"
  /\ IF copier[c].at = Total THEN copier' = [copier EXCEPT ![c].pc = "close", ![c].ok = TRUE]
     ELSE Step(c, IF copier[c].stop \/ m \notin present \/ state[m] # "RESYNCING"
                  THEN "close" ELSE "publish")
  /\ UNCHANGED <<maskVars, lock, nudged, done, window, events, disturbed>>

\* The window is published, and the writes counted before it are waited for.
CopyPublish(c) ==
  /\ copier[c].pc = "publish"
  /\ Failing(copier[c].m) => "slow_failer" \in Races
  /\ window' = c
  /\ Step(c, "copy") \/ (copier[c].stop /\ Step(c, "close"))
  /\ UNCHANGED <<maskVars, lock, nudged, done, events, disturbed>>

\* One chunk is copied, or a command of it fails.
CopyChunk(c) ==
  /\ copier[c].pc = "copy"
  /\ \/ /\ copier' = [copier EXCEPT ![c].pc = "check", ![c].at = @ + 1]
        /\ UNCHANGED events
     \/ Event /\ Step(c, "close")
  /\ UNCHANGED <<maskVars, lock, nudged, done, window, disturbed>>

CopyClose(c) ==
  /\ copier[c].pc = "close"
  /\ window' = None /\ Step(c, "lock")
  /\ UNCHANGED <<maskVars, lock, nudged, done, events, disturbed>>

CopyLock(c) ==
  /\ copier[c].pc = "lock" /\ lock = None
  /\ lock' = c /\ Step(c, IF copier[c].ok THEN "or_write" ELSE "park")
  /\ UNCHANGED <<maskVars, nudged, done, window, events, disturbed>>

\* Mutant: the state is stored without looking.
CopySettleBlind(c) ==
  LET m == copier[c].m IN
  /\ \/ /\ copier[c].pc = "or_write" /\ write' = write \cup {m} /\ Step(c, "or_live")
        /\ UNCHANGED <<live, state>>
     \/ /\ copier[c].pc = "or_live" /\ live' = live \cup {m} /\ Step(c, "swap")
        /\ UNCHANGED <<write, state>>
     \/ /\ copier[c].pc = "swap" /\ state' = [state EXCEPT ![m] = "LIVE"]
        /\ Step(c, "finish") /\ UNCHANGED <<live, write>>
     \/ /\ copier[c].pc = "park" /\ state' = [state EXCEPT ![m] = "NEEDS_RESYNC"]
        /\ Step(c, "park_write") /\ UNCHANGED <<live, write>>
     \/ /\ copier[c].pc = "park_write" /\ write' = write \ {m} /\ Step(c, "finish")
        /\ UNCHANGED <<live, state>>
  /\ UNCHANGED <<lock, nudged, done, window, events, disturbed>>

\* "Masks first, state second, and revert the masks if the cmpxchg loses"; a copy
\* that failed parks its member, if that is still being rebuilt.
CopySettle(c) ==
  LET m == copier[c].m
      held == state[m] = "RESYNCING" IN
  /\ \/ /\ copier[c].pc = "or_write" /\ write' = write \cup {m} /\ Step(c, "or_live")
        /\ UNCHANGED <<live, state>>
     \/ /\ copier[c].pc = "or_live" /\ live' = live \cup {m} /\ Step(c, "swap")
        /\ UNCHANGED <<write, state>>
     \/ /\ copier[c].pc = "swap" /\ UNCHANGED <<live, write>>
        /\ state' = IF held THEN [state EXCEPT ![m] = "LIVE"] ELSE state
        /\ Step(c, IF held THEN "finish" ELSE "undo_write")
     \/ /\ copier[c].pc = "undo_write" /\ write' = write \ {m} /\ Step(c, "undo_live")
        /\ UNCHANGED <<live, state>>
     \/ /\ copier[c].pc = "undo_live" /\ live' = live \ {m} /\ Step(c, "finish")
        /\ UNCHANGED <<write, state>>
     \/ /\ copier[c].pc = "park" /\ UNCHANGED <<live, write>>
        /\ state' = IF held THEN [state EXCEPT ![m] = "NEEDS_RESYNC"] ELSE state
        /\ Step(c, IF held THEN "park_write" ELSE "finish")
     \/ /\ copier[c].pc = "park_write" /\ write' = write \ {m} /\ Step(c, "finish")
        /\ UNCHANGED <<live, state>>
  /\ UNCHANGED <<lock, nudged, done, window, events, disturbed>>

\* Mutant: the scheduler is not armed again.
CopyFinishSilent(c) ==
  /\ copier[c].pc = "finish"
  /\ done' = TRUE /\ lock' = None
  /\ copier' = [copier EXCEPT ![c] = NoCopy]
  /\ disturbed' = ~copier[c].ok
  /\ UNCHANGED <<maskVars, nudged, window, events>>

\* Only a clean copy arms the scheduler again.
CopyFinish(c) ==
  /\ copier[c].pc = "finish"
  /\ done' = TRUE /\ lock' = None
  /\ nudged' = (nudged \/ copier[c].ok)
  /\ copier' = [copier EXCEPT ![c] = NoCopy]
  /\ disturbed' = ~copier[c].ok
  /\ UNCHANGED <<maskVars, window, events>>

CopyStep(c) ==
  /\ \/ CopyCheck(c) \/ CopyPublish(c) \/ CopyChunk(c) \/ CopyClose(c) \/ CopyLock(c)
     \/ CopySettle(c) \/ CopyFinish(c)
  /\ UNCHANGED <<present, set, failer, work, thread, remover>>

(* rc_volume_remove_member, the volume staying up.                          *)

Idle == [pc |-> "none", m |-> None, t |-> None]

\* rc_volume_resync_stop takes the thread out of the scheduler's sight, and tells
\* it to stop once the lock is released.
RemoveBegin(m) ==
  /\ remover = Idle /\ m \in present /\ lock = None /\ Event
  /\ remover' = [pc |-> "stop", m |-> m, t |-> thread]
  /\ thread' = None /\ done' = FALSE
  /\ copier' = IF thread = None THEN copier ELSE [copier EXCEPT ![thread].stop = TRUE]
  /\ UNCHANGED <<maskVars, lock, set, nudged, present>>

\* It has exited: the member is out.
RemoveMark ==
  /\ remover.pc = "stop" /\ lock = None
  /\ remover.t # None => copier[remover.t].pc = "none"
  /\ lock' = "remover" /\ remover' = [remover EXCEPT !.pc = "mark", !.t = None]
  /\ Store(remover.m, "FAILED")
  /\ UNCHANGED <<live, write, present, nudged, thread, done, copier, events>>

RemoveMarked ==
  /\ remover.pc = "mark" /\ set = NoSet
  /\ lock' = None /\ remover' = [remover EXCEPT !.pc = "drop"]
  /\ UNCHANGED <<maskVars, present, set, nudged, thread, done, copier, events>>

\* Drained and frozen: the slot is emptied, and the adapter freed.
RemoveDrop ==
  /\ remover.pc = "drop" /\ lock = None /\ ~Failing(remover.m)
  /\ present' = present \ {remover.m} /\ remover' = Idle
  /\ UNCHANGED <<maskVars, lock, set, nudged, thread, done, copier, events>>

RemoveStep ==
  /\ \/ RemoveMark \/ RemoveMarked \/ RemoveDrop \/ \E m \in Members : RemoveBegin(m)
  /\ UNCHANGED <<failer, work, window, disturbed>>

-----------------------------------------------------------------------------
\* A volume is assembled with the members it finds; an absent one is failed.
Init ==
  /\ present \in SUBSET Members
  /\ state = [m \in Members |-> IF m \in present THEN "LIVE" ELSE "FAILED"]
  /\ live = present /\ write = present
  /\ lock = None /\ set = NoSet /\ failer = [f \in Failers |-> NoFail]
  /\ nudged = FALSE /\ work = "idle" /\ thread = None /\ done = FALSE
  /\ copier = [c \in Copiers |-> NoCopy] /\ window = None
  /\ remover = Idle /\ events = 0 /\ disturbed = FALSE

Next ==
  \/ SetStep \/ ReadmitDone \/ WorkStep \/ RemoveStep
  \/ \E f \in Failers : FailStep(f)
  \/ \E c \in Copiers : CopyStep(c)
  \/ \E m \in Members : Readmit(m)

Spec == Init /\ [][Next]_vars

\* Threads, works and interrupts run on; failures, removals and re-admissions
\* need not happen.
Fairness ==
  /\ WF_vars(SetStep \/ ReadmitDone) /\ WF_vars(WorkStep)
  /\ WF_vars(RemoveStep /\ remover # Idle)
  /\ \A c \in Copiers : WF_vars(CopyStep(c))
  /\ \A f \in Failers : WF_vars(FailStep(f) /\ failer[f].pc # "none")

FairSpec == Spec /\ Fairness

-----------------------------------------------------------------------------
(* Safety.                                                                  *)

\* Types; set_state only runs under rc_volume_lock.
SetCall == [pc : {"none", "live", "write", "recheck", "undo", "undo_write"},
            m : Members \cup {None}, st : States]
FailCall == [pc : {"none", "fetch", "store", "read", "swap", "clear_write", "clear_live"},
             m : Members \cup {None}, old : States]
Copier == [pc : {"none", "new", "check", "publish", "copy", "close", "lock", "or_write",
                 "or_live", "swap", "undo_write", "undo_live", "park", "park_write",
                 "finish"},
           m : Members \cup {None}, at : 0 .. Total, stop : BOOLEAN, ok : BOOLEAN]
Remover == [pc : {"none", "stop", "mark", "drop"}, m : Members \cup {None},
            t : Copiers \cup {None}]

TypeOK ==
  /\ state \in [Members -> States]
  /\ live \subseteq Members /\ write \subseteq Members /\ present \subseteq Members
  /\ lock \in {None, "admit", "work", "remover"} \cup Copiers
  /\ set \in SetCall /\ failer \in [Failers -> FailCall]
  /\ nudged \in BOOLEAN /\ work \in {"idle", "reap", "start", "park"}
  /\ thread \in Copiers \cup {None} /\ done \in BOOLEAN
  /\ copier \in [Copiers -> Copier] /\ window \in Copiers \cup {None}
  /\ remover \in Remover
  /\ events \in 0 .. MaxEvents /\ disturbed \in BOOLEAN
  /\ set # NoSet => lock \in {"admit", "work", "remover"}

\* Somebody is between two of the stores about m.
Settling(m) ==
  \/ set.m = m
  \/ Failing(m)
  \/ \E c \in Copiers : /\ copier[c].m = m
                        /\ copier[c].pc \in {"or_live", "swap", "undo_write", "undo_live",
                                             "park_write"}

\* Whenever nobody is midway, reads go to the live members and to no other, a
\* member that is served or rebuilt misses no write, and a parked one gets none.
\* (A failed member may keep its write bit: FailedUnwritten.)
Settled ==
  \A m \in Members : ~Settling(m) =>
    /\ m \in live <=> state[m] = "LIVE"
    /\ state[m] \in Served => m \in write
    /\ state[m] = "NEEDS_RESYNC" => m \notin write

\* "Every interleaving ends with FAILED + clear bits": no write goes to a failed
\* member.  It does when a settle sets both bits between the first two steps of
\* mark_failed, which then finds the member live and clears no more.
FailedUnwritten ==
  \A m \in Members : state[m] = "FAILED" /\ ~Settling(m) => m \notin write

\* A mask bit that lags "must not let a genuine failure be swallowed": when
\* mark_failed returns the member is neither served nor being rebuilt, whatever
\* raced it.
FailLands ==
  [][\A f \in Failers :
       failer[f].m # None /\ failer'[f].m = None => state'[failer[f].m] \notin Served]_vars

(* Liveness.                                                                *)

\* Nothing is under way or queued, and the last rebuild has ended without
\* success: its copy was stopped or failed, or its thread was not created.
GaveUp == /\ ~nudged /\ work = "idle" /\ \A c \in Copiers : copier[c].pc = "none"
          /\ disturbed

\* "Re-armed by every member_readmitted() and by the resync thread on clean
\* completion": a parked member is rebuilt or fails, one after another - or a
\* rebuild that ended without success was the last, and no member comes back
\* for ever after.  Members parked besides are then left behind, contrary to "so
\* N stale members rebuild one after another".
Rebuilt ==
  \A m \in Members :
    state[m] = "NEEDS_RESYNC" ~> (state[m] \in {"LIVE", "FAILED"} \/ []GaveUp)

\* "Members are rebuilt one at a time (the engine has a single resync slot)".
OneCopier == Cardinality({c \in Copiers : copier[c].pc \notin {"none", "new"}}) <= 1
=============================================================================
