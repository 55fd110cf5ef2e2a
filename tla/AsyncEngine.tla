---------------------------- MODULE AsyncEngine ----------------------------
(* The asynchronous engine of patch_async_worker.c: both pumps and the       *)
(* unload that stops them in order.                                          *)
EXTENDS MirrorBio, RebuildPump

vars == <<lifeVars, bioVars, pumpVars>>

Init == LifeInit /\ BioInit /\ PumpInit

(* rc_amd_exit_async_subsystem.                                             *)

\* The caller's contract: no call is on its way when the waiting is over.
CallsOver == Quiesced \/ "late_calls" \in Admit

UnloadTo(phase) == unload' = phase /\ UNCHANGED alive

\* No new context, no new rebuild; a rebuild nobody claimed is retired.
UnloadBegin ==
  /\ unload = "up"
  /\ alive' = FALSE /\ unload' = "drain"
  /\ RetirePending
  /\ UNCHANGED <<job, pump, res, outstanding, stop, jobs, controlVars, bioVars>>

\* The registry is empty: nothing to wait for.
UnloadDrained ==
  /\ unload \in {"drain", "forced"} /\ inflight = 0 /\ CallsOver
  /\ queue' = Append(queue, Flush)
  /\ UnloadTo("flush")
  /\ UNCHANGED <<ctx, call, said, parent, graveyard, graves, inflight, worker, pumpVars>>

\* The first wait runs out: the contexts nobody claimed are failed.
UnloadForce ==
  /\ unload = "drain" /\ inflight # 0
  /\ ForceAll
  /\ UnloadTo("forced")
  /\ UNCHANGED <<call, said, parent, graveyard, graves, inflight, worker, pumpVars>>

\* Mutant: the worker is not flushed before the contexts are freed.
UnloadGiveUpUnflushed ==
  /\ unload = "forced" /\ inflight # 0 /\ CallsOver
  /\ UnloadTo("purge")
  /\ UNCHANGED <<ctx, call, said, parent, graveyard, graves, inflight, queue, worker,
                 pumpVars>>

\* Mutant: the second wait has no end.
UnloadGiveUpNever ==
  /\ unload = "forced" /\ inflight = 0 /\ CallsOver
  /\ queue' = Append(queue, Flush)
  /\ UnloadTo("flush")
  /\ UNCHANGED <<ctx, call, said, parent, graveyard, graves, inflight, worker, pumpVars>>

\* So does the second.
UnloadGiveUp ==
  /\ unload = "forced" /\ inflight # 0 /\ CallsOver
  /\ queue' = Append(queue, Flush)
  /\ UnloadTo("flush")
  /\ UNCHANGED <<ctx, call, said, parent, graveyard, graves, inflight, worker, pumpVars>>

\* kthread_flush_worker returns when the worker reaches its item.
Flushed ==
  /\ worker.pc = "idle" /\ queue # <<>> /\ Head(queue) = Flush
  /\ queue' = Tail(queue)
  /\ \/ unload = "flush" /\ UnloadTo("purge")
     \/ unload = "flush_last" /\ UnloadTo("down")
  /\ UNCHANGED <<ctx, call, said, parent, graveyard, graves, inflight, worker, pumpVars>>

UnloadPurge ==
  /\ unload = "purge"
  /\ FreeAll
  /\ UnloadTo("stop")
  /\ UNCHANGED <<call, said, parent, queue, worker, pumpVars>>

\* kthread_stop of the rebuild thread asks,
UnloadStop ==
  /\ unload = "stop" /\ ~stop /\ stop' = TRUE
  /\ UNCHANGED <<pending, job, pump, res, cancel, outstanding, jobs, braked,
                 controlVars, bioVars, lifeVars>>

\* and waits.  The worker is flushed and stopped last.
UnloadStopped ==
  /\ unload = "stop" /\ stop /\ pump = "gone"
  /\ queue' = Append(queue, Flush)
  /\ UnloadTo("flush_last")
  /\ UNCHANGED <<ctx, call, said, parent, graveyard, graves, inflight, worker, pumpVars>>

UnloadStep ==
  \/ UnloadDrained \/ UnloadForce \/ UnloadGiveUp \/ Flushed \/ UnloadPurge
  \/ UnloadStop \/ UnloadStopped

Next ==
  \/ BioNext /\ UNCHANGED pumpVars
  \/ PumpNext /\ UNCHANGED bioVars
  \/ UnloadBegin \/ UnloadStep

Spec == Init /\ [][Next]_vars

\* The worker and the rebuild thread are scheduled, a call that has started
\* ends (it runs in a completion context), and rmmod proceeds once begun.  No
\* member has to report, and no copy has to retire.
CallStep ==
  \E c \in Contexts, k \in Callers :
    Straggle(c, k) \/ Claim(c, k) \/ Park(c, k) \/ Reap(c, k) \/ ReapCount(c, k)

Fairness ==
  /\ WF_vars(Worker /\ UNCHANGED pumpVars)
  /\ WF_vars(CallStep /\ UNCHANGED pumpVars)
  /\ WF_vars(Thread /\ UNCHANGED bioVars)
  /\ WF_vars(UnloadStep)

FairSpec == Spec /\ Fairness

(* Safety.                                                                  *)

\* Types, and the sizes the bounds allow.
TypeOK ==
  /\ alive \in BOOLEAN /\ unload \in Phases
  /\ \A c \in Contexts :
       /\ ctx[c].place \in {"none", "registered", "grave", "freed"}
       /\ ctx[c].flags \subseteq {"COMPLETING", "RETIRED", "RESOURCE", "GRAVE"}
       /\ ctx[c].remaining \in Int /\ ctx[c].status \in Statuses
       /\ said[c] \subseteq Members
       /\ parent[c] \in Seq(Statuses)
       /\ call[c] \in [Callers -> Midway \cup {"none", "owed", "may", "done"}]
  /\ graveyard \in Seq(Contexts) /\ graves \in Nat /\ inflight \in Int
  /\ queue \in Seq(Contexts \cup {Flush})
  /\ worker.pc \in {"idle", "end", "reap", "dec"}
  /\ pump \in {"top", "start", "test", "brake", "route", "issue", "publish",
               "throttle", "finish", "gone"}
  /\ res.state \in States /\ cancel \in BOOLEAN /\ stop \in BOOLEAN
  /\ failed \subseteq Slots /\ outstanding \in Nat

\* A parent is due once its members have all reported, or its set is aborted,
\* or the unload has given up waiting.
ParentDue(c) ==
  /\ ctx[c].place # "none"
  /\ \/ \A m \in Fan[c] : call[c][m] = "done"
     \/ call[c][Aborter] = "done"
     \/ unload \notin {"up", "drain"}

\* "The parent is ended exactly once": never twice, and no parent that is due is
\* forgotten when no call is on its way and the worker has nothing to do.
\* "Data is never reported written on a path where a member write may not have
\* landed": OK is the answer only when every promised member reported it.
ParentTold ==
  /\ \A c \in Contexts :
       /\ Len(parent[c]) <= 1
       /\ \A i \in DOMAIN parent[c] : parent[c][i] = "ok" => said[c] = Fan[c]
  /\ Quiesced /\ queue = <<>> /\ worker.pc = "idle" =>
       \A c \in Contexts : ParentDue(c) => parent[c] # <<>>

\* "Exactly one of the two observers sees the condition become true and
\* exactly one reaps": the drain's count is the contexts not yet counted out,
\* and the tombstone count is the tombstones.
ReapedOnce ==
  /\ graves = Len(graveyard)
  /\ inflight = Cardinality(Registered)
                + Cardinality({p \in Contexts \X Callers : call[p[1]][p[2]] = "dec"})
                + (IF worker.pc = "dec" THEN 1 ELSE 0)

\* What is going to touch a context: a call on its way through this file, the
\* worker or its list, and, before the unload, a report still owed.
Users(c) ==
  {k \in Callers : call[c][k] \in Midway \ {"dec"}
                   \/ (call[c][k] = "owed" /\ CallsAllowed)}

\* No freed context is used: the tombstones outlast the reports, the endio
\* outlasts its straggler, and the unload frees only what nothing reaches.
NoUseAfterFree ==
  \A c \in Contexts : ctx[c].place = "freed" =>
    /\ Users(c) = {}
    /\ \A i \in DOMAIN queue : queue[i] # c
    /\ worker.ctx = c => worker.pc = "dec"

\* rc_amd_get_status, without the counters of past faults.
Status ==
  {bit \in {"live", "resyncing", "degraded"} :
     \/ bit = "live" /\ alive
     \/ bit = "resyncing" /\ res.state = "running"
     \/ bit = "degraded" /\ failed # {}}

\* "The brake is consumable": it is on only while a job runs that will see it,
\* so no request is refused for ever; one rebuild is queued or runs at a time;
\* and a job told to stop issues at most the chunk it had already routed.
BrakeWorks ==
  /\ "live" \in Status /\ cancel => "resyncing" \in Status /\ job # None
  /\ pending # None => job = None /\ res.state = "pending"
  /\ braked <= 1

\* "complete" is reported for a rebuild that reached the end of its range.
DoneIsWhole == res.state = "done" => res.cursor = res.end

(* Liveness.                                                                *)

\* A rebuild stops running and the unload ends, whatever members never report
\* and whatever copies never retire.
EngineEnds ==
  res.state = "running" \/ unload = "drain"
    ~> res.state # "running" /\ unload \in {"up", "down"}
=============================================================================
