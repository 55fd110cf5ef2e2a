----------------------------- MODULE MirrorBio -----------------------------
(* The mirror completion pump of patch_async_worker.c: a parent bio fans out *)
(* to member bios, each reported from its own completion context, and one    *)
(* worker thread ends the parent.  One step per critical section of          *)
(* ctx->lock and of engine->lock; whatever runs between two sections of a    *)
(* call is the program counter of that call.                                 *)
EXTENDS EngineLife, Sequences, FiniteSets, SequencesExt

CONSTANTS
  Contexts,   \* struct rc_mirror_context objects, each used for one parent
  Members,    \* member bios
  Fan,        \* the member bios of each parent, total_mirrors of them
  Aborter,    \* the call of rc_amd_mirror_abort() of a parent
  Repeat,     \* a report beyond those promised, from a faulty member path
  Flush,      \* the work item kthread_flush_worker() queues
  Reports,    \* statuses a member bio may end with
  GraveMax,   \* RC_ASYNC_GRAVEYARD_MAX
  Admit       \* subset of {"over_report", "late_calls"}

Callers == Members \cup {Aborter, Repeat}

\* Severity of a blk_status_t, by one representative of each class.
Rank == [ok |-> 0, resource |-> 1, nospc |-> 2, medium |-> 3, ioerr |-> 4]
Statuses == DOMAIN Rank

ASSUME BioAssumption ==
  /\ Reports \subseteq Statuses
  /\ GraveMax \in Nat \ {0}
  /\ IsFiniteSet(Members) /\ Fan \in [Contexts -> (SUBSET Members) \ {{}}]
  /\ Aborter \notin Members /\ Repeat \notin Members /\ Aborter # Repeat
  /\ None \notin Contexts /\ Flush \notin Contexts

VARIABLES
  ctx,        \* per context: where it is, its flags, countdown and status
  call,       \* program counter of every call made on a context
  said,       \* history: the members that reported success
  parent,     \* history: the statuses the parent bio was ended with
  graveyard,  \* rc_amd_engine.graveyard, oldest first
  graves,     \* rc_amd_engine.graves
  inflight,   \* rc_amd_engine.inflight
  queue,      \* the work list of kamd_async_worker
  worker      \* the work item it runs

bioVars == <<ctx, call, said, parent, graveyard, graves, inflight, queue, worker>>

NoContext == [place |-> "none", flags |-> {}, remaining |-> 0, status |-> "ok"]
Resting == [pc |-> "idle", ctx |-> None, status |-> "ok", dead |-> FALSE]

\* Program counters of a call that is in the middle of touching its context.
Midway == {"straggler", "claim", "park", "reap", "dec"}

Registered == {c \in Contexts : ctx[c].place = "registered"}

BioInit ==
  /\ ctx = [c \in Contexts |-> NoContext]
  /\ call = [c \in Contexts |-> [k \in Callers |-> "none"]]
  /\ said = [c \in Contexts |-> {}]
  /\ parent = [c \in Contexts |-> <<>>]
  /\ graveyard = <<>> /\ graves = 0 /\ inflight = 0
  /\ queue = <<>> /\ worker = Resting

(* Helpers.                                                                 *)

\* Mutant: the last status reported is kept.
StatusLast(have, incoming) == incoming

\* Ties go to the incoming status; a success never hides a failure.
StatusMerge(have, incoming) ==
  IF incoming = "ok" THEN have
  ELSE IF have = "ok" \/ Rank[incoming] >= Rank[have] THEN incoming
  ELSE have

\* Mutant: the worker's latch is not waited for.
DeadUnlatched(x) == x.remaining <= 0

\* Last-observer test, made under ctx->lock.
Dead(x) == "RETIRED" \in x.flags /\ x.remaining <= 0

Goto(c, k, pc) == call' = [call EXCEPT ![c][k] = pc]

\* rc_amd_bio_finish.
EndParent(c, status) == parent' = [parent EXCEPT ![c] = Append(@, status)]

\* The section of rc_amd_context_reap under engine->lock: list_del() off
\* whatever list the entry is on, onto the tail of the graveyard, and the
\* oldest tombstone out when there are too many.
Bury(c) ==
  LET yard == Append(RemoveFirst(graveyard, c), c)
      full == graves + 1 > GraveMax
      laid == [ctx EXCEPT ![c].flags = @ \cup {"GRAVE"}, ![c].place = "grave"]
  IN /\ graveyard' = IF full THEN Tail(yard) ELSE yard
     /\ graves' = IF full THEN graves ELSE graves + 1
     /\ ctx' = IF full THEN [laid EXCEPT ![Head(yard)].place = "freed"] ELSE laid

(* rc_amd_queue_async_completion.                                           *)

\* No memory, or no mirrors: the parent is ended at once and no member bio
\* may be sent.
Refuse(c) ==
  /\ ctx[c].place = "none" /\ parent[c] = <<>> /\ unload # "down"
  /\ \E status \in {"resource", "ioerr"} : EndParent(c, status)
  /\ UNCHANGED <<ctx, call, said, graveyard, graves, inflight, queue, worker, lifeVars>>

\* The context is registered if the engine still takes work.  The caller then
\* sends the member bios; when it could send only some it aborts.
Dispatch(c) ==
  /\ ctx[c].place = "none" /\ parent[c] = <<>> /\ unload # "down"
  /\ IF alive
     THEN \E status \in {"ok", "ioerr"}, sent \in SUBSET Fan[c] :
            /\ ctx' = [ctx EXCEPT ![c] = [place |-> "registered", flags |-> {},
                         remaining |-> Cardinality(Fan[c]), status |-> status]]
            /\ call' = [call EXCEPT ![c] = [k \in Callers |->
                 IF k \in sent \/ (k = Repeat /\ "over_report" \in Admit) THEN "owed"
                 ELSE IF k = Aborter
                      THEN IF sent = Fan[c] THEN "may" ELSE "claim"
                      ELSE "none"]]
            /\ inflight' = inflight + 1
            /\ UNCHANGED parent
     ELSE /\ EndParent(c, "resource")
          /\ UNCHANGED <<ctx, call, inflight>>
  /\ UNCHANGED <<said, graveyard, graves, queue, worker, lifeVars>>

(* rc_amd_mirror_complete and _complete_member, which counts it for the slot *)
(* as well: the report of a member bio.                                     *)

\* Members are quiesced before the contexts are released.
CallsAllowed == unload \in {"up", "drain", "forced"} \/ "late_calls" \in Admit

\* The merge, the countdown and the decision, under ctx->lock.  The last
\* report claims the parent in a section of its own.
Report(c, k, status) ==
  /\ call[c][k] = "owed" /\ CallsAllowed
  /\ IF ctx[c].flags \cap {"COMPLETING", "RETIRED", "GRAVE"} # {}
     THEN Goto(c, k, "straggler") /\ UNCHANGED ctx
     ELSE /\ ctx' = [ctx EXCEPT ![c].status = StatusMerge(@, status),
                                ![c].remaining = @ - 1]
          /\ Goto(c, k, IF ctx[c].remaining = 1 THEN "claim" ELSE "done")
  /\ said' = IF k \in Members /\ status = "ok"
             THEN [said EXCEPT ![c] = @ \cup {k}] ELSE said
  /\ UNCHANGED <<parent, graveyard, graves, inflight, queue, worker, lifeVars>>

\* rc_amd_straggler_report: a report after the parent was claimed.
Straggle(c, k) ==
  /\ call[c][k] = "straggler"
  /\ IF "GRAVE" \in ctx[c].flags
     THEN Goto(c, k, "done") /\ UNCHANGED ctx
     ELSE LET left == [ctx[c] EXCEPT !.remaining = @ - 1]
          IN ctx' = [ctx EXCEPT ![c] = left] /\ Goto(c, k, IF Dead(left) THEN "reap" ELSE "done")
  /\ UNCHANGED <<said, parent, graveyard, graves, inflight, queue, worker, lifeVars>>

\* A caller that need not abort decides to.
Abort(c) ==
  /\ call[c][Aborter] = "may" /\ CallsAllowed
  /\ Goto(c, Aborter, "claim")
  /\ UNCHANGED <<ctx, said, parent, graveyard, graves, inflight, queue, worker, lifeVars>>

\* rc_amd_context_claim under ctx->lock: whoever latches COMPLETING owns the
\* endio.  An abort merges its status first.
Claim(c, k) ==
  /\ call[c][k] = "claim"
  /\ IF "COMPLETING" \in ctx[c].flags
     THEN Goto(c, k, "done") /\ UNCHANGED ctx
     ELSE /\ \E forced \in IF k = Aborter THEN Reports \ {"ok"} ELSE {"ok"} :
               ctx' = [ctx EXCEPT ![c].status = StatusMerge(@, forced),
                                  ![c].flags = @ \cup {"COMPLETING"}]
          /\ Goto(c, k, "park")
  /\ UNCHANGED <<said, parent, graveyard, graves, inflight, queue, worker, lifeVars>>

\* kthread_queue_work, after the latch and outside the lock.
Park(c, k) ==
  /\ call[c][k] = "park"
  /\ queue' = Append(queue, c)
  /\ Goto(c, k, "done")
  /\ UNCHANGED <<ctx, said, parent, graveyard, graves, inflight, worker, lifeVars>>

\* rc_amd_context_reap by the last straggler.
Reap(c, k) ==
  /\ call[c][k] = "reap"
  /\ Bury(c) /\ Goto(c, k, "dec")
  /\ UNCHANGED <<said, parent, inflight, queue, worker, lifeVars>>

ReapCount(c, k) ==
  /\ call[c][k] = "dec"
  /\ inflight' = inflight - 1 /\ Goto(c, k, "done")
  /\ UNCHANGED <<ctx, said, parent, graveyard, graves, queue, worker, lifeVars>>

(* rc_amd_mirror_completion_work.                                           *)

\* The latch of RETIRED and the last-observer test, under ctx->lock.
WorkerLatch ==
  /\ worker.pc = "idle" /\ queue # <<>> /\ Head(queue) # Flush
  /\ LET c == Head(queue)
         retired == [ctx[c] EXCEPT !.flags = @ \cup {"RETIRED"}]
     IN /\ ctx' = [ctx EXCEPT ![c] = retired]
        /\ worker' = [pc |-> "end", ctx |-> c, dead |-> Dead(retired),
                      status |-> IF "RESOURCE" \in retired.flags THEN "resource"
                                 ELSE retired.status]
  /\ queue' = Tail(queue)
  /\ UNCHANGED <<call, said, parent, graveyard, graves, inflight, lifeVars>>

\* The parent is ended with no lock held.
WorkerEnd ==
  /\ worker.pc = "end"
  /\ EndParent(worker.ctx, worker.status)
  /\ worker' = IF worker.dead THEN [worker EXCEPT !.pc = "reap"] ELSE Resting
  /\ UNCHANGED <<ctx, call, said, graveyard, graves, inflight, queue, lifeVars>>

WorkerReap ==
  /\ worker.pc = "reap"
  /\ Bury(worker.ctx) /\ worker' = [worker EXCEPT !.pc = "dec"]
  /\ UNCHANGED <<call, said, parent, inflight, queue, lifeVars>>

WorkerCount ==
  /\ worker.pc = "dec"
  /\ inflight' = inflight - 1 /\ worker' = Resting
  /\ UNCHANGED <<ctx, call, said, parent, graveyard, graves, queue, lifeVars>>

(* What the unload does to the contexts.                                    *)

\* rc_amd_drain_force: every context nobody has claimed is failed with
\* BLK_STS_RESOURCE.
ForceAll ==
  LET forced == {c \in Registered : "COMPLETING" \notin ctx[c].flags}
  IN /\ ctx' = [c \in Contexts |-> IF c \in forced
                  THEN [ctx[c] EXCEPT !.flags = @ \cup {"COMPLETING", "RESOURCE"}]
                  ELSE ctx[c]]
     /\ queue' = queue \o SetToSeq(forced)

\* rc_amd_context_purge: what is still registered and every tombstone.
FreeAll ==
  /\ ctx' = [c \in Contexts |-> IF ctx[c].place \in {"registered", "grave"}
                                THEN [ctx[c] EXCEPT !.place = "freed"] ELSE ctx[c]]
  /\ inflight' = inflight - Cardinality(Registered)
  /\ graveyard' = <<>> /\ graves' = 0

\* "Every member path must already be quiesced by the caller".
Quiesced == \A c \in Contexts, k \in Callers : call[c][k] \notin Midway

Caller(c, k) ==
  \/ \E status \in Reports : Report(c, k, status)
  \/ Straggle(c, k) \/ Claim(c, k) \/ Park(c, k) \/ Reap(c, k) \/ ReapCount(c, k)

Worker == WorkerLatch \/ WorkerEnd \/ WorkerReap \/ WorkerCount

BioNext ==
  \/ \E c \in Contexts : Refuse(c) \/ Dispatch(c) \/ Abort(c)
  \/ \E c \in Contexts, k \in Callers : Caller(c, k)
  \/ Worker
=============================================================================
