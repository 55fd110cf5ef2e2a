------------------------- MODULE AsyncEngine_proofs -------------------------
(* Proofs about the asynchronous engine: two inductive invariants, PumpInv   *)
(* of the rebuild pump and BioInv of the mirror pump, and what follows.      *)
(* BioInv is split by context: a step touches one, and a lemma of its own    *)
(* shows what it does there.                                                 *)
EXTENDS AsyncEngine, FiniteSetTheorems, WellFoundedInduction, TLAPS

-----------------------------------------------------------------------------
(* The rebuild pump.                                                        *)

\* What a rebuild carries: the chunk it is at, the end, the rebuilt drive, where its
\* next copy goes, and how it ended.
Job == [cursor : Int, end : Int, target : Int, to : Int,
        result : {"ok", "failed", "cancelled"}]

\* The types of the rebuild pump.
PumpTyped ==
  /\ pending \in Job \cup {None} /\ job \in Job \cup {None}
  /\ pump \in {"top", "start", "test", "brake", "route", "issue", "publish",
               "throttle", "finish", "gone"}
  /\ res \in [state : States, cursor : Int, end : Int, target : Int]
  /\ cancel \in BOOLEAN /\ stop \in BOOLEAN /\ braked \in 0 .. 1

\* The thread owns a job from its claim to its finish, and the record says
\* running just as long.  The brake belongs to such a job until the unload
\* begins, and a job that has seen a chunk issued under the brake has not
\* passed its brake test since.
PumpInv ==
  /\ PumpTyped
  /\ unload \in Phases /\ alive \in BOOLEAN /\ (alive <=> unload = "up")
  /\ stop => ~alive
  /\ pump \in {"top", "gone"} <=> job = None
  /\ res.state = "running" <=> job # None
  /\ pending # None => job = None /\ res.state = "pending"
  /\ alive /\ cancel => job # None
  /\ cancel /\ pump \in {"route", "issue"} => braked = 0

\* A set of naturals has a least member.
LEMMA LeastNatural ==
  ASSUME NEW T \in SUBSET Nat, T # {}
  PROVE  \E x \in T : \A y \in T : x <= y
<1>1. PICK x \in T : \A y \in T : ~ (<<y, x>> \in OpToRel(<, Nat))
  BY NatLessThanWellFounded, WFMin
<1>2. \A y \in T : y \in Nat /\ x \in Nat
  OBVIOUS
<1>3. \A y \in T : ~ (y < x)
  BY <1>1, <1>2 DEF OpToRel
<1> QED
  BY <1>2, <1>3

\* A job as built for an unclaimed request is a job.
LEMMA NoJobType == NoJob \in Job /\ -1 \in Int
<1>1. -1 \in Int
  OBVIOUS
<1> QED
  BY <1>1 DEF NoJob, Job

\* The rebuild pump starts idle.
LEMMA PumpInitially == Init => PumpInv
<1> SUFFICES ASSUME Init PROVE PumpInv
  OBVIOUS
<1>1. res \in [state : States, cursor : Int, end : Int, target : Int] /\ res.state = "idle"
  BY NoJobType DEF Init, PumpInit, States
<1>2. pump \in {"top", "gone"} /\ pending = None /\ job = None /\ cancel = FALSE
      /\ stop = FALSE /\ braked = 0 /\ alive = TRUE /\ unload = "up"
  BY DEF Init, LifeInit, PumpInit
<1> QED
  <2>1. pump \in {"top", "gone"} <=> job = None
    BY <1>2
  <2>2. res.state = "running" <=> job # None
    BY <1>1, <1>2
  <2>3. PumpTyped
    <3>1. cancel \in BOOLEAN /\ stop \in BOOLEAN
      BY <1>2
    <3>2. pending \in Job \cup {None} /\ job \in Job \cup {None} /\ braked \in 0 .. 1
      BY <1>2
    <3> QED
      BY <1>1, <1>2, <3>1, <3>2 DEF PumpTyped
  <2>4. alive \in BOOLEAN /\ unload \in Phases
    BY <1>2 DEF Phases
  <2> QED
    BY <1>1, <1>2, <2>1, <2>2, <2>3, <2>4 DEF PumpInv

\* A request for a rebuild, and its cancellation, keep the invariant.
LEMMA PumpRequests ==
  ASSUME PumpInv, \/ \E r \in Ranges, t \in Targets : Request(r, t)
                  \/ Cancel \/ Ioctl
                  \/ \E k \in Slots : IoctlFail(k) \/ Reinstate(k)
                  \/ \E n \in Drives : SetGeometry(n)
  PROVE  PumpInv'
<1> USE PumpAssumption DEF PumpInv, PumpTyped, States, Job, lifeVars, controlVars
<1>1. ASSUME NEW r \in Ranges, NEW t \in Targets, Request(r, t) PROVE PumpInv'
  <2>1. r[1] \in Int /\ r[2] \in Int /\ t \in Int
    OBVIOUS
  <2>2. pending' \in Job /\ res' \in [state : States, cursor : Int, end : Int, target : Int]
    BY <1>1, <2>1, NoJobType DEF Request
  <2>3. res'.state = "pending" /\ pending' # None
    BY <1>1, <2>2 DEF Request
  <2> QED
    BY <1>1, <2>2, <2>3 DEF Request, Busy
<1>2. CASE Cancel
  BY <1>2 DEF Cancel, Brake
<1>3. CASE IoctlSnapshot
  BY <1>3 DEF IoctlSnapshot
<1>4. CASE IoctlCancel
  BY <1>4 DEF IoctlCancel, Brake
<1>5. ASSUME NEW k \in Slots, IoctlFail(k) \/ Reinstate(k) PROVE PumpInv'
  BY <1>5 DEF IoctlFail, Reinstate
<1>6. ASSUME NEW n \in Drives, SetGeometry(n) PROVE PumpInv'
  BY <1>6 DEF SetGeometry
<1> QED
  BY <1>1, <1>2, <1>3, <1>4, <1>5, <1>6 DEF Ioctl

\* Each step of the rebuild thread keeps it.
LEMMA PumpThread ==
  ASSUME PumpInv, Thread \/ Retire
  PROVE  PumpInv'
<1> USE PumpAssumption DEF PumpInv, PumpTyped, States, Job, lifeVars, controlVars
<1>1. CASE PumpClaim
  BY <1>1 DEF PumpClaim
<1>2. CASE PumpStart
  BY <1>2 DEF PumpStart
<1>3. CASE PumpTest
  BY <1>3 DEF PumpTest
<1>4. CASE PumpBrake
  BY <1>4 DEF PumpBrake
<1>5. CASE PumpRoute
  <2>1. PickHealthy(geometry) \in Int
    <3> DEFINE healthy == {k \in Slots \ failed :
                             (geometry >= 1 /\ geometry \in Slots) => k < geometry}
    <3>1. healthy \subseteq Nat
      OBVIOUS
    <3>2. CASE healthy = {}
      BY <3>2 DEF PickHealthy
    <3>3. CASE healthy # {}
      <4>1. \E k \in healthy : \A j \in healthy : k <= j
        BY <3>1, <3>3, LeastNatural
      <4>2. (CHOOSE k \in healthy : \A j \in healthy : k <= j) \in healthy
        BY <4>1
      <4> QED
        BY <3>1, <3>3, <4>2 DEF PickHealthy
    <3> QED
      BY <3>2, <3>3
  <2>2. Route \in Int
    BY <1>5, <2>1 DEF Route, PumpRoute, Failed
  <2> QED
    BY <1>5, <2>2 DEF PumpRoute
<1>6. CASE PumpIssue
  <2>1. job' \in Job /\ braked' \in 0 .. 1
    <3>1. job \in Job /\ Sectors \in Int
      BY <1>6 DEF PumpIssue, Sectors
    <3> QED
      BY <1>6, <3>1 DEF PumpIssue
  <2> QED
    BY <1>6, <2>1 DEF PumpIssue
<1>7. CASE PumpPublish
  BY <1>7 DEF PumpPublish
<1>8. CASE PumpThrottle
  BY <1>8 DEF PumpThrottle
<1>9. CASE PumpFinish
  BY <1>9 DEF PumpFinish
<1>10. CASE PumpExit
  BY <1>10 DEF PumpExit
<1>11. CASE Retire
  BY <1>11 DEF Retire
<1> QED
  BY <1>1, <1>2, <1>3, <1>4, <1>5, <1>6, <1>7, <1>8, <1>9, <1>10, <1>11 DEF Thread

\* The mirror pump leaves the life of the engine alone.
LEMMA BioSteps == BioNext => UNCHANGED lifeVars
  BY DEF BioNext, Refuse, Dispatch, Abort, Caller, Report, Straggle, Claim, Park, Reap,
         ReapCount, Worker, WorkerLatch, WorkerEnd, WorkerReap, WorkerCount

\* Every step of the engine keeps the invariant of the rebuild pump.
LEMMA PumpNextInv ==
  ASSUME PumpInv, [Next]_vars
  PROVE  PumpInv'
<1>1. CASE BioNext /\ UNCHANGED pumpVars
  BY <1>1, BioSteps DEF lifeVars, pumpVars, PumpInv, PumpTyped
<1>2. CASE PumpNext
  BY <1>2, PumpRequests, PumpThread DEF PumpNext
<1>3. CASE UnloadBegin
  <2>1. /\ UNCHANGED <<job, pump, res, stop>> /\ pending' = None /\ cancel' = TRUE
        /\ braked' = (IF cancel THEN braked ELSE 0) /\ alive' = FALSE /\ unload' = "drain"
    BY <1>3 DEF UnloadBegin, RetirePending
  <2>2. PumpTyped' /\ unload' \in Phases
    BY <2>1 DEF PumpInv, PumpTyped, Phases, Unloading
  <2> QED
    BY <2>1, <2>2 DEF PumpInv, PumpTyped
<1>4. CASE UnloadStep
  <2>1. CASE UnloadStop
    BY <1>4, <2>1 DEF UnloadStop, PumpInv, PumpTyped, Phases, Unloading, controlVars, lifeVars
  <2>2. CASE UnloadStep /\ ~UnloadStop
    <3>1. /\ UNCHANGED <<pumpVars, alive>> /\ unload # "up" /\ unload' \in Unloading \cup {"down"}
      BY <2>2 DEF UnloadStep, UnloadDrained, UnloadForce, UnloadGiveUp, Flushed, UnloadPurge,
                  UnloadStopped, UnloadTo, Unloading
    <3> QED
      BY <3>1 DEF pumpVars, PumpInv, PumpTyped, Phases, Unloading
  <2> QED
    BY <1>4, <2>1, <2>2
<1>5. CASE UNCHANGED vars
  BY <1>5 DEF vars, lifeVars, pumpVars, PumpInv, PumpTyped
<1> QED
  BY <1>1, <1>2, <1>3, <1>4, <1>5 DEF Next

\* "The brake is consumable": while the engine takes requests the brake is on only
\* for a job that runs, a queued rebuild excludes a running one, and a job told to
\* stop issues at most the chunk it had routed; whatever the operator, the media
\* layer and the unload do.
THEOREM BrakeAlwaysWorks == Spec => []BrakeWorks
<1>1. PumpInv => BrakeWorks
  BY DEF PumpInv, PumpTyped, BrakeWorks, Status
<1> QED
  BY <1>1, PumpInitially, PumpNextInv, PTL DEF Spec

-----------------------------------------------------------------------------
(* The mirror pump.                                                         *)

\* The latches of a context, and where a call of it can be.
Flags == {"COMPLETING", "RETIRED", "RESOURCE", "GRAVE"}
Counters == Midway \cup {"none", "owed", "may", "done"}

\* What a context records.
Context == [place : {"none", "registered", "grave", "freed"},
            flags : SUBSET Flags, remaining : Int, status : Statuses]

\* The types of the mirror pump.
BioTyped ==
  /\ ctx \in [Contexts -> Context]
  /\ call \in [Contexts -> [Callers -> Counters]]
  /\ said \in [Contexts -> SUBSET Members]
  /\ parent \in [Contexts -> Seq(Statuses)]
  /\ graveyard \in Seq(Contexts) /\ graves \in Nat /\ inflight \in Int
  /\ queue \in Seq(Contexts \cup {Flush})
  /\ worker \in [pc : {"idle", "end", "reap", "dec"}, ctx : Contexts \cup {None},
                 status : Statuses, dead : BOOLEAN]
  /\ worker.pc = "idle" => worker = Resting
  /\ worker.pc # "idle" => worker.ctx \in Contexts
  /\ IsFiniteSet(Registered)

\* Where a claimed parent waits: on the work list, with the worker, to be buried.
Queued(c) == \E i \in DOMAIN queue : queue[i] = c
Ending(c) == worker.ctx = c /\ worker.pc = "end"
Burying(c) == worker.ctx = c /\ (worker.pc = "reap" \/ (worker.pc = "end" /\ worker.dead))

\* The members whose report has not been counted down.
Uncounted(c) == {m \in Fan[c] : call[c][m] \in {"none", "owed", "straggler"}}

\* A context not dispatched has no calls and no flags.
Fresh(c) ==
  ctx[c].place = "none" =>
    /\ \A k \in Callers : call[c][k] = "none"
    /\ ctx[c].flags = {} /\ ~Queued(c) /\ worker.ctx # c

\* Who calls what: promised members report, only the aborter aborts.
Roles(c) ==
  \A k \in Callers :
    /\ k \notin Fan[c] \cup {Aborter} => call[c][k] = "none"
    /\ k \in Members => call[c][k] # "may"
    /\ call[c][Aborter] \notin {"owed", "straggler", "reap", "dec"}

\* remaining is the members yet to be counted.
Counted(c) ==
  ctx[c].place # "none" => ctx[c].remaining = Cardinality(Uncounted(c))

\* COMPLETING hands out one ticket to end the parent: it is with the caller
\* that latched it, on the work list, with the worker, or used.
Ticket(c) ==
  /\ \A k, j \in Callers : call[c][k] = "park" /\ call[c][j] = "park" => k = j
  /\ (\E k \in Callers : call[c][k] = "park") => ~Queued(c) /\ ~Ending(c) /\ parent[c] = <<>>
  /\ Queued(c) => ~Ending(c) /\ parent[c] = <<>>
  /\ Ending(c) => parent[c] = <<>>
  /\ ctx[c].place # "none" =>
       ("COMPLETING" \in ctx[c].flags <=>
          \/ \E k \in Callers : call[c][k] = "park"
          \/ Queued(c) \/ Ending(c) \/ parent[c] # <<>>)
  /\ ctx[c].place # "none" => ("RETIRED" \in ctx[c].flags <=> Ending(c) \/ parent[c] # <<>>)

\* Somebody will claim the parent when the last report is in.
Claimed(c) ==
  /\ \A k \in Members : call[c][k] = "claim" => Uncounted(c) = {}
  /\ ctx[c].place # "none" /\ Uncounted(c) = {} =>
       "COMPLETING" \in ctx[c].flags \/ \E k \in Callers : call[c][k] = "claim"
  /\ call[c][Aborter] \in {"park", "done"} => "COMPLETING" \in ctx[c].flags
  /\ \A k \in Callers : call[c][k] = "straggler" => "COMPLETING" \in ctx[c].flags

\* One observer reaps: the ticket to reap is out while the context is due.
Reaped(c) ==
  /\ \A k, j \in Callers : call[c][k] = "reap" /\ call[c][j] = "reap" => k = j
  /\ (\E k \in Callers : call[c][k] = "reap") => ~Burying(c)
  /\ Burying(c) \/ (\E k \in Callers : call[c][k] = "reap") =>
       Uncounted(c) = {} /\ "RETIRED" \in ctx[c].flags /\ ctx[c].place = "registered"
  /\ "GRAVE" \in ctx[c].flags =>
       Uncounted(c) = {} /\ "RETIRED" \in ctx[c].flags /\ ctx[c].place # "registered"
  /\ ctx[c].place = "grave" => "GRAVE" \in ctx[c].flags

\* A status of OK stands for a report of OK by every promised member.
Truthful(c) ==
  /\ said[c] \subseteq Fan[c]
  /\ ctx[c].place # "none" /\ ctx[c].status = "ok" /\ "COMPLETING" \notin ctx[c].flags =>
       Fan[c] \ Uncounted(c) \subseteq said[c]
  /\ ctx[c].place # "none" /\ ctx[c].status = "ok" /\ "COMPLETING" \in ctx[c].flags =>
       "RESOURCE" \in ctx[c].flags \/ said[c] = Fan[c]
  /\ Ending(c) /\ worker.status = "ok" => said[c] = Fan[c]
  /\ Len(parent[c]) <= 1
  /\ \A i \in DOMAIN parent[c] : parent[c][i] = "ok" => said[c] = Fan[c]

\* All of it, of one context.
CtxInv(c) == /\ Fresh(c) /\ Roles(c) /\ Counted(c) /\ Ticket(c) /\ Claimed(c) /\ Reaped(c)
             /\ Truthful(c)

\* The worker has no context twice on its list.
QueueOnce == \A i, j \in DOMAIN queue : queue[i] = queue[j] => i = j

\* The graveyard is the tombstones, each once, and graves counts them.
Graves ==
  /\ graves = Len(graveyard)
  /\ \A i, j \in DOMAIN graveyard : graveyard[i] = graveyard[j] => i = j
  /\ \A i \in DOMAIN graveyard : ctx[graveyard[i]].place = "grave"

\* Those counted out next.
Leaving == {p \in Contexts \X Callers : call[p[1]][p[2]] = "dec"}

\* The count the drain waits for: the registered, and the reaped on their way out.
Counts ==
  /\ IsFiniteSet(Leaving)
  /\ inflight = Cardinality(Registered) + Cardinality(Leaving)
                + (IF worker.pc = "dec" THEN 1 ELSE 0)

\* How far the unload has come, and what it has emptied.
Stage ==
  /\ unload \in Phases /\ (alive <=> unload = "up")
  /\ unload \notin {"up", "drain"} =>
       \A c \in Contexts : ctx[c].place # "none" => "COMPLETING" \in ctx[c].flags
  /\ \A c \in Contexts : ctx[c].place = "freed" =>
       "GRAVE" \in ctx[c].flags \/ unload \in {"stop", "flush_last", "down"}
  /\ unload \notin {"up", "drain", "forced"} => Quiesced
  /\ unload \in {"up", "drain", "forced"} => \A i \in DOMAIN queue : queue[i] # Flush
  /\ unload = "flush" => \A i \in DOMAIN queue : queue[i] = Flush => i = Len(queue)
  /\ unload \in {"purge", "stop", "down"} => queue = <<>> /\ worker.pc = "idle"
  /\ unload = "flush_last" => queue = <<Flush>> /\ worker.pc = "idle"
  /\ unload \in {"stop", "flush_last", "down"} => Registered = {}

\* Nothing is freed before the purge, if the graveyard never overflows.
FreedLate ==
  \A c \in Contexts : ctx[c].place = "freed" => unload \in {"stop", "flush_last", "down"}

\* The inductive invariant of the mirror pump.
BioInv == /\ BioTyped /\ (\A c \in Contexts : CtxInv(c)) /\ QueueOnce /\ Graves /\ Counts
          /\ Stage

-----------------------------------------------------------------------------
(* Facts about the operators of the mirror pump.                            *)

\* A merge is a success only of successes.
LEMMA MergeOk ==
  ASSUME NEW have \in Statuses, NEW incoming \in Statuses
  PROVE  /\ StatusMerge(have, incoming) \in Statuses
         /\ StatusMerge(have, incoming) = "ok" <=> have = "ok" /\ incoming = "ok"
  BY DEF StatusMerge, Statuses, Rank

\* The members still to be counted are finitely many; counting one of them
\* counts down by one, and none are left exactly at zero.
LEMMA UncountedFinite ==
  ASSUME NEW c \in Contexts
  PROVE  /\ IsFiniteSet(Uncounted(c)) /\ Cardinality(Uncounted(c)) \in Nat
         /\ Cardinality(Uncounted(c)) = 0 <=> Uncounted(c) = {}
<1>1. IsFiniteSet(Members) /\ Fan[c] \subseteq Members
  BY BioAssumption
<1>2. IsFiniteSet(Uncounted(c))
  BY <1>1, FS_Subset DEF Uncounted
<1> QED
  BY <1>2, FS_CardinalityType, FS_EmptySet

\* Counting one report takes that member, and no other, from those to come.
LEMMA UncountedLess ==
  ASSUME NEW c \in Contexts, NEW k \in Uncounted(c), Uncounted(c)' = Uncounted(c) \ {k}
  PROVE  Cardinality(Uncounted(c)') = Cardinality(Uncounted(c)) - 1
  BY UncountedFinite, FS_RemoveElement

\* A step elsewhere leaves a context's invariant alone.
LEMMA Elsewhere ==
  ASSUME NEW d \in Contexts, CtxInv(d),
         ctx'[d] = ctx[d], call'[d] = call[d], said'[d] = said[d], parent'[d] = parent[d],
         Queued(d)' <=> Queued(d),
         worker' = worker \/ (worker.ctx # d /\ worker'.ctx # d)
  PROVE  CtxInv(d)'
<1>1. /\ Uncounted(d)' = Uncounted(d)
      /\ Ending(d)' <=> Ending(d)
      /\ Burying(d)' <=> Burying(d)
      /\ Ending(d) => worker'.status = worker.status
      /\ worker'.ctx = d <=> worker.ctx = d
  BY DEF Uncounted, Ending, Burying
<1>2. Fresh(d)' /\ Roles(d)' /\ Counted(d)'
  BY <1>1 DEF CtxInv, Fresh, Roles, Counted
<1>3. Ticket(d)'
  BY <1>1 DEF CtxInv, Ticket
<1>4. Claimed(d)'
  BY <1>1 DEF CtxInv, Claimed
<1>5. Reaped(d)'
  BY <1>1 DEF CtxInv, Reaped
<1>6. Truthful(d)'
  BY <1>1 DEF CtxInv, Truthful
<1> QED
  BY <1>2, <1>3, <1>4, <1>5, <1>6 DEF CtxInv

\* The mirror pump starts with no context.
LEMMA BioInitially == Init => BioInv
<1> SUFFICES ASSUME Init PROVE BioInv
  OBVIOUS
<1> USE BioAssumption DEF Init, BioInit, LifeInit
<1>1. BioTyped
  <2>1. Registered = {}
    BY DEF Registered, NoContext
  <2> QED
    BY <2>1, FS_EmptySet DEF BioTyped, Context, NoContext, Resting, Counters, Statuses, Rank
<1>2. ASSUME NEW c \in Contexts PROVE CtxInv(c)
  <2>1. /\ ctx[c] = NoContext /\ call[c] = [k \in Callers |-> "none"] /\ said[c] = {}
        /\ parent[c] = <<>> /\ ~Queued(c) /\ worker = Resting
    BY DEF Queued
  <2> QED
    BY <2>1 DEF CtxInv, Fresh, Roles, Counted, Ticket, Claimed, Reaped, Truthful, NoContext,
                Resting, Ending, Burying, Callers
<1>3. Counts
  <2>1. Registered = {} /\ Leaving = {}
    BY DEF Registered, Leaving, NoContext, Callers
  <2> QED
    BY <2>1, FS_EmptySet DEF Counts, Resting
<1>4. QueueOnce /\ Graves
  BY DEF QueueOnce, Graves
<1>5. Stage
  BY DEF Stage, Phases, NoContext
<1> QED
  BY <1>1, <1>2, <1>3, <1>4, <1>5 DEF BioInv

\* An interval that starts at one has as many numbers as its end says.
LEMMA IntervalSize ==
  ASSUME NEW k \in Nat
  PROVE  Cardinality(1 .. k) = k
<1>1. 1 \in Int /\ k \in Int
  OBVIOUS
<1>2. Cardinality(1 .. k) = IF 1 > k THEN 0 ELSE k - 1 + 1
  BY <1>1, FS_Interval
<1>3. 1 > k => k = 0
  OBVIOUS
<1> QED
  BY <1>2, <1>3

\* What goes onto the list in one go is each of the set, once.
LEMMA Listed ==
  ASSUME NEW S, IsFiniteSet(S)
  PROVE  /\ SetToSeq(S) \in Seq(S)
         /\ \A x \in S : \E i \in DOMAIN SetToSeq(S) : SetToSeq(S)[i] = x
         /\ \A i, j \in DOMAIN SetToSeq(S) : SetToSeq(S)[i] = SetToSeq(S)[j] => i = j
<1> DEFINE n == Cardinality(S)
           f == SetToSeq(S)
<1>1. n \in Nat /\ Bijection(1 .. n, S) # {}
  BY FS_CardinalityType DEF ExistsBijection
<1>2. PICK g \in Bijection(1 .. n, S) : TRUE
  BY <1>1
<1>3. g \in [1 .. n -> S] /\ IsInjective(g)
  BY <1>2 DEF Bijection, Injection
<1>4. f \in [1 .. n -> S] /\ IsInjective(f)
  BY <1>3 DEF SetToSeq
<1>5. Cardinality(1 .. n) = n
  BY <1>1, IntervalSize
<1>6. f \in Surjection(1 .. n, S)
  BY <1>4, <1>5, FS_Injection DEF Injection
<1> QED
  BY <1>1, <1>4, <1>6 DEF Surjection, IsInjective

\* Taking an entry off a list leaves a list, and one that is not there leaves
\* it as it was.
LEMMA Unlinked ==
  ASSUME NEW S, NEW s \in Seq(S), NEW e
  PROVE  /\ RemoveFirst(s, e) \in Seq(S)
         /\ (\A i \in DOMAIN s : s[i] # e) => RemoveFirst(s, e) = s
<1>1. ASSUME NEW i \in 1 .. Len(s) PROVE RemoveAt(s, i) \in Seq(S)
  BY DEF RemoveAt
<1>2. CASE \E i \in 1 .. Len(s) : s[i] = e
  <2> DEFINE I == {i \in 1 .. Len(s) : s[i] = e}
  <2>1. I \in SUBSET Nat /\ I # {}
    BY <1>2
  <2>2. Min(I) \in I
    BY <2>1, LeastNatural DEF Min
  <2>3. SelectInSeq(s, LAMBDA v : v = e) = Min(I)
    BY <2>1 DEF SelectInSeq
  <2> QED
    BY <1>1, <1>2, <2>2, <2>3 DEF RemoveFirst
<1>3. CASE ~ \E i \in 1 .. Len(s) : s[i] = e
  BY <1>3 DEF RemoveFirst
<1> QED
  BY <1>2, <1>3

-----------------------------------------------------------------------------
(* Types, one lemma per part of the pump.                                   *)

\* A grave is dug: the context becomes a tombstone and at most the oldest
\* tombstone is freed.
LEMMA BuryTypes ==
  ASSUME BioTyped, NEW c \in Contexts, Bury(c)
  PROVE  /\ ctx' \in [Contexts -> Context]
         /\ graveyard' \in Seq(Contexts) /\ graves' \in Nat
         /\ \A d \in Contexts : ctx'[d].place = "registered" => ctx[d].place = "registered"
<1> DEFINE yard == Append(RemoveFirst(graveyard, c), c)
           laid == [ctx EXCEPT ![c].flags = @ \cup {"GRAVE"}, ![c].place = "grave"]
<1>1. yard \in Seq(Contexts) /\ yard # <<>>
  <2>1. RemoveFirst(graveyard, c) \in Seq(Contexts)
    BY Unlinked DEF BioTyped
  <2>2. Len(yard) = Len(RemoveFirst(graveyard, c)) + 1
    BY <2>1
  <2>3. yard \in Seq(Contexts) /\ Len(RemoveFirst(graveyard, c)) \in Nat
    BY <2>1
  <2> HIDE DEF yard
  <2> QED
    BY <2>2, <2>3
<1>2. Head(yard) \in Contexts /\ Tail(yard) \in Seq(Contexts)
  BY <1>1
<1>3. /\ laid \in [Contexts -> Context]
      /\ \A d \in Contexts : laid[d].place = "registered" => ctx[d].place = "registered"
  <2> DEFINE r == [ctx[c] EXCEPT !.flags = @ \cup {"GRAVE"}, !.place = "grave"]
  <2>1. ctx \in [Contexts -> Context]
    BY DEF BioTyped
  <2>2. r \in Context /\ r.place = "grave"
    BY <2>1 DEF Context, Flags
  <2>3. laid = [ctx EXCEPT ![c] = r]
    BY <2>1 DEF Context
  <2> HIDE DEF r
  <2> QED
    BY <2>1, <2>2, <2>3
<1>4. ctx' = laid \/ ctx' = [laid EXCEPT ![Head(yard)].place = "freed"]
  BY DEF Bury
<1>5. graveyard' \in {yard, Tail(yard)} /\ graves' \in {graves, graves + 1}
  BY DEF Bury
<1> HIDE DEF yard, laid
<1>6. /\ [laid EXCEPT ![Head(yard)].place = "freed"] \in [Contexts -> Context]
      /\ \A d \in Contexts :
           [laid EXCEPT ![Head(yard)].place = "freed"][d].place = "registered" =>
             laid[d].place = "registered"
  BY <1>2, <1>3 DEF Context
<1>7. graves \in Nat
  BY DEF BioTyped
<1>8. graveyard' \in Seq(Contexts) /\ graves' \in Nat
  BY <1>1, <1>2, <1>5, <1>7
<1> QED
  BY <1>3, <1>4, <1>6, <1>8

\* Only the place of a context tells whether it is registered.
LEMMA StillFinite ==
  ASSUME IsFiniteSet(Registered),
         \A d \in Contexts : ctx'[d].place = "registered" => ctx[d].place = "registered"
  PROVE  IsFiniteSet(Registered')
  BY FS_Subset DEF Registered

\* A call goes on and its context keeps its place.
LEMMA CallTypes ==
  ASSUME BioTyped, NEW c \in Contexts, NEW k \in Callers, NEW pc \in Counters, Goto(c, k, pc),
         ctx' = ctx \/ \E x \in Context : x.place = ctx[c].place /\ ctx' = [ctx EXCEPT ![c] = x],
         said' = said \/ (k \in Members /\ said' = [said EXCEPT ![c] = @ \cup {k}]),
         queue' = queue \/ queue' = Append(queue, c),
         inflight' \in Int,
         UNCHANGED <<parent, graveyard, graves, worker>>
  PROVE  BioTyped'
<1>0. /\ ctx \in [Contexts -> Context] /\ call \in [Contexts -> [Callers -> Counters]]
      /\ said \in [Contexts -> SUBSET Members] /\ queue \in Seq(Contexts \cup {Flush})
      /\ IsFiniteSet(Registered)
  BY DEF BioTyped
<1>1. call' \in [Contexts -> [Callers -> Counters]]
  BY <1>0 DEF Goto
<1>2. /\ ctx' \in [Contexts -> Context]
      /\ \A d \in Contexts : ctx'[d].place = "registered" => ctx[d].place = "registered"
  BY <1>0
<1>3. said' \in [Contexts -> SUBSET Members]
  BY <1>0
<1>4. IsFiniteSet(Registered')
  BY <1>0, <1>2, StillFinite
<1>5. queue' \in Seq(Contexts \cup {Flush})
  BY <1>0
<1> QED
  BY <1>1, <1>2, <1>3, <1>4, <1>5 DEF BioTyped

\* A call keeps the types.
LEMMA CallerTypes ==
  ASSUME BioTyped, NEW c \in Contexts, NEW k \in Callers, Caller(c, k)
  PROVE  BioTyped'
<1>0. ctx[c] \in Context /\ inflight \in Int
  BY DEF BioTyped
<1>1. ASSUME NEW status \in Reports, Report(c, k, status) PROVE BioTyped'
  <2>1. StatusMerge(ctx[c].status, status) \in Statuses
    BY <1>0, MergeOk, BioAssumption DEF Context
  <2> DEFINE x == [ctx[c] EXCEPT !.status = StatusMerge(@, status), !.remaining = @ - 1]
  <2>2. x \in Context /\ x.place = ctx[c].place
    <3>1. ctx[c].remaining - 1 \in Int
      BY <1>0 DEF Context
    <3> QED
      BY <1>0, <2>1, <3>1 DEF Context
  <2>3. ctx' = ctx \/ ctx' = [ctx EXCEPT ![c] = x]
    BY <1>1, <1>0 DEF Report, BioTyped, Context
  <2>4. \E pc \in Counters : Goto(c, k, pc)
    BY <1>1 DEF Report, Counters, Midway
  <2> HIDE DEF x
  <2> QED
    BY <1>0, <1>1, <2>2, <2>3, <2>4, CallTypes DEF Report
<1>2. CASE Straggle(c, k)
  <2> DEFINE x == [ctx[c] EXCEPT !.remaining = @ - 1]
  <2>1. x \in Context /\ x.place = ctx[c].place
    BY <1>0 DEF Context
  <2>2. ctx' = ctx \/ ctx' = [ctx EXCEPT ![c] = x]
    BY <1>2 DEF Straggle
  <2>3. \E pc \in Counters : Goto(c, k, pc)
    BY <1>2 DEF Straggle, Counters, Midway
  <2> HIDE DEF x
  <2> QED
    BY <1>0, <1>2, <2>1, <2>2, <2>3, CallTypes DEF Straggle
<1>3. CASE Claim(c, k)
  <2>1. \A forced \in Reports \cup {"ok"} : StatusMerge(ctx[c].status, forced) \in Statuses
    <3>1. Reports \cup {"ok"} \subseteq Statuses
      BY BioAssumption DEF Statuses, Rank
    <3> QED
      BY <1>0, <3>1, MergeOk DEF Context
  <2>2. ctx' = ctx \/ \E x \in Context : x.place = ctx[c].place /\ ctx' = [ctx EXCEPT ![c] = x]
    <3>1. CASE ctx' # ctx
      <4>1. PICK forced \in Reports \cup {"ok"} :
              ctx' = [ctx EXCEPT ![c].status = StatusMerge(@, forced),
                                 ![c].flags = @ \cup {"COMPLETING"}]
        BY <1>3, <3>1 DEF Claim
      <4> DEFINE x == [ctx[c] EXCEPT !.status = StatusMerge(@, forced),
                                     !.flags = @ \cup {"COMPLETING"}]
      <4>2. x \in Context /\ x.place = ctx[c].place
        BY <1>0, <2>1 DEF Context, Flags
      <4>3. ctx' = [ctx EXCEPT ![c] = x]
        BY <1>0, <4>1 DEF BioTyped, Context
      <4> HIDE DEF x
      <4> QED
        BY <4>2, <4>3
    <3> QED
      BY <3>1
  <2>3. \E pc \in Counters : Goto(c, k, pc)
    BY <1>3 DEF Claim, Counters, Midway
  <2> QED
    BY <1>0, <1>3, <2>2, <2>3, CallTypes DEF Claim
<1>4. CASE Park(c, k)
  BY <1>0, <1>4, CallTypes DEF Park, Counters
<1>5. CASE Reap(c, k)
  <2>1. IsFiniteSet(Registered')
    BY <1>5, BuryTypes, StillFinite DEF Reap, BioTyped
  <2>2. call' \in [Contexts -> [Callers -> Counters]]
    BY <1>5 DEF Reap, Goto, BioTyped, Counters, Midway
  <2> QED
    BY <1>5, <2>1, <2>2, BuryTypes DEF Reap, BioTyped
<1>6. CASE ReapCount(c, k)
  BY <1>0, <1>6, CallTypes DEF ReapCount, Counters
<1> QED
  BY <1>1, <1>2, <1>3, <1>4, <1>5, <1>6 DEF Caller

\* So do a dispatch, a refusal and an abort,
LEMMA DispatchTypes ==
  ASSUME BioTyped, NEW c \in Contexts, Refuse(c) \/ Dispatch(c) \/ Abort(c)
  PROVE  BioTyped'
<1>0. /\ ctx \in [Contexts -> Context] /\ call \in [Contexts -> [Callers -> Counters]]
      /\ parent \in [Contexts -> Seq(Statuses)] /\ inflight \in Int
      /\ IsFiniteSet(Registered)
  BY DEF BioTyped
<1>1. ASSUME NEW status \in Statuses, EndParent(c, status)
      PROVE  parent' \in [Contexts -> Seq(Statuses)]
  BY <1>0, <1>1 DEF EndParent
<1>2. {"ok", "resource", "ioerr"} \subseteq Statuses
  BY DEF Statuses, Rank
<1>3. CASE Refuse(c)
  BY <1>1, <1>2, <1>3 DEF Refuse, BioTyped, Registered
<1>4. CASE Dispatch(c)
  <2>1. CASE ~alive
    BY <1>1, <1>2, <1>4, <2>1 DEF Dispatch, BioTyped, Registered
  <2>2. CASE alive
    <3>1. PICK status \in {"ok", "ioerr"}, sent \in SUBSET Fan[c] :
            /\ ctx' = [ctx EXCEPT ![c] = [place |-> "registered", flags |-> {},
                         remaining |-> Cardinality(Fan[c]), status |-> status]]
            /\ call' = [call EXCEPT ![c] = [k \in Callers |->
                 IF k \in sent \/ (k = Repeat /\ "over_report" \in Admit) THEN "owed"
                 ELSE IF k = Aborter
                      THEN IF sent = Fan[c] THEN "may" ELSE "claim"
                      ELSE "none"]]
      BY <1>4, <2>2 DEF Dispatch
    <3>2. call' \in [Contexts -> [Callers -> Counters]]
      BY <1>0, <3>1 DEF Counters, Midway
    <3>3. Cardinality(Fan[c]) \in Int
      BY FS_CardinalityType, FS_Subset, BioAssumption
    <3>4. ctx' \in [Contexts -> Context]
      BY <1>0, <1>2, <3>1, <3>3 DEF Context, Flags
    <3>5. Registered' \subseteq Registered \cup {c}
      BY <1>0, <3>1 DEF Registered
    <3>6. IsFiniteSet(Registered')
      BY <1>0, <3>5, FS_AddElement, FS_Subset
    <3>7. inflight' \in Int /\ UNCHANGED <<parent, said, graveyard, graves, queue, worker>>
      BY <1>0, <1>4, <2>2 DEF Dispatch
    <3> QED
      BY <3>2, <3>4, <3>6, <3>7 DEF BioTyped
  <2> QED
    BY <2>1, <2>2
<1>5. CASE Abort(c)
  <2>1. call' \in [Contexts -> [Callers -> Counters]]
    BY <1>0, <1>5 DEF Abort, Goto, Counters, Midway
  <2> QED
    BY <1>5, <2>1 DEF Abort, BioTyped, Registered
<1> QED
  BY <1>3, <1>4, <1>5

\* the worker,
LEMMA WorkerTypes ==
  ASSUME BioTyped, Worker
  PROVE  BioTyped'
<1>0. /\ ctx \in [Contexts -> Context]
      /\ parent \in [Contexts -> Seq(Statuses)] /\ inflight \in Int
      /\ queue \in Seq(Contexts \cup {Flush})
      /\ IsFiniteSet(Registered)
      /\ worker \in [pc : {"idle", "end", "reap", "dec"}, ctx : Contexts \cup {None},
                     status : Statuses, dead : BOOLEAN]
      /\ worker.pc # "idle" => worker.ctx \in Contexts
  BY DEF BioTyped
<1>1. CASE WorkerLatch
  <2> DEFINE c == Head(queue)
             x == [ctx[c] EXCEPT !.flags = @ \cup {"RETIRED"}]
  <2>1. c \in Contexts /\ queue' = Tail(queue) /\ queue' \in Seq(Contexts \cup {Flush})
    BY <1>0, <1>1 DEF WorkerLatch
  <2>2. x \in Context /\ x.place = ctx[c].place
    <3>1. ASSUME NEW y \in Context
          PROVE  /\ [y EXCEPT !.flags = @ \cup {"RETIRED"}] \in Context
                 /\ [y EXCEPT !.flags = @ \cup {"RETIRED"}].place = y.place
      BY DEF Context, Flags
    <3>2. ctx[c] \in Context
      BY <1>0, <2>1
    <3> QED
      BY <3>1, <3>2
  <2>3. ctx' = [ctx EXCEPT ![c] = x]
    BY <1>1 DEF WorkerLatch
  <2>4. worker' = [pc |-> "end", ctx |-> c, dead |-> Dead(x),
                   status |-> IF "RESOURCE" \in x.flags THEN "resource" ELSE x.status]
    BY <1>1 DEF WorkerLatch
  <2>5. Dead(x) \in BOOLEAN
    BY DEF Dead
  <2>6. (IF "RESOURCE" \in x.flags THEN "resource" ELSE x.status) \in Statuses
    BY <2>2 DEF Context, Statuses, Rank
  <2> HIDE DEF x, c
  <2>7. /\ ctx' \in [Contexts -> Context]
        /\ \A d \in Contexts : ctx'[d].place = "registered" => ctx[d].place = "registered"
    BY <1>0, <2>2, <2>3
  <2>8. IsFiniteSet(Registered')
    BY <1>0, <2>7, StillFinite
  <2>9. /\ worker' \in [pc : {"idle", "end", "reap", "dec"}, ctx : Contexts \cup {None},
                        status : Statuses, dead : BOOLEAN]
        /\ worker'.pc = "end" /\ worker'.ctx = c
    BY <2>1, <2>4, <2>5, <2>6
  <2> QED
    BY <1>1, <2>1, <2>7, <2>8, <2>9 DEF WorkerLatch, BioTyped
<1>2. CASE WorkerEnd
  <2>1. parent' \in [Contexts -> Seq(Statuses)]
    BY <1>0, <1>2 DEF WorkerEnd, EndParent
  <2>2. worker' = Resting \/ worker' = [worker EXCEPT !.pc = "reap"]
    BY <1>2 DEF WorkerEnd
  <2>3. /\ worker' \in [pc : {"idle", "end", "reap", "dec"}, ctx : Contexts \cup {None},
                        status : Statuses, dead : BOOLEAN]
        /\ worker'.pc = "idle" => worker' = Resting
        /\ worker'.pc # "idle" => worker'.ctx \in Contexts
    BY <1>0, <1>2, <2>2 DEF WorkerEnd, Resting, Statuses, Rank
  <2> QED
    BY <1>2, <2>1, <2>3 DEF WorkerEnd, BioTyped, Registered
<1>3. CASE WorkerReap
  <2>1. /\ worker' \in [pc : {"idle", "end", "reap", "dec"}, ctx : Contexts \cup {None},
                        status : Statuses, dead : BOOLEAN]
        /\ worker'.pc = "dec" /\ worker'.ctx \in Contexts
        /\ Bury(worker.ctx) /\ worker.ctx \in Contexts
    BY <1>0, <1>3 DEF WorkerReap
  <2>2. IsFiniteSet(Registered')
    BY <1>0, <2>1, BuryTypes, StillFinite
  <2> QED
    BY <1>3, <2>1, <2>2, BuryTypes DEF WorkerReap, BioTyped
<1>4. CASE WorkerCount
  <2>1. /\ Resting \in [pc : {"idle", "end", "reap", "dec"}, ctx : Contexts \cup {None},
                        status : Statuses, dead : BOOLEAN]
        /\ Resting.pc = "idle"
    BY DEF Resting, Statuses, Rank
  <2> QED
    BY <1>0, <1>4, <2>1 DEF WorkerCount, BioTyped, Registered
<1> QED
  BY <1>1, <1>2, <1>3, <1>4 DEF Worker

\* and the unload.
LEMMA UnloadTypes ==
  ASSUME BioTyped, UnloadBegin \/ UnloadStep
  PROVE  BioTyped'
<1>0. /\ ctx \in [Contexts -> Context]
      /\ queue \in Seq(Contexts \cup {Flush}) /\ inflight \in Int
      /\ IsFiniteSet(Registered)
  BY DEF BioTyped
<1>1. CASE UnloadForce
  <2> DEFINE forced == {c \in Registered : "COMPLETING" \notin ctx[c].flags}
  <2>1. IsFiniteSet(forced) /\ forced \subseteq Contexts
    BY <1>0, FS_Subset DEF Registered
  <2>2. SetToSeq(forced) \in Seq(Contexts \cup {Flush})
    BY <2>1, Listed
  <2>3. queue' \in Seq(Contexts \cup {Flush})
    BY <1>0, <1>1, <2>2 DEF UnloadForce, ForceAll
  <2>4. \A c \in Contexts : [ctx[c] EXCEPT !.flags = @ \cup {"COMPLETING", "RESOURCE"}] \in Context
    BY <1>0 DEF Context, Flags
  <2>5. ctx' \in [Contexts -> Context]
    BY <1>0, <1>1, <2>4 DEF UnloadForce, ForceAll
  <2>6. \A d \in Contexts : ctx'[d].place = "registered" => ctx[d].place = "registered"
    BY <1>0, <1>1 DEF UnloadForce, ForceAll, Context
  <2>7. IsFiniteSet(Registered')
    BY <1>0, <2>6, StillFinite
  <2> QED
    BY <1>1, <2>3, <2>5, <2>7 DEF UnloadForce, BioTyped
<1>2. CASE UnloadPurge
  <2>1. ctx' \in [Contexts -> Context]
    BY <1>0, <1>2 DEF UnloadPurge, FreeAll, Context
  <2>2. \A d \in Contexts : ctx'[d].place = "registered" => ctx[d].place = "registered"
    BY <1>0, <1>2 DEF UnloadPurge, FreeAll, Context
  <2>3. IsFiniteSet(Registered')
    BY <1>0, <2>2, StillFinite
  <2>4. inflight' \in Int
    BY <1>0, <1>2, FS_CardinalityType DEF UnloadPurge, FreeAll
  <2> QED
    BY <1>2, <2>1, <2>3, <2>4 DEF UnloadPurge, FreeAll, BioTyped
<1>3. CASE UnloadBegin \/ UnloadDrained \/ UnloadGiveUp \/ Flushed \/ UnloadStop \/ UnloadStopped
  <2>1. /\ UNCHANGED <<ctx, call, said, parent, graveyard, graves, inflight, worker>>
        /\ \/ queue' = queue \/ queue' = Append(queue, Flush)
           \/ queue # <<>> /\ queue' = Tail(queue)
    BY <1>3 DEF UnloadBegin, UnloadDrained, UnloadGiveUp, Flushed, UnloadStop, UnloadStopped,
                bioVars
  <2>2. queue' \in Seq(Contexts \cup {Flush})
    BY <1>0, <2>1
  <2> QED
    BY <2>1, <2>2 DEF BioTyped, Registered
<1> QED
  BY <1>1, <1>2, <1>3 DEF UnloadStep

\* The rebuild pump leaves the life of the engine alone.
LEMMA PumpFrame == PumpNext => UNCHANGED lifeVars
  BY DEF PumpNext, Request, Cancel, Ioctl, IoctlSnapshot, IoctlCancel, Thread, PumpClaim,
         PumpStart, PumpTest, PumpBrake, PumpRoute, PumpIssue, PumpPublish, PumpThrottle,
         PumpFinish, PumpExit, Retire, IoctlFail, Reinstate, SetGeometry, lifeVars

\* The types hold throughout, repeated and late calls included.
LEMMA BioTypedNext ==
  ASSUME BioTyped, [Next]_vars
  PROVE  BioTyped'
<1>1. CASE UNCHANGED bioVars
  BY <1>1 DEF bioVars, BioTyped, Registered
<1>2. CASE BioNext
  BY <1>2, DispatchTypes, CallerTypes, WorkerTypes DEF BioNext
<1>3. CASE UnloadBegin \/ UnloadStep
  BY <1>3, UnloadTypes
<1> QED
  BY <1>1, <1>2, <1>3 DEF Next, vars

-----------------------------------------------------------------------------
(* What each step of a call does to the context it is about.                *)

\* A member's report: counted down once, its status merged before the count.
LEMMA ReportHere ==
  ASSUME BioInv, NEW c \in Contexts, NEW k \in Callers, NEW status \in Reports,
         Report(c, k, status)
  PROVE  CtxInv(c)'
<1>0. /\ CtxInv(c) /\ ctx \in [Contexts -> Context] /\ call \in [Contexts -> [Callers -> Counters]]
      /\ said \in [Contexts -> SUBSET Members]
      /\ status \in Statuses /\ Fan[c] \subseteq Members
  BY BioAssumption DEF BioInv, BioTyped
<1>1. k \in Fan[c] /\ k \in Members /\ k # Aborter /\ ctx[c].place # "none" /\ call[c][k] = "owed"
  BY <1>0, BioAssumption DEF Report, CtxInv, Fresh, Roles, Callers
<1>2. /\ UNCHANGED <<parent, queue, worker>>
      /\ said'[c] = IF status = "ok" THEN said[c] \cup {k} ELSE said[c]
  BY <1>0, <1>1 DEF Report
<1>3. /\ Queued(c)' <=> Queued(c)
      /\ Ending(c)' <=> Ending(c)
      /\ Burying(c)' <=> Burying(c)
  BY <1>2 DEF Queued, Ending, Burying
<1>4. CASE ctx[c].flags \cap {"COMPLETING", "RETIRED", "GRAVE"} # {}
  <2>1. "COMPLETING" \in ctx[c].flags
    BY <1>0, <1>1, <1>4 DEF CtxInv, Ticket, Reaped
  <2>2. ctx' = ctx /\ call'[c] = [call[c] EXCEPT ![k] = "straggler"]
    BY <1>0, <1>4 DEF Report, Goto
  <2>3. Uncounted(c)' = Uncounted(c)
    BY <1>0, <1>1, <2>2 DEF Uncounted
  <2>4. Fresh(c)' /\ Roles(c)' /\ Counted(c)'
    BY <1>0, <1>1, <1>2, <1>3, <2>2, <2>3 DEF CtxInv, Fresh, Roles, Counted
  <2>5. Ticket(c)'
    BY <1>0, <1>1, <1>2, <1>3, <2>2 DEF CtxInv, Ticket
  <2>6. Claimed(c)' /\ Reaped(c)'
    BY <1>0, <1>1, <1>2, <1>3, <2>1, <2>2, <2>3 DEF CtxInv, Claimed, Reaped
  <2>7. Truthful(c)'
    BY <1>0, <1>1, <1>2, <1>3, <2>1, <2>2, <2>3 DEF CtxInv, Truthful
  <2> QED
    BY <2>4, <2>5, <2>6, <2>7 DEF CtxInv
<1>5. CASE ctx[c].flags \cap {"COMPLETING", "RETIRED", "GRAVE"} = {}
  <2> DEFINE pc == IF ctx[c].remaining = 1 THEN "claim" ELSE "done"
  <2>1. call'[c] = [call[c] EXCEPT ![k] = pc] /\ pc \in {"claim", "done"}
    BY <1>0, <1>5 DEF Report, Goto
  <2>2. /\ ctx'[c].place = ctx[c].place /\ ctx'[c].flags = ctx[c].flags
        /\ ctx'[c].remaining = ctx[c].remaining - 1
        /\ ctx'[c].status = StatusMerge(ctx[c].status, status)
    BY <1>0, <1>5 DEF Report, Context
  <2>3. /\ k \in Uncounted(c) /\ Uncounted(c)' = Uncounted(c) \ {k}
        /\ Uncounted(c)' = Fan[c] \ ((Fan[c] \ Uncounted(c)) \cup {k})
    BY <1>0, <1>1, <2>1 DEF Uncounted
  <2>4. Cardinality(Uncounted(c)') = Cardinality(Uncounted(c)) - 1
    BY <2>3, UncountedLess
  <2>5. ctx[c].remaining = Cardinality(Uncounted(c))
    BY <1>0, <1>1 DEF CtxInv, Counted
  <2>6. pc = "claim" <=> Uncounted(c)' = {}
    <3>1. Uncounted(c) = {k} => Cardinality(Uncounted(c)) = 1
      BY FS_Singleton
    <3>2. Cardinality(Uncounted(c)) = 1 => Uncounted(c) \ {k} = {}
      <4>1. /\ IsFiniteSet(Uncounted(c) \ {k})
            /\ Cardinality(Uncounted(c) \ {k}) = Cardinality(Uncounted(c)) - 1
        BY <2>3, UncountedFinite, FS_RemoveElement
      <4> QED
        BY <4>1, FS_EmptySet
    <3> QED
      BY <2>3, <2>5, <3>1, <3>2
  <2> HIDE DEF pc
  <2>7. Fresh(c)' /\ Roles(c)'
    BY <1>0, <1>1, <1>2, <1>3, <2>1, <2>2 DEF CtxInv, Fresh, Roles
  <2>8. Counted(c)'
    BY <2>2, <2>4, <2>5 DEF Counted
  <2>9. Ticket(c)'
    BY <1>0, <1>1, <1>2, <1>3, <2>1, <2>2 DEF CtxInv, Ticket
  <2>10. Claimed(c)'
    BY <1>0, <1>1, <1>2, <2>1, <2>2, <2>3, <2>6 DEF CtxInv, Claimed
  <2>11. Reaped(c)'
    BY <1>0, <1>1, <1>3, <1>5, <2>1, <2>2, <2>3 DEF CtxInv, Reaped
  <2>12. Truthful(c)'
    <3>1. ctx'[c].status = "ok" <=> ctx[c].status = "ok" /\ status = "ok"
      BY <1>0, <2>2, MergeOk DEF Context
    <3>2. "COMPLETING" \notin ctx'[c].flags /\ ~Ending(c) /\ parent[c] = <<>>
      BY <1>0, <1>1, <1>5, <2>2 DEF CtxInv, Ticket
    <3>3. said'[c] \subseteq Fan[c]
      BY <1>0, <1>1, <1>2 DEF CtxInv, Truthful
    <3>4. ctx'[c].status = "ok" => Fan[c] \ Uncounted(c)' \subseteq said'[c]
      BY <1>0, <1>1, <1>2, <1>5, <2>3, <3>1 DEF CtxInv, Truthful
    <3> QED
      BY <1>2, <1>3, <3>2, <3>3, <3>4 DEF Truthful
  <2> QED
    BY <2>7, <2>8, <2>9, <2>10, <2>11, <2>12 DEF CtxInv
<1> QED
  BY <1>4, <1>5

\* A report counted after the parent was claimed.
LEMMA StraggleHere ==
  ASSUME BioInv, NEW c \in Contexts, NEW k \in Callers, Straggle(c, k)
  PROVE  CtxInv(c)'
<1>0. /\ CtxInv(c) /\ ctx \in [Contexts -> Context] /\ call \in [Contexts -> [Callers -> Counters]]
      /\ Fan[c] \subseteq Members
  BY BioAssumption DEF BioInv, BioTyped
<1>1. /\ k \in Fan[c] /\ k \in Members /\ k # Aborter /\ ctx[c].place # "none"
      /\ call[c][k] = "straggler" /\ k \in Uncounted(c)
  BY <1>0, BioAssumption DEF Straggle, CtxInv, Fresh, Roles, Callers, Uncounted
<1>2. UNCHANGED <<said, parent, queue, worker>>
  BY DEF Straggle
<1>3. /\ Queued(c)' <=> Queued(c)
      /\ Ending(c)' <=> Ending(c)
      /\ Burying(c)' <=> Burying(c)
  BY <1>2 DEF Queued, Ending, Burying
<1>4. "GRAVE" \notin ctx[c].flags /\ "COMPLETING" \in ctx[c].flags
  BY <1>0, <1>1 DEF CtxInv, Reaped, Claimed
<1> DEFINE left == [ctx[c] EXCEPT !.remaining = @ - 1]
           pc == IF Dead(left) THEN "reap" ELSE "done"
<1>5. call'[c] = [call[c] EXCEPT ![k] = pc] /\ pc \in {"reap", "done"}
  BY <1>0, <1>4 DEF Straggle, Goto
<1>6. ctx'[c] = left
  BY <1>0, <1>4 DEF Straggle
<1>7. /\ left.place = ctx[c].place /\ left.flags = ctx[c].flags
      /\ left.remaining = ctx[c].remaining - 1 /\ left.status = ctx[c].status
  BY <1>0 DEF Context
<1>8. Uncounted(c)' = Uncounted(c) \ {k}
  BY <1>0, <1>1, <1>5 DEF Uncounted
<1>9. /\ Cardinality(Uncounted(c)') = Cardinality(Uncounted(c)) - 1
      /\ ctx[c].remaining = Cardinality(Uncounted(c))
      /\ Cardinality(Uncounted(c)') = 0 <=> Uncounted(c)' = {}
      /\ Cardinality(Uncounted(c)) \in Nat /\ Uncounted(c) # {}
      /\ Cardinality(Uncounted(c)) # 0
  <2>1. Uncounted(c) # {}
    BY <1>1
  <2>2. IsFiniteSet(Uncounted(c)')
    BY <1>8, UncountedFinite, FS_RemoveElement
  <2>3. Cardinality(Uncounted(c)') = Cardinality(Uncounted(c)) - 1
    BY <1>1, <1>8, UncountedLess
  <2> QED
    BY <1>0, <1>1, <2>1, <2>2, <2>3, UncountedFinite, FS_EmptySet DEF CtxInv, Counted
<1>10. pc = "reap" <=> "RETIRED" \in ctx[c].flags /\ Uncounted(c)' = {}
  BY <1>7, <1>9 DEF Dead
<1> HIDE DEF left, pc
<1>11. Fresh(c)' /\ Roles(c)'
  BY <1>0, <1>1, <1>2, <1>3, <1>5, <1>6, <1>7 DEF CtxInv, Fresh, Roles
<1>12. Counted(c)'
  BY <1>6, <1>7, <1>9 DEF Counted
<1>13. Ticket(c)'
  BY <1>0, <1>1, <1>2, <1>3, <1>5, <1>6, <1>7 DEF CtxInv, Ticket
<1>14. Claimed(c)'
  BY <1>0, <1>1, <1>2, <1>4, <1>5, <1>6, <1>7, <1>8 DEF CtxInv, Claimed
<1>15. Reaped(c)'
  <2>1. ~Burying(c) /\ \A j \in Callers : call[c][j] # "reap"
    BY <1>0, <1>1, <1>9 DEF CtxInv, Reaped
  <2>2. pc = "reap" => ctx[c].place = "registered"
    <3>1. ~Quiesced
      BY <1>1 DEF Quiesced, Midway
    <3>2. ctx[c].place # "freed"
      BY <1>4, <3>1 DEF BioInv, Stage
    <3> QED
      BY <1>0, <1>1, <1>4, <3>2 DEF CtxInv, Reaped, Context
  <2> QED
    BY <1>0, <1>1, <1>3, <1>4, <1>5, <1>6, <1>7, <1>8, <1>10, <2>1, <2>2 DEF CtxInv, Reaped
<1>16. Truthful(c)'
  BY <1>0, <1>2, <1>3, <1>4, <1>6, <1>7 DEF CtxInv, Truthful
<1> QED
  BY <1>11, <1>12, <1>13, <1>14, <1>15, <1>16 DEF CtxInv

\* The abort of a set.
LEMMA AbortHere ==
  ASSUME BioInv, NEW c \in Contexts, Abort(c)
  PROVE  CtxInv(c)'
<1>0. /\ CtxInv(c) /\ call \in [Contexts -> [Callers -> Counters]]
      /\ Fan[c] \subseteq Members /\ Aborter \in Callers /\ Aborter \notin Members
  BY BioAssumption DEF BioInv, BioTyped, Callers
<1>1. /\ UNCHANGED <<ctx, said, parent, queue, worker>>
      /\ call'[c] = [call[c] EXCEPT ![Aborter] = "claim"] /\ call[c][Aborter] = "may"
  BY <1>0 DEF Abort, Goto
<1>2. /\ Queued(c)' <=> Queued(c)
      /\ Ending(c)' <=> Ending(c)
      /\ Burying(c)' <=> Burying(c)
      /\ Uncounted(c)' = Uncounted(c)
  BY <1>0, <1>1 DEF Queued, Ending, Burying, Uncounted
<1>3. Fresh(c)' /\ Roles(c)' /\ Counted(c)'
  BY <1>0, <1>1, <1>2 DEF CtxInv, Fresh, Roles, Counted
<1>4. Ticket(c)' /\ Claimed(c)'
  BY <1>0, <1>1, <1>2 DEF CtxInv, Ticket, Claimed
<1>5. Reaped(c)' /\ Truthful(c)'
  BY <1>0, <1>1, <1>2 DEF CtxInv, Reaped, Truthful
<1> QED
  BY <1>3, <1>4, <1>5 DEF CtxInv

\* The claim of the parent: of all the observers one latches COMPLETING.
LEMMA ClaimHere ==
  ASSUME BioInv, NEW c \in Contexts, NEW k \in Callers, Claim(c, k)
  PROVE  CtxInv(c)'
<1>0. /\ CtxInv(c) /\ ctx \in [Contexts -> Context] /\ call \in [Contexts -> [Callers -> Counters]]
      /\ Fan[c] \subseteq Members /\ Aborter \notin Members /\ call[c][k] = "claim"
  BY BioAssumption DEF BioInv, BioTyped, Claim
<1>1. /\ UNCHANGED <<said, parent, queue, worker>> /\ ctx[c].place # "none"
      /\ k \in Members \/ k = Aborter
  BY <1>0 DEF Claim, CtxInv, Fresh, Roles
<1>2. /\ Queued(c)' <=> Queued(c)
      /\ Ending(c)' <=> Ending(c)
      /\ Burying(c)' <=> Burying(c)
  BY <1>1 DEF Queued, Ending, Burying
<1>3. CASE "COMPLETING" \in ctx[c].flags
  <2>1. call'[c] = [call[c] EXCEPT ![k] = "done"] /\ ctx' = ctx
    BY <1>0, <1>3 DEF Claim, Goto
  <2>2. Uncounted(c)' = Uncounted(c)
    BY <1>0, <2>1 DEF Uncounted
  <2>3. Fresh(c)' /\ Roles(c)' /\ Counted(c)'
    BY <1>0, <1>1, <1>2, <2>1, <2>2 DEF CtxInv, Fresh, Roles, Counted
  <2>4. Ticket(c)' /\ Claimed(c)'
    BY <1>0, <1>1, <1>2, <1>3, <2>1, <2>2 DEF CtxInv, Ticket, Claimed
  <2>5. Reaped(c)' /\ Truthful(c)'
    BY <1>0, <1>1, <1>2, <2>1, <2>2 DEF CtxInv, Reaped, Truthful
  <2> QED
    BY <2>3, <2>4, <2>5 DEF CtxInv
<1>4. CASE "COMPLETING" \notin ctx[c].flags
  <2>1. call'[c] = [call[c] EXCEPT ![k] = "park"]
    BY <1>0, <1>4 DEF Claim, Goto
  <2>2. PICK forced \in (IF k = Aborter THEN Reports \ {"ok"} ELSE {"ok"}) :
          ctx' = [ctx EXCEPT ![c].status = StatusMerge(@, forced),
                             ![c].flags = @ \cup {"COMPLETING"}]
    BY <1>4 DEF Claim
  <2>3. /\ ctx'[c].place = ctx[c].place /\ ctx'[c].flags = ctx[c].flags \cup {"COMPLETING"}
        /\ ctx'[c].remaining = ctx[c].remaining
        /\ ctx'[c].status = StatusMerge(ctx[c].status, forced)
    BY <1>0, <2>2 DEF Context
  <2>4. forced \in Statuses /\ (k = Aborter => forced # "ok")
    BY BioAssumption DEF Statuses, Rank
  <2>5. Uncounted(c)' = Uncounted(c)
    BY <1>0, <2>1 DEF Uncounted
  <2>6. /\ \A j \in Callers : call[c][j] # "park"
        /\ ~Queued(c) /\ ~Ending(c) /\ parent[c] = <<>>
        /\ "RETIRED" \notin ctx[c].flags
    BY <1>0, <1>1, <1>4 DEF CtxInv, Ticket
  <2>7. Fresh(c)' /\ Roles(c)' /\ Counted(c)'
    BY <1>0, <1>1, <1>2, <2>1, <2>3, <2>5 DEF CtxInv, Fresh, Roles, Counted
  <2>8. Ticket(c)'
    BY <1>0, <1>1, <1>2, <2>1, <2>3, <2>6 DEF CtxInv, Ticket
  <2>9. Claimed(c)'
    BY <1>0, <1>1, <2>1, <2>3, <2>5 DEF CtxInv, Claimed
  <2>10. Reaped(c)'
    BY <1>0, <1>1, <1>2, <2>1, <2>3, <2>5, <2>6 DEF CtxInv, Reaped
  <2>11. Truthful(c)'
    <3>1. ctx'[c].status = "ok" <=> ctx[c].status = "ok" /\ forced = "ok"
      BY <1>0, <2>3, <2>4, MergeOk DEF Context
    <3>2. ctx'[c].status = "ok" => said[c] = Fan[c]
      BY <1>0, <1>1, <1>4, <2>4, <3>1 DEF CtxInv, Truthful, Claimed
    <3> QED
      BY <1>0, <1>1, <1>2, <2>3, <2>6, <3>2 DEF CtxInv, Truthful
  <2> QED
    BY <2>7, <2>8, <2>9, <2>10, <2>11 DEF CtxInv
<1> QED
  BY <1>3, <1>4

\* The winner puts the context on the work list.
LEMMA ParkHere ==
  ASSUME BioInv, NEW c \in Contexts, NEW k \in Callers, Park(c, k)
  PROVE  CtxInv(c)'
<1>0. /\ CtxInv(c) /\ call \in [Contexts -> [Callers -> Counters]]
      /\ queue \in Seq(Contexts \cup {Flush}) /\ call[c][k] = "park"
  BY DEF BioInv, BioTyped, Park
<1>1. /\ UNCHANGED <<ctx, said, parent, worker>> /\ ctx[c].place # "none"
      /\ call'[c] = [call[c] EXCEPT ![k] = "done"]
  BY <1>0 DEF Park, Goto, CtxInv, Fresh
<1>2. /\ Ending(c)' <=> Ending(c)
      /\ Burying(c)' <=> Burying(c)
      /\ Uncounted(c)' = Uncounted(c)
  BY <1>0, <1>1 DEF Ending, Burying, Uncounted
<1>3. Queued(c)'
  <2>1. queue' = Append(queue, c)
    BY DEF Park
  <2>2. Len(queue) + 1 \in DOMAIN queue' /\ queue'[Len(queue) + 1] = c
    BY <1>0, <2>1
  <2> QED
    BY <2>2 DEF Queued
<1>4. Fresh(c)' /\ Roles(c)' /\ Counted(c)'
  BY <1>0, <1>1, <1>2 DEF CtxInv, Fresh, Roles, Counted
<1>5. Ticket(c)'
  BY <1>0, <1>1, <1>2, <1>3 DEF CtxInv, Ticket
<1>6. Claimed(c)'
  BY <1>0, <1>1, <1>2 DEF CtxInv, Claimed, Ticket
<1>7. Reaped(c)' /\ Truthful(c)'
  BY <1>0, <1>1, <1>2 DEF CtxInv, Reaped, Truthful
<1> QED
  BY <1>4, <1>5, <1>6, <1>7 DEF CtxInv

\* Once reaped, the context is counted out by the caller that reaped it.
LEMMA ReapCountHere ==
  ASSUME BioInv, NEW c \in Contexts, NEW k \in Callers, ReapCount(c, k)
  PROVE  CtxInv(c)'
<1>0. /\ CtxInv(c) /\ call \in [Contexts -> [Callers -> Counters]] /\ call[c][k] = "dec"
      /\ k # Aborter
  BY DEF BioInv, BioTyped, ReapCount, CtxInv, Roles
<1>1. /\ UNCHANGED <<ctx, said, parent, worker, queue>> /\ ctx[c].place # "none"
      /\ call'[c] = [call[c] EXCEPT ![k] = "done"]
  BY <1>0 DEF ReapCount, Goto, CtxInv, Fresh
<1>2. /\ Queued(c)' <=> Queued(c)
      /\ Ending(c)' <=> Ending(c)
      /\ Burying(c)' <=> Burying(c)
      /\ Uncounted(c)' = Uncounted(c)
  BY <1>0, <1>1 DEF Queued, Ending, Burying, Uncounted
<1>3. Fresh(c)' /\ Roles(c)' /\ Counted(c)'
  BY <1>0, <1>1, <1>2 DEF CtxInv, Fresh, Roles, Counted
<1>4. Ticket(c)' /\ Claimed(c)'
  BY <1>0, <1>1, <1>2 DEF CtxInv, Ticket, Claimed
<1>5. Reaped(c)' /\ Truthful(c)'
  BY <1>0, <1>1, <1>2 DEF CtxInv, Reaped, Truthful
<1> QED
  BY <1>3, <1>4, <1>5 DEF CtxInv

-----------------------------------------------------------------------------
(* Reaping.                                                                 *)

\* A context that is buried is not yet on the graveyard, so it is laid at the
\* end of it, and what falls off the other end is another tombstone or itself.
LEMMA Buried ==
  ASSUME BioInv, NEW c \in Contexts, ctx[c].place = "registered", Bury(c)
  PROVE  /\ ctx'[c].place \in {"grave", "freed"} /\ ctx'[c].flags = ctx[c].flags \cup {"GRAVE"}
         /\ ctx'[c].remaining = ctx[c].remaining /\ ctx'[c].status = ctx[c].status
         /\ \A d \in Contexts \ {c} :
              \/ ctx'[d] = ctx[d]
              \/ ctx[d].place = "grave" /\ ctx'[d] = [ctx[d] EXCEPT !.place = "freed"]
         /\ Graves'
         /\ Len(graveyard) < GraveMax =>
              /\ ctx'[c].place = "grave" /\ \A d \in Contexts \ {c} : ctx'[d] = ctx[d]
<1>0. /\ ctx \in [Contexts -> Context] /\ graveyard \in Seq(Contexts)
      /\ graves = Len(graveyard) /\ GraveMax \in Nat
      /\ \A i, j \in DOMAIN graveyard : graveyard[i] = graveyard[j] => i = j
      /\ \A i \in DOMAIN graveyard : ctx[graveyard[i]].place = "grave"
  BY BioAssumption DEF BioInv, BioTyped, Graves
<1> DEFINE yard == Append(graveyard, c)
           laid == [ctx EXCEPT ![c].flags = @ \cup {"GRAVE"}, ![c].place = "grave"]
           full == graves + 1 > GraveMax
<1>1. RemoveFirst(graveyard, c) = graveyard
  <2>1. \A i \in DOMAIN graveyard : graveyard[i] # c
    BY <1>0
  <2> QED
    BY <1>0, <2>1, Unlinked
<1>2. /\ graveyard' = IF full THEN Tail(yard) ELSE yard
      /\ graves' = IF full THEN graves ELSE graves + 1
      /\ ctx' = IF full THEN [laid EXCEPT ![Head(yard)].place = "freed"] ELSE laid
  BY <1>1 DEF Bury
<1>3. /\ laid \in [Contexts -> Context]
      /\ laid[c].place = "grave" /\ laid[c].flags = ctx[c].flags \cup {"GRAVE"}
      /\ laid[c].remaining = ctx[c].remaining /\ laid[c].status = ctx[c].status
      /\ \A d \in Contexts \ {c} : laid[d] = ctx[d]
  <2> DEFINE r == [ctx[c] EXCEPT !.flags = @ \cup {"GRAVE"}, !.place = "grave"]
  <2>2. /\ r \in Context /\ r.place = "grave" /\ r.flags = ctx[c].flags \cup {"GRAVE"}
        /\ r.remaining = ctx[c].remaining /\ r.status = ctx[c].status
    BY <1>0 DEF Context, Flags
  <2>3. laid = [ctx EXCEPT ![c] = r]
    BY <1>0 DEF Context
  <2> HIDE DEF r
  <2> QED
    BY <1>0, <2>2, <2>3
<1>4. /\ yard \in Seq(Contexts) /\ Len(yard) = Len(graveyard) + 1
      /\ \A i \in DOMAIN yard : yard[i] = IF i = Len(yard) THEN c ELSE graveyard[i]
      /\ DOMAIN graveyard = 1 .. Len(graveyard) /\ Len(graveyard) \in Nat
  BY <1>0
<1> HIDE DEF yard, laid
<1>5. /\ \A i, j \in DOMAIN yard : yard[i] = yard[j] => i = j
      /\ \A i \in DOMAIN yard : yard[i] \in Contexts /\ laid[yard[i]].place = "grave"
  BY <1>0, <1>3, <1>4
<1>6. CASE full
  <2>1. /\ Head(yard) = yard[1] /\ 1 \in DOMAIN yard
        /\ Len(Tail(yard)) = Len(graveyard)
        /\ \A i \in DOMAIN Tail(yard) : i + 1 \in DOMAIN yard /\ Tail(yard)[i] = yard[i + 1]
        /\ \A i \in DOMAIN Tail(yard) : i \in Nat
    BY <1>4
  <2>2. \A d \in Contexts : ctx'[d] = IF d = yard[1] THEN [laid[d] EXCEPT !.place = "freed"]
                                      ELSE laid[d]
    BY <1>2, <1>3, <1>6, <2>1
  <2>3. graveyard' = Tail(yard) /\ graves' = Len(graveyard)
    BY <1>0, <1>2, <1>6
  <2>4. \A i \in DOMAIN graveyard' : graveyard'[i] # yard[1] /\ graveyard'[i] \in Contexts
    BY <1>4, <1>5, <2>1, <2>3
  <2>5. \A i, j \in DOMAIN graveyard' : graveyard'[i] = graveyard'[j] => i = j
    BY <1>5, <2>1, <2>3
  <2>6. ASSUME NEW i \in DOMAIN graveyard' PROVE ctx'[graveyard'[i]].place = "grave"
    <3>1. /\ graveyard'[i] \in Contexts /\ graveyard'[i] # yard[1]
          /\ i + 1 \in DOMAIN yard /\ graveyard'[i] = yard[i + 1]
      BY <2>1, <2>3, <2>4
    <3>2. ctx'[graveyard'[i]] = laid[yard[i + 1]]
      BY <2>2, <3>1
    <3> QED
      BY <1>5, <3>1, <3>2
  <2>7. Graves'
    BY <2>1, <2>3, <2>5, <2>6 DEF Graves
  <2>8. \A d \in Contexts : d = yard[1] => laid[d].place = "grave"
    BY <1>5, <2>1
  <2>9. ~(Len(graveyard) < GraveMax)
    BY <1>0, <1>6
  <2>10. \A d \in Contexts : laid[d] \in Context
    BY <1>3
  <2>11. ASSUME NEW d \in Contexts, d # c
         PROVE  \/ ctx'[d] = ctx[d]
                \/ ctx[d].place = "grave" /\ ctx'[d] = [ctx[d] EXCEPT !.place = "freed"]
    BY <1>3, <2>2, <2>8, <2>11
  <2>12. ctx'[c] = [laid[c] EXCEPT !.place = "freed"] \/ ctx'[c] = laid[c]
    BY <2>2
  <2>13. /\ ctx'[c].place \in {"grave", "freed"} /\ ctx'[c].flags = laid[c].flags
         /\ ctx'[c].remaining = laid[c].remaining /\ ctx'[c].status = laid[c].status
    BY <1>3, <2>10, <2>12 DEF Context
  <2> QED
    BY <1>3, <2>7, <2>9, <2>11, <2>13
<1>7. CASE ~full
  <2>1. graveyard' = yard /\ graves' = Len(yard) /\ ctx' = laid
    BY <1>0, <1>2, <1>4, <1>7
  <2>2. Graves'
    BY <1>5, <2>1 DEF Graves
  <2> QED
    BY <1>3, <2>1, <2>2
<1> QED
  BY <1>6, <1>7

\* A tombstone may be freed at any time: nobody uses it.
LEMMA Evicted ==
  ASSUME NEW d \in Contexts, CtxInv(d), ctx[d] \in Context, ctx[d].place = "grave",
         ctx'[d] = [ctx[d] EXCEPT !.place = "freed"],
         call'[d] = call[d], said'[d] = said[d], parent'[d] = parent[d],
         Queued(d)' <=> Queued(d),
         worker' = worker \/ (worker.ctx # d /\ worker'.ctx # d)
  PROVE  CtxInv(d)'
<1>1. /\ Uncounted(d)' = Uncounted(d)
      /\ Ending(d)' <=> Ending(d)
      /\ Burying(d)' <=> Burying(d)
      /\ Ending(d) => worker'.status = worker.status
      /\ worker'.ctx = d <=> worker.ctx = d
  BY DEF Uncounted, Ending, Burying
<1>2. /\ ctx'[d].place = "freed" /\ ctx'[d].flags = ctx[d].flags
      /\ ctx'[d].remaining = ctx[d].remaining /\ ctx'[d].status = ctx[d].status
  BY DEF Context
<1>3. Fresh(d)' /\ Roles(d)' /\ Counted(d)'
  BY <1>1, <1>2 DEF CtxInv, Fresh, Roles, Counted
<1>4. Ticket(d)'
  BY <1>1, <1>2 DEF CtxInv, Ticket
<1>5. Claimed(d)'
  BY <1>1, <1>2 DEF CtxInv, Claimed
<1>6. Reaped(d)'
  BY <1>1, <1>2 DEF CtxInv, Reaped
<1>7. Truthful(d)'
  BY <1>1, <1>2 DEF CtxInv, Truthful
<1> QED
  BY <1>3, <1>4, <1>5, <1>6, <1>7 DEF CtxInv

\* A caller that saw the last report come after the retirement reaps.
LEMMA ReapHere ==
  ASSUME BioInv, NEW c \in Contexts, NEW k \in Callers, Reap(c, k)
  PROVE  CtxInv(c)' /\ ctx[c].place = "registered"
<1>0. /\ CtxInv(c) /\ call \in [Contexts -> [Callers -> Counters]]
      /\ call[c][k] = "reap" /\ k # Aborter /\ Bury(c)
  BY DEF BioInv, BioTyped, Reap, CtxInv, Roles
<1>1. /\ UNCHANGED <<said, parent, worker, queue>>
      /\ call'[c] = [call[c] EXCEPT ![k] = "dec"]
  BY <1>0 DEF Reap, Goto
<1>2. /\ Queued(c)' <=> Queued(c)
      /\ Ending(c)' <=> Ending(c)
      /\ Burying(c)' <=> Burying(c)
      /\ Uncounted(c)' = Uncounted(c)
  BY <1>0, <1>1 DEF Queued, Ending, Burying, Uncounted
<1>3. /\ Uncounted(c) = {} /\ "RETIRED" \in ctx[c].flags /\ ctx[c].place = "registered"
      /\ ~Burying(c)
  BY <1>0 DEF CtxInv, Reaped
<1>4. /\ ctx'[c].place \in {"grave", "freed"} /\ ctx'[c].flags = ctx[c].flags \cup {"GRAVE"}
      /\ ctx'[c].remaining = ctx[c].remaining /\ ctx'[c].status = ctx[c].status
  BY <1>0, <1>3, Buried
<1>5. Fresh(c)' /\ Roles(c)' /\ Counted(c)'
  BY <1>0, <1>1, <1>2, <1>3, <1>4 DEF CtxInv, Fresh, Roles, Counted
<1>6. Ticket(c)'
  BY <1>0, <1>1, <1>2, <1>3, <1>4 DEF CtxInv, Ticket
<1>7. Claimed(c)'
  BY <1>0, <1>1, <1>2, <1>3, <1>4 DEF CtxInv, Claimed
<1>8. Reaped(c)'
  BY <1>0, <1>1, <1>2, <1>3, <1>4 DEF CtxInv, Reaped
<1>9. Truthful(c)'
  BY <1>0, <1>1, <1>2, <1>3, <1>4 DEF CtxInv, Truthful
<1> QED
  BY <1>3, <1>5, <1>6, <1>7, <1>8, <1>9 DEF CtxInv

\* The worker reaps a context whose reports were all in when it retired it.
LEMMA WorkerReapHere ==
  ASSUME BioInv, NEW c \in Contexts, WorkerReap, worker.ctx = c
  PROVE  CtxInv(c)' /\ ctx[c].place = "registered"
<1>0. /\ CtxInv(c) /\ worker.pc = "reap" /\ Bury(c)
      /\ worker \in [pc : {"idle", "end", "reap", "dec"}, ctx : Contexts \cup {None},
                     status : Statuses, dead : BOOLEAN]
  BY DEF BioInv, BioTyped, WorkerReap
<1>1. /\ UNCHANGED <<call, said, parent, queue>> /\ worker'.pc = "dec" /\ worker'.ctx = c
  BY <1>0 DEF WorkerReap
<1>2. /\ Queued(c)' <=> Queued(c)
      /\ ~Ending(c) /\ ~Ending(c)'
      /\ Burying(c) /\ ~Burying(c)'
      /\ Uncounted(c)' = Uncounted(c)
  BY <1>0, <1>1 DEF Queued, Ending, Burying, Uncounted
<1>3. /\ Uncounted(c) = {} /\ "RETIRED" \in ctx[c].flags /\ ctx[c].place = "registered"
      /\ \A k \in Callers : call[c][k] # "reap"
  BY <1>0, <1>2 DEF CtxInv, Reaped
<1>4. /\ ctx'[c].place \in {"grave", "freed"} /\ ctx'[c].flags = ctx[c].flags \cup {"GRAVE"}
      /\ ctx'[c].remaining = ctx[c].remaining /\ ctx'[c].status = ctx[c].status
  BY <1>0, <1>3, Buried
<1>5. Fresh(c)' /\ Roles(c)' /\ Counted(c)'
  BY <1>0, <1>1, <1>2, <1>3, <1>4 DEF CtxInv, Fresh, Roles, Counted
<1>6. Ticket(c)'
  BY <1>0, <1>1, <1>2, <1>3, <1>4 DEF CtxInv, Ticket
<1>7. Claimed(c)'
  BY <1>0, <1>1, <1>2, <1>3, <1>4 DEF CtxInv, Claimed
<1>8. Reaped(c)'
  BY <1>0, <1>1, <1>2, <1>3, <1>4 DEF CtxInv, Reaped
<1>9. Truthful(c)'
  BY <1>0, <1>1, <1>2, <1>3, <1>4 DEF CtxInv, Truthful
<1> QED
  BY <1>3, <1>5, <1>6, <1>7, <1>8, <1>9 DEF CtxInv

\* The worker counts out what it reaped.
LEMMA WorkerCountHere ==
  ASSUME BioInv, NEW c \in Contexts, WorkerCount, worker.ctx = c
  PROVE  CtxInv(c)'
<1>0. CtxInv(c) /\ worker.pc = "dec" /\ worker'.ctx # c
  BY BioAssumption DEF BioInv, WorkerCount, Resting
<1>1. UNCHANGED <<ctx, call, said, parent, queue>>
  BY DEF WorkerCount
<1>2. /\ Queued(c)' <=> Queued(c)
      /\ ~Ending(c) /\ ~Ending(c)'
      /\ ~Burying(c) /\ ~Burying(c)'
      /\ Uncounted(c)' = Uncounted(c)
  BY <1>0, <1>1 DEF Queued, Ending, Burying, Uncounted
<1>5. Fresh(c)' /\ Roles(c)' /\ Counted(c)'
  BY <1>0, <1>1, <1>2 DEF CtxInv, Fresh, Roles, Counted
<1>6. Ticket(c)' /\ Claimed(c)'
  BY <1>0, <1>1, <1>2 DEF CtxInv, Ticket, Claimed
<1>7. Reaped(c)' /\ Truthful(c)'
  BY <1>0, <1>1, <1>2 DEF CtxInv, Reaped, Truthful
<1> QED
  BY <1>5, <1>6, <1>7 DEF CtxInv

\* The worker ends the parent, with the status it read at the retirement.
LEMMA WorkerEndHere ==
  ASSUME BioInv, NEW c \in Contexts, WorkerEnd, worker.ctx = c
  PROVE  CtxInv(c)'
<1>0. /\ CtxInv(c) /\ worker.pc = "end"
      /\ parent \in [Contexts -> Seq(Statuses)]
      /\ worker \in [pc : {"idle", "end", "reap", "dec"}, ctx : Contexts \cup {None},
                     status : Statuses, dead : BOOLEAN]
  BY DEF BioInv, BioTyped, WorkerEnd
<1>1. UNCHANGED <<ctx, call, said, queue>>
  BY DEF WorkerEnd
<1>2. /\ Queued(c)' <=> Queued(c)
      /\ Ending(c) /\ ~Ending(c)'
      /\ Burying(c)' <=> Burying(c)
      /\ Uncounted(c)' = Uncounted(c)
  BY <1>0, <1>1, BioAssumption DEF WorkerEnd, Queued, Ending, Burying, Uncounted, Resting
<1>3. parent[c] = <<>>
  BY <1>0, <1>2 DEF CtxInv, Ticket
<1>4. parent'[c] = Append(parent[c], worker.status)
  BY <1>0 DEF WorkerEnd, EndParent
<1>5. /\ parent'[c] # <<>> /\ Len(parent'[c]) = 1 /\ parent'[c][1] = worker.status
      /\ DOMAIN parent'[c] = 1 .. 1
  <2>1. parent'[c] = Append(<<>>, worker.status) /\ worker.status \in Statuses
    BY <1>0, <1>3, <1>4
  <2> QED
    BY <2>1
<1>6. Fresh(c)' /\ Roles(c)' /\ Counted(c)'
  BY <1>0, <1>1, <1>2, BioAssumption DEF CtxInv, Fresh, Roles, Counted
<1>7. Ticket(c)'
  BY <1>0, <1>1, <1>2, <1>5 DEF CtxInv, Ticket
<1>8. Claimed(c)'
  BY <1>0, <1>1, <1>2 DEF CtxInv, Claimed
<1>9. Reaped(c)'
  BY <1>0, <1>1, <1>2 DEF CtxInv, Reaped
<1>10. Truthful(c)'
  BY <1>0, <1>1, <1>2, <1>5 DEF CtxInv, Truthful
<1> QED
  BY <1>6, <1>7, <1>8, <1>9, <1>10 DEF CtxInv

\* The worker takes a context off its list and retires it.
LEMMA WorkerLatchHere ==
  ASSUME BioInv, NEW c \in Contexts, WorkerLatch, Head(queue) = c
  PROVE  CtxInv(c)'
<1>0. /\ CtxInv(c) /\ worker.pc = "idle" /\ queue # <<>> /\ queue' = Tail(queue)
      /\ worker.ctx # c /\ ctx \in [Contexts -> Context] /\ queue \in Seq(Contexts \cup {Flush})
  BY BioAssumption DEF BioInv, BioTyped, WorkerLatch, Resting
<1>1. UNCHANGED <<call, said, parent>>
  BY DEF WorkerLatch
<1> DEFINE x == [ctx[c] EXCEPT !.flags = @ \cup {"RETIRED"}]
<1>2. /\ x.place = ctx[c].place /\ x.flags = ctx[c].flags \cup {"RETIRED"}
      /\ x.remaining = ctx[c].remaining /\ x.status = ctx[c].status
  BY <1>0 DEF Context
<1>3. /\ ctx'[c] = x /\ worker'.pc = "end" /\ worker'.ctx = c /\ worker'.dead = Dead(x)
      /\ worker'.status = IF "RESOURCE" \in x.flags THEN "resource" ELSE x.status
  <2> DEFINE h == Head(queue)
             y == [ctx[h] EXCEPT !.flags = @ \cup {"RETIRED"}]
  <2>0. h = c /\ y = x
    OBVIOUS
  <2>1. ctx' = [ctx EXCEPT ![h] = y]
    BY DEF WorkerLatch
  <2>2. worker' = [pc |-> "end", ctx |-> h, dead |-> Dead(y),
                   status |-> IF "RESOURCE" \in y.flags THEN "resource" ELSE y.status]
    BY DEF WorkerLatch
  <2> HIDE DEF h, y
  <2> HIDE DEF x
  <2> QED
    BY <1>0, <2>0, <2>1, <2>2
<1>4. Queued(c) /\ ~Queued(c)'
  <2>1. queue[1] = c /\ 1 \in DOMAIN queue
    BY <1>0
  <2>2. \A i \in DOMAIN queue' : i + 1 \in DOMAIN queue /\ queue'[i] = queue[i + 1] /\ i + 1 # 1
    BY <1>0
  <2> QED
    BY <2>1, <2>2 DEF Queued, BioInv, QueueOnce
<1>5. /\ ~Ending(c) /\ ~Burying(c) /\ Ending(c)' /\ (Burying(c)' <=> Dead(x))
      /\ Uncounted(c)' = Uncounted(c)
  BY <1>0, <1>1, <1>3 DEF Ending, Burying, Uncounted
<1>6. /\ ctx[c].place # "none" /\ parent[c] = <<>> /\ "COMPLETING" \in ctx[c].flags
      /\ "RETIRED" \notin ctx[c].flags /\ \A k \in Callers : call[c][k] # "park"
  BY <1>0, <1>4, <1>5 DEF CtxInv, Fresh, Ticket
<1>7. Dead(x) <=> Uncounted(c) = {}
  <2>1. x.remaining = Cardinality(Uncounted(c))
    BY <1>0, <1>2, <1>6 DEF CtxInv, Counted
  <2> QED
    BY <1>2, <2>1, UncountedFinite DEF Dead
<1>8. ctx[c].place = "registered"
  <2>1. queue # <<Flush>>
    BY <1>0, BioAssumption
  <2>2. ctx[c].place # "freed"
    BY <1>0, <1>6, <2>1 DEF BioInv, Stage, CtxInv, Reaped
  <2> QED
    BY <1>0, <1>6, <2>2 DEF CtxInv, Reaped, Context
<1> HIDE DEF x
<1>9. Fresh(c)' /\ Roles(c)' /\ Counted(c)'
  BY <1>0, <1>1, <1>2, <1>3, <1>5, <1>6 DEF CtxInv, Fresh, Roles, Counted
<1>10. Ticket(c)'
  BY <1>0, <1>1, <1>2, <1>3, <1>4, <1>5, <1>6 DEF CtxInv, Ticket
<1>11. Claimed(c)'
  BY <1>0, <1>1, <1>2, <1>3, <1>5, <1>6 DEF CtxInv, Claimed
<1>12. Reaped(c)'
  BY <1>0, <1>1, <1>2, <1>3, <1>5, <1>6, <1>7, <1>8 DEF CtxInv, Reaped
<1>13. Truthful(c)'
  BY <1>0, <1>1, <1>2, <1>3, <1>5, <1>6 DEF CtxInv, Truthful
<1> QED
  BY <1>9, <1>10, <1>11, <1>12, <1>13 DEF CtxInv

-----------------------------------------------------------------------------
(* The work list, the count of the drain and the stages of the unload.      *)

\* A context that is not on the work list can join it.
LEMMA QueueGrows ==
  ASSUME BioTyped, QueueOnce, NEW c, queue' = Append(queue, c), ~Queued(c)
  PROVE  /\ QueueOnce' /\ \A d : Queued(d)' <=> Queued(d) \/ d = c
<1>1. /\ queue \in Seq(Contexts \cup {Flush})
  BY DEF BioTyped
<1>2. /\ DOMAIN queue = 1 .. Len(queue) /\ DOMAIN queue' = 1 .. Len(queue) + 1
      /\ \A i \in DOMAIN queue : queue'[i] = queue[i] /\ queue[i] # c
      /\ queue'[Len(queue) + 1] = c /\ Len(queue) \in Nat
  BY <1>1 DEF Queued
<1> QED
  BY <1>2 DEF QueueOnce, Queued

\* The head leaves the work list, and was on it once.
LEMMA QueueShrinks ==
  ASSUME BioTyped, QueueOnce, queue # <<>>, queue' = Tail(queue)
  PROVE  /\ QueueOnce' /\ \A d : d # Head(queue) => (Queued(d)' <=> Queued(d))
         /\ \A i \in DOMAIN queue' : i + 1 \in DOMAIN queue /\ queue'[i] = queue[i + 1]
         /\ Len(queue') = Len(queue) - 1
<1>1. /\ queue \in Seq(Contexts \cup {Flush})
  BY DEF BioTyped
<1>2. /\ DOMAIN queue = 1 .. Len(queue) /\ DOMAIN queue' = 1 .. Len(queue) - 1
      /\ \A i \in DOMAIN queue' : i + 1 \in DOMAIN queue /\ queue'[i] = queue[i + 1]
      /\ Len(queue) \in Nat /\ queue[1] = Head(queue) /\ Len(queue') = Len(queue) - 1
  BY <1>1
<1>3. QueueOnce'
  BY <1>2 DEF QueueOnce
<1>4. ASSUME NEW d, d # Head(queue), NEW i \in DOMAIN queue, queue[i] = d
      PROVE  i - 1 \in DOMAIN queue' /\ queue'[i - 1] = d
  <2>1. i # 1 /\ i \in 1 .. Len(queue)
    BY <1>2, <1>4
  <2>2. i - 1 \in DOMAIN queue' /\ (i - 1) + 1 = i
    BY <1>2, <2>1
  <2> QED
    BY <1>2, <1>4, <2>2
<1>5. ASSUME NEW d, d # Head(queue) PROVE Queued(d)' <=> Queued(d)
  <2>1. ASSUME Queued(d) PROVE Queued(d)'
    BY <1>4, <1>5, <2>1 DEF Queued
  <2>2. ASSUME Queued(d)' PROVE Queued(d)
    BY <1>2, <2>2 DEF Queued
  <2> QED
    BY <2>1, <2>2
<1> QED
  BY <1>2, <1>3, <1>5

\* A step of the pump that registers no context keeps the stage, if it frees
\* only tombstones and starts nothing once the calls are over.
LEMMA StageKept ==
  ASSUME BioInv, UNCHANGED lifeVars, Quiesced' \/ ~Quiesced \/ unload \in {"up", "drain", "forced"},
         \A d \in Contexts :
           /\ ctx'[d].place # "none" => ctx[d].place # "none"
           /\ ctx[d].flags \subseteq ctx'[d].flags
           /\ ctx'[d].place = "freed" => ctx[d].place = "freed" \/ "GRAVE" \in ctx'[d].flags
           /\ ctx'[d].place = "registered" => ctx[d].place = "registered",
         \/ UNCHANGED queue /\ (worker' = worker \/ worker.pc # "idle")
         \/ worker' = worker /\ ~Quiesced /\ \E c \in Contexts : queue' = Append(queue, c)
         \/ queue # <<>> /\ Head(queue) # Flush /\ queue' = Tail(queue)
  PROVE  Stage'
<1>0. queue \in Seq(Contexts \cup {Flush}) /\ Stage /\ Flush \notin Contexts
  BY BioAssumption DEF BioInv, BioTyped
<1>1. unload \in {"up", "drain", "forced"} \/ (Quiesced /\ Quiesced')
  BY <1>0 DEF Stage, Phases, Unloading
<1>2. UNCHANGED <<alive, unload>>
  BY DEF lifeVars
<1>3. unload \in {"stop", "flush_last", "down"} => Registered' = {}
  BY <1>0 DEF Stage, Registered
<1>4. CASE UNCHANGED queue /\ (worker' = worker \/ worker.pc # "idle")
  BY <1>0, <1>1, <1>2, <1>3, <1>4 DEF Stage
<1>5. CASE worker' = worker /\ ~Quiesced /\ \E c \in Contexts : queue' = Append(queue, c)
  <2>1. unload \in {"up", "drain", "forced"}
    BY <1>1, <1>5
  <2>2. \A i \in DOMAIN queue' : queue'[i] # Flush
    BY <1>0, <1>5, <2>1 DEF Stage
  <2> QED
    BY <1>0, <1>2, <2>1, <2>2 DEF Stage
<1>6. CASE queue # <<>> /\ Head(queue) # Flush /\ queue' = Tail(queue)
  <2>1. /\ \A i \in DOMAIN queue' : i + 1 \in DOMAIN queue /\ queue'[i] = queue[i + 1] /\ i \in Nat
        /\ Len(queue') = Len(queue) - 1 /\ Len(queue) \in Nat /\ Len(queue') \in Nat
    BY <1>0, <1>6
  <2>2. unload \notin {"purge", "stop", "flush_last", "down"}
    <3>1. queue # <<Flush>>
      BY <1>6
    <3> QED
      BY <1>0, <1>6, <3>1 DEF Stage
  <2>3. unload \in {"up", "drain", "forced"} => \A i \in DOMAIN queue' : queue'[i] # Flush
    BY <1>0, <2>1 DEF Stage
  <2>4. unload = "flush" => \A i \in DOMAIN queue' : queue'[i] = Flush => i = Len(queue')
    <3> SUFFICES ASSUME unload = "flush", NEW i \in DOMAIN queue', queue'[i] = Flush
                 PROVE  i = Len(queue')
      OBVIOUS
    <3>1. i + 1 = Len(queue)
      BY <1>0, <2>1 DEF Stage
    <3> QED
      BY <2>1, <3>1
  <2> QED
    BY <1>0, <1>1, <1>2, <1>3, <2>2, <2>3, <2>4 DEF Stage
<1> QED
  BY <1>4, <1>5, <1>6

\* What is left in the count after a call leaves, or is counted out.
LEMMA LeavingKept ==
  ASSUME NEW c \in Contexts, NEW k \in Callers, NEW pc, Goto(c, k, pc),
         call \in [Contexts -> [Callers -> Counters]]
  PROVE  /\ pc # "dec" /\ call[c][k] # "dec" => Leaving' = Leaving
         /\ pc = "dec" /\ call[c][k] # "dec" =>
              Leaving' = Leaving \cup {<<c, k>>} /\ <<c, k>> \notin Leaving
         /\ pc # "dec" /\ call[c][k] = "dec" =>
              Leaving' = Leaving \ {<<c, k>>} /\ <<c, k>> \in Leaving
<1>1. \A d \in Contexts, j \in Callers :
        call'[d][j] = IF d = c /\ j = k THEN pc ELSE call[d][j]
  BY DEF Goto
<1>2. Leaving' = {p \in Contexts \X Callers : call'[p[1]][p[2]] = "dec"}
  BY DEF Leaving
<1>3. \A p \in Contexts \X Callers : p[1] \in Contexts /\ p[2] \in Callers /\ p = <<p[1], p[2]>>
  OBVIOUS
<1>4. \A p \in Contexts \X Callers : p \in Leaving' <=> (IF p = <<c, k>> THEN pc ELSE call[p[1]][p[2]]) = "dec"
  BY <1>1, <1>2, <1>3
<1>5. \A p \in Contexts \X Callers : p \in Leaving <=> call[p[1]][p[2]] = "dec"
  BY DEF Leaving
<1>6. Leaving \subseteq Contexts \X Callers /\ Leaving' \subseteq Contexts \X Callers
      /\ <<c, k>> \in Contexts \X Callers
  BY <1>2 DEF Leaving
<1> QED
  BY <1>4, <1>5, <1>6

-----------------------------------------------------------------------------
(* The invariant is kept, action by action.                                 *)

\* A step of a call keeps the invariant: the context it is about by the lemmas
\* above, the others because nothing of theirs changes.
LEMMA CallerKeeps ==
  ASSUME Admit = {}, BioInv, NEW c \in Contexts, NEW k \in Callers, Caller(c, k)
  PROVE  BioInv'
<1>0. /\ BioTyped /\ QueueOnce /\ Graves /\ Counts /\ Stage /\ (\A d \in Contexts : CtxInv(d))
      /\ ctx \in [Contexts -> Context] /\ call \in [Contexts -> [Callers -> Counters]]
      /\ said \in [Contexts -> SUBSET Members] /\ inflight \in Int
  BY DEF BioInv, BioTyped
<1>1. BioTyped'
  BY <1>0, CallerTypes
<1>2. CtxInv(c)'
  BY ReportHere, StraggleHere, ClaimHere, ParkHere, ReapHere, ReapCountHere DEF Caller
<1>3. ASSUME (\E status \in Reports : Report(c, k, status)) \/ Straggle(c, k) \/ Claim(c, k)
      PROVE  BioInv'
  <2>1. /\ UNCHANGED <<parent, graveyard, graves, inflight, queue, worker, lifeVars>>
        /\ \A d \in Contexts \ {c} : ctx'[d] = ctx[d] /\ call'[d] = call[d] /\ said'[d] = said[d]
    BY <1>0, <1>3 DEF Report, Straggle, Claim, Goto
  <2>2. /\ ctx'[c].place = ctx[c].place /\ ctx[c].flags \subseteq ctx'[c].flags
    <3>1. CASE \E status \in Reports : Report(c, k, status)
      BY <1>0, <3>1 DEF Report, Context
    <3>2. CASE Straggle(c, k)
      BY <1>0, <3>2 DEF Straggle, Context
    <3>3. CASE Claim(c, k)
      <4>1. CASE ctx' = ctx
        BY <4>1
      <4>2. CASE ctx' # ctx
        <5>1. PICK forced \in (IF k = Aborter THEN Reports \ {"ok"} ELSE {"ok"}) :
                ctx' = [ctx EXCEPT ![c].status = StatusMerge(@, forced),
                                   ![c].flags = @ \cup {"COMPLETING"}]
          BY <3>3, <4>2 DEF Claim
        <5> QED
          BY <1>0, <5>1 DEF Context
      <4> QED
        BY <4>1, <4>2
    <3> QED
      BY <1>3, <3>1, <3>2, <3>3
  <2>3. ASSUME NEW d \in Contexts PROVE CtxInv(d)'
    <3>1. CASE d # c
      BY <1>0, <2>1, <3>1, Elsewhere DEF Queued
    <3> QED
      BY <1>2, <3>1
  <2>4. Graves'
    <3>1. \A d \in Contexts : ctx'[d].place = ctx[d].place
      BY <2>1, <2>2
    <3>2. \A i \in DOMAIN graveyard : graveyard[i] \in Contexts
      BY <1>0 DEF BioTyped
    <3> QED
      BY <1>0, <2>1, <3>1, <3>2 DEF Graves
  <2>5. Leaving' = Leaving
    <3>1. \E pc \in Counters \ {"dec"} : Goto(c, k, pc)
      BY <1>3 DEF Report, Straggle, Claim, Counters, Midway
    <3>2. call[c][k] # "dec"
      BY <1>3 DEF Report, Straggle, Claim
    <3> QED
      BY <1>0, <3>1, <3>2, LeavingKept
  <2>6. Registered' = Registered
    BY <2>1, <2>2 DEF Registered
  <2>7. Counts'
    BY <1>0, <2>1, <2>5, <2>6 DEF Counts
  <2>8. Quiesced' \/ ~Quiesced \/ unload \in {"up", "drain", "forced"}
    BY <1>3 DEF Report, Straggle, Claim, CallsAllowed, Quiesced, Midway
  <2>9. Stage'
    <3>1. \A d \in Contexts : ctx'[d].place = ctx[d].place /\ ctx[d].flags \subseteq ctx'[d].flags
      BY <2>1, <2>2
    <3> QED
      BY <2>1, <2>8, <3>1, StageKept
  <2>10. QueueOnce'
    BY <1>0, <2>1 DEF QueueOnce
  <2> QED
    BY <1>1, <2>3, <2>4, <2>7, <2>9, <2>10 DEF BioInv
<1>4. ASSUME Park(c, k) PROVE BioInv'
  <2>1. /\ UNCHANGED <<ctx, said, parent, graveyard, graves, inflight, worker, lifeVars>>
        /\ queue' = Append(queue, c) /\ Goto(c, k, "done") /\ call[c][k] = "park"
        /\ \A d \in Contexts \ {c} : call'[d] = call[d]
    BY <1>0, <1>4 DEF Park, Goto
  <2>2. ~Queued(c)
    BY <1>0, <2>1 DEF CtxInv, Ticket
  <2>3. QueueOnce' /\ \A d : Queued(d)' <=> Queued(d) \/ d = c
    BY <1>0, <2>1, <2>2, QueueGrows
  <2>4. ASSUME NEW d \in Contexts PROVE CtxInv(d)'
    <3>1. CASE d # c
      BY <1>0, <2>1, <2>3, <3>1, Elsewhere
    <3> QED
      BY <1>2, <3>1
  <2>5. Leaving' = Leaving /\ Registered' = Registered
    BY <1>0, <2>1, LeavingKept DEF Registered
  <2>6. Counts' /\ Graves'
    BY <1>0, <2>1, <2>5 DEF Counts, Graves
  <2>7. Stage'
    <3>1. ~Quiesced
      BY <2>1 DEF Quiesced, Midway
    <3> QED
      BY <2>1, <3>1, StageKept
  <2> QED
    BY <1>1, <2>3, <2>4, <2>6, <2>7 DEF BioInv
<1>5. ASSUME Reap(c, k) PROVE BioInv'
  <2>1. /\ UNCHANGED <<said, parent, inflight, queue, worker, lifeVars>> /\ Bury(c)
        /\ Goto(c, k, "dec") /\ call[c][k] = "reap"
        /\ \A d \in Contexts \ {c} : call'[d] = call[d]
    BY <1>0, <1>5 DEF Reap, Goto
  <2>2. ctx[c].place = "registered"
    BY <1>5, ReapHere
  <2>3. /\ ctx'[c].place \in {"grave", "freed"} /\ ctx'[c].flags = ctx[c].flags \cup {"GRAVE"}
        /\ \A d \in Contexts \ {c} :
             \/ ctx'[d] = ctx[d]
             \/ ctx[d].place = "grave" /\ ctx'[d] = [ctx[d] EXCEPT !.place = "freed"]
        /\ Graves'
    BY <2>1, <2>2, Buried
  <2>4. ASSUME NEW d \in Contexts, d # c PROVE CtxInv(d)'
    <3>1. CASE ctx'[d] = ctx[d]
      BY <1>0, <2>1, <2>4, <3>1, Elsewhere DEF Queued
    <3>2. CASE ctx[d].place = "grave" /\ ctx'[d] = [ctx[d] EXCEPT !.place = "freed"]
      BY <1>0, <2>1, <2>4, <3>2, Evicted DEF Queued
    <3> QED
      BY <2>3, <2>4, <3>1, <3>2
  <2>5. Registered' = Registered \ {c} /\ c \in Registered
    <3>1. \A d \in Contexts \ {c} : ctx'[d].place = "registered" <=> ctx[d].place = "registered"
      BY <1>0, <2>3 DEF Context
    <3> QED
      BY <2>2, <2>3, <3>1 DEF Registered
  <2>6. Leaving' = Leaving \cup {<<c, k>>} /\ <<c, k>> \notin Leaving
    BY <1>0, <2>1, LeavingKept
  <2>7. /\ IsFiniteSet(Leaving') /\ Cardinality(Leaving') = Cardinality(Leaving) + 1
        /\ Cardinality(Registered') = Cardinality(Registered) - 1
        /\ Cardinality(Registered) \in Nat /\ Cardinality(Leaving) \in Nat
    BY <1>0, <2>5, <2>6, FS_AddElement, FS_RemoveElement, FS_CardinalityType DEF Counts, BioTyped
  <2>8. Counts'
    BY <1>0, <2>1, <2>7 DEF Counts
  <2>9. Stage'
    <3>1. ~Quiesced
      BY <2>1 DEF Quiesced, Midway
    <3>2. ASSUME NEW d \in Contexts
          PROVE  /\ ctx'[d].place # "none" => ctx[d].place # "none"
                 /\ ctx[d].flags \subseteq ctx'[d].flags
                 /\ ctx'[d].place = "freed" => ctx[d].place = "freed" \/ "GRAVE" \in ctx'[d].flags
                 /\ ctx'[d].place = "registered" => ctx[d].place = "registered"
      <4>1. CASE d = c
        BY <2>2, <2>3, <4>1
      <4>2. CASE ctx'[d] = ctx[d]
        BY <4>2
      <4>3. CASE ctx[d].place = "grave" /\ ctx'[d] = [ctx[d] EXCEPT !.place = "freed"]
        BY <1>0, <4>3 DEF Context, CtxInv, Reaped
      <4> QED
        BY <2>3, <4>1, <4>2, <4>3
    <3> QED
      BY <2>1, <3>1, <3>2, StageKept
  <2>10. QueueOnce'
    BY <1>0, <2>1 DEF QueueOnce
  <2> QED
    BY <1>1, <1>2, <2>3, <2>4, <2>8, <2>9, <2>10 DEF BioInv
<1>6. ASSUME ReapCount(c, k) PROVE BioInv'
  <2>1. /\ UNCHANGED <<ctx, said, parent, graveyard, graves, queue, worker, lifeVars>>
        /\ Goto(c, k, "done") /\ call[c][k] = "dec" /\ inflight' = inflight - 1
        /\ \A d \in Contexts \ {c} : call'[d] = call[d]
    BY <1>0, <1>6 DEF ReapCount, Goto
  <2>2. ASSUME NEW d \in Contexts, d # c PROVE CtxInv(d)'
    BY <1>0, <2>1, <2>2, Elsewhere DEF Queued
  <2>3. Leaving' = Leaving \ {<<c, k>>} /\ <<c, k>> \in Leaving /\ Registered' = Registered
    BY <1>0, <2>1, LeavingKept DEF Registered
  <2>4. /\ IsFiniteSet(Leaving') /\ Cardinality(Leaving') = Cardinality(Leaving) - 1
        /\ Cardinality(Registered) \in Nat /\ Cardinality(Leaving) \in Nat
    <3>1. IsFiniteSet(Leaving) /\ IsFiniteSet(Registered)
      BY <1>0 DEF Counts, BioTyped
    <3>2. Cardinality(Registered) \in Nat /\ Cardinality(Leaving) \in Nat
      BY <3>1, FS_CardinalityType
    <3> QED
      BY <2>3, <3>1, <3>2, FS_RemoveElement
  <2>5. Counts' /\ Graves' /\ QueueOnce'
    BY <1>0, <2>1, <2>3, <2>4 DEF Counts, Graves, QueueOnce
  <2>6. Stage'
    <3>1. ~Quiesced
      BY <2>1 DEF Quiesced, Midway
    <3> QED
      BY <2>1, <3>1, StageKept
  <2> QED
    BY <1>1, <1>2, <2>2, <2>5, <2>6 DEF BioInv
<1> QED
  BY <1>3, <1>4, <1>5, <1>6 DEF Caller

\* So do a refusal, a dispatch and an abort,
LEMMA DispatchKeeps ==
  ASSUME Admit = {}, BioInv, NEW c \in Contexts, Refuse(c) \/ Dispatch(c) \/ Abort(c)
  PROVE  BioInv'
<1>0. /\ BioTyped /\ QueueOnce /\ Graves /\ Counts /\ Stage /\ (\A d \in Contexts : CtxInv(d))
      /\ ctx \in [Contexts -> Context] /\ call \in [Contexts -> [Callers -> Counters]]
      /\ parent \in [Contexts -> Seq(Statuses)] /\ inflight \in Int
      /\ Aborter \in Callers /\ Repeat \in Callers /\ Members \subseteq Callers
      /\ Aborter \notin Members /\ Repeat \notin Members /\ Aborter # Repeat
      /\ Fan[c] \subseteq Members /\ Fan[c] # {} /\ IsFiniteSet(Fan[c])
  BY BioAssumption, FS_Subset DEF BioInv, BioTyped, Callers
<1>1. BioTyped'
  BY <1>0, DispatchTypes
<1>2. CASE Abort(c)
  <2>1. /\ UNCHANGED <<ctx, said, parent, graveyard, graves, inflight, queue, worker, lifeVars>>
        /\ Goto(c, Aborter, "claim") /\ call[c][Aborter] = "may"
        /\ \A d \in Contexts \ {c} : call'[d] = call[d]
        /\ unload \in {"up", "drain", "forced"}
    BY <1>0, <1>2 DEF Abort, Goto, CallsAllowed
  <2>2. ASSUME NEW d \in Contexts PROVE CtxInv(d)'
    <3>1. CASE d # c
      BY <1>0, <2>1, <3>1, Elsewhere DEF Queued
    <3> QED
      BY <1>2, AbortHere, <3>1
  <2>3. Leaving' = Leaving /\ Registered' = Registered
    BY <1>0, <2>1, LeavingKept DEF Registered
  <2>4. Counts' /\ Graves' /\ QueueOnce'
    BY <1>0, <2>1, <2>3 DEF Counts, Graves, QueueOnce
  <2>5. Stage'
    BY <2>1, StageKept
  <2> QED
    BY <1>1, <2>2, <2>4, <2>5 DEF BioInv
<1>3. CASE Refuse(c) \/ (Dispatch(c) /\ ~alive)
  <2>1. /\ UNCHANGED <<ctx, call, said, graveyard, graves, inflight, queue, worker, lifeVars>>
        /\ ctx[c].place = "none" /\ parent[c] = <<>>
        /\ \E status \in {"resource", "ioerr"} : parent' = [parent EXCEPT ![c] = Append(@, status)]
    BY <1>3 DEF Refuse, Dispatch, EndParent
  <2>2. ASSUME NEW d \in Contexts, d # c PROVE CtxInv(d)'
    BY <1>0, <2>1, <2>2, Elsewhere DEF Queued
  <2>3. CtxInv(c)'
    <3>1. PICK status \in {"resource", "ioerr"} : parent'[c] = Append(<<>>, status)
      BY <1>0, <2>1
    <3>2. /\ Len(parent'[c]) = 1 /\ parent'[c][1] = status /\ DOMAIN parent'[c] = 1 .. 1
          /\ parent'[c] # <<>>
      BY <3>1
    <3>3. /\ Queued(c)' <=> Queued(c)
          /\ Ending(c)' <=> Ending(c)
          /\ Burying(c)' <=> Burying(c)
          /\ Uncounted(c)' = Uncounted(c)
      BY <2>1 DEF Queued, Ending, Burying, Uncounted
    <3>4. ~Queued(c) /\ ~Ending(c) /\ \A k \in Callers : call[c][k] = "none"
      BY <1>0, <2>1 DEF CtxInv, Fresh, Ending
    <3>5. Fresh(c)' /\ Roles(c)' /\ Counted(c)'
      BY <1>0, <2>1, <3>3 DEF CtxInv, Fresh, Roles, Counted
    <3>6. Ticket(c)'
      BY <1>0, <2>1, <3>2, <3>3, <3>4 DEF CtxInv, Ticket
    <3>7. Claimed(c)' /\ Reaped(c)'
      BY <1>0, <2>1, <3>3 DEF CtxInv, Claimed, Reaped
    <3>8. Truthful(c)'
      BY <1>0, <2>1, <3>2, <3>3, <3>4 DEF CtxInv, Truthful
    <3> QED
      BY <3>5, <3>6, <3>7, <3>8 DEF CtxInv
  <2>4. Counts' /\ Graves' /\ QueueOnce' /\ Stage'
    <3>1. Leaving' = Leaving /\ Registered' = Registered /\ (Quiesced' <=> Quiesced)
      BY <2>1 DEF Leaving, Registered, Quiesced
    <3> QED
      BY <1>0, <2>1, <3>1 DEF Counts, Graves, QueueOnce, Stage, lifeVars
  <2> QED
    BY <1>1, <2>2, <2>3, <2>4 DEF BioInv
<1>4. CASE Dispatch(c) /\ alive
  <2>1. /\ UNCHANGED <<said, parent, graveyard, graves, queue, worker, lifeVars>>
        /\ ctx[c].place = "none" /\ parent[c] = <<>> /\ inflight' = inflight + 1
    BY <1>4 DEF Dispatch
  <2>2. PICK status \in {"ok", "ioerr"}, sent \in SUBSET Fan[c] :
          /\ ctx' = [ctx EXCEPT ![c] = [place |-> "registered", flags |-> {},
                       remaining |-> Cardinality(Fan[c]), status |-> status]]
          /\ call' = [call EXCEPT ![c] = [k \in Callers |->
               IF k \in sent \/ (k = Repeat /\ "over_report" \in Admit) THEN "owed"
               ELSE IF k = Aborter
                    THEN IF sent = Fan[c] THEN "may" ELSE "claim"
                    ELSE "none"]]
    BY <1>4 DEF Dispatch
  <2>3. /\ ctx'[c].place = "registered" /\ ctx'[c].flags = {} /\ ctx'[c].status = status
        /\ ctx'[c].remaining = Cardinality(Fan[c])
        /\ \A d \in Contexts \ {c} : ctx'[d] = ctx[d]
    BY <1>0, <2>2
  <2>4. /\ \A k \in Callers : call'[c][k] =
             IF k \in sent THEN "owed"
             ELSE IF k = Aborter THEN IF sent = Fan[c] THEN "may" ELSE "claim" ELSE "none"
        /\ \A d \in Contexts \ {c} : call'[d] = call[d]
    BY <1>0, <2>2
  <2>5. /\ ~Queued(c) /\ ~Ending(c) /\ worker.ctx # c /\ \A k \in Callers : call[c][k] = "none"
    BY <1>0, <2>1 DEF CtxInv, Fresh, Ending
  <2>6. /\ Uncounted(c)' = Fan[c]
        /\ ~Queued(c)' /\ ~Ending(c)' /\ ~Burying(c)' /\ worker'.ctx # c
    <3>1. Uncounted(c)' = {m \in Fan[c] : call'[c][m] \in {"none", "owed", "straggler"}}
      BY DEF Uncounted
    <3>2. \A m \in Fan[c] : call'[c][m] \in {"none", "owed", "straggler"}
      BY <1>0, <2>4
    <3> QED
      BY <2>1, <2>5, <3>1, <3>2 DEF Queued, Ending, Burying
  <2>7. CtxInv(c)'
    <3>1. Fresh(c)' /\ Roles(c)' /\ Counted(c)'
      BY <1>0, <2>3, <2>4, <2>6 DEF Fresh, Roles, Counted
    <3>2. Ticket(c)'
      BY <1>0, <2>1, <2>3, <2>4, <2>6 DEF Ticket
    <3>3. Claimed(c)'
      BY <1>0, <2>3, <2>4, <2>6 DEF Claimed
    <3>4. Reaped(c)'
      BY <1>0, <2>3, <2>4, <2>6 DEF Reaped
    <3>5. Truthful(c)'
      BY <1>0, <2>1, <2>3, <2>6 DEF Truthful, CtxInv
    <3> QED
      BY <3>1, <3>2, <3>3, <3>4, <3>5 DEF CtxInv
  <2>8. ASSUME NEW d \in Contexts, d # c PROVE CtxInv(d)'
    BY <1>0, <2>1, <2>3, <2>4, <2>8, Elsewhere DEF Queued
  <2>9. Leaving' = Leaving
    <3>1. \A d \in Contexts, k \in Callers : call'[d][k] = "dec" <=> call[d][k] = "dec"
      BY <2>4, <2>5
    <3>2. Leaving' = {p \in Contexts \X Callers : call'[p[1]][p[2]] = "dec"}
      BY DEF Leaving
    <3> QED
      BY <3>1, <3>2 DEF Leaving
  <2>10. Registered' = Registered \cup {c} /\ c \notin Registered
    BY <2>1, <2>3 DEF Registered
  <2>11. Counts'
    <3>1. /\ IsFiniteSet(Registered) /\ IsFiniteSet(Leaving)
      BY <1>0 DEF Counts, BioTyped
    <3>2. /\ Cardinality(Registered) \in Nat /\ Cardinality(Leaving) \in Nat
          /\ Cardinality(Registered') = Cardinality(Registered) + 1
      BY <2>10, <3>1, FS_CardinalityType, FS_AddElement
    <3> QED
      BY <1>0, <2>1, <2>9, <3>1, <3>2 DEF Counts
  <2>12. Graves' /\ QueueOnce'
    <3>1. \A i \in DOMAIN graveyard : graveyard[i] \in Contexts \ {c}
      BY <1>0, <2>1 DEF Graves, BioTyped
    <3> QED
      BY <1>0, <2>1, <2>3, <3>1 DEF Graves, QueueOnce
  <2>13. Stage'
    <3>1. unload = "up" /\ unload' = "up" /\ alive' /\ alive \in BOOLEAN
      BY <1>0, <1>4, <2>1 DEF Stage, lifeVars
    <3>2. \A d \in Contexts : ctx'[d].place = "freed" => "GRAVE" \in ctx'[d].flags
      BY <1>0, <2>3, <3>1 DEF Stage
    <3> QED
      BY <1>0, <2>1, <3>1, <3>2 DEF Stage
  <2> QED
    BY <1>1, <2>7, <2>8, <2>11, <2>12, <2>13 DEF BioInv
<1> QED
  BY <1>2, <1>3, <1>4

\* and the steps of the worker.
LEMMA WorkerKeeps ==
  ASSUME BioInv, Worker
  PROVE  BioInv'
<1>0. /\ BioTyped /\ QueueOnce /\ Graves /\ Counts /\ Stage /\ (\A d \in Contexts : CtxInv(d))
      /\ ctx \in [Contexts -> Context] /\ inflight \in Int
      /\ worker.pc # "idle" => worker.ctx \in Contexts
      /\ queue \in Seq(Contexts \cup {Flush})
      /\ parent \in [Contexts -> Seq(Statuses)]
  BY DEF BioInv, BioTyped
<1>1. BioTyped'
  BY <1>0, WorkerTypes
<1>2. Worker => UNCHANGED <<call, said, lifeVars>>
  BY DEF Worker, WorkerLatch, WorkerEnd, WorkerReap, WorkerCount
<1>3. Leaving' = Leaving /\ (Quiesced' <=> Quiesced)
  BY <1>2 DEF Leaving, Quiesced
<1>4. CASE WorkerLatch
  <2>0. PICK c \in Contexts : c = Head(queue)
    BY <1>0, <1>4 DEF WorkerLatch
  <2>1. /\ c \in Contexts /\ queue # <<>> /\ c # Flush /\ queue' = Tail(queue) /\ worker.pc = "idle"
        /\ UNCHANGED <<parent, graveyard, graves, inflight>>
        /\ worker.ctx \notin Contexts /\ worker'.ctx = c /\ worker'.pc = "end"
    <3>1. worker = Resting
      BY <1>0, <1>4 DEF WorkerLatch, BioTyped
    <3> QED
      BY <1>4, <2>0, <3>1, BioAssumption DEF WorkerLatch, Resting
  <2>2. /\ \A d \in Contexts \ {c} : ctx'[d] = ctx[d]
        /\ ctx'[c].place = ctx[c].place /\ ctx[c].flags \subseteq ctx'[c].flags
    <3>1. ctx' = [ctx EXCEPT ![c] = [ctx[c] EXCEPT !.flags = @ \cup {"RETIRED"}]]
      BY <1>4, <2>0 DEF WorkerLatch
    <3>2. ctx[c] \in Context
      BY <1>0, <2>1
    <3> QED
      BY <1>0, <2>1, <3>1, <3>2 DEF Context
  <2>3. CtxInv(c)'
    BY <1>4, <2>0, WorkerLatchHere
  <2>4. QueueOnce' /\ \A d : d # c => (Queued(d)' <=> Queued(d))
    BY <1>0, <2>0, <2>1, QueueShrinks
  <2>5. ASSUME NEW d \in Contexts, d # c PROVE CtxInv(d)'
    BY <1>0, <1>2, <2>1, <2>2, <2>4, <2>5, Elsewhere
  <2>6. \A d \in Contexts : ctx'[d].place = ctx[d].place /\ ctx[d].flags \subseteq ctx'[d].flags
    BY <2>2
  <2>7. Registered' = Registered
    BY <2>6 DEF Registered
  <2>8. Counts'
    BY <1>0, <1>3, <2>1, <2>7 DEF Counts
  <2>9. Graves'
    <3>1. \A i \in DOMAIN graveyard : graveyard[i] \in Contexts
      BY <1>0 DEF BioTyped
    <3> QED
      BY <1>0, <2>1, <2>6, <3>1 DEF Graves
  <2>10. Quiesced' \/ ~Quiesced
    BY <1>3
  <2>11. Head(queue) # Flush
    BY <1>4 DEF WorkerLatch
  <2>12. Stage'
    BY <1>2, <2>1, <2>6, <2>10, <2>11, StageKept
  <2> QED
    BY <1>1, <2>3, <2>4, <2>5, <2>8, <2>9, <2>12 DEF BioInv
<1>5. CASE WorkerEnd
  <2>0. PICK c \in Contexts : c = worker.ctx
    BY <1>0, <1>5 DEF WorkerEnd
  <2>1. /\ c \in Contexts /\ worker.pc = "end" /\ UNCHANGED <<ctx, graveyard, graves, inflight, queue>>
        /\ \A d \in Contexts \ {c} : parent'[d] = parent[d]
        /\ worker'.ctx \in {c, None} /\ worker'.pc \in {"reap", "idle"}
    BY <1>0, <1>5, <2>0 DEF WorkerEnd, EndParent, Resting, BioTyped
  <2>2. CtxInv(c)'
    BY <1>5, <2>0, WorkerEndHere
  <2>3. ASSUME NEW d \in Contexts, d # c PROVE CtxInv(d)'
    <3>1. worker.ctx # d /\ worker'.ctx # d
      BY <2>0, <2>1, <2>3, BioAssumption
    <3> QED
      BY <1>0, <1>2, <2>1, <2>3, <3>1, Elsewhere DEF Queued
  <2>4. Counts' /\ Graves' /\ QueueOnce'
    BY <1>0, <1>3, <2>1 DEF Counts, Graves, QueueOnce, Registered
  <2>5. Stage'
    BY <1>2, <1>3, <2>1, StageKept
  <2> QED
    BY <1>1, <2>2, <2>3, <2>4, <2>5 DEF BioInv
<1>6. CASE WorkerReap
  <2>0. PICK c \in Contexts : c = worker.ctx
    BY <1>0, <1>6 DEF WorkerReap
  <2>1. /\ c \in Contexts /\ worker.pc = "reap" /\ UNCHANGED <<parent, inflight, queue>>
        /\ worker'.ctx = c /\ worker'.pc = "dec" /\ Bury(c)
    BY <1>0, <1>6, <2>0 DEF WorkerReap, BioTyped
  <2>2. CtxInv(c)' /\ ctx[c].place = "registered"
    BY <1>6, <2>0, WorkerReapHere
  <2>3. /\ ctx'[c].place \in {"grave", "freed"} /\ ctx'[c].flags = ctx[c].flags \cup {"GRAVE"}
        /\ \A d \in Contexts \ {c} :
             \/ ctx'[d] = ctx[d]
             \/ ctx[d].place = "grave" /\ ctx'[d] = [ctx[d] EXCEPT !.place = "freed"]
        /\ Graves'
    BY <2>1, <2>2, Buried
  <2>4. ASSUME NEW d \in Contexts, d # c PROVE CtxInv(d)'
    <3>0. worker.ctx # d /\ worker'.ctx # d
      BY <2>0, <2>1, <2>4
    <3>1. CASE ctx'[d] = ctx[d]
      BY <1>0, <1>2, <2>1, <3>0, <3>1, Elsewhere DEF Queued
    <3>2. CASE ctx[d].place = "grave" /\ ctx'[d] = [ctx[d] EXCEPT !.place = "freed"]
      BY <1>0, <1>2, <2>1, <3>0, <3>2, Evicted DEF Queued
    <3> QED
      BY <2>3, <2>4, <3>1, <3>2
  <2>5. Registered' = Registered \ {c} /\ c \in Registered
    <3>1. \A d \in Contexts \ {c} : ctx'[d].place = "registered" <=> ctx[d].place = "registered"
      BY <1>0, <2>3 DEF Context
    <3> QED
      BY <2>1, <2>2, <2>3, <3>1 DEF Registered
  <2>6. Counts'
    <3>1. IsFiniteSet(Registered) /\ IsFiniteSet(Leaving)
      BY <1>0 DEF Counts, BioTyped
    <3>2. /\ Cardinality(Registered') = Cardinality(Registered) - 1
          /\ Cardinality(Registered) \in Nat /\ Cardinality(Leaving) \in Nat
      BY <2>5, <3>1, FS_RemoveElement, FS_CardinalityType
    <3> QED
      BY <1>0, <1>3, <2>1, <3>1, <3>2 DEF Counts
  <2>7. ASSUME NEW d \in Contexts
        PROVE  /\ ctx'[d].place # "none" => ctx[d].place # "none"
               /\ ctx[d].flags \subseteq ctx'[d].flags
               /\ ctx'[d].place = "freed" => ctx[d].place = "freed" \/ "GRAVE" \in ctx'[d].flags
               /\ ctx'[d].place = "registered" => ctx[d].place = "registered"
    <3>1. CASE d = c
      BY <2>2, <2>3, <3>1
    <3>2. CASE ctx'[d] = ctx[d]
      BY <3>2
    <3>3. CASE ctx[d].place = "grave" /\ ctx'[d] = [ctx[d] EXCEPT !.place = "freed"]
      BY <1>0, <3>3 DEF Context, CtxInv, Reaped
    <3> QED
      BY <2>3, <3>1, <3>2, <3>3
  <2>8. Stage' /\ QueueOnce'
    BY <1>0, <1>2, <1>3, <2>1, <2>7, StageKept DEF QueueOnce
  <2> QED
    BY <1>1, <2>2, <2>3, <2>4, <2>6, <2>8 DEF BioInv
<1>7. CASE WorkerCount
  <2>1. /\ worker.ctx \in Contexts /\ worker.pc = "dec" /\ inflight' = inflight - 1
        /\ UNCHANGED <<ctx, parent, graveyard, graves, queue>>
        /\ worker'.ctx \notin Contexts /\ worker'.pc = "idle"
    BY <1>0, <1>7, BioAssumption DEF WorkerCount, Resting, BioTyped
  <2>2. ASSUME NEW d \in Contexts PROVE CtxInv(d)'
    <3>1. CASE d = worker.ctx
      BY <1>7, <3>1, WorkerCountHere
    <3>2. CASE d # worker.ctx
      BY <1>0, <1>2, <2>1, <3>2, Elsewhere DEF Queued
    <3> QED
      BY <3>1, <3>2
  <2>3. Graves' /\ QueueOnce' /\ Registered' = Registered
    BY <1>0, <2>1 DEF Graves, QueueOnce, Registered
  <2>4. Counts'
    <3>1. Cardinality(Registered) \in Nat /\ Cardinality(Leaving) \in Nat
      BY <1>0, FS_CardinalityType DEF Counts, BioTyped
    <3> QED
      BY <1>0, <1>3, <2>1, <2>3, <3>1 DEF Counts
  <2>5. Stage'
    BY <1>2, <1>3, <2>1, StageKept
  <2> QED
    BY <1>1, <2>2, <2>3, <2>4, <2>5 DEF BioInv
<1> QED
  BY <1>4, <1>5, <1>6, <1>7 DEF Worker

\* The drain that gives up hands out the ticket of every context without one.
LEMMA ForceKeeps ==
  ASSUME BioInv, UnloadForce
  PROVE  BioInv'
<1>0. /\ BioTyped /\ QueueOnce /\ Graves /\ Counts /\ Stage /\ (\A d \in Contexts : CtxInv(d))
      /\ ctx \in [Contexts -> Context] /\ IsFiniteSet(Registered)
      /\ queue \in Seq(Contexts \cup {Flush}) /\ Flush \notin Contexts
  BY BioAssumption DEF BioInv, BioTyped
<1>1. BioTyped'
  BY <1>0, UnloadTypes DEF UnloadStep
<1> DEFINE forced == {c \in Registered : "COMPLETING" \notin ctx[c].flags}
           more == SetToSeq(forced)
<1>2. /\ UNCHANGED <<call, said, parent, graveyard, graves, inflight, worker, alive>>
      /\ unload = "drain" /\ unload' = "forced"
      /\ queue' = queue \o more
      /\ ctx' = [c \in Contexts |-> IF c \in forced
                  THEN [ctx[c] EXCEPT !.flags = @ \cup {"COMPLETING", "RESOURCE"}]
                  ELSE ctx[c]]
  BY DEF UnloadForce, ForceAll, UnloadTo
<1>3. /\ more \in Seq(forced) /\ forced \subseteq Contexts
      /\ \A x \in forced : \E i \in DOMAIN more : more[i] = x
      /\ \A i, j \in DOMAIN more : more[i] = more[j] => i = j
  <2>1. IsFiniteSet(forced)
    BY <1>0, FS_Subset
  <2> QED
    BY <2>1, Listed DEF Registered
<1>4. \A d \in Contexts : d \in forced => /\ ctx[d].place = "registered"
                                          /\ "COMPLETING" \notin ctx[d].flags
  BY DEF Registered
<1>5. \A d \in Contexts : d \notin forced =>
        ctx[d].place # "registered" \/ "COMPLETING" \in ctx[d].flags
  BY DEF Registered
<1> HIDE DEF forced, more
<1>6. \A d \in forced : ~Queued(d)
  BY <1>0, <1>3, <1>4 DEF CtxInv, Ticket
<1>7. /\ DOMAIN queue = 1 .. Len(queue) /\ DOMAIN more = 1 .. Len(more)
      /\ Len(queue) \in Nat /\ Len(more) \in Nat
      /\ \A i \in DOMAIN more : more[i] \in forced
      /\ DOMAIN queue' = 1 .. Len(queue) + Len(more)
      /\ \A i \in DOMAIN queue : queue'[i] = queue[i] /\ i \in DOMAIN queue'
      /\ \A i \in DOMAIN more : queue'[Len(queue) + i] = more[i] /\ Len(queue) + i \in DOMAIN queue'
      /\ \A i \in DOMAIN queue' : i \in DOMAIN queue \/
           (i - Len(queue) \in DOMAIN more /\ queue'[i] = more[i - Len(queue)])
  <2>1. queue \in Seq(Contexts \cup {Flush}) /\ more \in Seq(forced) /\ queue' = queue \o more
    BY <1>0, <1>2, <1>3
  <2> QED
    BY <2>1
<1>8. \A d \in Contexts : Queued(d)' <=> Queued(d) \/ d \in forced
  <2>1. ASSUME NEW d \in Contexts, Queued(d) \/ d \in forced PROVE Queued(d)'
    <3>1. ASSUME NEW i \in DOMAIN queue, queue[i] = d PROVE Queued(d)'
      BY <1>7, <3>1 DEF Queued
    <3>2. ASSUME d \in forced PROVE Queued(d)'
      <4>1. PICK i \in DOMAIN more : more[i] = d
        BY <1>3, <3>2
      <4> QED
        BY <1>7, <4>1 DEF Queued
    <3> QED
      BY <2>1, <3>1, <3>2 DEF Queued
  <2>2. ASSUME NEW d \in Contexts, NEW i \in DOMAIN queue', queue'[i] = d
        PROVE  Queued(d) \/ d \in forced
    BY <1>7, <2>2 DEF Queued
  <2> QED
    BY <2>1, <2>2 DEF Queued
<1>9. QueueOnce'
  <2> SUFFICES ASSUME NEW i \in DOMAIN queue', NEW j \in DOMAIN queue', queue'[i] = queue'[j]
               PROVE  i = j
    BY DEF QueueOnce
  <2>1. CASE i \in DOMAIN queue /\ j \in DOMAIN queue
    BY <1>0, <1>7, <2>1 DEF QueueOnce
  <2>2. CASE i \notin DOMAIN queue /\ j \notin DOMAIN queue
    <3>1. /\ i - Len(queue) \in DOMAIN more /\ j - Len(queue) \in DOMAIN more
          /\ more[i - Len(queue)] = more[j - Len(queue)] /\ i \in Int /\ j \in Int
      BY <1>7, <2>2
    <3>2. i - Len(queue) = j - Len(queue)
      BY <1>3, <3>1
    <3> QED
      BY <1>7, <3>1, <3>2
  <2>3. CASE i \in DOMAIN queue /\ j \notin DOMAIN queue
    BY <1>6, <1>7, <2>3 DEF Queued
  <2>4. CASE i \notin DOMAIN queue /\ j \in DOMAIN queue
    BY <1>6, <1>7, <2>4 DEF Queued
  <2> QED
    BY <2>1, <2>2, <2>3, <2>4
<1>10. ASSUME NEW d \in Contexts, d \notin forced PROVE CtxInv(d)'
  BY <1>0, <1>2, <1>8, <1>10, Elsewhere
<1>11. ASSUME NEW d \in Contexts, d \in forced PROVE CtxInv(d)'
  <2>1. ctx[d] \in Context /\ CtxInv(d)
    BY <1>0
  <2>2. ctx'[d] = [ctx[d] EXCEPT !.flags = @ \cup {"COMPLETING", "RESOURCE"}]
    BY <1>2, <1>11
  <2>3. /\ ctx'[d].place = ctx[d].place /\ ctx'[d].status = ctx[d].status
        /\ ctx'[d].flags = ctx[d].flags \cup {"COMPLETING", "RESOURCE"}
        /\ ctx'[d].remaining = ctx[d].remaining
    BY <2>1, <2>2 DEF Context
  <2>4. /\ Queued(d)' /\ ctx[d].place = "registered" /\ "COMPLETING" \notin ctx[d].flags
        /\ (Ending(d)' <=> Ending(d)) /\ (Burying(d)' <=> Burying(d))
        /\ Uncounted(d)' = Uncounted(d)
    BY <1>2, <1>4, <1>8, <1>11 DEF Ending, Burying, Uncounted
  <2>5. /\ ~Queued(d) /\ ~Ending(d) /\ parent[d] = <<>> /\ "RETIRED" \notin ctx[d].flags
        /\ \A k \in Callers : call[d][k] # "park"
    BY <2>1, <2>4 DEF CtxInv, Ticket
  <2>6. Fresh(d)' /\ Roles(d)' /\ Counted(d)'
    BY <1>2, <2>1, <2>3, <2>4 DEF CtxInv, Fresh, Roles, Counted
  <2>7. Ticket(d)'
    BY <1>2, <2>3, <2>4, <2>5 DEF Ticket
  <2>8. Claimed(d)'
    BY <1>2, <2>1, <2>3, <2>4 DEF CtxInv, Claimed
  <2>9. Reaped(d)'
    BY <1>2, <2>1, <2>3, <2>4 DEF CtxInv, Reaped
  <2>10. Truthful(d)'
    BY <1>2, <2>1, <2>3, <2>4, <2>5 DEF CtxInv, Truthful
  <2> QED
    BY <2>6, <2>7, <2>8, <2>9, <2>10 DEF CtxInv
<1>12. \A d \in Contexts : /\ ctx'[d].place = ctx[d].place
                           /\ ctx'[d].place = "registered" => "COMPLETING" \in ctx'[d].flags
                           /\ ctx[d].flags \subseteq ctx'[d].flags
  <2> SUFFICES ASSUME NEW d \in Contexts
               PROVE  /\ ctx'[d].place = ctx[d].place
                      /\ ctx'[d].place = "registered" => "COMPLETING" \in ctx'[d].flags
                      /\ ctx[d].flags \subseteq ctx'[d].flags
    OBVIOUS
  <2>1. ctx[d] \in Context
    BY <1>0
  <2>2. CASE d \in forced
    BY <1>2, <2>1, <2>2 DEF Context
  <2>3. CASE d \notin forced
    BY <1>2, <1>5, <2>3
  <2> QED
    BY <2>2, <2>3
<1>13. Leaving' = Leaving /\ Registered' = Registered /\ (Quiesced' <=> Quiesced)
  BY <1>2, <1>12 DEF Leaving, Registered, Quiesced
<1>14. Counts' /\ Graves'
  <2>1. \A i \in DOMAIN graveyard : graveyard[i] \in Contexts
    BY <1>0 DEF BioTyped
  <2> QED
    BY <1>0, <1>2, <1>12, <1>13, <2>1 DEF Counts, Graves
<1>15. Stage'
  <2>1. \A d \in Contexts : ctx'[d].place = "freed" => "GRAVE" \in ctx'[d].flags
    BY <1>0, <1>2, <1>12 DEF Stage
  <2>2. \A d \in Contexts : ctx'[d].place # "none" => "COMPLETING" \in ctx'[d].flags
    <3> SUFFICES ASSUME NEW d \in Contexts, ctx[d].place \in {"grave", "freed"}
                 PROVE  "COMPLETING" \in ctx[d].flags
      BY <1>0, <1>12 DEF Context
    <3>1. CtxInv(d) /\ "GRAVE" \in ctx[d].flags
      BY <1>0, <1>2 DEF CtxInv, Reaped, Stage
    <3> QED
      BY <3>1 DEF CtxInv, Reaped, Ticket
  <2>3. \A i \in DOMAIN queue' : queue'[i] # Flush
    BY <1>0, <1>2, <1>3, <1>7 DEF Stage
  <2> QED
    BY <1>0, <1>2, <2>1, <2>2, <2>3 DEF Stage, Phases, Unloading
<1> QED
  BY <1>1, <1>9, <1>10, <1>11, <1>14, <1>15 DEF BioInv

\* What the purge frees, nothing reaches.
LEMMA PurgeKeeps ==
  ASSUME BioInv, UnloadPurge
  PROVE  BioInv'
<1>0. /\ BioTyped /\ QueueOnce /\ Graves /\ Counts /\ Stage /\ (\A d \in Contexts : CtxInv(d))
      /\ ctx \in [Contexts -> Context] /\ IsFiniteSet(Registered) /\ IsFiniteSet(Leaving)
      /\ inflight \in Int
  BY DEF BioInv, BioTyped, Counts
<1>1. BioTyped'
  BY <1>0, UnloadTypes DEF UnloadStep
<1>2. /\ UNCHANGED <<call, said, parent, queue, worker, alive>>
      /\ unload = "purge" /\ unload' = "stop" /\ graveyard' = <<>> /\ graves' = 0
      /\ inflight' = inflight - Cardinality(Registered)
      /\ ctx' = [c \in Contexts |-> IF ctx[c].place \in {"registered", "grave"}
                                    THEN [ctx[c] EXCEPT !.place = "freed"] ELSE ctx[c]]
  BY DEF UnloadPurge, FreeAll, UnloadTo
<1>3. queue = <<>> /\ worker.pc = "idle" /\ Quiesced
  BY <1>0, <1>2 DEF Stage
<1>4. ASSUME NEW d \in Contexts
      PROVE  /\ ctx'[d].flags = ctx[d].flags /\ ctx'[d].remaining = ctx[d].remaining
             /\ ctx'[d].status = ctx[d].status /\ ctx'[d].place \in {"none", "freed"}
             /\ ctx'[d].place = "none" <=> ctx[d].place = "none"
  <2>1. ctx[d] \in Context
    BY <1>0
  <2>2. ctx'[d] = IF ctx[d].place \in {"registered", "grave"}
                  THEN [ctx[d] EXCEPT !.place = "freed"] ELSE ctx[d]
    BY <1>2
  <2> QED
    BY <2>1, <2>2 DEF Context
<1>5. ASSUME NEW d \in Contexts PROVE CtxInv(d)'
  <2>1. /\ CtxInv(d) /\ ~Burying(d) /\ ~Burying(d)' /\ ~Ending(d) /\ ~Ending(d)'
        /\ (Queued(d)' <=> Queued(d)) /\ Uncounted(d)' = Uncounted(d)
        /\ \A k \in Callers : call[d][k] # "reap"
    BY <1>0, <1>2, <1>3 DEF Burying, Ending, Queued, Uncounted, Quiesced, Midway
  <2>2. Fresh(d)' /\ Roles(d)' /\ Counted(d)'
    BY <1>2, <1>4, <2>1 DEF CtxInv, Fresh, Roles, Counted
  <2>3. Ticket(d)' /\ Claimed(d)'
    BY <1>2, <1>4, <2>1 DEF CtxInv, Ticket, Claimed
  <2>4. Reaped(d)' /\ Truthful(d)'
    BY <1>2, <1>4, <2>1 DEF CtxInv, Reaped, Truthful
  <2> QED
    BY <2>2, <2>3, <2>4 DEF CtxInv
<1>6. Registered' = {} /\ Leaving' = Leaving /\ (Quiesced' <=> Quiesced)
  BY <1>2, <1>4 DEF Registered, Leaving, Quiesced
<1>7. Counts'
  <2>1. Cardinality(Registered) \in Nat /\ Cardinality(Leaving) \in Nat /\ Cardinality({}) = 0
    BY <1>0, FS_CardinalityType, FS_EmptySet
  <2> QED
    BY <1>0, <1>2, <1>6, <2>1 DEF Counts
<1>8. Graves' /\ QueueOnce'
  BY <1>0, <1>2 DEF Graves, QueueOnce
<1>9. Stage'
  BY <1>0, <1>2, <1>3, <1>4, <1>6 DEF Stage, Phases, Unloading
<1> QED
  BY <1>1, <1>5, <1>7, <1>8, <1>9 DEF BioInv

\* The rest of the unload touches the stage and the flush item only.
LEMMA UnloadKeeps ==
  ASSUME Admit = {}, BioInv, UnloadBegin \/ UnloadStep
  PROVE  BioInv'
<1>0. /\ BioTyped /\ QueueOnce /\ Graves /\ Counts /\ Stage /\ (\A d \in Contexts : CtxInv(d))
      /\ ctx \in [Contexts -> Context] /\ IsFiniteSet(Registered) /\ IsFiniteSet(Leaving)
      /\ queue \in Seq(Contexts \cup {Flush}) /\ Flush \notin Contexts /\ inflight \in Int
  BY BioAssumption DEF BioInv, BioTyped, Counts
<1>1. BioTyped'
  BY <1>0, UnloadTypes
<1>2. ASSUME UNCHANGED <<ctx, call, said, parent, graveyard, graves, inflight, worker>>,
             QueueOnce', \A d \in Contexts : Queued(d)' <=> Queued(d), Stage'
      PROVE  BioInv'
  <2>1. \A d \in Contexts : CtxInv(d)'
    BY <1>0, <1>2, Elsewhere
  <2>2. Leaving' = Leaving /\ Registered' = Registered
    BY <1>2 DEF Leaving, Registered
  <2>3. Counts' /\ Graves'
    BY <1>0, <1>2, <2>2 DEF Counts, Graves
  <2> QED
    BY <1>1, <1>2, <2>1, <2>3 DEF BioInv
<1>3. CASE UnloadBegin \/ UnloadStop
  <2>1. /\ UNCHANGED <<ctx, call, said, parent, graveyard, graves, inflight, worker, queue>>
        /\ \/ unload = "up" /\ alive' = FALSE /\ unload' = "drain"
           \/ UNCHANGED <<alive, unload>>
    BY <1>3 DEF UnloadBegin, UnloadStop, bioVars, lifeVars
  <2>2. QueueOnce' /\ \A d \in Contexts : Queued(d)' <=> Queued(d)
    BY <1>0, <2>1 DEF QueueOnce, Queued
  <2>3. Quiesced' <=> Quiesced
    BY <2>1 DEF Quiesced
  <2>4. Registered' = Registered
    BY <2>1 DEF Registered
  <2>5. Stage'
    BY <1>0, <2>1, <2>3, <2>4 DEF Stage, Phases, Unloading
  <2> QED
    BY <1>2, <2>1, <2>2, <2>5
<1>4. CASE UnloadDrained \/ UnloadGiveUp
  <2>1. /\ UNCHANGED <<ctx, call, said, parent, graveyard, graves, inflight, worker, alive>>
        /\ queue' = Append(queue, Flush) /\ unload' = "flush" /\ Quiesced
        /\ unload = "forced" \/ (unload = "drain" /\ inflight = 0)
    BY <1>4 DEF UnloadDrained, UnloadGiveUp, UnloadTo, CallsOver
  <2>2. ~Queued(Flush)
    BY <1>0, <2>1 DEF Stage, Queued
  <2>3. QueueOnce' /\ \A d \in Contexts : Queued(d)' <=> Queued(d)
    BY <1>0, <2>1, <2>2, QueueGrows
  <2>4. Quiesced'
    BY <2>1 DEF Quiesced
  <2>5. \A d \in Contexts : ctx[d].place # "none" => "COMPLETING" \in ctx[d].flags
    <3>1. CASE unload = "forced"
      BY <1>0, <3>1 DEF Stage
    <3>2. CASE unload = "drain" /\ inflight = 0
      <4>1. Cardinality(Registered) = 0
        BY <1>0, <3>2, FS_CardinalityType DEF Counts
      <4>2. Registered = {}
        BY <1>0, <4>1, FS_EmptySet
      <4> SUFFICES ASSUME NEW d \in Contexts, ctx[d].place # "none"
                   PROVE  "COMPLETING" \in ctx[d].flags
        OBVIOUS
      <4>3. ctx[d].place \in {"grave", "freed"}
        BY <1>0, <4>2 DEF Registered, Context
      <4>4. CtxInv(d) /\ "GRAVE" \in ctx[d].flags
        BY <1>0, <3>2, <4>3 DEF CtxInv, Reaped, Stage
      <4> QED
        BY <4>4 DEF CtxInv, Reaped, Ticket
    <3> QED
      BY <2>1, <3>1, <3>2
  <2>6. \A i \in DOMAIN queue' : queue'[i] = Flush => i = Len(queue')
    <3>1. /\ \A i \in DOMAIN queue' : i = Len(queue') \/ (i \in DOMAIN queue /\ queue'[i] = queue[i])
      BY <1>0, <2>1
    <3> QED
      BY <1>0, <2>1, <3>1 DEF Stage
  <2>7. Stage'
    BY <1>0, <2>1, <2>4, <2>5, <2>6 DEF Stage, Phases, Unloading
  <2> QED
    BY <1>2, <2>1, <2>3, <2>7
<1>5. CASE Flushed
  <2>1. /\ UNCHANGED <<ctx, call, said, parent, graveyard, graves, inflight, worker, alive>>
        /\ worker.pc = "idle" /\ queue # <<>> /\ Head(queue) = Flush /\ queue' = Tail(queue)
        /\ \/ unload = "flush" /\ unload' = "purge"
           \/ unload = "flush_last" /\ unload' = "down"
    BY <1>5 DEF Flushed, UnloadTo
  <2>2. QueueOnce' /\ \A d \in Contexts : Queued(d)' <=> Queued(d)
    BY <1>0, <2>1, QueueShrinks
  <2>3. queue' = <<>>
    <3>1. queue[1] = Flush /\ 1 \in DOMAIN queue /\ Len(queue) \in Nat /\ Len(queue') = Len(queue) - 1
          /\ queue' \in Seq(Contexts \cup {Flush})
      BY <1>0, <2>1
    <3>2. Len(queue) = 1
      <4>1. CASE unload = "flush"
        BY <1>0, <3>1, <4>1 DEF Stage
      <4>2. CASE unload = "flush_last"
        BY <1>0, <4>2 DEF Stage
      <4> QED
        BY <2>1, <4>1, <4>2
    <3> QED
      BY <3>1, <3>2
  <2>4. (Quiesced' <=> Quiesced) /\ Registered' = Registered
    BY <2>1 DEF Quiesced, Registered
  <2>5. Stage'
    BY <1>0, <2>1, <2>3, <2>4 DEF Stage, Phases, Unloading
  <2> QED
    BY <1>2, <2>1, <2>2, <2>5
<1>6. CASE UnloadStopped
  <2>1. /\ UNCHANGED <<ctx, call, said, parent, graveyard, graves, inflight, worker, alive>>
        /\ queue' = Append(queue, Flush) /\ unload = "stop" /\ unload' = "flush_last"
    BY <1>6 DEF UnloadStopped, UnloadTo
  <2>2. queue = <<>> /\ ~Queued(Flush)
    BY <1>0, <2>1 DEF Stage, Queued
  <2>3. QueueOnce' /\ \A d \in Contexts : Queued(d)' <=> Queued(d)
    BY <1>0, <2>1, <2>2, QueueGrows
  <2>4. queue' = <<Flush>>
    BY <2>1, <2>2
  <2>5. (Quiesced' <=> Quiesced) /\ Registered' = Registered
    BY <2>1 DEF Quiesced, Registered
  <2>6. Stage'
    BY <1>0, <2>1, <2>4, <2>5 DEF Stage, Phases, Unloading
  <2> QED
    BY <1>2, <2>1, <2>3, <2>6
<1> QED
  BY <1>3, <1>4, <1>5, <1>6, ForceKeeps, PurgeKeeps DEF UnloadStep

\* The invariant of the mirror pump is inductive.
LEMMA BioInvNext ==
  ASSUME Admit = {}, BioInv, [Next]_vars
  PROVE  BioInv'
<1>1. CASE UNCHANGED bioVars /\ UNCHANGED lifeVars
  <2>1. /\ UNCHANGED <<ctx, call, said, parent, graveyard, graves, inflight, queue, worker>>
        /\ UNCHANGED <<alive, unload>>
    BY <1>1 DEF bioVars, lifeVars
  <2>2. /\ Leaving' = Leaving /\ Registered' = Registered /\ (Quiesced' <=> Quiesced)
        /\ \A d \in Contexts : Queued(d)' <=> Queued(d)
    BY <2>1 DEF Leaving, Registered, Quiesced, Queued
  <2>3. BioTyped' /\ Counts' /\ Graves' /\ QueueOnce' /\ Stage'
    BY <2>1, <2>2 DEF BioInv, BioTyped, Counts, Graves, QueueOnce, Stage
  <2>4. \A d \in Contexts : CtxInv(d)'
    BY <2>1, <2>2, Elsewhere DEF BioInv
  <2> QED
    BY <2>3, <2>4 DEF BioInv
<1>2. CASE BioNext
  BY <1>2, DispatchKeeps, CallerKeeps, WorkerKeeps DEF BioNext
<1>3. CASE UnloadBegin \/ UnloadStep
  BY <1>3, UnloadKeeps
<1> QED
  BY <1>1, <1>2, <1>3, PumpFrame DEF Next, vars

\* The graveyard has room for one more context.
LEMMA Room ==
  ASSUME BioInv, NEW c \in Contexts, ctx[c].place = "registered",
         IsFiniteSet(Contexts), Cardinality(Contexts) <= GraveMax
  PROVE  Len(graveyard) < GraveMax
<1>1. /\ graveyard \in Seq(Contexts)
      /\ \A i, j \in DOMAIN graveyard : graveyard[i] = graveyard[j] => i = j
      /\ \A i \in DOMAIN graveyard : ctx[graveyard[i]].place = "grave"
  BY DEF BioInv, BioTyped, Graves
<1> DEFINE n == Len(graveyard)
           others == Contexts \ {c}
<1>2. n \in Nat /\ graveyard \in [1 .. n -> others]
  BY <1>1
<1>3. graveyard \in Injection(1 .. n, others)
  BY <1>1, <1>2 DEF Injection, IsInjective
<1>4. IsFiniteSet(others) /\ Cardinality(others) = Cardinality(Contexts) - 1
  BY FS_RemoveElement
<1>5. Cardinality(1 .. n) <= Cardinality(others)
  BY <1>3, <1>4, FS_Injection
<1>6. Cardinality(1 .. n) = n
  BY <1>2, IntervalSize
<1>7. Cardinality(Contexts) \in Nat /\ GraveMax \in Nat
  BY FS_CardinalityType, BioAssumption
<1> QED
  BY <1>2, <1>4, <1>5, <1>6, <1>7

\* With room in the graveyard for every context, only the purge frees one.
LEMMA FreedLateNext ==
  ASSUME IsFiniteSet(Contexts), Cardinality(Contexts) <= GraveMax,
         BioInv, FreedLate, [Next]_vars
  PROVE  FreedLate'
<1>0. /\ ctx \in [Contexts -> Context]
      /\ worker.pc # "idle" => worker.ctx \in Contexts
  BY DEF BioInv, BioTyped
<1>1. ASSUME \A d \in Contexts : ctx'[d].place = "freed" => ctx[d].place = "freed",
             \/ UNCHANGED unload
             \/ unload' \in {"stop", "flush_last", "down"}
             \/ unload \notin {"stop", "flush_last", "down"}
      PROVE  FreedLate'
  BY <1>1 DEF FreedLate
<1>2. ASSUME NEW c \in Contexts, Bury(c), ctx[c].place = "registered", UNCHANGED lifeVars
      PROVE  FreedLate'
  <2>1. ctx'[c].place = "grave" /\ \A d \in Contexts \ {c} : ctx'[d] = ctx[d]
    BY <1>2, Buried, Room
  <2> QED
    BY <1>1, <1>2, <2>1 DEF lifeVars
<1>3. CASE UNCHANGED bioVars /\ UNCHANGED lifeVars
  BY <1>1, <1>3 DEF bioVars, lifeVars
<1>4. ASSUME NEW c \in Contexts, Refuse(c) \/ Dispatch(c) \/ Abort(c) PROVE FreedLate'
  <2>1. \A d \in Contexts : ctx'[d].place = "freed" => ctx[d].place = "freed"
    BY <1>0, <1>4 DEF Refuse, Dispatch, Abort
  <2>2. UNCHANGED lifeVars
    BY <1>4 DEF Refuse, Dispatch, Abort
  <2> QED
    BY <1>1, <2>1, <2>2 DEF lifeVars
<1>5. ASSUME NEW c \in Contexts, NEW k \in Callers, Caller(c, k) PROVE FreedLate'
  <2>1. UNCHANGED lifeVars
    BY <1>5 DEF Caller, Report, Straggle, Claim, Park, Reap, ReapCount
  <2>2. CASE Reap(c, k)
    BY <1>2, <2>1, <2>2, ReapHere DEF Reap
  <2>3. CASE (\E status \in Reports : Report(c, k, status)) \/ Straggle(c, k) \/ Claim(c, k)
              \/ Park(c, k) \/ ReapCount(c, k)
    <3>1. \A d \in Contexts : ctx'[d].place = ctx[d].place
      <4>1. CASE \E status \in Reports : Report(c, k, status)
        BY <1>0, <4>1 DEF Report, Context
      <4>2. CASE Straggle(c, k)
        BY <1>0, <4>2 DEF Straggle, Context
      <4>3. CASE Claim(c, k)
        <5>1. CASE ctx' = ctx
          BY <5>1
        <5>2. CASE ctx' # ctx
          <6>1. PICK forced \in (IF k = Aborter THEN Reports \ {"ok"} ELSE {"ok"}) :
                  ctx' = [ctx EXCEPT ![c].status = StatusMerge(@, forced),
                                     ![c].flags = @ \cup {"COMPLETING"}]
            BY <4>3, <5>2 DEF Claim
          <6> QED
            BY <1>0, <6>1 DEF Context
        <5> QED
          BY <5>1, <5>2
      <4>4. CASE Park(c, k) \/ ReapCount(c, k)
        BY <4>4 DEF Park, ReapCount
      <4> QED
        BY <2>3, <4>1, <4>2, <4>3, <4>4
    <3> QED
      BY <1>1, <2>1, <3>1 DEF lifeVars
  <2> QED
    BY <1>5, <2>2, <2>3 DEF Caller
<1>6. CASE Worker
  <2>1. UNCHANGED lifeVars
    BY <1>6 DEF Worker, WorkerLatch, WorkerEnd, WorkerReap, WorkerCount
  <2>2. CASE WorkerReap
    BY <1>0, <1>2, <2>1, <2>2, WorkerReapHere DEF WorkerReap
  <2>3. CASE WorkerEnd \/ WorkerCount
    BY <1>1, <2>1, <2>3 DEF WorkerEnd, WorkerCount, lifeVars
  <2>4. CASE WorkerLatch
    <3>1. ctx' = [ctx EXCEPT ![Head(queue)] = [ctx[Head(queue)] EXCEPT !.flags = @ \cup {"RETIRED"}]]
      BY <2>4 DEF WorkerLatch
    <3>2. PICK c \in Contexts : c = Head(queue)
      BY <2>4 DEF WorkerLatch, BioInv, BioTyped
    <3>3. \A d \in Contexts : ctx'[d].place = ctx[d].place
      BY <1>0, <3>1, <3>2 DEF Context
    <3> QED
      BY <1>1, <2>1, <3>3 DEF lifeVars
  <2> QED
    BY <1>6, <2>2, <2>3, <2>4 DEF Worker
<1>7. CASE UnloadForce
  <2>1. \A d \in Contexts : ctx'[d].place = ctx[d].place
    BY <1>0, <1>7 DEF UnloadForce, ForceAll, Context
  <2> QED
    BY <1>1, <1>7, <2>1 DEF UnloadForce, UnloadTo
<1>8. CASE UnloadPurge
  BY <1>8 DEF UnloadPurge, UnloadTo, FreedLate
<1>9. CASE UnloadBegin \/ UnloadDrained \/ UnloadGiveUp \/ Flushed \/ UnloadStop \/ UnloadStopped
  <2>1. /\ UNCHANGED ctx
        /\ \/ UNCHANGED unload \/ unload' \in {"stop", "flush_last", "down"}
           \/ unload \notin {"stop", "flush_last", "down"}
    BY <1>9 DEF UnloadBegin, UnloadDrained, UnloadGiveUp, Flushed, UnloadStop, UnloadStopped,
                UnloadTo, bioVars, lifeVars
  <2> QED
    BY <1>1, <2>1
<1> QED
  BY <1>3, <1>4, <1>5, <1>6, <1>7, <1>8, <1>9, PumpFrame
     DEF Next, BioNext, UnloadStep, vars

-----------------------------------------------------------------------------
(* The theorems.                                                            *)

\* The failed slots and the copies not yet retired stay a set of slots and a count.
LEMMA RestNext ==
  ASSUME failed \subseteq Slots, outstanding \in Nat, [Next]_vars
  PROVE  failed' \subseteq Slots /\ outstanding' \in Nat
<1>1. ASSUME UNCHANGED <<failed, outstanding>>
      PROVE  failed' \subseteq Slots /\ outstanding' \in Nat
  <2>1. failed' = failed /\ outstanding' = outstanding
    BY <1>1
  <2> QED
    BY <2>1
<1>2. CASE UNCHANGED vars
  BY <1>1, <1>2 DEF vars, pumpVars
<1>3. CASE UNCHANGED pumpVars
  BY <1>1, <1>3 DEF pumpVars
<1>4. CASE UnloadBegin \/ UnloadStep
  BY <1>1, <1>4 DEF UnloadBegin, UnloadStep, UnloadDrained, UnloadForce, UnloadGiveUp, Flushed,
       UnloadPurge, UnloadStop, UnloadStopped, pumpVars, controlVars
<1>5. ASSUME NEW r \in Ranges, NEW t \in Targets, Request(r, t)
      PROVE  failed' \subseteq Slots /\ outstanding' \in Nat
  BY <1>1, <1>5 DEF Request, controlVars
<1>6. CASE Cancel \/ IoctlSnapshot \/ IoctlCancel
  BY <1>1, <1>6 DEF Cancel, IoctlSnapshot, IoctlCancel, controlVars
<1>7. CASE PumpClaim \/ PumpStart \/ PumpTest \/ PumpBrake \/ PumpRoute
  BY <1>1, <1>7 DEF PumpClaim, PumpStart, PumpTest, PumpBrake, PumpRoute, controlVars
<1>8. CASE PumpPublish \/ PumpThrottle \/ PumpFinish \/ PumpExit
  BY <1>1, <1>8 DEF PumpPublish, PumpThrottle, PumpFinish, PumpExit, controlVars
<1>9. CASE PumpIssue \/ Retire
  BY <1>9 DEF PumpIssue, Retire, controlVars
<1>10. ASSUME NEW k \in Slots, IoctlFail(k) \/ Reinstate(k)
       PROVE  failed' \subseteq Slots /\ outstanding' \in Nat
  BY <1>10 DEF IoctlFail, Evict, Reinstate
<1>11. ASSUME NEW n \in Drives, SetGeometry(n)
       PROVE  failed' \subseteq Slots /\ outstanding' \in Nat
  BY <1>1, <1>11 DEF SetGeometry
<1> QED
  BY <1>2, <1>3, <1>4, <1>5, <1>6, <1>7, <1>8, <1>9, <1>10, <1>11
     DEF Next, PumpNext, Thread, Ioctl

\* The variables of the two pumps stay typed, faulty member paths, late calls and
\* a full graveyard included: no walk of the graveyard or of the work list ever
\* takes an entry that is not there.
THEOREM EngineTypeCorrect == Spec => []TypeOK
<1> DEFINE Rest == failed \subseteq Slots /\ outstanding \in Nat
           Inv == BioTyped /\ PumpInv /\ Rest
<1>1. Init => Inv
  BY BioInitially, PumpInitially DEF BioInv, Init, PumpInit
<1>2. ASSUME Inv, [Next]_vars PROVE Inv'
  <2>5. Rest'
    BY <1>2, RestNext
  <2> QED
    BY <1>2, <2>5, BioTypedNext, PumpNextInv
<1>3. Inv => TypeOK
  BY DEF BioTyped, Context, Flags, Counters, PumpInv, PumpTyped, TypeOK
<1> QED
  BY <1>1, <1>2, <1>3, PTL DEF Spec

\* "Exactly one of the two observers sees the condition become true and exactly
\* one reaps": however the reports of the members, an abort, the worker and the
\* unload interleave, the count the drain waits for is the contexts not yet
\* counted out, when every member reports at most once and none after the unload
\* has been told that the members are quiet.
THEOREM AlwaysReapedOnce == Admit = {} => (Spec => []ReapedOnce)
<1> SUFFICES ASSUME Admit = {} PROVE Spec => []ReapedOnce
  OBVIOUS
<1>1. BioInv => ReapedOnce
  BY DEF BioInv, Counts, Graves, Leaving, ReapedOnce
<1>2. BioInv /\ [Next]_vars => BioInv'
  BY BioInvNext
<1> QED
  BY <1>1, <1>2, BioInitially, PTL DEF Spec

\* "The parent is ended exactly once", with OK only when every promised member
\* reported it, and a parent that is due is not forgotten; for any number of
\* parents and members, under the same contract.
THEOREM ParentAlwaysTold == Admit = {} => (Spec => []ParentTold)
<1> SUFFICES ASSUME Admit = {} PROVE Spec => []ParentTold
  OBVIOUS
<1>1. ASSUME BioInv PROVE ParentTold
  <2>1. \A c \in Contexts :
          /\ Len(parent[c]) <= 1
          /\ \A i \in DOMAIN parent[c] : parent[c][i] = "ok" => said[c] = Fan[c]
    BY <1>1 DEF BioInv, CtxInv, Truthful
  <2>2. ASSUME Quiesced, queue = <<>>, worker.pc = "idle", NEW c \in Contexts, ParentDue(c)
        PROVE  parent[c] # <<>>
    <3>1. /\ CtxInv(c) /\ ~Queued(c) /\ ~Ending(c)
          /\ \A k \in Callers : call[c][k] \notin {"claim", "park"}
      BY <1>1, <2>2 DEF BioInv, Queued, Ending, Quiesced, Midway
    <3>2. "COMPLETING" \in ctx[c].flags
      <4>1. CASE \A m \in Fan[c] : call[c][m] = "done"
        <5>1. Uncounted(c) = {}
          BY <4>1 DEF Uncounted
        <5> QED
          BY <2>2, <3>1, <5>1 DEF CtxInv, Claimed, ParentDue
      <4>2. CASE call[c][Aborter] = "done"
        BY <3>1, <4>2 DEF CtxInv, Claimed
      <4>3. CASE unload \notin {"up", "drain"}
        BY <1>1, <2>2, <4>3 DEF BioInv, Stage, ParentDue
      <4> QED
        BY <2>2, <4>1, <4>2, <4>3 DEF ParentDue
    <3> QED
      BY <2>2, <3>1, <3>2 DEF CtxInv, Ticket, ParentDue
  <2> QED
    BY <2>1, <2>2 DEF ParentTold
<1>2. BioInv /\ [Next]_vars => BioInv'
  BY BioInvNext
<1> QED
  BY <1>1, <1>2, BioInitially, PTL DEF Spec

\* No freed context is used by a call, the worker or its list, when the graveyard
\* can hold the contexts there are, so that only the purge frees one.
THEOREM NeverUsedAfterFree ==
  Admit = {} /\ IsFiniteSet(Contexts) /\ Cardinality(Contexts) <= GraveMax
    => (Spec => []NoUseAfterFree)
<1> SUFFICES ASSUME Admit = {}, IsFiniteSet(Contexts), Cardinality(Contexts) <= GraveMax
             PROVE  Spec => []NoUseAfterFree
  OBVIOUS
<1>1. Init => BioInv /\ FreedLate
  BY BioInitially DEF FreedLate, Init, BioInit, NoContext
<1>2. BioInv /\ FreedLate /\ [Next]_vars => BioInv' /\ FreedLate'
  BY BioInvNext, FreedLateNext
<1>3. ASSUME BioInv, FreedLate PROVE NoUseAfterFree
  <2> SUFFICES ASSUME NEW c \in Contexts, ctx[c].place = "freed"
               PROVE  /\ Users(c) = {} /\ \A i \in DOMAIN queue : queue[i] # c
                      /\ worker.ctx = c => worker.pc = "dec"
    BY DEF NoUseAfterFree
  <2>1. unload \in {"stop", "flush_last", "down"}
    BY <1>3 DEF FreedLate
  <2>2. Quiesced /\ worker.pc = "idle" /\ (queue = <<>> \/ queue = <<Flush>>)
    BY <1>3, <2>1 DEF BioInv, Stage
  <2>3. Users(c) = {}
    BY <2>1, <2>2 DEF Users, Quiesced, CallsAllowed
  <2>4. worker.ctx # c
    BY <1>3, <2>2, BioAssumption DEF BioInv, BioTyped, Resting
  <2> QED
    BY <2>2, <2>3, <2>4, BioAssumption
<1> QED
  BY <1>1, <1>2, <1>3, PTL DEF Spec
=============================================================================
