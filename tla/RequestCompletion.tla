------------------------- MODULE RequestCompletion -------------------------
(***************************************************************************)
(* The life of a blk-mq request of src/src/rc_nvme.c between queue_rq and   *)
(* blk_mq_end_request, and the four actors that race to finish it: the      *)
(* per-queue interrupt handler, the softirq completion, the drain of dead   *)
(* members (run by the degrade work and by the timeout handler) and the     *)
(* timeout handler itself.                                                  *)
(*                                                                          *)
(* A request is a tag of the tag set; its pdu is overwritten when the tag   *)
(* is allocated again, and a completion queue entry names only the tag.     *)
(* blk-mq holds a reference to a request while the timeout handler or the   *)
(* drain iterates over it, so only the interrupt handler can meet a pdu     *)
(* that belongs to a later use of the tag.                                  *)
(*                                                                          *)
(* Every atomic operation on the pdu that the code argues about is a step   *)
(* of its own.  Members that die do not come back here.                     *)
(***************************************************************************)
EXTENDS Integers, FiniteSets

CONSTANTS
  Members,    \* the slots of a RAID1 volume
  Tags,       \* the tags of one hardware queue
  Batch,      \* ARRAY_SIZE(done_reqs): requests one interrupt ends itself
  MaxRearm,   \* times .timeout gives a request its timer back
  None,       \* no tag
  MaxUses,    \* bound: times each tag is allocated
  MaxFaults,  \* bound: dying controllers and error statuses
  Late        \* what may be left of an earlier use of a tag when it is
              \* allocated again: a command a controller nobody could stop is
              \* "executing", a completion "posted" in a queue or "handled" by
              \* an interrupt handler that was held up

ASSUME ConstantsOK ==
  /\ IsFiniteSet(Members) /\ IsFiniteSet(Tags) /\ None \notin Tags
  /\ Batch \in Nat /\ MaxRearm \in Nat /\ MaxUses \in Nat /\ MaxFaults \in Nat
  /\ Late \subseteq {"executing", "posted", "handled"}

VARIABLES
  live,      \* rc_volume_live_mask, here also the write mask
  dead,      \* members whose nvme.dead is set
  hw,        \* the controllers: running, fatal (CSTS.CFS), off (CC.EN = 0) or
             \* hung (CC.EN = 0, and CSTS.RDY still set)
  degrade,   \* rc_volume_degrade_work is scheduled
  rq,        \* the requests: blk-mq state and pdu
  softirq,   \* requests handed to blk_mq_complete_request
  exec,      \* commands a controller is executing
  cq,        \* the completion queues, as sets of entries
  isr,       \* the interrupt handler of each member's queue
  drain,     \* rc_volume_drain_dead, as run by each of its callers
  timer,     \* rc_volume_timeout
  faults     \* number of faults so far

mediaVars == <<hw, exec, cq>>
vars == <<live, dead, hw, degrade, rq, softirq, exec, cq, isr, drain, timer,
          faults>>

Callers == {"degrade", "timeout"}

\* MQ_RQ_IDLE, being prepared by queue_rq, MQ_RQ_IN_FLIGHT, MQ_RQ_COMPLETE.
RqStates == {"idle", "prep", "started", "complete"}

Requests == [st : RqStates, use : 0 .. MaxUses, op : {"read", "write"},
             mask : SUBSET Members, unsent : SUBSET Members,
             acked : SUBSET Members, err : SUBSET Members, sc : BOOLEAN,
             pending : Int, claimed : BOOLEAN,
             rearm : 0 .. MaxRearm,
             result : {"none", "ok", "err"},  \* history: how this use ended
             ends : Nat,                      \* history: how often
             wrote : SUBSET Members]          \* history: who executed it

Entries == [t : Tags, use : 0 .. MaxUses, ok : BOOLEAN]
Commands == [t : Tags, use : 0 .. MaxUses, m : Members]
Handlers == [pc : {"out", "walk", "consume", "dec", "claim", "end"},
             t : Tags \cup {None}, use : 0 .. MaxUses, done : SUBSET Tags]
Drains == [pc : {"none", "begin", "disable", "iter", "ack", "dec", "claim"},
           mask : SUBSET Members, todo : SUBSET Tags, t : Tags \cup {None},
           left : SUBSET Members, last : BOOLEAN]
Timers == [pc : {"none", "check", "drained", "net", "abort", "judge", "final"},
           t : Tags \cup {None}, redone : BOOLEAN]

TypeOK ==
  /\ live \in SUBSET Members /\ dead \in SUBSET Members
  /\ hw \in [Members -> {"running", "fatal", "off", "hung"}]
  /\ degrade \in BOOLEAN
  /\ rq \in [Tags -> Requests]
  /\ softirq \in SUBSET Tags
  /\ exec \in SUBSET Commands
  /\ cq \in [Members -> SUBSET Entries]
  /\ isr \in [Members -> Handlers]
  /\ drain \in [Callers -> Drains]
  /\ timer \in Timers
  /\ faults \in 0 .. MaxFaults

Init ==
  /\ live = Members /\ dead = {} /\ degrade = FALSE /\ faults = 0
  /\ hw = [m \in Members |-> "running"]
  /\ rq = [t \in Tags |->
             [st |-> "idle", use |-> 0, op |-> "read", mask |-> {},
              unsent |-> {}, acked |-> {}, err |-> {}, sc |-> FALSE,
              pending |-> 0, claimed |-> FALSE, rearm |-> 0,
              result |-> "none", ends |-> 0, wrote |-> {}]]
  /\ softirq = {} /\ exec = {} /\ cq = [m \in Members |-> {}]
  /\ isr = [m \in Members |->
              [pc |-> "out", t |-> None, use |-> 0, done |-> {}]]
  /\ drain = [d \in Callers |->
                [pc |-> "none", mask |-> {}, todo |-> {}, t |-> None,
                 left |-> {}, last |-> FALSE]]
  /\ timer = [pc |-> "none", t |-> None, redone |-> FALSE]

-----------------------------------------------------------------------------
(* Completion, whoever initiates it.                                        *)

\* rc_volume_member_mark_failed for each member of S.
MarkFailed(S) ==
  /\ live' = live \ S
  /\ degrade' = (degrade \/ S \cap live # {})

\* Mutant: everybody wins the claim.
AnyoneClaims(t) == t \in Tags

\* rc_volume_claim_completion: only the first caller wins.
CanClaim(t) == ~rq[t].claimed

\* rc_volume_finish_status for RAID1: a write that some member of its mask
\* carried out is OK, and the members that erred are failed.
FinishStatus(t) ==
  IF ~rq[t].sc THEN "ok"
  ELSE IF rq[t].op = "write" /\ rq[t].err # {} /\ ~(rq[t].mask \subseteq rq[t].err)
       THEN "ok" ELSE "err"

\* The request after blk_mq_end_request.
Ended(r, result) == [r EXCEPT !.st = "idle", !.claimed = TRUE,
                              !.result = result, !.ends = @ + 1]

\* Mutant: the members that erred stay live.
FinishWithoutFailing(t) ==
  /\ rq' = [rq EXCEPT ![t] = Ended(@, FinishStatus(t))]
  /\ UNCHANGED <<live, degrade>>

\* unmap, finish_status and end, as the interrupt handler and
\* rc_volume_complete do it.
FinishRequest(t) ==
  /\ MarkFailed(IF rq[t].sc THEN rq[t].err ELSE {})
  /\ rq' = [rq EXCEPT ![t] = Ended(@, FinishStatus(t))]

-----------------------------------------------------------------------------
(* Dispatch: rc_volume_queue_rq.                                            *)

Held(t) == \/ timer.pc # "none" /\ timer.t = t
           \/ \E d \in Callers : drain[d].t = t

\* A command or completion of the last use of t is still around, and may not be.
Lingers(t) ==
  \/ "executing" \notin Late /\ \E c \in exec : c.t = t
  \/ "posted" \notin Late /\ \E m \in Members : \E e \in cq[m] : e.t = t
  \/ "handled" \notin Late
       /\ \E m \in Members : isr[m].pc \in {"consume", "dec", "claim"}
                              /\ isr[m].t = t

\* The tag is allocated and queue_rq prepares the request: the pdu is reset,
\* dead members are failed, and the mask is read - every live member for a
\* write, one of them for a read.  Without a live member the request is ended
\* at once.
Dispatch(t, op) ==
  /\ rq[t].st = "idle" /\ rq[t].use < MaxUses
  /\ rq[t].unsent = {} /\ ~Held(t)
  /\ ~Lingers(t)
  /\ MarkFailed(dead)
  /\ \E mask \in IF op = "write" \/ live' = {} THEN {live'}
                                               ELSE {{m} : m \in live'} :
       LET r == [st |-> "prep", use |-> rq[t].use + 1, op |-> op,
                 mask |-> mask, unsent |-> {}, acked |-> {}, err |-> {},
                 sc |-> FALSE, pending |-> Cardinality(mask),
                 claimed |-> FALSE, rearm |-> 0, result |-> "none",
                 ends |-> 0, wrote |-> {}]
       IN rq' = [rq EXCEPT ![t] = IF mask = {} THEN Ended(r, "err") ELSE r]
  /\ UNCHANGED <<dead, mediaVars, softirq, isr, drain, timer, faults>>

\* blk_mq_start_request ...
Start(t) ==
  /\ rq[t].st = "prep"
  /\ rq' = [rq EXCEPT ![t].st = "started", ![t].unsent = rq[t].mask]
  /\ UNCHANGED <<live, dead, mediaVars, degrade, softirq, isr, drain, timer,
                 faults>>

\* ... and one rc_nvme_io_submit per member; a disabled or fatal controller
\* never fetches the command, a hung one may.
Submit(t) ==
  \E m \in rq[t].unsent :
    /\ rq' = [rq EXCEPT ![t].unsent = @ \ {m}]
    /\ \/ /\ hw[m] \in {"running", "hung"}
          /\ exec' = exec \cup {[t |-> t, use |-> rq[t].use, m |-> m]}
       \/ hw[m] # "running" /\ UNCHANGED exec
    /\ UNCHANGED <<live, dead, hw, cq, degrade, softirq, isr, drain, timer,
                   faults>>

-----------------------------------------------------------------------------
(* The controllers.                                                         *)

\* A command is executed, or fails: by a fault, or because it was aborted.
Execute(c, ok) ==
  /\ c \in exec
  /\ \/ ok /\ UNCHANGED faults
     \/ ~ok /\ timer.pc = "judge" /\ timer.t = c.t /\ UNCHANGED faults
     \/ ~ok /\ faults < MaxFaults /\ faults' = faults + 1
  /\ exec' = exec \ {c}
  /\ cq' = [cq EXCEPT ![c.m] = @ \cup {[t |-> c.t, use |-> c.use, ok |-> ok]}]
  /\ rq' = IF ok /\ rq[c.t].use = c.use
           THEN [rq EXCEPT ![c.t].wrote = @ \cup {c.m}] ELSE rq
  /\ UNCHANGED <<live, dead, hw, degrade, softirq, isr, drain, timer>>

\* A controller asserts CSTS.CFS and stops.
Die(m) ==
  /\ hw[m] = "running" /\ faults < MaxFaults
  /\ hw' = [hw EXCEPT ![m] = "fatal"]
  /\ faults' = faults + 1
  /\ exec' = {c \in exec : c.m # m}
  /\ UNCHANGED <<live, dead, degrade, rq, softirq, cq, isr, drain, timer>>

-----------------------------------------------------------------------------
(* rc_nvme_io_queue_irq.                                                    *)

\* rc_nvme_irq_csts_check: a fatal controller is flagged and its queue left.
IsrSeesFatal(m) ==
  /\ isr[m].pc = "out" /\ hw[m] = "fatal" /\ m \notin dead
  /\ dead' = dead \cup {m}
  /\ UNCHANGED <<live, mediaVars, degrade, rq, softirq, isr, drain, timer,
                 faults>>

IsrEnter(m) ==
  /\ isr[m].pc = "out" /\ hw[m] # "fatal" /\ cq[m] # {}
  /\ isr' = [isr EXCEPT ![m].pc = "walk"]
  /\ UNCHANGED <<live, dead, mediaVars, degrade, rq, softirq, drain, timer,
                 faults>>

\* Take an entry: an error status goes to the pdu of whatever request has the
\* tag now ...
IsrTake(m) ==
  /\ isr[m].pc = "walk"
  /\ \E e \in cq[m] :
       /\ cq' = [cq EXCEPT ![m] = @ \ {e}]
       /\ isr' = [isr EXCEPT ![m].pc = "consume", ![m].t = e.t, ![m].use = e.use]
       /\ rq' = IF e.ok THEN rq
                ELSE [rq EXCEPT ![e.t].sc = TRUE, ![e.t].err = @ \cup {m}]
  /\ UNCHANGED <<live, dead, hw, exec, degrade, softirq, drain, timer, faults>>

\* ... acked is claimed for this member: a set bit means the drain was first ...
IsrConsume(m) ==
  /\ isr[m].pc = "consume"
  /\ LET t == isr[m].t IN
       /\ rq' = [rq EXCEPT ![t].acked = @ \cup {m}]
       /\ isr' = [isr EXCEPT
            ![m].pc = IF m \in rq[t].acked THEN "walk" ELSE "dec"]
  /\ UNCHANGED <<live, dead, mediaVars, degrade, softirq, drain, timer, faults>>

\* ... members_pending counts down ...
IsrDec(m) ==
  /\ isr[m].pc = "dec"
  /\ LET t == isr[m].t IN
       /\ rq' = [rq EXCEPT ![t].pending = @ - 1]
       /\ isr' = [isr EXCEPT
            ![m].pc = IF rq[t].pending = 1 THEN "claim" ELSE "walk"]
  /\ UNCHANGED <<live, dead, mediaVars, degrade, softirq, drain, timer, faults>>

\* ... and the last one claims the completion: into the handler's batch, or
\* through blk_mq_complete_request when that is full.
IsrClaim(m) ==
  /\ isr[m].pc = "claim"
  /\ LET t == isr[m].t IN
       \/ /\ CanClaim(t) /\ Cardinality(isr[m].done) < Batch
          /\ rq' = [rq EXCEPT ![t].claimed = TRUE]
          /\ isr' = [isr EXCEPT ![m].pc = "walk", ![m].done = @ \cup {t}]
          /\ UNCHANGED softirq
       \/ /\ CanClaim(t) /\ Cardinality(isr[m].done) >= Batch
          /\ rq' = [rq EXCEPT ![t].claimed = TRUE, ![t].st = "complete"]
          /\ isr' = [isr EXCEPT ![m].pc = "walk"]
          /\ softirq' = softirq \cup {t}
       \/ /\ ~CanClaim(t)
          /\ isr' = [isr EXCEPT ![m].pc = "walk"]
          /\ UNCHANGED <<rq, softirq>>
  /\ UNCHANGED <<live, dead, mediaVars, degrade, drain, timer, faults>>

\* No entry left: the lock is dropped ...
IsrLeave(m) ==
  /\ isr[m].pc = "walk" /\ cq[m] = {}
  /\ isr' = [isr EXCEPT ![m].pc = "end"]
  /\ UNCHANGED <<live, dead, mediaVars, degrade, rq, softirq, drain, timer,
                 faults>>

\* ... and the batch ended.
IsrEnd(m) ==
  /\ isr[m].pc = "end"
  /\ \/ /\ isr[m].done = {}
        /\ isr' = [isr EXCEPT ![m].pc = "out"]
        /\ UNCHANGED <<live, degrade, rq>>
     \/ \E t \in isr[m].done :
          /\ FinishRequest(t)
          /\ isr' = [isr EXCEPT ![m].done = @ \ {t}]
  /\ UNCHANGED <<dead, mediaVars, softirq, drain, timer, faults>>

\* rc_volume_complete, in softirq context.
Softirq(t) ==
  /\ t \in softirq
  /\ FinishRequest(t)
  /\ softirq' = softirq \ {t}
  /\ UNCHANGED <<dead, mediaVars, isr, drain, timer, faults>>

-----------------------------------------------------------------------------
(* rc_volume_drain_dead.                                                    *)

\* The dead members are noted ...
DrainBegin(d) ==
  /\ drain[d].pc = "begin"
  /\ drain' = [drain EXCEPT ![d].pc = IF dead = {} THEN "none" ELSE "disable",
                            ![d].mask = dead]
  /\ UNCHANGED <<live, dead, mediaVars, degrade, rq, softirq, isr, timer, faults>>

\* Mutant: the controllers go on executing.
DrainDisableForgotten(d) ==
  /\ drain[d].pc = "disable"
  /\ drain' = [drain EXCEPT ![d].pc = "iter", ![d].todo = Tags]
  /\ UNCHANGED <<live, dead, mediaVars, degrade, rq, softirq, isr, timer, faults>>

\* ... their controllers disabled, which ends every command in them - unless the
\* bounded wait runs out: the drain goes on "reclaiming DMA anyway" from a
\* controller that is stuck ...
DrainDisable(d) ==
  /\ drain[d].pc = "disable"
  /\ \E stuck \in SUBSET {m \in drain[d].mask : hw[m] # "off"} :
       /\ hw' = [m \in Members |->
                    IF m \notin drain[d].mask THEN hw[m]
                    ELSE IF m \notin stuck THEN "off"
                    ELSE IF hw[m] = "running" THEN "hung" ELSE hw[m]]
       /\ exec' = {c \in exec : c.m \notin drain[d].mask \ stuck}
  /\ drain' = [drain EXCEPT ![d].pc = "iter", ![d].todo = Tags]
  /\ UNCHANGED <<live, dead, cq, degrade, rq, softirq, isr, timer, faults>>

\* ... and each started request that involves one of them is visited.
DrainVisit(d) ==
  /\ drain[d].pc = "iter"
  /\ \/ \E t \in drain[d].todo :
          LET involved == rq[t].mask \cap drain[d].mask
              visited  == rq[t].st \in {"started", "complete"} /\ involved # {}
          IN drain' = [drain EXCEPT
               ![d].todo = @ \ {t},
               ![d].pc   = IF visited THEN "ack" ELSE "iter",
               ![d].t    = IF visited THEN t ELSE None,
               ![d].left = IF visited THEN involved ELSE {}]
     \/ /\ drain[d].todo = {}
        /\ drain' = [drain EXCEPT ![d].pc = "none"]
  /\ UNCHANGED <<live, dead, mediaVars, degrade, rq, softirq, isr, timer, faults>>

\* rc_volume_drain_iter: for a dead member whose entry was never consumed a
\* completion is made up.
DrainAck(d) ==
  /\ drain[d].pc = "ack"
  /\ LET t == drain[d].t IN
       \/ /\ drain[d].left = {}
          /\ drain' = [drain EXCEPT ![d].pc = "claim"]
          /\ UNCHANGED rq
       \/ \E m \in drain[d].left :
            \/ /\ m \in rq[t].acked
               /\ drain' = [drain EXCEPT ![d].left = @ \ {m}]
               /\ UNCHANGED rq
            \/ /\ m \notin rq[t].acked
               /\ drain' = [drain EXCEPT ![d].left = @ \ {m}, ![d].pc = "dec"]
               /\ rq' = [rq EXCEPT ![t].acked = @ \cup {m},
                                   ![t].err = @ \cup {m}, ![t].sc = TRUE]
  /\ UNCHANGED <<live, dead, mediaVars, degrade, softirq, isr, timer, faults>>

DrainDec(d) ==
  /\ drain[d].pc = "dec"
  /\ LET t == drain[d].t IN
       /\ rq' = [rq EXCEPT ![t].pending = @ - 1]
       /\ drain' = [drain EXCEPT ![d].pc = "ack",
                                 ![d].last = @ \/ rq[t].pending = 1]
  /\ UNCHANGED <<live, dead, mediaVars, degrade, softirq, isr, timer, faults>>

\* Mutant: the claim is won and the request not completed.
DrainClaimLost(d) ==
  /\ drain[d].pc = "claim"
  /\ LET t == drain[d].t IN
       rq' = IF drain[d].last THEN [rq EXCEPT ![t].claimed = TRUE] ELSE rq
  /\ drain' = [drain EXCEPT ![d].pc = "iter", ![d].t = None, ![d].last = FALSE]
  /\ UNCHANGED <<live, dead, mediaVars, degrade, softirq, isr, timer, faults>>

\* Having taken members_pending to zero it completes the request.
DrainClaim(d) ==
  /\ drain[d].pc = "claim"
  /\ LET t   == drain[d].t
         win == drain[d].last /\ rq[t].st # "complete" /\ CanClaim(t)
     IN /\ rq' = IF win THEN [rq EXCEPT ![t].claimed = TRUE, ![t].st = "complete"]
                        ELSE rq
        /\ softirq' = IF win THEN softirq \cup {t} ELSE softirq
  /\ drain' = [drain EXCEPT ![d].pc = "iter", ![d].t = None, ![d].last = FALSE]
  /\ UNCHANGED <<live, dead, mediaVars, degrade, isr, timer, faults>>

DrainStep(d) == \/ DrainBegin(d) \/ DrainDisable(d) \/ DrainVisit(d)
                \/ DrainAck(d) \/ DrainDec(d) \/ DrainClaim(d)

\* rc_volume_degrade_fn.
Degrade ==
  /\ degrade /\ drain["degrade"].pc = "none"
  /\ degrade' = FALSE
  /\ drain' = [drain EXCEPT !["degrade"].pc = "begin"]
  /\ UNCHANGED <<live, dead, mediaVars, rq, softirq, isr, timer, faults>>

-----------------------------------------------------------------------------
(* rc_volume_timeout.                                                       *)

Idle == [pc |-> "none", t |-> None, redone |-> FALSE]

\* The handler calls rc_volume_drain_dead and goes on at pc when it returns.
CallDrain(pc, redone) ==
  /\ timer' = [timer EXCEPT !.pc = pc, !.redone = redone]
  /\ drain' = [drain EXCEPT !["timeout"].pc = "begin"]

Returned == drain["timeout"].pc = "none"

\* blk-mq finds a request whose time is up.
TimeoutFires(t) ==
  /\ timer.pc = "none" /\ rq[t].st = "started"
  /\ timer' = [Idle EXCEPT !.pc = "check", !.t = t]
  /\ UNCHANGED <<live, dead, mediaVars, degrade, rq, softirq, isr, drain, faults>>

\* Unless blk-mq says it completed, each member involved is probed.
TimeoutCheck ==
  /\ timer.pc = "check"
  /\ LET r == rq[timer.t] IN
       \/ /\ r.st = "complete"
          /\ timer' = Idle
          /\ UNCHANGED <<dead, drain>>
       \/ /\ r.st # "complete"
          /\ dead' = dead \cup {m \in r.mask : hw[m] = "fatal"}
          /\ IF dead' \cap r.mask # {}
             THEN CallDrain("drained", FALSE)
             ELSE timer' = [timer EXCEPT !.pc = "abort"] /\ UNCHANGED drain
  /\ UNCHANGED <<live, mediaVars, degrade, rq, softirq, isr, faults>>

\* Mutant: the timer is given back without end.
TimeoutDrainedAgain ==
  /\ timer.pc = "drained" /\ Returned
  /\ LET t == timer.t
     IN IF rq[t].st = "complete" \/ rq[t].mask \subseteq rq[t].acked
        THEN /\ timer' = [timer EXCEPT !.pc = "net"]
             /\ UNCHANGED rq
        ELSE /\ rq' = [rq EXCEPT ![t].rearm = @ + 1]
             /\ timer' = Idle
  /\ UNCHANGED <<live, dead, mediaVars, degrade, softirq, isr, drain, faults>>

\* A member was dead: the drain has completed the request, or others still owe
\* an answer; they get more time, and in the end are declared dead too.
TimeoutDrained ==
  /\ timer.pc = "drained" /\ Returned
  /\ LET t       == timer.t
         waiting == rq[t].mask \ rq[t].acked
     IN \/ /\ rq[t].st = "complete"
           /\ timer' = Idle
           /\ UNCHANGED <<dead, rq, drain>>
        \/ /\ rq[t].st # "complete" /\ (waiting = {} \/ timer.redone)
           /\ timer' = [timer EXCEPT !.pc = "net"]
           /\ UNCHANGED <<dead, rq, drain>>
        \/ /\ rq[t].st # "complete" /\ waiting # {} /\ ~timer.redone
           /\ rq[t].rearm < MaxRearm
           /\ rq' = [rq EXCEPT ![t].rearm = @ + 1]
           /\ timer' = Idle
           /\ UNCHANGED <<dead, drain>>
        \/ /\ rq[t].st # "complete" /\ waiting # {} /\ ~timer.redone
           /\ rq[t].rearm = MaxRearm
           /\ dead' = dead \cup waiting
           /\ CallDrain("drained", TRUE)
           /\ UNCHANGED rq
  /\ UNCHANGED <<live, mediaVars, degrade, softirq, isr, faults>>

\* No member is dead: the command is aborted on each of them ...
TimeoutAbort ==
  /\ timer.pc = "abort"
  /\ timer' = [timer EXCEPT !.pc = "judge"]
  /\ UNCHANGED <<live, dead, mediaVars, degrade, rq, softirq, isr, drain, faults>>

\* The members held responsible: those that never answered, or else all.
Stuck(t) == LET silent == rq[t].mask \ rq[t].acked
            IN IF silent = {} THEN rq[t].mask ELSE silent

\* ... and unless that completed the request its members are declared dead.
TimeoutJudge ==
  /\ timer.pc = "judge"
  /\ IF rq[timer.t].st = "complete"
     THEN timer' = Idle /\ UNCHANGED <<dead, drain>>
     ELSE dead' = dead \cup Stuck(timer.t) /\ CallDrain("final", FALSE)
  /\ UNCHANGED <<live, mediaVars, degrade, rq, softirq, isr, faults>>

\* The end of both paths: what nobody has completed is ended in error.
TimeoutEnds ==
  /\ timer.pc = "net" \/ (timer.pc = "final" /\ Returned)
  /\ LET t == timer.t IN
       rq' = IF CanClaim(t) /\ (timer.pc = "final" => rq[t].st # "complete")
             THEN [rq EXCEPT ![t] = Ended(@, "err")] ELSE rq
  /\ timer' = Idle
  /\ UNCHANGED <<live, dead, mediaVars, degrade, softirq, isr, drain, faults>>

-----------------------------------------------------------------------------
IsrStep(m) == \/ IsrSeesFatal(m) \/ IsrEnter(m) \/ IsrTake(m) \/ IsrConsume(m)
              \/ IsrDec(m) \/ IsrClaim(m) \/ IsrLeave(m) \/ IsrEnd(m)

TimeoutStep == \/ TimeoutCheck \/ TimeoutDrained \/ TimeoutAbort \/ TimeoutJudge
               \/ TimeoutEnds

Next ==
  \/ \E t \in Tags : \/ \E op \in {"read", "write"} : Dispatch(t, op)
                     \/ Start(t) \/ Submit(t) \/ Softirq(t) \/ TimeoutFires(t)
  \/ \E c \in exec, ok \in BOOLEAN : Execute(c, ok)
  \/ \E m \in Members : Die(m) \/ IsrStep(m)
  \/ \E d \in Callers : DrainStep(d)
  \/ Degrade \/ TimeoutStep

Spec == Init /\ [][Next]_vars

\* The kernel runs its handlers, works and timers; a controller may keep silent
\* for ever.
Fairness ==
  /\ \A t \in Tags : /\ WF_vars(Start(t)) /\ WF_vars(Submit(t))
                     /\ WF_vars(Softirq(t)) /\ WF_vars(TimeoutFires(t))
  /\ \A m \in Members : WF_vars(IsrStep(m))
  /\ \A d \in Callers : WF_vars(DrainStep(d))
  /\ WF_vars(Degrade) /\ WF_vars(TimeoutStep)

LiveSpec == Spec /\ Fairness

-----------------------------------------------------------------------------
(* Safety.                                                                  *)

\* "Exactly one caller per request lifetime" ends the request, however the
\* interrupt handlers, the drains and the timeout interleave.
EndedOnce == \A t \in Tags : rq[t].ends <= 1

\* members_pending counts the members that have not answered and the answers
\* being counted: "exactly-once per (request, member) no matter how ISR and
\* drain interleave".
Counting(t) ==
  Cardinality({m \in Members : isr[m].pc = "dec" /\ isr[m].t = t})
    + Cardinality({d \in Callers : drain[d].pc = "dec" /\ drain[d].t = t})

PendingExact ==
  \A t \in Tags :
    rq[t].pending = Cardinality(rq[t].mask \ rq[t].acked) + Counting(t)

\* "Disable a dead member's controller BEFORE any in-flight request's DMA mappings
\* are reclaimed": a request is not ended - its buffers unmapped - while a
\* controller is still executing a command of it, other than one that did not
\* stop within the drain's 3 seconds.
NoDmaAfterEnd ==
  \A c \in exec :
    hw[c.m] # "hung" => rq[c.t].use = c.use /\ rq[c.t].st # "idle"

\* A request ends when nothing is owed to it: every member still to report is
\* counted once, and no command outlives its request but in a hung controller.
NothingOwed == PendingExact /\ NoDmaAfterEnd

\* A write that ended OK was carried out, and every member that did not carry
\* it out is out of the live mask: no later read finds the old data.
OkIsDurable ==
  \A t \in Tags : rq[t].op = "write" /\ rq[t].result = "ok" =>
    rq[t].wrote # {} /\ live \cap rq[t].mask \subseteq rq[t].wrote

\* "Only the members that never ACKed this request are stuck - a member whose
\* CQE already arrived is demonstrably alive": the timeout handler declares no
\* member dead that has answered.
OnlySilentDeclaredDead ==
  [][timer.pc \in {"judge", "drained"} =>
       (dead' \ dead) \cap rq[timer.t].acked = {}]_vars

\* Every request started ends, though its controllers keep silent.
RequestsEnd == \A t \in Tags : rq[t].st = "started" ~> rq[t].st = "idle"
=============================================================================
