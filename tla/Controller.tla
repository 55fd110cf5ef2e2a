----------------------------- MODULE Controller -----------------------------
(* One NVMe controller of src/src/rc_nvme.c, from probe to removal, and the  *)
(* paths that drive its registers: bring-up, the timeout handler, the        *)
(* degrade work, the automatic and the manual reset, suspend and resume.     *)
(* Each path is the list of the steps it still has to take; a failing step   *)
(* continues at the label its goto names.                                    *)
EXTENDS Integers, FiniteSets, SequencesExt

CONSTANTS
  Queues,       \* I/O queue pairs the host can drive (rc_nvme_usable_io_queues)
  Reqs,         \* block requests that need this member
  None,
  MaxEvents     \* bound: faults and suspends; a sysfs reset or a removal counts twice

Threads == {"life", "work", "sysfs", "pm", "eh", "degrade"}

ASSUME ControllerAssumption ==
  Queues \in Nat \ {0} /\ MaxEvents \in Nat /\ None \notin Threads

VARIABLES
  hw,          \* the controller; lapse: it let a wait run out or refused a Delete
  cq,          \* answers in the admin completion queue, not yet consumed
  cmd,         \* the admin command somebody waits for
  holder,      \* owner of admin_mutex
  dead, latch, \* nvme.dead, nvme.auto_reset_disabled
  nr,          \* nvme.nr_io_queues
  io,          \* qids whose io_queues[] entry is set
  mem,         \* queue memory allocated: <<"sq", q>>, <<"cq", q>>, <<"admin", 0>>
  stage,       \* "probe", "member", "orphan", "leaving", "gone"
  path,        \* what each thread still has to do
  failed,      \* threads whose current operation has failed
  workq,       \* auto_reset_work is queued
  degradeq,    \* rc_volume_degrade_work is queued
  memberDown,  \* the member is out of service (FAILED)
  quiesced,    \* quiesce depth of the volume's queue
  frozen,      \* the volume's queue is frozen
  req,         \* the requests, as blk-mq sees them
  events,      \* faults, resets, suspends and removals so far
  overlapped,  \* history: two paths have driven the controller at once
  tries        \* history: automatic resets since the controller was last alive

memVars  == <<nr, io, mem, stage>>
blkVars  == <<quiesced, frozen, req, memberDown, degradeq>>
flagVars == <<dead, latch, workq>>
histVars == <<overlapped, tries>>
admVars  == <<cq, cmd, holder>>
vars == <<hw, admVars, flagVars, memVars, path, failed, blkVars, events, histVars>>

(* The paths.                                                               *)

Steps(names) == [i \in DOMAIN names |-> <<names[i], 0>>]
StepsOf(names, q) == [i \in DOMAIN names |-> <<names[i], q>>]
PerQueue(names, n) ==
  [i \in 1 .. n * Len(names) |->
     <<names[((i - 1) % Len(names)) + 1], ((i - 1) \div Len(names)) + 1>>]

\* rc_volume_drain_dead, and with an automatic reset scheduled after it.
Drain == Steps(<<"mask", "disable", "end_all">>)
DrainAndReset == Steps(<<"mask", "disable", "end_reset">>)

\* Mutant: the requests are not drained.
ResetUndrained ==
  Steps(<<"dead", "quiesce", "seize", "wait0", "on", "wait1",
          "set_num">>)
  \o PerQueue(<<"ccq", "csq">>, Cardinality(io))
  \o Steps(<<"live", "unlock", "rejoin">>)

\* rc_nvme_reset_controller.
Reset ==
  Steps(<<"dead", "quiesce">>) \o Drain
  \o Steps(<<"seize", "wait0", "on", "wait1", "set_num">>)
  \o PerQueue(<<"ccq", "csq">>, Cardinality(io))
  \o Steps(<<"live", "unlock", "rejoin">>)

\* rc_nvme_init_controller, and the registration that ends it.
InitSteps ==
  Steps(<<"off", "wait0", "alloc", "on", "wait1", "identify", "ask_num",
          "queues", "register">>)

\* rc_nvme_cleanup_controller.
Cleanup ==
  Steps(<<"cancel", "disable_dead", "settle", "destroy", "off", "wait0_any",
          "free_admin", "leave">>)

\* rc_volume_remove_member, for a member, then the cleanup.
Removal ==
  Steps(<<"dead">>) \o Drain \o Steps(<<"freeze_wait", "flush">>) \o Cleanup

\* rc_nvme_pm_suspend_adapter, and after the sleep, or at once if the controller
\* did not go idle, rc_nvme_reset_controller.
SuspendResume ==
  Steps(<<"freeze", "freeze_wait", "cancel", "lock", "dead", "off", "wait0",
          "unlock", "sleep">>)
  \o Reset \o Steps(<<"unfreeze">>)

At(t, name) == path[t] # <<>> /\ Head(path[t])[1] = name
Arg(t)      == Head(path[t])[2]
Has(t, name) == \E i \in DOMAIN path[t] : path[t][i][1] = name

\* t is going to bring the controller back: a reset, or a sleep that ends in one.
Driving(t) == Has(t, "live") /\ ~Has(t, "cancel")

\* u has found the controller dead and has not yet ended its requests.
Draining(u) == ~Has(u, "mask") /\ (Has(u, "end_all") \/ Has(u, "end_reset"))

Go(t)      == path' = [path EXCEPT ![t] = Tail(@)]
Jump(t, s) == path' = [path EXCEPT ![t] = s]

\* From the first step of that name.
FromStep(s, name) ==
  SubSeq(s, CHOOSE i \in DOMAIN s : /\ s[i][1] = name
                                    /\ \A j \in 1 .. i - 1 : s[j][1] # name, Len(s))

\* Where the gotos of bring-up lead: the queue at hand is unwound by hand, the
\* others and the rest by the probe's error path.
Unwind(name, q) ==
  StepsOf(CASE name \in {"on", "wait1"} -> <<"free_admin">>
            [] name = "ccq" -> <<"free_cq", "free_sq">>
            [] name = "csq" -> <<"dcq", "free_cq", "free_sq">>
            [] name = "irq" -> <<"dsq", "dcq", "free_cq", "free_sq">>
            [] OTHER -> <<>>, q)
  \o Steps(<<"destroy">>) \o Cleanup

Fail(t) ==
  /\ failed' = failed \cup {t}
  /\ Jump(t, IF t = "life" THEN Unwind(Head(path[t])[1], Arg(t))
                           ELSE FromStep(path[t], "unlock"))

\* Something happens to the system, within the bound.
Events(n) == events + n <= MaxEvents /\ events' = events + n

Event == Events(1)

(* The controller (external).                                               *)

Serving == hw.en /\ hw.rdy /\ hw.health = "ok"

Blank == [en |-> FALSE, rdy |-> FALSE, health |-> "ok", granted |-> 0,
          known |-> {}, reqs |-> {}, cmds |-> {}, lapse |-> FALSE]
Lost  == [Blank EXCEPT !.health = "gone", !.lapse = hw.lapse]

\* A disable completes: everything in the controller is forgotten.
HwDown ==
  /\ ~hw.en /\ hw.rdy /\ hw.health # "gone"
  /\ hw' = [Blank EXCEPT !.lapse = hw.lapse]
  /\ UNCHANGED <<admVars, flagVars, memVars, path, failed, blkVars, events, histVars>>

HwUp ==
  /\ hw.en /\ ~hw.rdy /\ hw.health = "ok"
  /\ hw' = [hw EXCEPT !.rdy = TRUE]
  /\ UNCHANGED <<admVars, flagVars, memVars, path, failed, blkVars, events, histVars>>

\* CSTS.CFS, or the device is gone.
HwFail ==
  /\ Serving /\ Event
  /\ \/ hw' = [hw EXCEPT !.health = "fatal"]
     \/ hw' = Lost
  /\ UNCHANGED <<admVars, flagVars, memVars, path, failed, blkVars, histVars>>

\* What an admin command does, and whether it succeeds.
Accepts(c) ==
  CASE c.op = "ccq" -> c.q <= hw.granted
    [] c.op = "csq" -> <<"cq", c.q>> \in hw.known
    [] c.op = "dsq" -> <<"sq", c.q>> \in hw.known
    [] c.op = "dcq" -> <<"cq", c.q>> \in hw.known /\ <<"sq", c.q>> \notin hw.known
    [] OTHER -> TRUE

Names(c) == <<IF c.op \in {"ccq", "dcq"} THEN "cq" ELSE "sq", c.q>>

Effect(c) ==
  CASE c.op \in {"ccq", "csq"} -> hw.known \cup {Names(c)}
    [] c.op \in {"dsq", "dcq"} -> hw.known \ {Names(c)}
    [] OTHER -> hw.known

Answer(c, ok, n) == cq' = Append(cq, [own |-> c.own, ok |-> ok, n |-> n])

\* It executes an admin command, possibly one nobody waits for any more; it
\* may grant fewer queues than are asked for.
HwAdmin ==
  /\ Serving
  /\ \E c \in hw.cmds :
       \/ /\ Accepts(c) /\ c.op \notin {"set_num", "ask_num"}
          /\ hw' = [hw EXCEPT !.cmds = @ \ {c}, !.known = Effect(c)]
          /\ Answer(c, TRUE, 0) /\ UNCHANGED events
       \/ /\ c.op \in {"set_num", "ask_num"}
          /\ \E n \in 1 .. Queues :
               /\ hw' = [hw EXCEPT !.cmds = @ \ {c}, !.granted = n]
               /\ Answer(c, TRUE, n)
               /\ IF n < Queues THEN Event ELSE UNCHANGED events
       \/ /\ IF Accepts(c) THEN Event ELSE UNCHANGED events
          /\ hw' = [hw EXCEPT !.cmds = @ \ {c},
                      !.lapse = @ \/ (Accepts(c) /\ c.op \in {"dsq", "dcq"})]
          /\ Answer(c, FALSE, 0)
  /\ UNCHANGED <<cmd, holder, flagVars, memVars, path, failed, blkVars, histVars>>

\* rc_volume_member_mark_failed, as far as this controller goes.
MarkDown == memberDown' = TRUE /\ degradeq' = (degradeq \/ ~memberDown)

\* It answers a request, which ends unless it has been ended already.
HwDone(r) ==
  /\ Serving /\ r \in hw.reqs
  /\ hw' = [hw EXCEPT !.reqs = @ \ {r}]
  /\ req' = [req EXCEPT ![r] = IF @ = "sent" THEN "none" ELSE @]
  /\ \/ UNCHANGED <<memberDown, degradeq, events>>
     \/ req[r] = "sent" /\ Event /\ MarkDown
  /\ UNCHANGED <<admVars, flagVars, memVars, path, failed, quiesced, frozen, histVars>>

(* Block requests.                                                          *)

\* A request enters the volume; blk-mq does not reuse one a timeout handler holds.
Enter(r) ==
  /\ stage = "member" /\ ~frozen /\ req[r] = "none"
  /\ path["eh"] # <<>> => <<"end_one", r>> \notin ToSet(path["eh"])
  /\ req' = [req EXCEPT ![r] = "queued"]
  /\ UNCHANGED <<hw, admVars, flagVars, memVars, path, failed, quiesced, frozen,
                 memberDown, degradeq, events, histVars>>

\* rc_volume_queue_rq, unless the queue is quiesced: a dead member is failed
\* and fails the request; otherwise the command goes to the controller.
Dispatch(r) ==
  /\ req[r] = "queued" /\ quiesced = 0
  /\ IF dead \/ memberDown
     THEN /\ req' = [req EXCEPT ![r] = "none"]
          /\ IF dead THEN MarkDown ELSE UNCHANGED <<memberDown, degradeq>>
          /\ UNCHANGED hw
     ELSE /\ req' = [req EXCEPT ![r] = "sent"]
          /\ hw' = IF Serving THEN [hw EXCEPT !.reqs = @ \cup {r}] ELSE hw
          /\ UNCHANGED <<memberDown, degradeq>>
  /\ UNCHANGED <<admVars, flagVars, memVars, path, failed, quiesced, frozen,
                 events, histVars>>

\* rc_nvme_irq_csts_check: any interrupt finds the controller dead.
IsrSeesDeath ==
  /\ hw.health # "ok" /\ ~dead /\ stage # "gone"
  /\ dead' = TRUE
  /\ UNCHANGED <<hw, admVars, latch, workq, memVars, path, failed, blkVars,
                 events, histVars>>

(* Starting a path.                                                         *)

Start(t, s) == path[t] = <<>> /\ Jump(t, s) /\ failed' = failed \ {t}

\* rc_volume_timeout: the member is dead, or an Abort is tried first.  That a
\* controller works on a request for so long is a fault.
TimeOut(r) ==
  /\ req[r] = "sent"
  /\ IF Serving /\ r \in hw.reqs THEN Event ELSE UNCHANGED events
  /\ LET gone == dead \/ hw.health # "ok" IN
     /\ dead' = gone
     /\ Start("eh", IF gone THEN DrainAndReset
                    ELSE StepsOf(<<"abort", "stuck">>, r) \o DrainAndReset
                         \o StepsOf(<<"end_one">>, r))
  /\ UNCHANGED <<hw, admVars, latch, workq, memVars, blkVars, histVars>>

\* rc_volume_degrade_fn; it looks for dead members first of all.
Degrade ==
  /\ degradeq /\ degradeq' = FALSE
  /\ Start("degrade", IF dead THEN Tail(DrainAndReset) ELSE <<>>)
  /\ UNCHANGED <<hw, admVars, flagVars, memVars, quiesced, frozen, req, memberDown,
                 events, histVars>>

\* Mutant: a failed automatic reset leaves auto-reset on.
AutoResetUnlatched ==
  /\ workq /\ workq' = FALSE
  /\ IF dead THEN Start("work", Reset) /\ tries' = tries + 1
             ELSE Start("work", <<>>) /\ UNCHANGED tries
  /\ UNCHANGED <<hw, admVars, dead, latch, memVars, blkVars, events, overlapped>>

\* rc_nvme_auto_reset_fn.
AutoReset ==
  /\ workq /\ workq' = FALSE
  /\ IF dead THEN Start("work", Reset \o Steps(<<"latch">>)) /\ tries' = tries + 1
             ELSE Start("work", <<>>) /\ UNCHANGED tries
  /\ UNCHANGED <<hw, admVars, dead, latch, memVars, blkVars, events, overlapped>>

\* reset_store.  User space is frozen before a suspend.
ManualReset ==
  /\ stage \in {"member", "orphan"} /\ path["pm"] = <<>>
  /\ Events(2)
  /\ Start("sysfs", Reset)
  /\ UNCHANGED <<hw, admVars, flagVars, memVars, blkVars, histVars>>

\* rc_bottom_pm_suspend, and later rc_bottom_pm_resume.
Suspend ==
  /\ stage \in {"member", "orphan"} /\ path["sysfs"] = <<>>
  /\ Event
  /\ Start("pm", SuspendResume)
  /\ UNCHANGED <<hw, admVars, flagVars, memVars, blkVars, histVars>>

\* rc_bottom_remove, of a device that may be gone: the sysfs attributes go first.
Unplug ==
  /\ stage \in {"member", "orphan"}
  /\ path["sysfs"] = <<>> /\ path["pm"] = <<>>
  /\ Events(2)
  /\ hw' \in {hw, Lost}
  /\ Start("life", IF stage = "member" THEN Removal ELSE Cleanup)
  /\ stage' = "leaving"
  /\ UNCHANGED <<admVars, flagVars, nr, io, mem, blkVars, histVars>>

(* Steps of the paths: the registers.                                       *)

SetDead(t) ==
  /\ At(t, "dead") /\ dead' = TRUE
  /\ overlapped' = (overlapped \/ \E u \in Threads \ {t} : Driving(u))
  /\ failed' = failed \ {t} /\ Go(t)
  /\ UNCHANGED <<hw, admVars, latch, workq, memVars, blkVars, events, tries>>

\* rc_volume_drain_dead looks for dead members before it disables them.
Mask(t) ==
  /\ At(t, "mask")
  /\ IF dead THEN Go(t) ELSE Jump(t, SubSeq(path[t], 4, Len(path[t])))
  /\ UNCHANGED <<hw, admVars, flagVars, memVars, failed, blkVars, events, histVars>>

\* rc_nvme_disable_dead_controller clears CC.EN without admin_mutex: it
\* overlaps a reset that has enabled the controller or declared it alive.
Disable(t) ==
  /\ At(t, "disable")
  /\ hw' = [hw EXCEPT !.en = FALSE]
  /\ overlapped' = (overlapped \/ \E u \in Threads \ {t} :
                      holder = u /\ Has(u, "live") /\ ~Has(u, "on"))
  /\ Go(t)
  /\ UNCHANGED <<admVars, flagVars, memVars, failed, blkVars, events, tries>>

\* Before its queues are freed: only a controller that is dead.
DisableDead(t) ==
  /\ At(t, "disable_dead")
  /\ IF dead THEN hw' = [hw EXCEPT !.en = FALSE] /\ Go(t)
             ELSE UNCHANGED hw /\ Jump(t, Tail(Tail(path[t])))
  /\ UNCHANGED <<admVars, flagVars, memVars, failed, blkVars, events, histVars>>

\* A wait for CSTS.RDY to become up runs out: the controller is too slow, or
\* CC.EN has meanwhile been changed under it.
RunsOut(up) ==
  /\ hw.rdy # up /\ hw.health # "gone"
  /\ IF hw.en # up THEN UNCHANGED <<hw, events>>
                   ELSE Event /\ hw' = [hw EXCEPT !.lapse = TRUE]

\* The bounded wait after a disable, whose outcome is ignored.
Settled ==
  \/ (~hw.rdy \/ hw.health = "gone") /\ UNCHANGED <<hw, events>>
  \/ RunsOut(FALSE)

Settle(t) ==
  /\ At(t, "settle") /\ Go(t) /\ Settled
  /\ UNCHANGED <<admVars, flagVars, memVars, failed, blkVars, histVars>>

Off(t) ==
  /\ At(t, "off") /\ Go(t)
  /\ hw' = [hw EXCEPT !.en = FALSE]
  /\ UNCHANGED <<admVars, flagVars, memVars, failed, blkVars, events, histVars>>

\* The rings are zeroed, their addresses written and read back, and CC.EN set.
On(t) ==
  /\ At(t, "on")
  /\ cq' = <<>>
  /\ \/ /\ hw' = IF hw.health = "gone" THEN hw ELSE [hw EXCEPT !.en = TRUE]
        /\ Go(t) /\ UNCHANGED <<failed, events>>
     \/ Event /\ Fail(t) /\ UNCHANGED hw
  /\ UNCHANGED <<cmd, holder, flagVars, memVars, blkVars, histVars>>

\* rc_nvme_wait_csts.  Cleanup does not ask how the wait ended.
WaitReady(t, name, up) ==
  /\ At(t, name)
  /\ \/ hw.rdy = up /\ hw.health = "ok" /\ Go(t) /\ UNCHANGED <<hw, events, failed>>
     \/ /\ \/ hw.health # "ok" /\ UNCHANGED <<hw, events>>
           \/ RunsOut(up)
        /\ IF name = "wait0_any" THEN Go(t) /\ UNCHANGED failed ELSE Fail(t)
  /\ UNCHANGED <<admVars, flagVars, memVars, blkVars, histVars>>

(* Steps of the paths: the admin queue.                                     *)

Fatal   == {"set_num", "ccq", "csq"}
Ignored == {"identify", "ask_num", "dsq", "dcq", "abort"}

\* The rolling CID tells the command's answer from one that came too late.
Matches(e) == e.own

\* Mutant: admin_mutex is not taken.
IssueUnlocked(t) ==
  /\ path[t] # <<>> /\ Head(path[t])[1] \in Fatal \cup Ignored
  /\ cmd = None /\ cmd' = t
  /\ hw' = IF Serving THEN [hw EXCEPT !.cmds = @ \cup
                  {[op |-> Head(path[t])[1], q |-> Arg(t), own |-> TRUE]}] ELSE hw
  /\ UNCHANGED <<cq, holder, flagVars, memVars, path, failed, blkVars, events, histVars>>

\* __rc_nvme_admin_cmd_locked puts the command in the ring; admin_mutex is
\* the caller's already, or taken for the command.
Issue(t) ==
  /\ path[t] # <<>> /\ Head(path[t])[1] \in Fatal \cup Ignored
  /\ cmd = None /\ holder \in {None, t}
  /\ cmd' = t /\ holder' = t
  /\ hw' = IF Serving THEN [hw EXCEPT !.cmds = @ \cup
                  {[op |-> Head(path[t])[1], q |-> Arg(t), own |-> TRUE]}] ELSE hw
  /\ UNCHANGED <<cq, flagVars, memVars, path, failed, blkVars, events, histVars>>

\* What the caller does with the outcome, n being the queues granted.
Return(t, ok, n) ==
  LET op == Head(path[t])[1] IN
  /\ cmd' = None
  /\ holder' = IF Has(t, "unlock") THEN t ELSE None
  /\ nr' = CASE op = "set_num" /\ ok -> IF n < nr THEN n ELSE nr
            [] op = "ask_num" -> IF ok THEN n ELSE 1
            [] OTHER -> nr
  /\ IF op \in Ignored \/ (ok /\ nr' >= nr) THEN Go(t) /\ UNCHANGED failed ELSE Fail(t)

Consume(t) ==
  /\ cmd = t /\ cq # <<>> /\ cq' = Tail(cq)
  /\ LET e == Head(cq) IN
     IF Matches(e) THEN Return(t, e.ok, e.n)
                   ELSE UNCHANGED <<cmd, holder, nr, path, failed>>
  /\ UNCHANGED <<hw, flagVars, io, mem, stage, blkVars, events, histVars>>

\* Nothing comes in time: the command may still be in the controller.
GiveUp(t) ==
  /\ cmd = t /\ cq = <<>>
  /\ LET owned == {c \in hw.cmds : c.own} IN
     IF owned = {} \/ ~Serving
     THEN hw' = [hw EXCEPT !.cmds = @ \ owned] /\ UNCHANGED events
     ELSE /\ Event
          /\ hw' = [hw EXCEPT !.lapse = TRUE,
               !.cmds = {[c EXCEPT !.own = FALSE] : c \in @}]
  /\ Return(t, FALSE, 0)
  /\ UNCHANGED <<cq, flagVars, io, mem, stage, blkVars, histVars>>

(* Steps of the paths: locks, flags and the block layer.                    *)

\* A reset takes admin_mutex and clears CC.EN.
Lock(t) ==
  /\ At(t, "lock") \/ At(t, "seize")
  /\ holder = None /\ holder' = t /\ Go(t)
  /\ hw' = IF At(t, "seize") THEN [hw EXCEPT !.en = FALSE] ELSE hw
  /\ UNCHANGED <<cq, cmd, flagVars, memVars, failed, blkVars, events, histVars>>

Unlock(t) ==
  /\ At(t, "unlock") /\ holder' = None /\ Go(t)
  /\ UNCHANGED <<hw, cq, cmd, flagVars, memVars, failed, blkVars, events, histVars>>

\* The controller is back: dead and the latch are cleared, then admin_mutex is
\* released.  A drain that has found it dead and sleeps in its wait will not look
\* again.
Live(t) ==
  /\ At(t, "live") /\ holder' = None /\ Jump(t, FromStep(path[t], "rejoin"))
  /\ dead' = FALSE /\ latch' = FALSE /\ tries' = 0
  /\ overlapped' = (overlapped \/ \E u \in Threads \ {t} :
                      Draining(u))
  /\ UNCHANGED <<hw, cq, cmd, workq, memVars, failed, blkVars, events>>

Latch(t) ==
  /\ At(t, "latch") /\ Go(t)
  /\ latch' = (latch \/ t \in failed) /\ failed' = failed \ {t}
  /\ UNCHANGED <<hw, admVars, dead, workq, memVars, blkVars, events, histVars>>

\* The request was not saved by its Abort: the member is declared dead.
Stuck(t) ==
  /\ At(t, "stuck")
  /\ IF req[Arg(t)] = "sent" THEN dead' = TRUE /\ Go(t)
                             ELSE UNCHANGED dead /\ Jump(t, <<>>)
  /\ UNCHANGED <<hw, admVars, latch, workq, memVars, failed, blkVars, events, histVars>>

\* rc_nvme_schedule_auto_reset.
MayReset == dead /\ ~latch

\* Once the wait is over, rc_volume_drain_iter ends in error what is owed to a
\* member that was dead when the drain began.
EndAll(t) ==
  LET owed == {r \in Reqs : req[r] = "sent"} IN
  /\ At(t, "end_all") \/ At(t, "end_reset")
  /\ Go(t) /\ Settled
  /\ workq' = (workq \/ (At(t, "end_reset") /\ MayReset))
  /\ req' = [r \in Reqs |-> IF r \in owed THEN "none" ELSE req[r]]
  /\ IF owed # {} THEN MarkDown ELSE UNCHANGED <<memberDown, degradeq>>
  /\ UNCHANGED <<admVars, dead, latch, memVars, failed, quiesced, frozen, histVars>>

\* The timeout handler ends its request if the drain has not.
EndOne(t) ==
  /\ At(t, "end_one") /\ Go(t)
  /\ req' = [req EXCEPT ![Arg(t)] = IF @ = "sent" THEN "none" ELSE @]
  /\ UNCHANGED <<hw, admVars, flagVars, memVars, failed, quiesced, frozen,
                 memberDown, degradeq, events, histVars>>

Quiesce(t) ==
  /\ At(t, "quiesce") /\ Go(t)
  /\ quiesced' = quiesced + 1
  /\ UNCHANGED <<hw, admVars, flagVars, memVars, failed, frozen, req, memberDown,
                 degradeq, events, histVars>>

\* Mutant: a reset that fails leaves the queue quiesced.
RejoinStuck(t) ==
  /\ At(t, "rejoin") /\ Go(t)
  /\ quiesced' = IF t \in failed THEN quiesced ELSE quiesced - 1
  /\ memberDown' = (memberDown /\ t \in failed)
  /\ failed' = IF Has(t, "latch") THEN failed ELSE failed \ {t}
  /\ UNCHANGED <<hw, admVars, flagVars, memVars, frozen, req, degradeq, events,
                 histVars>>

\* The queue is unquiesced, and a member that comes back rejoins, or waits for
\* its rebuild elsewhere.
Rejoin(t) ==
  /\ At(t, "rejoin") /\ Go(t)
  /\ quiesced' = quiesced - 1
  /\ memberDown' = (memberDown /\ t \in failed)
  /\ failed' = IF Has(t, "latch") THEN failed ELSE failed \ {t}
  /\ UNCHANGED <<hw, admVars, flagVars, memVars, frozen, req, degradeq, events,
                 histVars>>

Freeze(t) ==
  /\ \/ At(t, "freeze") /\ frozen' = TRUE
     \/ At(t, "unfreeze") /\ frozen' = FALSE
  /\ Go(t)
  /\ UNCHANGED <<hw, admVars, flagVars, memVars, failed, quiesced, req, memberDown,
                 degradeq, events, histVars>>

\* Mutant: the suspend does not wait for the requests.
FreezeStarted(t) ==
  /\ At(t, "freeze_wait") /\ Go(t)
  /\ UNCHANGED <<hw, admVars, flagVars, memVars, failed, blkVars, events, histVars>>

\* blk_mq_freeze_queue_wait: every request, and its timeout handler, has ended.
FreezeWait(t) ==
  /\ At(t, "freeze_wait") /\ Go(t)
  /\ \A r \in Reqs : req[r] = "none"
  /\ path["eh"] = <<>>
  /\ UNCHANGED <<hw, admVars, flagVars, memVars, failed, blkVars, events, histVars>>

\* cancel_work_sync(&auto_reset_work), flush_work(&rc_volume_degrade_work).
Cancel(t) ==
  /\ \/ At(t, "cancel") /\ path["work"] = <<>> /\ workq' = FALSE
     \/ At(t, "flush") /\ path["degrade"] = <<>> /\ ~degradeq /\ UNCHANGED workq
  /\ Go(t)
  /\ UNCHANGED <<hw, admVars, dead, latch, memVars, failed, blkVars, events, histVars>>

\* The system sleeps, unless the suspend is being taken back.
Sleep(t) ==
  /\ At(t, "sleep") /\ Go(t)
  /\ UNCHANGED <<hw, admVars, flagVars, memVars, failed, blkVars, events, histVars>>

(* Steps of the paths: queue memory.                                        *)

\* Allocations of bring-up.
Alloc(t) ==
  /\ \/ At(t, "alloc") /\ mem' = mem \cup {<<"admin", 0>>} /\ Go(t) /\ UNCHANGED <<failed, events>>
     \/ At(t, "new") /\ mem' = mem \cup {<<"sq", Arg(t)>>, <<"cq", Arg(t)>>}
                     /\ Go(t) /\ UNCHANGED <<failed, events>>
     \/ (At(t, "alloc") \/ At(t, "new")) /\ Event /\ Fail(t) /\ UNCHANGED mem
  /\ UNCHANGED <<hw, admVars, flagVars, nr, io, stage, blkVars, histVars>>

\* rc_nvme_create_io_queues: as many as were granted.
MakeQueues(t) ==
  /\ At(t, "queues")
  /\ Jump(t, PerQueue(<<"new", "ccq", "csq", "irq">>, nr) \o Tail(path[t]))
  /\ UNCHANGED <<hw, admVars, flagVars, memVars, failed, blkVars, events, histVars>>

\* request_irq, the last thing that may fail for a queue.
Irq(t) ==
  /\ At(t, "irq")
  /\ \/ io' = io \cup {Arg(t)} /\ Go(t) /\ UNCHANGED <<failed, events>>
     \/ Event /\ Fail(t) /\ UNCHANGED io
  /\ UNCHANGED <<hw, admVars, flagVars, nr, mem, stage, blkVars, histVars>>

\* A drive without the metadata is not a member.
Register(t) ==
  /\ At(t, "register") /\ Go(t)
  /\ stage' \in {"member", "orphan"}
  /\ UNCHANGED <<hw, admVars, flagVars, nr, io, mem, failed, blkVars, events, histVars>>

\* Mutant: the memory goes before the controller is told.
FreeFirst(q) ==
  IF ~dead /\ hw.health # "gone"
  THEN StepsOf(<<"free_sq", "dsq", "free_cq", "dcq">>, q)
  ELSE StepsOf(<<"free_sq", "free_cq">>, q)

\* rc_nvme_destroy_one_io_queue: Deletes only for a controller that answers.
DestroyOne(q) ==
  IF ~dead /\ hw.health # "gone"
  THEN StepsOf(<<"dsq", "free_sq", "dcq", "free_cq">>, q)
  ELSE StepsOf(<<"free_sq", "free_cq">>, q)

\* rc_nvme_destroy_io_queues, one queue at a time.
Destroy(t) ==
  /\ At(t, "destroy")
  /\ IF io = {} THEN Go(t) /\ UNCHANGED io
     ELSE LET q == CHOOSE i \in io : \A j \in io : i <= j IN
          io' = io \ {q} /\ Jump(t, DestroyOne(q) \o path[t])
  /\ UNCHANGED <<hw, admVars, flagVars, nr, mem, stage, failed, blkVars, events, histVars>>

Free(t) ==
  /\ \/ At(t, "free_sq") /\ mem' = mem \ {<<"sq", Arg(t)>>}
     \/ At(t, "free_cq") /\ mem' = mem \ {<<"cq", Arg(t)>>}
     \/ At(t, "free_admin") /\ mem' = mem \ {<<"admin", 0>>}
  /\ Go(t)
  /\ UNCHANGED <<hw, admVars, flagVars, nr, io, stage, failed, blkVars, events, histVars>>

Leave(t) ==
  /\ At(t, "leave") /\ Go(t)
  /\ stage' = "gone"
  /\ UNCHANGED <<hw, admVars, flagVars, nr, io, mem, failed, blkVars, events, histVars>>

-----------------------------------------------------------------------------
Init ==
  /\ \E en \in BOOLEAN : hw = [Blank EXCEPT !.en = en, !.rdy = en]
  /\ cq = <<>> /\ cmd = None /\ holder = None
  /\ dead = FALSE /\ latch = FALSE /\ workq = FALSE
  /\ nr = 0 /\ io = {} /\ mem = {} /\ stage = "probe"
  /\ path = [t \in Threads |-> IF t = "life" THEN InitSteps ELSE <<>>]
  /\ failed = {} /\ quiesced = 0 /\ frozen = FALSE
  /\ req = [r \in Reqs |-> "none"] /\ memberDown = FALSE /\ degradeq = FALSE
  /\ events = 0
  /\ overlapped = FALSE /\ tries = 0

ThreadStep(t) ==
  \/ SetDead(t) \/ Mask(t) \/ Disable(t) \/ DisableDead(t) \/ Settle(t) \/ Off(t)
  \/ On(t) \/ WaitReady(t, "wait0", FALSE) \/ WaitReady(t, "wait0_any", FALSE)
  \/ WaitReady(t, "wait1", TRUE) \/ Issue(t) \/ Consume(t) \/ GiveUp(t)
  \/ Lock(t) \/ Unlock(t) \/ Live(t) \/ Latch(t) \/ Stuck(t)
  \/ EndAll(t) \/ EndOne(t) \/ Quiesce(t) \/ Rejoin(t) \/ Freeze(t) \/ FreezeWait(t)
  \/ Cancel(t) \/ Sleep(t) \/ Alloc(t) \/ MakeQueues(t) \/ Irq(t) \/ Register(t)
  \/ Destroy(t) \/ Free(t) \/ Leave(t)

Hardware == HwUp \/ HwDown \/ HwAdmin

Next ==
  \/ \E t \in Threads : ThreadStep(t)
  \/ Hardware \/ HwFail \/ IsrSeesDeath
  \/ \E r \in Reqs : Enter(r) \/ Dispatch(r) \/ HwDone(r) \/ TimeOut(r)
  \/ Degrade \/ AutoReset \/ ManualReset \/ Suspend \/ Unplug

Spec == Init /\ [][Next]_vars

\* Threads and works run, the machine is woken, blk-mq dispatches what it holds
\* when the queue is unquiesced and times out what is not answered.  A healthy
\* controller obeys CC.EN and answers, but for the faults.
Fairness ==
  /\ \A t \in Threads : WF_vars(ThreadStep(t))
  /\ WF_vars(Hardware) /\ WF_vars(Degrade) /\ WF_vars(AutoReset)
  /\ \A r \in Reqs : SF_vars(Dispatch(r)) /\ SF_vars(HwDone(r) \/ TimeOut(r))

FairSpec == Spec /\ Fairness

-----------------------------------------------------------------------------
(* Safety.                                                                  *)

\* Types; admin_mutex is held by whoever waits for a command, and the quiesce
\* depth counts the resets between their quiesce and their unquiesce.
TypeOK ==
  /\ hw.en \in BOOLEAN /\ hw.rdy \in BOOLEAN /\ hw.health \in {"ok", "fatal", "gone"}
  /\ hw.granted \in 0 .. Queues /\ nr \in 0 .. Queues /\ io \subseteq 1 .. Queues
  /\ {hw.known, mem} \subseteq SUBSET ({"sq", "cq", "admin"} \X (0 .. Queues))
  /\ holder \in Threads \cup {None} /\ cmd \in {None, holder}
  /\ stage \in {"probe", "member", "orphan", "leaving", "gone"}
  /\ dead \in BOOLEAN /\ latch \in BOOLEAN /\ workq \in BOOLEAN /\ degradeq \in BOOLEAN
  /\ req \in [Reqs -> {"none", "queued", "sent"}]
  /\ \A t \in Threads : \A i \in DOMAIN path[t] : path[t][i] \in STRING \X (Nat \cup Reqs)
  /\ quiesced = Cardinality({t \in Threads : Has(t, "rejoin") /\ ~Has(t, "quiesce")})

\* A controller that is not flagged dead, and has not just broken, is enabled
\* and knows every I/O queue the driver may ring; what blk-mq waits for is in
\* it.  "Flag dead + quiesce + drain so ... any in-flight request whose CID is
\* about to be wiped fails cleanly", unless two paths drove it at once.
ReadyUnlessDead ==
  stage \in {"member", "orphan"} /\ ~dead /\ hw.health = "ok" /\ ~overlapped =>
    /\ Serving
    /\ \A q \in io : {<<"sq", q>>, <<"cq", q>>} \subseteq hw.known
    /\ \A r \in Reqs : req[r] = "sent" => r \in hw.reqs

\* A controller that keeps its time never owns memory that was freed, nor the
\* buffers of a request that has ended.  Not so in a bring-up that began flagged
\* dead: it unwinds its queues without a Delete.
FreedUnowned ==
  hw.rdy /\ hw.health = "ok" /\ ~hw.lapse /\ ~(stage = "probe" /\ dead) =>
    /\ hw.known \subseteq mem
    /\ stage # "probe" => <<"admin", 0>> \in mem
    /\ ~overlapped => \A r \in hw.reqs : req[r] = "sent"

\* While the machine sleeps no request is in flight ("this is healthy I/O, it
\* must land") and nothing has brought the controller back.
AsleepQuiet ==
  At("pm", "sleep") /\ "pm" \notin failed =>
    /\ \A r \in Reqs : req[r] = "none"
    /\ ~overlapped => ~hw.en

\* A controller that cannot be reset is not thrashed: the attempt that was
\* under way when the latch was set is followed by at most one that was queued.
NotThrashed == tries <= 2

(* Liveness.                                                                *)

\* Every request ends and every suspend is over, whatever the controller does
\* and whichever paths overlap.
RecoveryEnds ==
  /\ \A r \in Reqs : req[r] = "queued" ~> req[r] = "none"
  /\ path["pm"] # <<>> ~> path["pm"] = <<>> /\ ~frozen

\* "Disable a dead member's controller BEFORE any in-flight request's DMA mappings
\* are reclaimed": no request is ended while a healthy controller works on it.
DmaStoppedFirst ==
  Serving /\ ~hw.lapse => \A r \in hw.reqs : req[r] = "sent"

\* "On any step's failure the adapter is left flagged dead": a reset that has
\* failed leaves a controller that is not used.
FailedStaysDead ==
  \A t \in failed : At(t, "rejoin") => dead
=============================================================================
