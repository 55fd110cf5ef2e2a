------------------------------ MODULE Dispatch ------------------------------
(***************************************************************************)
(* rc_volume_queue_rq of src/src/rc_nvme.c: what happens to a request       *)
(* between blk-mq handing it over and its last command being sent, and      *)
(* everything that is taken on the way - members, DMA mappings, slots of    *)
(* the submission rings, a count of the resync gate - and must be given     *)
(* back when a later step fails.                                            *)
(*                                                                          *)
(* Several CPUs dispatch into one hardware queue at once.  A step is one    *)
(* critical section of the code or one read of shared state; what a         *)
(* dispatch does to its own request alone is one step.  How a request ends  *)
(* in detail is RequestCompletion, what the gate is for is MirrorResync,    *)
(* which sectors go where is StripeFanout.                                  *)
(***************************************************************************)
EXTENDS Integers, SequencesExt

CONSTANTS
  Volumes,      \* volumes to consider: [level, cols], cols a sequence of sets
                \* of slots that hold the same data
  Requests,     \* the tags of one hardware queue, each used once
  Ops,          \* the operations that are asked for
  Ring,         \* usable slots of a submission ring (sq_depth - 1)
  None,         \* RC_RESYNC_WINDOW_NONE
  Chunks,       \* the places a resync window may cover
  MaxWindows,   \* bound: windows a resync publishes
  MaxFaults,    \* bound: members that die, mappings and builds that fail
  MaxSync       \* bound: synchronous commands that occupy a slot

SlotNumbers == 0 .. 7   \* the places of rc_volume_members

ASSUME DispatchConstants ==
  /\ Ops \subseteq {"read", "write", "discard", "flush"}
  /\ \A v \in Volumes :
       /\ v.level \in {"raid0", "raid1", "raid10"}
       /\ v.cols \in Seq((SUBSET SlotNumbers) \ {{}})
       /\ v.level = "raid0" => \A i \in DOMAIN v.cols : \E m \in SlotNumbers : v.cols[i] = {m}
       /\ None \notin [op : Ops, cols : SUBSET DOMAIN v.cols, at : Chunks]
  /\ IsFiniteSet(Requests)
  /\ Ring \in Nat \ {0} /\ MaxWindows \in Nat /\ MaxFaults \in Nat
  /\ MaxSync \in Nat /\ None \notin Chunks

VARIABLES
  vol,       \* rc_volume_raid_level and the columns
  present,   \* slots of rc_volume_members that are not NULL
  live,      \* rc_volume_live_mask
  wmask,     \* rc_volume_write_mask: live members and those being rebuilt
  dead,      \* members whose nvme.dead is set
  used,      \* sq_inflight of each member's ring
  inner,     \* synchronous commands in each ring (external)
  lost,      \* commands a dead controller will never answer
  rq,        \* the requests: blk-mq's state, the pdu, and the dispatcher's locals
  window,    \* rc_volume_resync_window
  counted,   \* the sum of rc_volume_wgen_count
  drained,   \* requests the resync thread waits for
  hctx,      \* blk-mq: the list of requests handed back, and who will run it
  leaving,   \* the member whose removal has begun and waits for the freeze
  budget     \* windows, faults and synchronous commands left

vars == <<vol, present, live, wmask, dead, used, inner, lost, rq, window,
          counted, drained, hctx, leaving, budget>>
volVars == <<vol, present, live, wmask, dead>>
ringVars == <<used, inner, lost>>
gateVars == <<window, counted, drained>>


Slots == UNION {UNION Range(v.cols) : v \in Volumes}
Members == UNION Range(vol.cols)

\* What is asked for: an operation, the columns its sectors lie in, and the
\* place of the resync window that it would meet.
Bios == {b \in [op : Ops, cols : SUBSET DOMAIN vol.cols, at : Chunks] :
           b.op = "flush" <=> b.cols = {}}

Stages == {"map", "build", "reserve", "gate", "start"}
Places == Stages \cup {"idle", "check", "route", "submit", "sent", "back",
                       "parked"}

\* A request before queue_rq has seen it.
Fresh == [pc |-> "idle", bio |-> None, plan |-> <<>>, set |-> {}, left |-> {},
          maps |-> {}, acked |-> {}, errs |-> {}, wgen |-> FALSE,
          why |-> "none", starts |-> 0, res |-> "none", ran |-> FALSE,
          owe |-> {}]

TypeOK ==
  /\ vol \in Volumes
  /\ present \in SUBSET Slots /\ live \in SUBSET Slots /\ dead \in SUBSET Slots
  /\ live \subseteq wmask /\ wmask \subseteq present
  /\ used \in [Slots -> 0 .. Ring]
  /\ inner \in [Slots -> 0 .. Ring] /\ lost \in [Slots -> 0 .. Ring]
  /\ \A r \in Requests :
       /\ rq[r].pc \in Places /\ DOMAIN rq[r] = DOMAIN Fresh
       /\ rq[r].set \in SUBSET Slots /\ rq[r].left \in SUBSET rq[r].set
       /\ rq[r].maps \in SUBSET rq[r].set /\ rq[r].acked \in SUBSET rq[r].set
       /\ rq[r].res \in {"none", "ok", "err"}
       /\ rq[r].why \in {"none", "full", "held", "window", "build"}
  /\ window \in Chunks \cup {None}
  /\ counted \in 0 .. Cardinality(Requests)
  /\ drained \in SUBSET Requests
  /\ hctx.list \in Seq(Requests) /\ hctx.run \in BOOLEAN
  /\ hctx.restart \in BOOLEAN
  /\ leaving \in Slots \cup {None}

\* The volume can go on with the live members l (rc_volume_can_serve).
CanServe(l) ==
  CASE vol.level = "raid0"  -> l = Members
    [] vol.level = "raid1"  -> l # {}
    [] vol.level = "raid10" -> \A i \in DOMAIN vol.cols : l \cap vol.cols[i] # {}

\* A volume in service; members may be absent, failed or being rebuilt.
Init ==
  /\ vol \in Volumes
  /\ live \in SUBSET Members /\ CanServe(live)
  /\ present \in {live, Members} /\ wmask \in {live, present} /\ dead = {}
  /\ used = [m \in Slots |-> 0] /\ inner = used /\ lost = used
  /\ rq = [r \in Requests |-> Fresh]
  /\ window = None /\ counted = 0 /\ drained = {}
  /\ hctx = [list |-> <<>>, run |-> FALSE, restart |-> FALSE]
  /\ leaving = None
  /\ budget = [windows |-> MaxWindows, faults |-> MaxFaults, sync |-> MaxSync]

-----------------------------------------------------------------------------
(* Where a request goes.                                                     *)

Data(b) == b.op \in {"read", "write"}

\* It crosses the end of a stripe.
Multi(b) == Cardinality(b.cols) > 1

\* It takes one of the fan-out functions, not the single-member path.
Fans(b) ==
  CASE vol.level = "raid0"  -> Multi(b)
    [] vol.level = "raid1"  -> b.op \in {"write", "discard"}
    [] vol.level = "raid10" -> b.op \in {"write", "discard"} \/ Multi(b)

\* The slots that may hold the sectors of b.
Touched(b) == UNION {vol.cols[i] : i \in b.cols}

\* Mutant: only the members that serve reads are flushed.
FlushLiveOnly(b) ==
  IF b.op = "flush" THEN {live}
  ELSE IF ~Fans(b)
  THEN LET c == Touched(b)
       IN IF c \cap live # {} THEN {{m} : m \in c \cap live} ELSE {{Min(c)}}
  ELSE IF vol.level = "raid0" THEN {Touched(b)}
  ELSE IF b.op = "read"
  THEN {S \in SUBSET (Touched(b) \cap live) :
          \A i \in b.cols : S \cap vol.cols[i] # {}}
  ELSE {Touched(b) \cap wmask}

\* The sets of members the commands of b may go to, as the masks are read: a
\* flush and a write to every member that takes writes, a read to a live copy
\* of each column, which turns about; the single-member path falls back to the
\* first copy when none is live.
Targets(b) ==
  IF b.op = "flush" THEN {wmask}
  ELSE IF ~Fans(b)
  THEN LET c == Touched(b)
       IN IF c \cap live # {} THEN {{m} : m \in c \cap live} ELSE {{Min(c)}}
  ELSE IF vol.level = "raid0" THEN {Touched(b)}
  ELSE IF b.op = "read"
  THEN {S \in SUBSET (Touched(b) \cap live) :
          \A i \in b.cols : S \cap vol.cols[i] # {}}
  ELSE {Touched(b) \cap wmask}

\* The fan-out finds a column without a copy to use; a discard passes over it.
Uncovered(b, S) ==
  \/ S = {}
  \/ Fans(b) /\ Data(b) /\ \E i \in b.cols : S \cap vol.cols[i] = {}

\* The order in which each path takes what it needs.
FlushPlan == <<"reserve", "start">>
SinglePlan(b) == IF Data(b) THEN <<"map", "build", "reserve", "start">>
                            ELSE <<"reserve", "start">>
MultiStripePlan == <<"map", "reserve", "build", "start">>
MultiStripeDiscardPlan == <<"reserve", "start">>
MirrorPlan(b) == IF Data(b) THEN <<"map", "reserve", "build", "gate", "start">>
                            ELSE <<"reserve", "gate", "start">>
Raid10Plan(b) == IF b.op = "write"
                 THEN <<"map", "reserve", "build", "gate", "start">>
                 ELSE <<"map", "reserve", "build", "start">>
Raid10DiscardPlan == <<"reserve", "gate", "start">>

\* Which path takes the request.
PlanFor(b) ==
  CASE b.op = "flush" -> FlushPlan
    [] b.op # "flush" /\ ~Fans(b) -> SinglePlan(b)
    [] Fans(b) /\ vol.level = "raid1" -> MirrorPlan(b)
    [] Fans(b) /\ vol.level = "raid0" ->
         IF Data(b) THEN MultiStripePlan ELSE MultiStripeDiscardPlan
    [] Fans(b) /\ vol.level = "raid10" ->
         IF Data(b) THEN Raid10Plan(b) ELSE Raid10DiscardPlan

\* The next step of the plan, over all members of the request.
GoesOn(q) == [q EXCEPT !.pc = Head(q.plan), !.plan = Tail(q.plan),
                       !.left = q.set]

-----------------------------------------------------------------------------
(* blk-mq, as far as it decides when a request that was handed back is tried *)
(* again (external).  A dispatch from the list of such requests sets the     *)
(* restart mark; a request of the queue that ends clears it and runs the     *)
(* queue.  BLK_STS_DEV_RESOURCE is a promise of the driver that something    *)
(* will: blk-mq starts no timer for it.                                      *)

\* A request is freed.
Freed(h) == IF h.restart THEN [h EXCEPT !.restart = FALSE, !.run = TRUE] ELSE h

\* A request is handed back: one that was issued directly is put on the list
\* and the queue run; one that came from the list goes back to its head, and
\* the queue is run again only when the mark has been cleared meanwhile.
HandedBack(h, r) ==
  IF rq[r].ran THEN [h EXCEPT !.list = <<r>> \o @, !.run = @ \/ ~h.restart]
               ELSE [h EXCEPT !.list = Append(@, r), !.run = TRUE]

\* The queue goes on with the rest of the list after a request was taken.
Took(h, r) == IF rq[r].ran /\ h.list # <<>> THEN [h EXCEPT !.run = TRUE] ELSE h

\* A file system asks for something: blk-mq calls queue_rq at once.
Issue(r, b) ==
  /\ rq[r].bio = None /\ leaving = None
  /\ rq' = [rq EXCEPT ![r].bio = b, ![r].pc = "check",
              ![r].owe = IF b.op # "flush" THEN {}
                         ELSE UNION {rq[q].acked \ rq[q].errs :
                                       q \in {q \in Requests \ {r} :
                                                /\ rq[q].res = "ok"
                                                /\ rq[q].bio.op = "write"}}]
  /\ UNCHANGED <<volVars, ringVars, gateVars, hctx, leaving, budget>>

\* The queue is run and takes the head of its list.
RunQueue ==
  /\ hctx.run
  /\ IF hctx.list = <<>>
     THEN hctx' = [hctx EXCEPT !.run = FALSE] /\ UNCHANGED rq
     ELSE LET r == Head(hctx.list) IN
          /\ hctx' = [list |-> Tail(hctx.list), run |-> FALSE, restart |-> TRUE]
          /\ rq' = [rq EXCEPT ![r].pc = "check", ![r].ran = TRUE]
  /\ UNCHANGED <<volVars, ringVars, gateVars, leaving, budget>>

-----------------------------------------------------------------------------
(* rc_volume_queue_rq.                                                       *)

\* Started and ended at once: what has been mapped is given back, the commands
\* were never sent.
Rejected(q) == [q EXCEPT !.pc = "sent", !.starts = @ + 1, !.res = "err",
                         !.set = {}, !.left = {}, !.maps = {}, !.plan = <<>>]

\* The pdu is reset and rc_volume_fatal asked: members whose dead flag is new
\* are failed, and without enough members the request is ended.
Check(r) ==
  /\ rq[r].pc = "check"
  /\ LET gone == dead \cap wmask IN
       /\ live' = live \ gone /\ wmask' = wmask \ gone
       /\ LET q == [rq[r] EXCEPT !.set = {}, !.left = {}, !.maps = {},
                                 !.acked = {}, !.errs = {}, !.wgen = FALSE]
          IN IF CanServe(live')
             THEN /\ rq' = [rq EXCEPT ![r] = [q EXCEPT !.pc = "route"]]
                  /\ UNCHANGED hctx
             ELSE /\ rq' = [rq EXCEPT ![r] = Rejected(q)]
                  /\ hctx' = Freed(Took(hctx, r))
  /\ UNCHANGED <<vol, present, dead, ringVars, gateVars, leaving, budget>>

\* Mutant: the member the fallback names is not looked at.
AbsentUnnoticed(b, S) == Uncovered(b, S)

\* No member can take the request, or the one that map_lba names has left.
Refused(b, S) == Uncovered(b, S) \/ (~Fans(b) /\ ~(S \subseteq present))

\* The path is chosen and the masks are read, once for the whole dispatch.
Route(r) ==
  /\ rq[r].pc = "route"
  /\ LET b == rq[r].bio
         choices == Targets(b)
     IN \E S \in IF choices = {} THEN {{}} ELSE choices :
          IF Refused(b, S)
          THEN /\ rq' = [rq EXCEPT ![r] = Rejected(@)]
               /\ hctx' = Freed(Took(hctx, r))
          ELSE /\ rq' = [rq EXCEPT ![r] =
                           GoesOn([@ EXCEPT !.set = S, !.plan = PlanFor(b)])]
               /\ UNCHANGED hctx
  /\ UNCHANGED <<volVars, ringVars, gateVars, leaving, budget>>

\* rc_volume_map_request_sg, or the loop of a fan-out: a member that cannot be
\* mapped unwinds those before it.
Map(r) ==
  /\ rq[r].pc = "map"
  /\ \/ /\ rq' = [rq EXCEPT ![r] = GoesOn([@ EXCEPT !.maps = rq[r].set])]
        /\ UNCHANGED <<hctx, budget>>
     \/ /\ budget.faults > 0
        /\ budget' = [budget EXCEPT !.faults = @ - 1]
        /\ rq' = [rq EXCEPT ![r] = Rejected(@)]
        /\ hctx' = Freed(Took(hctx, r))
  /\ UNCHANGED <<volVars, ringVars, gateVars, leaving>>

\* rc_volume_build_io_sqe: a list of pages that cannot be expressed.  The
\* fan-outs hold slots by then, the single-member path does not.
Build(r) ==
  /\ rq[r].pc = "build"
  /\ \/ /\ rq' = [rq EXCEPT ![r] = GoesOn(@)]
        /\ UNCHANGED <<hctx, budget>>
     \/ /\ budget.faults > 0
        /\ budget' = [budget EXCEPT !.faults = @ - 1]
        /\ IF Fans(rq[r].bio)
           THEN /\ rq' = [rq EXCEPT ![r].pc = "back", ![r].why = "build",
                                    ![r].left = {}]
                /\ UNCHANGED hctx
           ELSE /\ rq' = [rq EXCEPT ![r] = Rejected(@)]
                /\ hctx' = Freed(Took(hctx, r))
  /\ UNCHANGED <<volVars, ringVars, gateVars, leaving>>

\* r is started and not ended; m has a command of it and has not answered.
Begun(r) == rq[r].starts = 1 /\ rq[r].res = "none"
Owes(r, m) == Begun(r) /\ m \in rq[r].set \ rq[r].acked

\* Mutant: the ring may be filled to its last entry.
HasRoomForOneMore(m) == used[m] <= Ring

\* rc_nvme_sq_reserve(q, 1).
HasRoom(m) == used[m] < Ring

\* One slot on each member in turn; the first full ring stops it.  `why` also
\* remembers (history) whether a command that was sent occupies a slot of that
\* ring, or only commands that are still being dispatched, synchronous or lost.
Reserve(r) ==
  /\ rq[r].pc = "reserve"
  /\ LET m == Min(rq[r].left)
         q == [rq[r] EXCEPT !.left = @ \ {m}]
     IN IF HasRoom(m)
        THEN /\ used' = [used EXCEPT ![m] = @ + 1]
             /\ rq' = [rq EXCEPT ![r] = IF q.left = {} THEN GoesOn(q) ELSE q]
        ELSE /\ rq' = [rq EXCEPT ![r].pc = "back",
                        ![r].why = IF \E s \in Requests : Owes(s, m)
                                   THEN "full" ELSE "held"]
             /\ UNCHANGED used
  /\ UNCHANGED <<volVars, inner, lost, gateVars, hctx, leaving, budget>>

\* The slots reserved so far.
Reserved(q) == q.set \ q.left

\* Mutant: the loop ends before the first member.
GiveBackButFirst(r) ==
  /\ rq[r].pc = "back" /\ Reserved(rq[r]) # {}
  /\ LET m == Max(Reserved(rq[r])) IN
       /\ used' = IF m = Min(rq[r].set) THEN used ELSE [used EXCEPT ![m] = @ - 1]
       /\ rq' = [rq EXCEPT ![r].left = @ \cup {m}]
  /\ UNCHANGED <<volVars, inner, lost, gateVars, hctx, leaving, budget>>

\* rc_nvme_sq_unreserve, member by member ...
GiveBack(r) ==
  /\ rq[r].pc = "back" /\ Reserved(rq[r]) # {}
  /\ LET m == Max(Reserved(rq[r])) IN
       /\ used' = [used EXCEPT ![m] = IF @ >= 1 THEN @ - 1 ELSE 0]
       /\ rq' = [rq EXCEPT ![r].left = @ \cup {m}]
  /\ UNCHANGED <<volVars, inner, lost, gateVars, hctx, leaving, budget>>

\* Mutant: the mappings are left to the next reset of the pdu.
HandBackMapped(r) ==
  /\ rq[r].pc = "back" /\ Reserved(rq[r]) = {}
  /\ IF rq[r].why = "build"
     THEN /\ rq' = [rq EXCEPT ![r] = Rejected(@)]
          /\ hctx' = Freed(Took(hctx, r))
     ELSE /\ rq' = [rq EXCEPT ![r].pc = "parked", ![r].plan = <<>>]
          /\ hctx' = HandedBack(hctx, r)
  /\ UNCHANGED <<volVars, ringVars, gateVars, leaving, budget>>

\* ... then the mappings, and the request is blk-mq's again, or ended.
HandBack(r) ==
  /\ rq[r].pc = "back" /\ Reserved(rq[r]) = {}
  /\ IF rq[r].why = "build"
     THEN /\ rq' = [rq EXCEPT ![r] = Rejected(@)]
          /\ hctx' = Freed(Took(hctx, r))
     ELSE /\ rq' = [rq EXCEPT ![r].pc = "parked", ![r].maps = {},
                              ![r].plan = <<>>, ![r].set = {}, ![r].left = {}]
          /\ hctx' = HandedBack(hctx, r)
  /\ UNCHANGED <<volVars, ringVars, gateVars, leaving, budget>>

\* rc_volume_resync_gate, as one step: the request is counted, or turned away
\* with its count taken back.
Gate(r) ==
  /\ rq[r].pc = "gate"
  /\ IF window = rq[r].bio.at
     THEN /\ rq' = [rq EXCEPT ![r].pc = "back", ![r].why = "window",
                              ![r].left = {}]
          /\ UNCHANGED counted
     ELSE /\ rq' = [rq EXCEPT ![r] = GoesOn([@ EXCEPT !.wgen = TRUE])]
          /\ counted' = counted + 1
  /\ UNCHANGED <<volVars, ringVars, window, drained, hctx, leaving, budget>>

\* blk_mq_start_request; the queue may go on with its list.
Start(r) ==
  /\ rq[r].pc = "start"
  /\ rq' = [rq EXCEPT ![r].pc = "submit", ![r].starts = @ + 1,
                      ![r].left = rq[r].set]
  /\ UNCHANGED <<volVars, ringVars, gateVars, hctx, leaving, budget>>

\* rc_nvme_io_submit to each member in turn, then BLK_STS_OK.
Submit(r) ==
  /\ rq[r].pc = "submit"
  /\ LET unsent == rq[r].left \ {Min(rq[r].left)} IN
       /\ rq' = [rq EXCEPT ![r].left = unsent,
                           ![r].pc = IF unsent = {} THEN "sent" ELSE @]
       /\ hctx' = IF unsent = {} THEN Took(hctx, r) ELSE hctx
  /\ UNCHANGED <<volVars, ringVars, gateVars, leaving, budget>>

-----------------------------------------------------------------------------
(* Completion (in detail in RequestCompletion).                              *)

\* rc_volume_finish_status: which members are failed, and the status.
Lost(q) ==
  CASE vol.level = "raid0" -> q.errs # {}
    [] q.bio.op = "read"   -> q.errs # {}
    [] OTHER -> \E i \in DOMAIN vol.cols :
                  /\ q.set \cap vol.cols[i] # {}
                  /\ q.set \cap vol.cols[i] \subseteq q.errs

\* Mutant: the last answer unmaps the request and does not end it.
AnsweredUnheard(r, m, ok) ==
  LET q == [rq[r] EXCEPT !.acked = @ \cup {m}]
      last == q.acked = q.set
  IN /\ rq' = [rq EXCEPT ![r] = IF last THEN [q EXCEPT !.res = "ok", !.maps = {},
                                                     !.wgen = FALSE] ELSE q]
     /\ counted' = IF last /\ q.wgen THEN counted - 1 ELSE counted
     /\ UNCHANGED <<live, wmask, hctx>>

\* rc_volume_unmap_request_sg and blk_mq_end_request once every member has
\* answered.
Answered(r, m, ok) ==
  LET q == [rq[r] EXCEPT !.acked = @ \cup {m},
                         !.errs = IF ok THEN @ ELSE @ \cup {m}]
      gone == IF vol.level = "raid0" THEN {} ELSE q.errs
  IN IF q.acked # q.set
     THEN /\ rq' = [rq EXCEPT ![r] = q]
          /\ UNCHANGED <<live, wmask, counted, hctx>>
     ELSE /\ rq' = [rq EXCEPT ![r] =
                      [q EXCEPT !.res = IF Lost(q) THEN "err" ELSE "ok",
                                !.maps = {}, !.wgen = FALSE]]
          /\ live' = live \ gone /\ wmask' = wmask \ gone
          /\ counted' = IF q.wgen THEN counted - 1 ELSE counted
          /\ hctx' = Freed(hctx)

\* A controller answers a command it has been sent; its slot is free again.
Answer(r, m) ==
  /\ Owes(r, m) /\ m \notin rq[r].left /\ m \notin dead
  /\ used' = [used EXCEPT ![m] = @ - 1]
  /\ Answered(r, m, TRUE)
  /\ UNCHANGED <<vol, present, dead, inner, lost, window, drained, leaving,
                 budget>>

\* The drain answers for a dead one, at once; the slot waits for a reset.
Drain(r, m) ==
  /\ Owes(r, m) /\ m \in dead
  /\ lost' = [lost EXCEPT ![m] = @ + 1]
  /\ Answered(r, m, FALSE)
  /\ UNCHANGED <<vol, present, dead, used, inner, window, drained, leaving,
                 budget>>

-----------------------------------------------------------------------------
(* Members and the resync.                                                   *)

Die(m) ==
  /\ m \in present \ dead /\ budget.faults > 0
  /\ dead' = dead \cup {m}
  /\ budget' = [budget EXCEPT !.faults = @ - 1]
  /\ UNCHANGED <<vol, present, live, wmask, ringVars, rq, gateVars, hctx,
                 leaving>>

\* A synchronous command takes a slot of one ring for as long as it likes: one
\* that timed out keeps it until its late answer (external).
SyncBegins(m) ==
  /\ m \in present \ dead /\ HasRoom(m) /\ budget.sync > 0
  /\ budget' = [budget EXCEPT !.sync = @ - 1]
  /\ used' = [used EXCEPT ![m] = @ + 1] /\ inner' = [inner EXCEPT ![m] = @ + 1]
  /\ UNCHANGED <<volVars, lost, rq, gateVars, hctx, leaving>>

SyncEnds(m) ==
  /\ inner[m] > 0
  /\ used' = [used EXCEPT ![m] = @ - 1] /\ inner' = [inner EXCEPT ![m] = @ - 1]
  /\ UNCHANGED <<volVars, lost, rq, gateVars, hctx, leaving, budget>>

\* The resync thread publishes a window and waits for the writes counted by
\* then ...
OpenWindow(c) ==
  /\ window = None /\ leaving = None /\ budget.windows > 0
  /\ wmask # live
  /\ window' = c
  /\ drained' = {r \in Requests : rq[r].wgen}
  /\ budget' = [budget EXCEPT !.windows = @ - 1]
  /\ UNCHANGED <<volVars, ringVars, rq, counted, hctx, leaving>>

\* ... copies the chunk and moves on.
MoveWindow ==
  /\ window # None /\ \A r \in drained : ~rq[r].wgen
  /\ window' = None /\ drained' = {}
  /\ UNCHANGED <<volVars, ringVars, rq, counted, hctx, leaving, budget>>

\* rc_volume_remove_member, the volume going on without m: the resync has been
\* stopped, the member is failed and flagged dead, the queue is being frozen,
\* which runs it ...
RemoveBegins(m) ==
  /\ leaving = None /\ window = None /\ budget.faults > 0
  /\ m \in present /\ vol.level # "raid0" /\ CanServe(live \ {m})
  /\ leaving' = m
  /\ live' = live \ {m} /\ wmask' = wmask \ {m} /\ dead' = dead \cup {m}
  /\ hctx' = [hctx EXCEPT !.run = TRUE]
  /\ budget' = [budget EXCEPT !.faults = @ - 1]
  /\ UNCHANGED <<vol, present, ringVars, rq, gateVars>>

\* ... and when every request has ended and every queue_rq that was running has
\* returned (the freeze passes a grace period), the slot is cleared.
RemoveEnds ==
  /\ leaving # None
  /\ \A r \in Requests : rq[r].bio # None => rq[r].res # "none" /\ rq[r].pc = "sent"
  /\ present' = present \ {leaving} /\ leaving' = None
  /\ UNCHANGED <<vol, live, wmask, dead, ringVars, rq, gateVars, hctx, budget>>

-----------------------------------------------------------------------------

Next ==
  \/ \E r \in Requests : \/ \E b \in Bios : Issue(r, b)
                         \/ Check(r) \/ Route(r) \/ Map(r) \/ Build(r)
                         \/ Reserve(r) \/ GiveBack(r) \/ HandBack(r)
                         \/ Gate(r) \/ Start(r) \/ Submit(r)
                         \/ \E m \in Members : Answer(r, m) \/ Drain(r, m)
  \/ \E m \in Members : \/ Die(m) \/ SyncBegins(m) \/ SyncEnds(m)
                        \/ RemoveBegins(m)
  \/ RunQueue
  \/ \E c \in Chunks : OpenWindow(c)
  \/ MoveWindow \/ RemoveEnds

Spec == Init /\ [][Next]_vars

-----------------------------------------------------------------------------
(* Properties.                                                               *)

\* The slots that a request occupies, as its place in the dispatch says.
Holds(q) ==
  CASE q.pc \in {"reserve", "back"} -> Reserved(q)
    [] q.pc \in {"build", "gate", "start"} ->
         IF "reserve" \in Range(q.plan) THEN {} ELSE q.set
    [] q.pc \in {"submit", "sent"} -> q.set \ q.acked
    [] OTHER -> {}

\* Every slot that is counted in sq_inflight is some command's: after any
\* sequence of full rings, turned-away writes and failed builds on several CPUs
\* nothing is counted twice and nothing leaks (rc_nvme_sq_reserve and the
\* unreserve loops of every path).
SlotsExact ==
  \A m \in Slots :
    used[m] = Cardinality({r \in Requests : m \in Holds(rq[r])})
              + inner[m] + lost[m]

\* A request that blk-mq has back - to try again, or ended - keeps nothing of
\* what its dispatch took, was not started when it is to be tried again, and was
\* started exactly once when it has ended; the generation counts are those of
\* the requests on their way (the error paths of the dispatch functions and
\* rc_volume_unmap_request_sg).
NothingKept ==
  /\ \A r \in Requests :
       /\ rq[r].pc = "parked" => rq[r].starts = 0
       /\ rq[r].res # "none" => rq[r].starts = 1
       /\ rq[r].pc = "parked" \/ rq[r].res # "none" =>
            rq[r].maps = {} /\ ~rq[r].wgen
  /\ counted = Cardinality({r \in Requests : rq[r].wgen})

\* No dispatch touches a slot whose member has left: the masks, the test of the
\* mapped member and the freeze keep rc_volume_members[m]->ctx defined wherever
\* queue_rq goes through it.
MembersThere ==
  \A r \in Requests :
    rq[r].pc \in Stages \cup {"submit", "back"} => rq[r].set \subseteq present

\* A write that ended well is on every member that takes writes and holds its
\* sectors, and a flush that ended well has flushed each of them that carried
\* out a write which had ended well before (the two data-integrity invariants
\* stated at rc_volume_dispatch_mirror and in queue_rq).
Durable ==
  \A r \in Requests :
    LET done == rq[r].acked \ rq[r].errs IN
    rq[r].res = "ok" =>
      /\ rq[r].bio.op = "write" => Touched(rq[r].bio) \cap wmask \subseteq done
      /\ rq[r].bio.op = "flush" => rq[r].owe \cap wmask \subseteq done

\* A request whose end will run the queue, if the mark is set, or that takes the
\* promise over: on its way through queue_rq, or started and not ended.
OnItsWay(r) ==
  /\ rq[r].res = "none" /\ rq[r].pc \notin {"idle", "parked"}
  /\ rq[r].pc = "back" => rq[r].why # "full"

\* BLK_STS_DEV_RESOURCE promises that something will run the queue again: as long
\* as all that blk-mq holds are requests that found a ring full of which a started
\* request had a slot, the queue is about to be run, or the restart mark is set and a
\* request is on its way whose end will run it.  (The code does not keep
\* this promise to a write that the resync window turned away, nor when the slots
\* were held by dispatches that gave them back themselves.)
NoneForgotten ==
  hctx.list # <<>> /\ (\A i \in DOMAIN hctx.list : rq[hctx.list[i]].why = "full") =>
    hctx.run \/ (hctx.restart /\ \E r \in Requests : OnItsWay(r))
=============================================================================
