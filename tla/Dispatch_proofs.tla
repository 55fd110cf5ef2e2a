--------------------------- MODULE Dispatch_proofs ---------------------------
(***************************************************************************)
(* Proofs about Dispatch, for every volume, every number of requests, any   *)
(* size of the submission rings and any number of faults, synchronous       *)
(* commands and resync windows: every slot counted in a ring belongs to one  *)
(* command; nothing that a failed dispatch took is kept; no dispatch goes    *)
(* through a member that has left; what ended well is durable; and a request *)
(* that a full ring turned away is tried again.                             *)
(*                                                                          *)
(* A step moves one request at most.  Each action therefore has two lemmas:  *)
(* <Action>Does says where the request goes, which slots it then holds and   *)
(* what becomes of blk-mq's list, and <Action>Keeps that the invariant holds *)
(* afterwards, from one lemma for each part of it.                          *)
(***************************************************************************)
EXTENDS Dispatch, FiniteSetTheorems, WellFoundedInduction, TLAPS

-----------------------------------------------------------------------------
(* The invariant.                                                           *)

\* What a request of any volume may ask for.
Asked == UNION {[op : Ops, cols : SUBSET DOMAIN v.cols, at : Chunks] : v \in Volumes}

\* What may still be ahead of a request in one of the stages.
Plans == {<<>>, <<"start">>, <<"gate", "start">>,
          <<"build", "start">>, <<"build", "gate", "start">>,
          <<"reserve", "start">>, <<"build", "reserve", "start">>,
          <<"reserve", "build", "start">>, <<"reserve", "build", "gate", "start">>}

Request == [pc : Places, bio : Asked \cup {None}, plan : Plans, set : SUBSET Slots,
            left : SUBSET Slots, maps : SUBSET Slots, acked : SUBSET Slots,
            errs : SUBSET Slots, wgen : BOOLEAN,
            why : {"none", "full", "held", "window", "build"}, starts : Nat,
            res : {"none", "ok", "err"}, ran : BOOLEAN, owe : SUBSET Slots]

Typed ==
  /\ vol \in Volumes
  /\ present \in SUBSET Slots /\ wmask \in SUBSET present /\ live \in SUBSET wmask
  /\ used \in [Slots -> Int] /\ inner \in [Slots -> Nat] /\ lost \in [Slots -> Nat]
  /\ rq \in [Requests -> Request]
  /\ counted \in Int
  /\ hctx \in [list : Seq(Requests), run : BOOLEAN, restart : BOOLEAN]

\* Each place in a path has the rest of that path ahead: what comes before the
\* slots are reserved and what after.
OnPlan(q) ==
  /\ q.pc = "map" =>
       IF Fans(q.bio)
       THEN q.plan \in {<<"reserve", "build", "start">>, <<"reserve", "build", "gate", "start">>}
       ELSE q.plan = <<"build", "reserve", "start">>
  /\ q.pc = "build" =>
       IF Fans(q.bio) THEN q.plan \in {<<"start">>, <<"gate", "start">>}
                      ELSE q.plan = <<"reserve", "start">>
  /\ q.pc = "reserve" =>
       \/ q.plan \in {<<"start">>, <<"gate", "start">>}
       \/ Fans(q.bio) /\ q.plan \in {<<"build", "start">>, <<"build", "gate", "start">>}
  /\ q.pc = "gate" => q.plan = <<"start">>
  /\ q.pc = "start" => q.plan = <<>>

\* What a request has at each place.
Early == {"idle", "check", "route", "parked"}
Begins == {"submit", "sent"}
InPlace(q) ==
  /\ q.pc = "idle" <=> q.bio = None
  /\ q.bio # None => q.bio \in Bios
  /\ q.pc \in Early => q.set = {} /\ q.left = {} /\ q.maps = {}
  /\ q.pc \notin Begins => q.starts = 0 /\ q.res = "none" /\ q.acked = {} /\ q.errs = {}
  /\ q.pc \in Begins => q.starts = 1
  /\ q.pc \in Stages \cup {"submit", "back"} => q.set # {}
  /\ q.pc \in {"reserve", "submit"} => q.left # {}
  /\ q.left \subseteq q.set /\ q.acked \subseteq q.set /\ q.errs \subseteq q.acked
  /\ q.wgen => q.pc \in Begins \cup {"start"} /\ q.res = "none"
  /\ q.res # "none" => q.maps = {}
  /\ q.res = "ok" => q.acked = q.set

\* The commands of a request go to members that are there, and to every one that
\* has to have what it writes, or to carry out what it flushes.
Covers(q) ==
  /\ q.pc \in Stages \cup {"submit", "back"} => q.set \subseteq present
  /\ q.pc \in Stages \cup Begins /\ q.res # "err" =>
       /\ q.bio.op = "write" => Touched(q.bio) \cap wmask \subseteq q.set
       /\ q.bio.op = "flush" => wmask \subseteq q.set

\* RAID0 loses no member; one that is leaving has been failed.
Staying ==
  /\ vol.level = "raid0" => present = Members /\ leaving = None
  /\ leaving # None => leaving \notin wmask

\* blk-mq holds each parked request once, and has a reason to run the queue.
Held ==
  /\ \A i \in DOMAIN hctx.list : rq[hctx.list[i]].pc = "parked"
  /\ \A i, j \in DOMAIN hctx.list : hctx.list[i] = hctx.list[j] => i = j
  /\ hctx.list # <<>> => hctx.run \/ hctx.restart

AllFull == \A i \in DOMAIN hctx.list : rq[hctx.list[i]].why = "full"

\* The mark is set as long as somebody's end will clear it.
Promised == hctx.restart /\ AllFull => \E r \in Requests : OnItsWay(r)

\* What every step may count on of the requests.
Sound ==
  /\ Typed /\ Staying
  /\ \A r \in Requests : OnPlan(rq[r]) /\ InPlace(rq[r]) /\ Covers(rq[r])

\* The requests that the gate counts, and their number.
Counted == {s \in Requests : rq[s].wgen}
CountExact == counted = Cardinality(Counted)

DispatchInv ==
  Sound /\ Held /\ Promised /\ SlotsExact /\ CountExact /\ Durable

-----------------------------------------------------------------------------
(* Slots, volumes and plans.                                                *)

\* The least and the greatest of some slots are among them.
LEMMA SlotNumbersOrdered ==
  ASSUME NEW S \in SUBSET SlotNumbers, S # {}
  PROVE  Min(S) \in S /\ Max(S) \in S
<1>1. Min(S) \in S
  <2>1. S \in SUBSET Nat
    BY DEF SlotNumbers
  <2>2. PICK x \in S : \A y \in S : ~(<<y, x>> \in OpToRel(<, Nat))
    BY <2>1, NatLessThanWellFounded, WFMin
  <2>3. x \in Nat /\ \A y \in S : y \in Nat /\ ~(y < x)
    BY <2>1, <2>2 DEF OpToRel
  <2>4. \A y \in S : x <= y
    BY <2>3
  <2> QED
    BY <2>4 DEF Min
<1>2. Max(S) \in S
  <2> DEFINE T == {7 - n : n \in S}
  <2>0. \A n \in S : n \in Nat /\ 7 - n \in Nat
    BY DEF SlotNumbers
  <2>1. T \in SUBSET Nat /\ T # {}
    BY <2>0
  <2>2. PICK x \in T : \A y \in T : ~(<<y, x>> \in OpToRel(<, Nat))
    BY <2>1, NatLessThanWellFounded, WFMin
  <2>3. x \in Nat /\ \A y \in T : y \in Nat /\ ~(y < x)
    BY <2>1, <2>2 DEF OpToRel
  <2>4. PICK n \in S : x = 7 - n
    BY <2>2
  <2>5. \A y \in S : 7 - y \in T
    OBVIOUS
  <2> HIDE DEF T
  <2>6. \A y \in S : y <= n
    BY <2>3, <2>4, <2>5 DEF SlotNumbers
  <2> QED
    BY <2>6 DEF Max
<1> QED
  BY <1>1, <1>2

\* The members of a volume are slots, and a column has some.
LEMMA Columns ==
  ASSUME vol \in Volumes
  PROVE  /\ \A i \in DOMAIN vol.cols : /\ vol.cols[i] # {} /\ vol.cols[i] \subseteq SlotNumbers
                                       /\ vol.cols[i] \subseteq Members
                                       /\ vol.level = "raid0" => \E m : vol.cols[i] = {m}
         /\ DOMAIN vol.cols = 1 .. Len(vol.cols) /\ Len(vol.cols) \in Nat
         /\ Members \subseteq Slots /\ Slots \subseteq SlotNumbers
         /\ vol.level \in {"raid0", "raid1", "raid10"}
<1>1. \A v \in Volumes : /\ v.cols \in Seq((SUBSET SlotNumbers) \ {{}})
                         /\ v.level \in {"raid0", "raid1", "raid10"}
                         /\ v.level = "raid0" => \A i \in DOMAIN v.cols : \E m : v.cols[i] = {m}
  BY DispatchConstants
<1>2. \A v \in Volumes : \A i \in DOMAIN v.cols : v.cols[i] \in (SUBSET SlotNumbers) \ {{}}
  BY <1>1
<1>3. \A i \in DOMAIN vol.cols : vol.cols[i] \subseteq Members
  BY DEF Members, Range
<1>4. Members \subseteq Slots
  BY DEF Members, Slots
<1>5. Slots \subseteq SlotNumbers
  <2>1. \A v \in Volumes : \A S \in Range(v.cols) : S \subseteq SlotNumbers
    BY <1>2 DEF Range
  <2> QED
    BY <2>1 DEF Slots
<1>6. DOMAIN vol.cols = 1 .. Len(vol.cols) /\ Len(vol.cols) \in Nat
  BY <1>1
<1>7. ASSUME NEW i \in DOMAIN vol.cols
      PROVE  vol.cols[i] # {} /\ vol.cols[i] \subseteq SlotNumbers
  BY <1>2
<1>8. vol.level = "raid0" => \A i \in DOMAIN vol.cols : \E m : vol.cols[i] = {m}
  BY <1>1
<1>9. vol.level \in {"raid0", "raid1", "raid10"}
  BY <1>1
<1> QED
  BY <1>3, <1>4, <1>5, <1>6, <1>7, <1>8, <1>9

\* Sets of slots are finite, and so are the sets of requests.
LEMMA FewSlots ==
  ASSUME NEW S \in SUBSET SlotNumbers
  PROVE  IsFiniteSet(S)
<1>1. 0 \in Int /\ 7 \in Int
  OBVIOUS
<1>2. IsFiniteSet(0 .. 7)
  BY <1>1, FS_Interval
<1> QED
  BY <1>2, FS_Subset DEF SlotNumbers

\* Some of the requests are finitely many.
LEMMA FewRequests ==
  ASSUME NEW S \in SUBSET Requests
  PROVE  IsFiniteSet(S) /\ Cardinality(S) \in Nat
BY DispatchConstants, FS_Subset, FS_CardinalityType

\* The volume stays, and with it which requests fan out.
LEMMA FansStay ==
  ASSUME UNCHANGED vol, NEW b
  PROVE  Fans(b)' <=> Fans(b)
BY DEF Fans, Multi

\* So do the members that a request touches ...
LEMMA TouchedStay ==
  ASSUME UNCHANGED vol, NEW b
  PROVE  Touched(b)' = Touched(b)
BY DEF Touched

\* ... what may be asked for ...
LEMMA BiosStay ==
  ASSUME UNCHANGED vol
  PROVE  Bios' = Bios
BY DEF Bios

\* ... the way a path goes ...
LEMMA OnPlanStays ==
  ASSUME UNCHANGED vol, NEW q
  PROVE  OnPlan(q)' <=> OnPlan(q)
BY FansStay DEF OnPlan

\* ... and what belongs to each place in it.
LEMMA InPlaceStays ==
  ASSUME UNCHANGED vol, NEW q
  PROVE  InPlace(q)' <=> InPlace(q)
BY BiosStay DEF InPlace

\* Members leave the masks and none comes.
LEMMA CoversStays ==
  ASSUME UNCHANGED <<vol, present>>, wmask' \subseteq wmask, NEW q, Covers(q)
  PROVE  Covers(q)'
<1>1. Touched(q.bio)' = Touched(q.bio)
  BY TouchedStay
<1> QED
  BY <1>1 DEF Covers

\* What is touched are members.
LEMMA TouchedMembers ==
  ASSUME vol \in Volumes, NEW b \in Bios
  PROVE  Touched(b) \subseteq Members /\ (b.cols # {} => Touched(b) # {})
<1>1. b.cols \in SUBSET DOMAIN vol.cols
  BY DEF Bios
<1> QED
  BY <1>1, Columns DEF Touched

\* The next place, and what is then ahead.
LEMMA Ahead ==
  /\ Head(<<"start">>) = "start" /\ Tail(<<"start">>) = <<>>
  /\ Head(<<"gate", "start">>) = "gate" /\ Tail(<<"gate", "start">>) = <<"start">>
  /\ Head(<<"build", "start">>) = "build" /\ Tail(<<"build", "start">>) = <<"start">>
  /\ /\ Head(<<"build", "gate", "start">>) = "build"
     /\ Tail(<<"build", "gate", "start">>) = <<"gate", "start">>
  /\ Head(<<"reserve", "start">>) = "reserve" /\ Tail(<<"reserve", "start">>) = <<"start">>
  /\ /\ Head(<<"build", "reserve", "start">>) = "build"
     /\ Tail(<<"build", "reserve", "start">>) = <<"reserve", "start">>
  /\ /\ Head(<<"reserve", "gate", "start">>) = "reserve"
     /\ Tail(<<"reserve", "gate", "start">>) = <<"gate", "start">>
  /\ /\ Head(<<"reserve", "build", "start">>) = "reserve"
     /\ Tail(<<"reserve", "build", "start">>) = <<"build", "start">>
  /\ /\ Head(<<"reserve", "build", "gate", "start">>) = "reserve"
     /\ Tail(<<"reserve", "build", "gate", "start">>) = <<"build", "gate", "start">>
  /\ /\ Head(<<"map", "build", "reserve", "start">>) = "map"
     /\ Tail(<<"map", "build", "reserve", "start">>) = <<"build", "reserve", "start">>
  /\ /\ Head(<<"map", "reserve", "build", "start">>) = "map"
     /\ Tail(<<"map", "reserve", "build", "start">>) = <<"reserve", "build", "start">>
  /\ /\ Head(<<"map", "reserve", "build", "gate", "start">>) = "map"
     /\ Tail(<<"map", "reserve", "build", "gate", "start">>)
        = <<"reserve", "build", "gate", "start">>
<1>1. /\ Head(<<"start">>) = "start" /\ Tail(<<"start">>) = <<>>
      /\ Head(<<"gate", "start">>) = "gate" /\ Tail(<<"gate", "start">>) = <<"start">>
      /\ Head(<<"build", "start">>) = "build" /\ Tail(<<"build", "start">>) = <<"start">>
      /\ Head(<<"reserve", "start">>) = "reserve" /\ Tail(<<"reserve", "start">>) = <<"start">>
  OBVIOUS
<1>2. /\ /\ Head(<<"build", "gate", "start">>) = "build"
         /\ Tail(<<"build", "gate", "start">>) = <<"gate", "start">>
      /\ /\ Head(<<"build", "reserve", "start">>) = "build"
         /\ Tail(<<"build", "reserve", "start">>) = <<"reserve", "start">>
      /\ /\ Head(<<"reserve", "gate", "start">>) = "reserve"
         /\ Tail(<<"reserve", "gate", "start">>) = <<"gate", "start">>
  OBVIOUS
<1>3. /\ /\ Head(<<"reserve", "build", "start">>) = "reserve"
         /\ Tail(<<"reserve", "build", "start">>) = <<"build", "start">>
      /\ /\ Head(<<"reserve", "build", "gate", "start">>) = "reserve"
         /\ Tail(<<"reserve", "build", "gate", "start">>) = <<"build", "gate", "start">>
  OBVIOUS
<1>4. /\ /\ Head(<<"map", "build", "reserve", "start">>) = "map"
         /\ Tail(<<"map", "build", "reserve", "start">>) = <<"build", "reserve", "start">>
      /\ /\ Head(<<"map", "reserve", "build", "start">>) = "map"
         /\ Tail(<<"map", "reserve", "build", "start">>) = <<"reserve", "build", "start">>
  OBVIOUS
<1>5. /\ Head(<<"map", "reserve", "build", "gate", "start">>) = "map"
      /\ Tail(<<"map", "reserve", "build", "gate", "start">>)
         = <<"reserve", "build", "gate", "start">>
  OBVIOUS
<1> QED
  BY <1>1, <1>2, <1>3, <1>4, <1>5

\* Which plans still have the slots to take.
LEMMA ToReserve ==
  /\ \A p \in {<<>>, <<"start">>, <<"gate", "start">>, <<"build", "start">>,
               <<"build", "gate", "start">>} : "reserve" \notin Range(p)
  /\ "reserve" \in Range(<<"reserve", "start">>)
<1>1. "reserve" \notin Range(<<>>) /\ "reserve" \notin Range(<<"start">>)
  BY DEF Range
<1>2. "reserve" \notin Range(<<"gate", "start">>) /\ "reserve" \notin Range(<<"build", "start">>)
  BY DEF Range
<1>3. "reserve" \notin Range(<<"build", "gate", "start">>)
  BY DEF Range
<1>4. "reserve" \in Range(<<"reserve", "start">>)
  BY DEF Range
<1> QED
  BY <1>1, <1>2, <1>3, <1>4

\* The fields of a request that goes on.
LEMMA GoesOnFields ==
  ASSUME NEW q \in Request
  PROVE  LET g == GoesOn(q) IN
         /\ g.pc = Head(q.plan) /\ g.plan = Tail(q.plan) /\ g.left = q.set
         /\ g.bio = q.bio /\ g.set = q.set /\ g.maps = q.maps /\ g.acked = q.acked
         /\ g.errs = q.errs /\ g.wgen = q.wgen /\ g.why = q.why /\ g.starts = q.starts
         /\ g.res = q.res /\ g.ran = q.ran /\ g.owe = q.owe
         /\ (Head(q.plan) \in Places /\ Tail(q.plan) \in Plans => g \in Request)
BY DEF GoesOn, Request

\* The fields of a request that is started and ended at once.
LEMMA RejectedFields ==
  ASSUME NEW q \in Request
  PROVE  LET g == Rejected(q) IN
         /\ g \in Request
         /\ g.pc = "sent" /\ g.plan = <<>> /\ g.left = {} /\ g.set = {} /\ g.maps = {}
         /\ g.starts = q.starts + 1 /\ g.res = "err"
         /\ g.bio = q.bio /\ g.acked = q.acked
         /\ g.errs = q.errs /\ g.wgen = q.wgen /\ g.why = q.why
         /\ g.ran = q.ran /\ g.owe = q.owe
<1>1. /\ q.starts + 1 \in Nat /\ "sent" \in Places /\ <<>> \in Plans
      /\ "err" \in {"none", "ok", "err"} /\ {} \in SUBSET Slots
  BY DEF Request, Plans, Places
<1> QED
  BY <1>1 DEF Rejected, Request

-----------------------------------------------------------------------------
(* Each operation on one request.                                           *)

\* Only request r moves, to a place with what belongs there.
Moves(r) ==
  /\ rq' \in [Requests -> Request]
  /\ \A s \in Requests : s # r => rq'[s] = rq[s]
  /\ OnPlan(rq'[r]) /\ InPlace(rq'[r]) /\ Covers(rq'[r])

\* A new record that is in place is such a move.
LEMMA MovesTo ==
  ASSUME Sound, NEW r \in Requests, NEW p \in Request, rq' = [rq EXCEPT ![r] = p],
         OnPlan(p), InPlace(p), Covers(p)
  PROVE  Moves(r) /\ rq'[r] = p
<1>1. rq \in [Requests -> Request]
  BY DEF Sound, Typed
<1>2. rq'[r] = p /\ rq' \in [Requests -> Request]
  BY <1>1
<1>3. \A s \in Requests : s # r => rq'[s] = rq[s]
  BY <1>1
<1> QED
  BY <1>2, <1>3 DEF Moves

\* A request is in place before the step.
LEMMA Known ==
  ASSUME Sound, NEW r \in Requests
  PROVE  rq[r] \in Request /\ OnPlan(rq[r]) /\ InPlace(rq[r]) /\ Covers(rq[r])
BY DEF Sound, Typed

\* An early request has neither slots nor members.
LEMMA EarlyIsOk ==
  ASSUME NEW p \in Request, p.pc \in {"check", "route", "parked"}, p.bio \in Bios, p.bio # None,
         p.set = {}, p.left = {}, p.maps = {}, p.acked = {}, p.errs = {}, ~p.wgen,
         p.starts = 0, p.res = "none"
  PROVE  OnPlan(p) /\ InPlace(p) /\ Covers(p)
<1>1. OnPlan(p)
  BY DEF OnPlan
<1>2. InPlace(p)
  BY DEF InPlace, Early, Begins, Stages
<1>3. Covers(p)
  BY DEF Covers, Begins, Stages
<1> QED
  BY <1>1, <1>2, <1>3

\* So has one that was rejected.
LEMMA RejectedIsOk ==
  ASSUME NEW p \in Request, p.pc = "sent", p.bio \in Bios, p.bio # None,
         p.set = {}, p.left = {}, p.maps = {}, p.acked = {}, p.errs = {}, ~p.wgen,
         p.starts = 1, p.res = "err"
  PROVE  OnPlan(p) /\ InPlace(p) /\ Covers(p)
<1>1. OnPlan(p)
  BY DEF OnPlan
<1>2. InPlace(p)
  BY DEF InPlace, Early, Begins, Stages
<1>3. Covers(p)
  BY DEF Covers, Begins, Stages
<1> QED
  BY <1>1, <1>2, <1>3

\* A request is started and ended at once (the reject labels of rc_volume_queue_rq
\* and of every dispatch function).
LEMMA RejectedEnds ==
  ASSUME Sound, NEW r \in Requests, rq[r].pc \notin Begins, rq[r].bio # None, ~rq[r].wgen,
         NEW g \in Request, g.starts = rq[r].starts, g.bio = rq[r].bio, g.acked = {},
         g.errs = {}, ~g.wgen, rq' = [rq EXCEPT ![r] = Rejected(g)]
  PROVE  /\ Moves(r) /\ rq'[r].pc = "sent" /\ rq'[r].set = {} /\ ~rq'[r].wgen
         /\ rq'[r].res = "err" /\ rq'[r].bio = rq[r].bio
<1> DEFINE p == Rejected(g)
<1>1. InPlace(rq[r])
  BY Known
<1>2. g.starts = 0 /\ g.bio \in Bios /\ g.bio # None
  BY <1>1 DEF InPlace
<1>3. /\ p \in Request /\ p.pc = "sent" /\ p.left = {} /\ p.set = {} /\ p.maps = {}
      /\ p.starts = 1 /\ p.res = "err" /\ p.bio = g.bio /\ p.acked = {} /\ p.errs = {}
      /\ ~p.wgen
  BY <1>2, RejectedFields
<1> HIDE DEF p
<1>4. OnPlan(p) /\ InPlace(p) /\ Covers(p)
  BY <1>2, <1>3, RejectedIsOk
<1>5. rq' = [rq EXCEPT ![r] = p]
  BY DEF p
<1> QED
  BY <1>3, <1>4, <1>5, MovesTo

\* A bio is of the volume, and is one.
LEMMA BiosAsked ==
  ASSUME Typed, NEW b \in Bios
  PROVE  b \in Asked /\ b # None
<1>1. b \in [op : Ops, cols : SUBSET DOMAIN vol.cols, at : Chunks]
  BY DEF Bios
<1>2. vol \in Volumes
  BY DEF Typed
<1>3. None \notin [op : Ops, cols : SUBSET DOMAIN vol.cols, at : Chunks]
  BY <1>2, DispatchConstants
<1> QED
  BY <1>1, <1>2, <1>3 DEF Asked

\* A request is asked for.
LEMMA IssueDoes ==
  ASSUME Sound, NEW r \in Requests, NEW b \in Bios, Issue(r, b)
  PROVE  /\ Moves(r) /\ rq[r].pc = "idle" /\ rq'[r].pc = "check" /\ rq'[r].set = {}
         /\ ~rq'[r].wgen /\ rq'[r].res = "none"
<1> DEFINE q == rq[r]
           o == IF b.op # "flush" THEN {}
                ELSE UNION {rq[s].acked \ rq[s].errs :
                              s \in {s \in Requests \ {r} :
                                       rq[s].res = "ok" /\ rq[s].bio.op = "write"}}
           p == [q EXCEPT !.bio = b, !.pc = "check", !.owe = o]
<1>1. q \in Request /\ InPlace(q) /\ q.bio = None
  BY Known DEF Issue
<1>2. q.pc = "idle"
  BY <1>1 DEF InPlace
<1>3. o \in SUBSET Slots
  <2>1. \A s \in Requests : rq[s].acked \in SUBSET Slots
    BY Known DEF Request
  <2> QED
    BY <2>1
<1>4. b \in Asked /\ b # None
  BY BiosAsked DEF Sound
<1>5. rq' = [rq EXCEPT ![r] = p]
  BY DEF Issue
<1> HIDE DEF o
<1>6. /\ p \in Request /\ p.bio = b /\ p.pc = "check" /\ p.set = q.set /\ p.left = q.left
      /\ p.maps = q.maps /\ p.acked = q.acked /\ p.errs = q.errs /\ p.wgen = q.wgen
      /\ p.starts = q.starts /\ p.res = q.res
  BY <1>1, <1>3, <1>4 DEF Request, Places
<1> HIDE DEF p
<1>7. OnPlan(p) /\ InPlace(p) /\ Covers(p)
  <2>1. /\ q.set = {} /\ q.left = {} /\ q.maps = {} /\ q.acked = {} /\ q.errs = {}
        /\ ~q.wgen /\ q.starts = 0 /\ q.res = "none"
    BY <1>1, <1>2 DEF InPlace, Early, Begins
  <2> QED
    BY <1>4, <1>6, <2>1, EarlyIsOk
<1>8. q.set = {} /\ ~q.wgen /\ q.res = "none"
  BY <1>1, <1>2 DEF InPlace, Early, Begins
<1> QED
  BY <1>2, <1>5, <1>6, <1>7, <1>8, MovesTo

\* rc_volume_fatal lets a request through, or ends it.
LEMMA CheckDoes ==
  ASSUME Sound, NEW r \in Requests, Check(r)
  PROVE  /\ Moves(r) /\ rq[r].pc = "check" /\ rq'[r].set = {} /\ ~rq'[r].wgen
         /\ \/ rq'[r].pc = "route" /\ rq'[r].res = "none" /\ UNCHANGED hctx
            \/ rq'[r].pc = "sent" /\ rq'[r].res = "err" /\ hctx' = Freed(Took(hctx, r))
<1> DEFINE q == rq[r]
           g == [q EXCEPT !.set = {}, !.left = {}, !.maps = {},
                          !.acked = {}, !.errs = {}, !.wgen = FALSE]
           p == [g EXCEPT !.pc = "route"]
<1>1. q \in Request /\ InPlace(q) /\ q.pc = "check"
  BY Known DEF Check
<1>2. q.bio # None /\ q.bio \in Bios /\ ~q.wgen /\ q.starts = 0 /\ q.res = "none"
  BY <1>1 DEF InPlace, Begins
<1>3. /\ g \in Request /\ g.bio = q.bio /\ g.set = {} /\ g.left = {} /\ g.maps = {}
      /\ g.acked = {} /\ g.errs = {} /\ ~g.wgen /\ g.starts = q.starts /\ g.res = q.res
  BY <1>1 DEF Request
<1>4. \/ rq' = [rq EXCEPT ![r] = p] /\ UNCHANGED hctx
      \/ rq' = [rq EXCEPT ![r] = Rejected(g)] /\ hctx' = Freed(Took(hctx, r))
  BY DEF Check
<1> HIDE DEF g
<1>5. /\ p \in Request /\ p.pc = "route" /\ p.bio = q.bio /\ p.set = {} /\ p.left = {}
      /\ p.maps = {} /\ p.acked = {} /\ p.errs = {} /\ ~p.wgen /\ p.starts = 0
      /\ p.res = "none"
  BY <1>2, <1>3 DEF Request, Places
<1> HIDE DEF p
<1>6. CASE rq' = [rq EXCEPT ![r] = p] /\ UNCHANGED hctx
  <2>1. OnPlan(p) /\ InPlace(p) /\ Covers(p)
    BY <1>2, <1>5, EarlyIsOk
  <2> QED
    BY <1>1, <1>5, <1>6, <2>1, MovesTo
<1>7. CASE rq' = [rq EXCEPT ![r] = Rejected(g)] /\ hctx' = Freed(Took(hctx, r))
  <2>1. q.pc \notin Begins
    BY <1>1 DEF Begins
  <2> QED
    BY <1>1, <1>2, <1>3, <1>7, <2>1, RejectedEnds
<1> QED
  BY <1>4, <1>6, <1>7

\* A flush takes no fan-out function.
LEMMA FlushIsSingle ==
  ASSUME vol \in Volumes, NEW b \in Bios, b.op = "flush"
  PROVE  ~Fans(b)
<1>1. b.cols = {}
  BY DEF Bios
<1>2. ~Multi(b)
  BY <1>1, FS_EmptySet DEF Multi
<1>3. vol.level \in {"raid0", "raid1", "raid10"}
  BY Columns
<1> QED
  BY <1>2, <1>3 DEF Fans

\* The members that a request may be sent to are members of the volume.
LEMMA TargetsAre ==
  ASSUME Typed, NEW b \in Bios, NEW S \in Targets(b)
  PROVE  /\ S \in SUBSET Slots
         /\ b.op = "flush" => S = wmask
         /\ Fans(b) => S \subseteq Touched(b)
         /\ b.op = "write" => Touched(b) \cap wmask \subseteq S \/ (vol.level # "raid0" /\ ~Fans(b))
         /\ b.op # "flush" /\ Fans(b) /\ vol.level # "raid0" => S \subseteq wmask
<1>1. /\ wmask \in SUBSET Slots /\ live \in SUBSET wmask /\ vol \in Volumes
  BY DEF Typed
<1>2. Touched(b) \subseteq Members /\ (b.cols # {} => Touched(b) # {})
  BY <1>1, TouchedMembers
<1>3. Members \subseteq Slots /\ Slots \subseteq SlotNumbers
  BY <1>1, Columns
<1>4. b \in [op : Ops, cols : SUBSET DOMAIN vol.cols, at : Chunks] /\ (b.op = "flush" <=> b.cols = {})
  BY DEF Bios
<1>5. CASE b.op = "flush"
  <2>1. S = wmask
    BY <1>5 DEF Targets
  <2>2. ~Fans(b)
    BY <1>1, <1>5, FlushIsSingle
  <2> QED
    BY <1>1, <1>5, <2>1, <2>2
<1>6. CASE b.op # "flush" /\ ~Fans(b)
  <2> DEFINE c == Touched(b)
  <2>1. c # {} /\ c \in SUBSET SlotNumbers
    BY <1>2, <1>3, <1>4, <1>6
  <2>2. S \in IF c \cap live # {} THEN {{m} : m \in c \cap live} ELSE {{Min(c)}}
    BY <1>6 DEF Targets
  <2>3. Min(c) \in c
    BY <2>1, SlotNumbersOrdered
  <2> HIDE DEF c
  <2>4. PICK m \in c : S = {m}
    BY <2>2, <2>3
  <2>5. S \in SUBSET Slots
    BY <1>2, <1>3, <2>4 DEF c
  <2>6. vol.level = "raid0" => c = S
    <3>1. SUFFICES ASSUME vol.level = "raid0" PROVE c = S
      OBVIOUS
    <3>2. Cardinality(b.cols) <= 1
      <4>1. ~Multi(b)
        BY <1>6, <3>1 DEF Fans
      <4>2. IsFiniteSet(b.cols)
        <5>1. DOMAIN vol.cols = 1 .. Len(vol.cols) /\ Len(vol.cols) \in Int
          BY <1>1, Columns
        <5>2. 1 \in Int
          OBVIOUS
        <5>3. IsFiniteSet(DOMAIN vol.cols)
          BY <5>1, <5>2, FS_Interval
        <5> QED
          BY <1>4, <5>3, FS_Subset
      <4>3. Cardinality(b.cols) \in Nat
        BY <4>2, FS_CardinalityType
      <4> QED
        BY <4>1, <4>3 DEF Multi
    <3>3. PICK i : b.cols = {i}
      <4>1. IsFiniteSet(b.cols)
        <5>1. DOMAIN vol.cols = 1 .. Len(vol.cols) /\ Len(vol.cols) \in Int
          BY <1>1, Columns
        <5>2. 1 \in Int
          OBVIOUS
        <5>3. IsFiniteSet(DOMAIN vol.cols)
          BY <5>1, <5>2, FS_Interval
        <5> QED
          BY <1>4, <5>3, FS_Subset
      <4>2. Cardinality(b.cols) \in Nat
        BY <4>1, FS_CardinalityType
      <4>3. Cardinality(b.cols) # 0
        BY <1>4, <1>6, <4>1, FS_EmptySet
      <4>4. Cardinality(b.cols) = 1
        BY <3>2, <4>2, <4>3
      <4> QED
        BY <4>1, <4>4, FS_Singleton
    <3>4. i \in DOMAIN vol.cols
      BY <1>4, <3>3
    <3>5. c = vol.cols[i]
      BY <3>3 DEF c, Touched
    <3>6. \E n : vol.cols[i] = {n}
      BY <1>1, <3>1, <3>4, Columns
    <3> QED
      BY <2>4, <3>5, <3>6
  <2> QED
    BY <1>6, <2>5, <2>6 DEF c
<1>7. CASE b.op # "flush" /\ Fans(b)
  <2>1. CASE vol.level = "raid0"
    <3>1. S = Touched(b)
      BY <1>7, <2>1 DEF Targets
    <3>2. S \in SUBSET Slots
      BY <1>2, <1>3, <3>1
    <3>3. S \subseteq Touched(b) /\ Touched(b) \cap wmask \subseteq S
      BY <3>1
    <3> QED
      BY <1>7, <2>1, <3>2, <3>3
  <2>2. CASE vol.level # "raid0" /\ b.op = "read"
    <3>1. S \in SUBSET (Touched(b) \cap live)
      BY <1>7, <2>2 DEF Targets
    <3> QED
      BY <1>1, <1>7, <2>2, <3>1
  <2>3. CASE vol.level # "raid0" /\ b.op # "read"
    <3>1. S = Touched(b) \cap wmask
      BY <1>7, <2>3 DEF Targets
    <3>2. S \in SUBSET Slots /\ S \subseteq wmask /\ S \subseteq Touched(b)
      BY <1>1, <3>1
    <3>3. Touched(b) \cap wmask \subseteq S
      BY <3>1
    <3> QED
      BY <1>7, <2>3, <3>2, <3>3
  <2> QED
    BY <2>1, <2>2, <2>3
<1> QED
  BY <1>5, <1>6, <1>7

\* The plan of a request, as far as it goes before the first step.
LEMMA PlanIs ==
  ASSUME vol \in Volumes, NEW b \in Bios
  PROVE  \/ /\ Fans(b)
            /\ PlanFor(b) \in {<<"map", "reserve", "build", "start">>,
                               <<"map", "reserve", "build", "gate", "start">>,
                               <<"reserve", "start">>, <<"reserve", "gate", "start">>}
         \/ /\ ~Fans(b)
            /\ PlanFor(b) \in {<<"map", "build", "reserve", "start">>, <<"reserve", "start">>}
<1>1. vol.level \in {"raid0", "raid1", "raid10"}
  BY Columns
<1>2. CASE b.op = "flush"
  <2>1. ~Fans(b)
    BY <1>2, FlushIsSingle
  <2>2. PlanFor(b) = FlushPlan
    BY <1>2, <2>1 DEF PlanFor
  <2> QED
    BY <2>1, <2>2 DEF FlushPlan
<1>3. CASE b.op # "flush" /\ ~Fans(b)
  <2>1. PlanFor(b) = SinglePlan(b)
    BY <1>3 DEF PlanFor
  <2> QED
    BY <1>3, <2>1 DEF SinglePlan
<1>4. CASE b.op # "flush" /\ Fans(b) /\ vol.level = "raid1"
  <2>1. PlanFor(b) = MirrorPlan(b)
    BY <1>4 DEF PlanFor
  <2> QED
    BY <1>4, <2>1 DEF MirrorPlan
<1>5. CASE b.op # "flush" /\ Fans(b) /\ vol.level = "raid0"
  <2>1. PlanFor(b) = IF Data(b) THEN MultiStripePlan ELSE MultiStripeDiscardPlan
    BY <1>5 DEF PlanFor
  <2> QED
    BY <1>5, <2>1 DEF MultiStripePlan, MultiStripeDiscardPlan
<1>6. CASE b.op # "flush" /\ Fans(b) /\ vol.level = "raid10"
  <2>1. PlanFor(b) = IF Data(b) THEN Raid10Plan(b) ELSE Raid10DiscardPlan
    BY <1>6 DEF PlanFor
  <2> QED
    BY <1>6, <2>1 DEF Raid10Plan, Raid10DiscardPlan
<1> QED
  BY <1>1, <1>2, <1>3, <1>4, <1>5, <1>6

\* The path is chosen, with the members that are there, or the request is ended.
LEMMA RouteDoes ==
  ASSUME Sound, NEW r \in Requests, Route(r)
  PROVE  /\ Moves(r) /\ rq[r].pc = "route" /\ ~rq'[r].wgen
         /\ \/ /\ rq'[r].pc = "map" /\ UNCHANGED hctx
               /\ rq'[r].plan \in {<<"build", "reserve", "start">>,
                     <<"reserve", "build", "start">>, <<"reserve", "build", "gate", "start">>}
            \/ /\ rq'[r].pc = "reserve" /\ UNCHANGED hctx
               /\ rq'[r].left = rq'[r].set
            \/ /\ rq'[r].pc = "sent" /\ rq'[r].set = {} /\ hctx' = Freed(Took(hctx, r))
               /\ rq'[r].res = "err"
         /\ rq'[r].pc # "sent" => rq'[r].res = "none"
<1> DEFINE q == rq[r]
           b == q.bio
<1>1. q \in Request /\ InPlace(q) /\ q.pc = "route" /\ vol \in Volumes
  BY Known DEF Route, Sound, Typed
<1>2. /\ b # None /\ b \in Bios /\ ~q.wgen /\ q.starts = 0 /\ q.res = "none"
      /\ q.set = {} /\ q.left = {} /\ q.maps = {} /\ q.acked = {} /\ q.errs = {}
  BY <1>1 DEF InPlace, Begins, Early
<1>3. PICK S \in IF Targets(b) = {} THEN {{}} ELSE Targets(b) :
             IF Refused(b, S)
             THEN /\ rq' = [rq EXCEPT ![r] = Rejected(q)]
                  /\ hctx' = Freed(Took(hctx, r))
             ELSE /\ rq' = [rq EXCEPT ![r] =
                              GoesOn([q EXCEPT !.set = S, !.plan = PlanFor(b)])]
                  /\ UNCHANGED hctx
  BY DEF Route
<1>4. CASE Refused(b, S)
  <2>1. q.pc \notin Begins
    BY <1>1 DEF Begins
  <2> QED
    BY <1>1, <1>2, <1>3, <1>4, <2>1, RejectedEnds
<1>5. CASE ~Refused(b, S)
  <2> DEFINE g == [q EXCEPT !.set = S, !.plan = PlanFor(b)]
             p == GoesOn(g)
             P == PlanFor(b)
  <2>1. S # {} /\ (~Fans(b) => S \subseteq present)
    BY <1>5 DEF Refused, Uncovered
  <2>2. S \in Targets(b)
    BY <1>3, <2>1
  <2>3. /\ S \in SUBSET Slots
        /\ b.op = "flush" => S = wmask
        /\ Fans(b) => S \subseteq Touched(b)
        /\ b.op = "write" => Touched(b) \cap wmask \subseteq S \/ (vol.level # "raid0" /\ ~Fans(b))
        /\ b.op # "flush" /\ Fans(b) /\ vol.level # "raid0" => S \subseteq wmask
    BY <1>2, <2>2, TargetsAre DEF Sound
  <2>4. S \subseteq present
    <3>1. wmask \subseteq present
      BY DEF Sound, Typed
    <3>2. CASE Fans(b) /\ vol.level = "raid0"
      <4>1. Touched(b) \subseteq Members /\ present = Members
        BY <1>1, <1>2, <3>2, TouchedMembers DEF Sound, Staying
      <4> QED
        BY <2>3, <3>2, <4>1
    <3> QED
      BY <2>1, <2>3, <3>1, <3>2
  <2>5. b.op = "write" => Touched(b) \cap wmask \subseteq S
    <3>1. vol.level # "raid0" /\ b.op = "write" => Fans(b)
      <4>1. vol.level \in {"raid0", "raid1", "raid10"}
        BY <1>1, Columns
      <4> QED
        BY <4>1 DEF Fans
    <3> QED
      BY <2>3, <3>1
  <2>6. /\ g.set = S /\ g.plan = P /\ g.left = {} /\ g.maps = {} /\ g.acked = {}
        /\ g.errs = {} /\ ~g.wgen /\ g.starts = 0 /\ g.res = "none" /\ g.bio = b
        /\ g.why = q.why /\ g.ran = q.ran /\ g.owe = q.owe /\ g.pc = "route"
    BY <1>1, <1>2 DEF Request
  <2>7. /\ p.pc = Head(P) /\ p.plan = Tail(P) /\ p.left = S /\ p.set = S /\ p.maps = {}
        /\ p.acked = {} /\ p.errs = {} /\ ~p.wgen /\ p.starts = 0 /\ p.res = "none"
        /\ p.bio = b
        /\ (Head(P) \in Places /\ Tail(P) \in Plans => p \in Request)
    <3>1. p = [g EXCEPT !.pc = Head(P), !.plan = Tail(P), !.left = S]
      BY <2>6 DEF GoesOn
    <3>2. p = [q EXCEPT !.set = S, !.plan = Tail(P), !.pc = Head(P), !.left = S]
      BY <3>1, <1>1 DEF Request
    <3> HIDE DEF g, p, P
    <3> QED
      BY <1>1, <1>2, <2>3, <3>2 DEF Request
  <2> HIDE DEF g, p, P
  <2>8. /\ p \in Request /\ OnPlan(p) /\ p.pc \in {"map", "reserve"}
        /\ p.pc = "map" => p.plan \in {<<"build", "reserve", "start">>,
              <<"reserve", "build", "start">>, <<"reserve", "build", "gate", "start">>}
    <3>1. CASE /\ Fans(b)
               /\ P \in {<<"map", "reserve", "build", "start">>,
                         <<"map", "reserve", "build", "gate", "start">>}
      <4>1. /\ p.pc = "map"
            /\ p.plan \in {<<"reserve", "build", "start">>, <<"reserve", "build", "gate", "start">>}
        BY <2>7, <3>1, Ahead
      <4>2. p \in Request
        BY <2>7, <4>1 DEF Places, Stages, Plans
      <4> QED
        BY <2>7, <3>1, <4>1, <4>2 DEF OnPlan
    <3>2. CASE P \in {<<"reserve", "start">>, <<"reserve", "gate", "start">>}
      <4>1. p.pc = "reserve" /\ p.plan \in {<<"start">>, <<"gate", "start">>}
        BY <2>7, <3>2, Ahead
      <4>2. p \in Request
        BY <2>7, <4>1 DEF Places, Stages, Plans
      <4> QED
        BY <4>1, <4>2 DEF OnPlan
    <3>3. CASE ~Fans(b) /\ P = <<"map", "build", "reserve", "start">>
      <4>1. p.pc = "map" /\ p.plan = <<"build", "reserve", "start">>
        BY <2>7, <3>3, Ahead
      <4>2. p \in Request
        BY <2>7, <4>1 DEF Places, Stages, Plans
      <4> QED
        BY <2>7, <3>3, <4>1, <4>2 DEF OnPlan
    <3>4. \/ Fans(b) /\ P \in {<<"map", "reserve", "build", "start">>,
                               <<"map", "reserve", "build", "gate", "start">>,
                               <<"reserve", "start">>, <<"reserve", "gate", "start">>}
          \/ ~Fans(b) /\ P \in {<<"map", "build", "reserve", "start">>, <<"reserve", "start">>}
      BY <1>1, <1>2, PlanIs DEF P
    <3> QED
      BY <3>1, <3>2, <3>3, <3>4
  <2>9. InPlace(p)
    BY <1>2, <2>1, <2>7, <2>8 DEF InPlace, Early, Begins, Stages
  <2>10. Covers(p)
    BY <2>3, <2>4, <2>5, <2>7 DEF Covers
  <2>11. rq' = [rq EXCEPT ![r] = p] /\ UNCHANGED hctx
    BY <1>3, <1>5 DEF p, g
  <2>12. Moves(r) /\ rq'[r] = p
    BY <2>8, <2>9, <2>10, <2>11, MovesTo
  <2> QED
    BY <1>1, <2>7, <2>8, <2>11, <2>12
<1> QED
  BY <1>4, <1>5

\* The slots a request holds, place by place.
LEMMA HoldsAt ==
  ASSUME NEW q
  PROVE  /\ q.pc \in {"reserve", "back"} => Holds(q) = q.set \ q.left
         /\ q.pc = "build" /\ q.plan \in {<<"start">>, <<"gate", "start">>} => Holds(q) = q.set
         /\ q.pc = "build" /\ q.plan = <<"reserve", "start">> => Holds(q) = {}
         /\ q.pc = "gate" /\ q.plan = <<"start">> => Holds(q) = q.set
         /\ q.pc = "start" /\ q.plan = <<>> => Holds(q) = q.set
         /\ q.pc \in {"submit", "sent"} => Holds(q) = q.set \ q.acked
         /\ q.pc \in {"idle", "check", "route", "parked", "map"} => Holds(q) = {}
<1>1. q.pc \in {"reserve", "back"} => Holds(q) = q.set \ q.left
  BY DEF Holds, Reserved
<1>2. q.pc \in {"build", "gate", "start"}
      => Holds(q) = IF "reserve" \in Range(q.plan) THEN {} ELSE q.set
  BY DEF Holds
<1>3. q.pc \in {"submit", "sent"} => Holds(q) = q.set \ q.acked
  BY DEF Holds
<1>4. q.pc \in {"idle", "check", "route", "parked", "map"} => Holds(q) = {}
  BY DEF Holds
<1>5. /\ "reserve" \notin Range(<<"start">>) /\ "reserve" \notin Range(<<"gate", "start">>)
      /\ "reserve" \notin Range(<<>>) /\ "reserve" \in Range(<<"reserve", "start">>)
  BY ToReserve
<1> QED
  BY <1>1, <1>2, <1>3, <1>4, <1>5

\* Going on from a request that is in place, with its slots taken or not.
LEMMA GoesOnInPlace ==
  ASSUME NEW g \in Request, g.plan # <<>>, g.bio # None, g.bio \in Bios,
         g.set # {}, g.acked = {}, g.errs = {}, g.starts = 0, g.res = "none",
         NEW p, p = GoesOn(g), p \in Request, p.pc \in Stages,
         g.wgen => p.pc = "start", g.set \subseteq present,
         g.bio.op = "write" => Touched(g.bio) \cap wmask \subseteq g.set,
         g.bio.op = "flush" => wmask \subseteq g.set
  PROVE  InPlace(p) /\ Covers(p)
<1>1. /\ p.left = g.set /\ p.bio = g.bio /\ p.set = g.set /\ p.acked = {}
      /\ p.errs = {} /\ p.wgen = g.wgen /\ p.starts = 0 /\ p.res = "none"
  BY GoesOnFields
<1>2. InPlace(p)
  BY <1>1 DEF InPlace, Early, Begins, Stages
<1>3. Covers(p)
  BY <1>1 DEF Covers
<1> QED
  BY <1>2, <1>3

\* What a request in one of the stages has.
LEMMA Staged ==
  ASSUME Sound, NEW r \in Requests, rq[r].pc \in Stages
  PROVE  /\ rq[r].bio # None /\ rq[r].bio \in Bios /\ rq[r].set # {}
         /\ rq[r].acked = {} /\ rq[r].errs = {} /\ rq[r].starts = 0 /\ rq[r].res = "none"
         /\ rq[r].pc \notin Begins /\ (rq[r].wgen => rq[r].pc = "start")
         /\ rq[r].set \subseteq present
         /\ rq[r].bio.op = "write" => Touched(rq[r].bio) \cap wmask \subseteq rq[r].set
         /\ rq[r].bio.op = "flush" => wmask \subseteq rq[r].set
         /\ rq[r].left \subseteq rq[r].set /\ (rq[r].pc = "reserve" => rq[r].left # {})
<1>1. InPlace(rq[r]) /\ Covers(rq[r])
  BY Known
<1>2. rq[r].pc \notin Begins /\ rq[r].pc # "idle"
  BY DEF Begins, Stages
<1>3. /\ rq[r].bio # None /\ rq[r].bio \in Bios /\ rq[r].set # {}
      /\ rq[r].acked = {} /\ rq[r].errs = {} /\ rq[r].starts = 0 /\ rq[r].res = "none"
      /\ (rq[r].wgen => rq[r].pc = "start")
      /\ rq[r].left \subseteq rq[r].set /\ (rq[r].pc = "reserve" => rq[r].left # {})
  BY <1>1, <1>2 DEF InPlace
<1> QED
  BY <1>1, <1>2, <1>3 DEF Covers

\* The mapping is made, or the request is ended with none.
LEMMA MapDoes ==
  ASSUME Sound, NEW r \in Requests, Map(r)
  PROVE  /\ Moves(r) /\ rq[r].pc = "map" /\ Holds(rq'[r]) = Holds(rq[r])
         /\ ~rq[r].wgen /\ ~rq'[r].wgen
         /\ \/ rq'[r].pc \in {"build", "reserve"} /\ rq'[r].res = "none" /\ UNCHANGED hctx
            \/ rq'[r].pc = "sent" /\ rq'[r].res = "err" /\ hctx' = Freed(Took(hctx, r))
<1> DEFINE q == rq[r]
           g == [q EXCEPT !.maps = rq[r].set]
           p == GoesOn(g)
<1>1. q \in Request /\ OnPlan(q) /\ InPlace(q) /\ q.pc = "map" /\ q.pc \in Stages
  BY Known DEF Map, Stages
<1>2. /\ q.bio # None /\ q.bio \in Bios /\ q.set # {}
      /\ q.acked = {} /\ q.errs = {} /\ q.starts = 0 /\ q.res = "none"
      /\ q.pc \notin Begins /\ ~q.wgen /\ q.set \subseteq present
      /\ q.bio.op = "write" => Touched(q.bio) \cap wmask \subseteq q.set
      /\ q.bio.op = "flush" => wmask \subseteq q.set
  BY <1>1, Staged
<1>3. Holds(q) = {}
  BY <1>1, HoldsAt
<1>4. \/ rq' = [rq EXCEPT ![r] = p] /\ UNCHANGED hctx
      \/ rq' = [rq EXCEPT ![r] = Rejected(q)] /\ hctx' = Freed(Took(hctx, r))
  BY DEF Map
<1>5. CASE rq' = [rq EXCEPT ![r] = Rejected(q)] /\ hctx' = Freed(Took(hctx, r))
  <2>1. /\ Moves(r) /\ rq'[r].pc = "sent" /\ rq'[r].set = {} /\ ~rq'[r].wgen
        /\ rq'[r].res = "err"
    BY <1>1, <1>2, <1>5, RejectedEnds
  <2>2. Holds(rq'[r]) = rq'[r].set \ rq'[r].acked
    BY <2>1, HoldsAt
  <2> QED
    BY <1>1, <1>2, <1>3, <1>5, <2>1, <2>2
<1>6. CASE rq' = [rq EXCEPT ![r] = p] /\ UNCHANGED hctx
  <2>1. /\ g \in Request /\ g.plan = q.plan /\ g.bio = q.bio /\ g.set = q.set
        /\ g.acked = {} /\ g.errs = {} /\ g.starts = 0 /\ g.res = "none" /\ ~g.wgen
    BY <1>1, <1>2 DEF Request
  <2> HIDE DEF g
  <2>2. /\ p.pc = Head(q.plan) /\ p.plan = Tail(q.plan) /\ p.left = q.set /\ p.bio = q.bio
        /\ p.set = q.set /\ p.acked = {} /\ ~p.wgen /\ p.res = "none"
        /\ (Head(q.plan) \in Places /\ Tail(q.plan) \in Plans => p \in Request)
    BY <2>1, GoesOnFields
  <2> HIDE DEF p
  <2>3. /\ p \in Request /\ OnPlan(p) /\ Holds(p) = {} /\ p.pc \in {"build", "reserve"}
        /\ p.pc \in Stages /\ q.plan # <<>>
    <3>1. CASE Fans(q.bio)
      <4>1. q.plan \in {<<"reserve", "build", "start">>, <<"reserve", "build", "gate", "start">>}
        BY <1>1, <3>1 DEF OnPlan
      <4>2. p.pc = "reserve" /\ p.plan \in {<<"build", "start">>, <<"build", "gate", "start">>}
        BY <2>2, <4>1, Ahead
      <4>3. p \in Request
        BY <2>2, <4>2 DEF Places, Stages, Plans
      <4>4. OnPlan(p)
        BY <2>2, <3>1, <4>2 DEF OnPlan
      <4>5. Holds(p) = {}
        BY <2>2, <4>2, HoldsAt
      <4> QED
        BY <4>1, <4>2, <4>3, <4>4, <4>5 DEF Stages
    <3>2. CASE ~Fans(q.bio)
      <4>1. q.plan = <<"build", "reserve", "start">>
        BY <1>1, <3>2 DEF OnPlan
      <4>2. p.pc = "build" /\ p.plan = <<"reserve", "start">>
        BY <2>2, <4>1, Ahead
      <4>3. p \in Request
        BY <2>2, <4>2 DEF Places, Stages, Plans
      <4>4. OnPlan(p)
        BY <2>2, <3>2, <4>2 DEF OnPlan
      <4>5. Holds(p) = {}
        BY <4>2, HoldsAt
      <4> QED
        BY <4>1, <4>2, <4>3, <4>4, <4>5 DEF Stages
    <3> QED
      BY <3>1, <3>2
  <2>4. InPlace(p) /\ Covers(p)
    BY <1>2, <2>1, <2>3, GoesOnInPlace DEF p
  <2>5. Moves(r) /\ rq'[r] = p
    BY <1>6, <2>3, <2>4, MovesTo
  <2> QED
    BY <1>1, <1>2, <1>3, <1>6, <2>2, <2>3, <2>5
<1> QED
  BY <1>4, <1>5, <1>6

\* A request that has to give back what it took.
LEMMA BackIsOk ==
  ASSUME NEW p \in Request, p.pc = "back", p.bio \in Bios, p.bio # None, p.set # {},
         p.left \subseteq p.set, p.acked = {}, p.errs = {}, ~p.wgen, p.starts = 0,
         p.res = "none", p.set \subseteq present
  PROVE  OnPlan(p) /\ InPlace(p) /\ Covers(p)
<1>1. OnPlan(p)
  BY DEF OnPlan
<1>2. InPlace(p)
  BY DEF InPlace, Early, Begins, Stages
<1>3. Covers(p)
  BY DEF Covers, Begins, Stages
<1> QED
  BY <1>1, <1>2, <1>3

\* The command is built, or what was taken is given back.
LEMMA BuildDoes ==
  ASSUME Sound, NEW r \in Requests, Build(r)
  PROVE  /\ Moves(r) /\ rq[r].pc = "build" /\ Holds(rq'[r]) = Holds(rq[r])
         /\ ~rq[r].wgen /\ ~rq'[r].wgen
         /\ \/ /\ rq'[r].pc \in {"reserve", "gate", "start"} /\ rq'[r].res = "none"
               /\ UNCHANGED hctx
            \/ /\ rq'[r].pc = "back" /\ rq'[r].why = "build" /\ rq'[r].res = "none"
               /\ UNCHANGED hctx
            \/ rq'[r].pc = "sent" /\ rq'[r].res = "err" /\ hctx' = Freed(Took(hctx, r))
<1> DEFINE q == rq[r]
           p == GoesOn(q)
           f == [q EXCEPT !.pc = "back", !.why = "build", !.left = {}]
<1>1. q \in Request /\ OnPlan(q) /\ InPlace(q) /\ q.pc = "build" /\ q.pc \in Stages
  BY Known DEF Build, Stages
<1>2. /\ q.bio # None /\ q.bio \in Bios /\ q.set # {}
      /\ q.acked = {} /\ q.errs = {} /\ q.starts = 0 /\ q.res = "none"
      /\ q.pc \notin Begins /\ ~q.wgen /\ q.set \subseteq present
      /\ q.bio.op = "write" => Touched(q.bio) \cap wmask \subseteq q.set
      /\ q.bio.op = "flush" => wmask \subseteq q.set
  BY <1>1, Staged
<1>3. /\ Fans(q.bio) => q.plan \in {<<"start">>, <<"gate", "start">>} /\ Holds(q) = q.set
      /\ ~Fans(q.bio) => q.plan = <<"reserve", "start">> /\ Holds(q) = {}
  BY <1>1, HoldsAt DEF OnPlan
<1>4. \/ rq' = [rq EXCEPT ![r] = p] /\ UNCHANGED hctx
      \/ Fans(q.bio) /\ rq' = [rq EXCEPT ![r] = f] /\ UNCHANGED hctx
      \/ ~Fans(q.bio) /\ rq' = [rq EXCEPT ![r] = Rejected(q)] /\ hctx' = Freed(Took(hctx, r))
  BY DEF Build
<1>5. CASE ~Fans(q.bio) /\ rq' = [rq EXCEPT ![r] = Rejected(q)] /\ hctx' = Freed(Took(hctx, r))
  <2>1. /\ Moves(r) /\ rq'[r].pc = "sent" /\ rq'[r].set = {} /\ ~rq'[r].wgen
        /\ rq'[r].res = "err"
    BY <1>1, <1>2, <1>5, RejectedEnds
  <2>2. Holds(rq'[r]) = rq'[r].set \ rq'[r].acked
    BY <2>1, HoldsAt
  <2> QED
    BY <1>1, <1>2, <1>3, <1>5, <2>1, <2>2
<1>6. CASE Fans(q.bio) /\ rq' = [rq EXCEPT ![r] = f] /\ UNCHANGED hctx
  <2>1. /\ f \in Request /\ f.pc = "back" /\ f.why = "build" /\ f.left = {}
        /\ f.bio = q.bio /\ f.set = q.set /\ f.acked = {} /\ f.errs = {} /\ ~f.wgen
        /\ f.starts = 0 /\ f.res = "none"
    BY <1>1, <1>2 DEF Request, Places
  <2> HIDE DEF f
  <2>2. OnPlan(f) /\ InPlace(f) /\ Covers(f)
    BY <1>2, <2>1, BackIsOk
  <2>3. Moves(r) /\ rq'[r] = f
    BY <1>6, <2>1, <2>2, MovesTo
  <2>4. Holds(f) = f.set \ f.left
    BY <2>1, HoldsAt
  <2> QED
    BY <1>1, <1>2, <1>3, <1>6, <2>1, <2>3, <2>4
<1>7. CASE rq' = [rq EXCEPT ![r] = p] /\ UNCHANGED hctx
  <2>2. /\ p.pc = Head(q.plan) /\ p.plan = Tail(q.plan) /\ p.left = q.set /\ p.bio = q.bio
        /\ p.set = q.set /\ p.acked = {} /\ ~p.wgen /\ p.res = "none"
        /\ (Head(q.plan) \in Places /\ Tail(q.plan) \in Plans => p \in Request)
    BY <1>1, <1>2, GoesOnFields
  <2> HIDE DEF p
  <2>3. /\ p \in Request /\ OnPlan(p) /\ Holds(p) = Holds(q)
        /\ p.pc \in {"reserve", "gate", "start"} /\ p.pc \in Stages /\ q.plan # <<>>
    <3>1. CASE Fans(q.bio) /\ q.plan = <<"gate", "start">>
      <4>2. p.pc = "gate" /\ p.plan = <<"start">>
        BY <2>2, <3>1, Ahead
      <4>3. p \in Request
        BY <2>2, <4>2 DEF Places, Stages, Plans
      <4>4. OnPlan(p)
        BY <4>2 DEF OnPlan
      <4>5. Holds(p) = p.set
        BY <4>2, HoldsAt
      <4> QED
        BY <1>3, <2>2, <3>1, <4>2, <4>3, <4>4, <4>5 DEF Stages
    <3>2. CASE Fans(q.bio) /\ q.plan = <<"start">>
      <4>2. p.pc = "start" /\ p.plan = <<>>
        BY <2>2, <3>2, Ahead
      <4>3. p \in Request
        BY <2>2, <4>2 DEF Places, Stages, Plans
      <4>4. OnPlan(p)
        BY <4>2 DEF OnPlan
      <4>5. Holds(p) = p.set
        BY <4>2, HoldsAt
      <4> QED
        BY <1>3, <2>2, <3>2, <4>2, <4>3, <4>4, <4>5 DEF Stages
    <3>3. CASE ~Fans(q.bio)
      <4>1. q.plan = <<"reserve", "start">>
        BY <1>3, <3>3
      <4>2. p.pc = "reserve" /\ p.plan = <<"start">>
        BY <2>2, <4>1, Ahead
      <4>3. p \in Request
        BY <2>2, <4>2 DEF Places, Stages, Plans
      <4>4. OnPlan(p)
        BY <4>2 DEF OnPlan
      <4>5. Holds(p) = p.set \ p.left
        BY <4>2, HoldsAt
      <4>6. Holds(p) = {}
        BY <2>2, <4>5
      <4> QED
        BY <1>3, <3>3, <4>1, <4>2, <4>3, <4>4, <4>6 DEF Stages
    <3> QED
      BY <1>3, <3>1, <3>2, <3>3
  <2>4. InPlace(p) /\ Covers(p)
    BY <1>1, <1>2, <2>3, GoesOnInPlace DEF p
  <2>5. Moves(r) /\ rq'[r] = p
    BY <1>7, <2>3, <2>4, MovesTo
  <2> QED
    BY <1>1, <1>2, <1>7, <2>2, <2>3, <2>5
<1> QED
  BY <1>4, <1>5, <1>6, <1>7

\* One slot is taken, or a full ring turns the request back.
LEMMA ReserveDoes ==
  ASSUME Sound, NEW r \in Requests, Reserve(r)
  PROVE  /\ Moves(r) /\ rq[r].pc = "reserve" /\ ~rq[r].wgen /\ ~rq'[r].wgen
         /\ rq'[r].res = "none" /\ UNCHANGED hctx
         /\ LET m == Min(rq[r].left) IN
            /\ m \in Slots
            /\ \/ /\ rq'[r].pc \in {"reserve", "build", "gate", "start"}
                  /\ HasRoom(m) /\ used' = [used EXCEPT ![m] = @ + 1]
                  /\ m \notin Holds(rq[r]) /\ Holds(rq'[r]) = Holds(rq[r]) \cup {m}
               \/ /\ rq'[r].pc = "back" /\ UNCHANGED used /\ Holds(rq'[r]) = Holds(rq[r])
                  /\ \/ rq'[r].why = "full" /\ \E s \in Requests : Owes(s, m)
                     \/ rq'[r].why = "held"
<1> DEFINE q == rq[r]
           m == Min(q.left)
           g == [q EXCEPT !.left = @ \ {m}]
           p == IF g.left = {} THEN GoesOn(g) ELSE g
           w == IF \E s \in Requests : Owes(s, m) THEN "full" ELSE "held"
           f == [q EXCEPT !.pc = "back", !.why = w]
<1>1. q \in Request /\ OnPlan(q) /\ InPlace(q) /\ q.pc = "reserve" /\ q.pc \in Stages
  BY Known DEF Reserve, Stages
<1>2. /\ q.bio # None /\ q.bio \in Bios /\ q.set # {}
      /\ q.acked = {} /\ q.errs = {} /\ q.starts = 0 /\ q.res = "none"
      /\ q.pc \notin Begins /\ ~q.wgen /\ q.set \subseteq present
      /\ q.bio.op = "write" => Touched(q.bio) \cap wmask \subseteq q.set
      /\ q.bio.op = "flush" => wmask \subseteq q.set
      /\ q.left \subseteq q.set /\ q.left # {}
  BY <1>1, Staged
<1>3. m \in q.left /\ m \in q.set /\ m \in Slots
  <2>1. q.set \in SUBSET Slots
    BY <1>1 DEF Request
  <2>2. Slots \subseteq SlotNumbers
    BY Columns DEF Sound, Typed
  <2> QED
    BY <1>2, <2>1, <2>2, SlotNumbersOrdered
<1>4. Holds(q) = q.set \ q.left
  BY <1>1, HoldsAt
<1>5. /\ UNCHANGED hctx
      /\ \/ /\ HasRoom(m) /\ used' = [used EXCEPT ![m] = @ + 1] /\ rq' = [rq EXCEPT ![r] = p]
         \/ rq' = [rq EXCEPT ![r] = f] /\ UNCHANGED used
  BY DEF Reserve
<1> HIDE DEF m
<1>6. CASE rq' = [rq EXCEPT ![r] = f] /\ UNCHANGED used
  <2>0. w \in {"none", "full", "held", "window", "build"}
    OBVIOUS
  <2>00. \/ w = "full" /\ \E s \in Requests : Owes(s, m)
         \/ w = "held"
    OBVIOUS
  <2> HIDE DEF w
  <2>1. /\ f \in Request /\ f.pc = "back" /\ f.why = w /\ f.left = q.left
        /\ f.bio = q.bio /\ f.set = q.set /\ f.acked = {} /\ f.errs = {} /\ ~f.wgen
        /\ f.starts = 0 /\ f.res = "none"
    BY <1>1, <1>2, <2>0 DEF Request, Places
  <2> HIDE DEF f
  <2>2. OnPlan(f) /\ InPlace(f) /\ Covers(f)
    BY <1>2, <2>1, BackIsOk
  <2>3. Moves(r) /\ rq'[r] = f
    BY <1>6, <2>1, <2>2, MovesTo
  <2>4. Holds(f) = f.set \ f.left
    BY <2>1, HoldsAt
  <2> QED
    BY <1>1, <1>2, <1>3, <1>4, <1>5, <1>6, <2>00, <2>1, <2>3, <2>4 DEF m
<1>7. CASE HasRoom(m) /\ used' = [used EXCEPT ![m] = @ + 1] /\ rq' = [rq EXCEPT ![r] = p]
  <2>1. /\ g \in Request /\ g.plan = q.plan /\ g.bio = q.bio /\ g.set = q.set /\ g.pc = q.pc
        /\ g.left = q.left \ {m} /\ g.maps = q.maps
        /\ g.acked = {} /\ g.errs = {} /\ g.starts = 0 /\ g.res = "none" /\ ~g.wgen
    BY <1>1, <1>2 DEF Request
  <2> HIDE DEF g
  <2>2. CASE g.left # {}
    <3>1. p = g
      BY <2>2
    <3>2. Holds(g) = q.set \ (q.left \ {m})
      BY <1>1, <2>1, HoldsAt
    <3>3. OnPlan(g)
      BY <1>1, <2>1 DEF OnPlan
    <3>4. InPlace(g)
      BY <1>1, <1>2, <2>1, <2>2 DEF InPlace, Early, Begins, Stages
    <3>5. Covers(g)
      BY <1>2, <2>1 DEF Covers
    <3>6. Moves(r) /\ rq'[r] = g
      BY <1>7, <2>1, <3>1, <3>3, <3>4, <3>5, MovesTo
    <3>7. m \notin Holds(q) /\ Holds(g) = Holds(q) \cup {m}
      BY <1>3, <1>4, <3>2
    <3> QED
      BY <1>1, <1>2, <1>3, <1>5, <1>7, <2>1, <3>6, <3>7 DEF m
  <2>3. CASE g.left = {}
    <3> DEFINE h == GoesOn(g)
    <3>1. p = h
      BY <2>3
    <3>2. /\ h.pc = Head(q.plan) /\ h.plan = Tail(q.plan) /\ h.left = q.set /\ h.bio = q.bio
          /\ h.set = q.set /\ h.acked = {} /\ ~h.wgen /\ h.res = "none"
          /\ (Head(q.plan) \in Places /\ Tail(q.plan) \in Plans => h \in Request)
      BY <2>1, GoesOnFields
    <3> HIDE DEF h, p
    <3>3. /\ h \in Request /\ OnPlan(h) /\ Holds(h) = q.set
          /\ h.pc \in {"build", "gate", "start"} /\ h.pc \in Stages /\ q.plan # <<>>
      <4>1. CASE q.plan = <<"start">>
        <5>2. h.pc = "start" /\ h.plan = <<>>
          BY <3>2, <4>1, Ahead
        <5>3. h \in Request
          BY <3>2, <5>2 DEF Places, Stages, Plans
        <5>4. OnPlan(h)
          BY <5>2 DEF OnPlan
        <5>5. Holds(h) = h.set
          BY <5>2, HoldsAt
        <5> QED
          BY <3>2, <4>1, <5>2, <5>3, <5>4, <5>5 DEF Stages
      <4>2. CASE q.plan = <<"gate", "start">>
        <5>2. h.pc = "gate" /\ h.plan = <<"start">>
          BY <3>2, <4>2, Ahead
        <5>3. h \in Request
          BY <3>2, <5>2 DEF Places, Stages, Plans
        <5>4. OnPlan(h)
          BY <5>2 DEF OnPlan
        <5>5. Holds(h) = h.set
          BY <5>2, HoldsAt
        <5> QED
          BY <3>2, <4>2, <5>2, <5>3, <5>4, <5>5 DEF Stages
      <4>3. CASE Fans(q.bio) /\ q.plan = <<"build", "start">>
        <5>2. h.pc = "build" /\ h.plan = <<"start">>
          BY <3>2, <4>3, Ahead
        <5>3. h \in Request
          BY <3>2, <5>2 DEF Places, Stages, Plans
        <5>4. OnPlan(h)
          BY <3>2, <4>3, <5>2 DEF OnPlan
        <5>5. Holds(h) = h.set
          BY <5>2, HoldsAt
        <5> QED
          BY <3>2, <4>3, <5>2, <5>3, <5>4, <5>5 DEF Stages
      <4>4. CASE Fans(q.bio) /\ q.plan = <<"build", "gate", "start">>
        <5>2. h.pc = "build" /\ h.plan = <<"gate", "start">>
          BY <3>2, <4>4, Ahead
        <5>3. h \in Request
          BY <3>2, <5>2 DEF Places, Stages, Plans
        <5>4. OnPlan(h)
          BY <3>2, <4>4, <5>2 DEF OnPlan
        <5>5. Holds(h) = h.set
          BY <5>2, HoldsAt
        <5> QED
          BY <3>2, <4>4, <5>2, <5>3, <5>4, <5>5 DEF Stages
      <4>5. \/ q.plan \in {<<"start">>, <<"gate", "start">>}
            \/ Fans(q.bio) /\ q.plan \in {<<"build", "start">>, <<"build", "gate", "start">>}
        BY <1>1 DEF OnPlan
      <4> QED
        BY <4>1, <4>2, <4>3, <4>4, <4>5
    <3>4. InPlace(h) /\ Covers(h)
      BY <1>2, <2>1, <3>3, GoesOnInPlace DEF h
    <3>5. Moves(r) /\ rq'[r] = h
      BY <1>7, <3>1, <3>3, <3>4, MovesTo
    <3>6. m \notin Holds(q) /\ Holds(h) = Holds(q) \cup {m}
      BY <1>2, <1>3, <1>4, <2>1, <2>3, <3>3
    <3> QED
      BY <1>1, <1>2, <1>3, <1>5, <1>7, <3>2, <3>3, <3>5, <3>6 DEF m
  <2> QED
    BY <2>2, <2>3
<1> QED
  BY <1>5, <1>6, <1>7

\* A request that gives back has the slots below what is left.
LEMMA GivingBack ==
  ASSUME Sound, NEW r \in Requests, rq[r].pc = "back"
  PROVE  /\ rq[r] \in Request /\ rq[r].bio # None /\ rq[r].bio \in Bios /\ rq[r].set # {}
         /\ rq[r].acked = {} /\ rq[r].errs = {} /\ rq[r].starts = 0 /\ rq[r].res = "none"
         /\ rq[r].pc \notin Begins /\ ~rq[r].wgen /\ rq[r].set \subseteq present
         /\ rq[r].left \subseteq rq[r].set /\ rq[r].set \in SUBSET Slots
<1>1. rq[r] \in Request /\ InPlace(rq[r]) /\ Covers(rq[r])
  BY Known
<1>2. rq[r].pc \notin Begins /\ rq[r].pc # "idle" /\ rq[r].pc \in Stages \cup {"submit", "back"}
  BY DEF Begins
<1>3. /\ rq[r].bio # None /\ rq[r].bio \in Bios /\ rq[r].set # {}
      /\ rq[r].acked = {} /\ rq[r].errs = {} /\ rq[r].starts = 0 /\ rq[r].res = "none"
      /\ rq[r].left \subseteq rq[r].set
  BY <1>1, <1>2 DEF InPlace
<1>4. ~rq[r].wgen
  BY <1>1, <1>2 DEF InPlace, Begins
<1>5. rq[r].set \subseteq present
  BY <1>1, <1>2 DEF Covers
<1> QED
  BY <1>1, <1>2, <1>3, <1>4, <1>5 DEF Request

\* One slot is given back.
LEMMA GiveBackDoes ==
  ASSUME Sound, NEW r \in Requests, GiveBack(r)
  PROVE  /\ Moves(r) /\ rq[r].pc = "back" /\ rq'[r].pc = "back" /\ rq'[r].why = rq[r].why
         /\ ~rq[r].wgen /\ ~rq'[r].wgen /\ rq'[r].res = "none" /\ UNCHANGED hctx
         /\ \E m \in Slots :
              /\ m \in Holds(rq[r]) /\ Holds(rq'[r]) = Holds(rq[r]) \ {m}
              /\ used' = [used EXCEPT ![m] = IF @ >= 1 THEN @ - 1 ELSE 0]
<1> DEFINE q == rq[r]
           m == Max(Reserved(q))
           g == [q EXCEPT !.left = @ \cup {m}]
<1>1. /\ q \in Request /\ q.bio # None /\ q.bio \in Bios /\ q.set # {}
      /\ q.acked = {} /\ q.errs = {} /\ q.starts = 0 /\ q.res = "none"
      /\ q.pc \notin Begins /\ ~q.wgen /\ q.set \subseteq present
      /\ q.left \subseteq q.set /\ q.set \in SUBSET Slots /\ q.pc = "back"
  BY GivingBack DEF GiveBack
<1>2. m \in q.set \ q.left /\ m \in Slots
  <2>1. q.set \ q.left # {}
    BY DEF GiveBack, Reserved
  <2>2. Slots \subseteq SlotNumbers
    BY Columns DEF Sound, Typed
  <2>3. m \in q.set \ q.left
    BY <1>1, <2>1, <2>2, SlotNumbersOrdered DEF Reserved
  <2> QED
    BY <1>1, <2>3
<1>3. /\ rq' = [rq EXCEPT ![r] = g] /\ UNCHANGED hctx
      /\ used' = [used EXCEPT ![m] = IF @ >= 1 THEN @ - 1 ELSE 0]
  BY DEF GiveBack
<1> HIDE DEF m
<1>4. /\ g \in Request /\ g.pc = "back" /\ g.bio = q.bio /\ g.set = q.set
      /\ g.left = q.left \cup {m} /\ g.acked = {} /\ g.errs = {} /\ ~g.wgen
      /\ g.starts = 0 /\ g.res = "none" /\ g.why = q.why
  BY <1>1, <1>2 DEF Request
<1> HIDE DEF g
<1>5. OnPlan(g) /\ InPlace(g) /\ Covers(g)
  BY <1>1, <1>2, <1>4, BackIsOk
<1>6. Moves(r) /\ rq'[r] = g
  BY <1>3, <1>4, <1>5, MovesTo
<1>7. Holds(q) = q.set \ q.left /\ Holds(g) = g.set \ g.left
  BY <1>1, <1>4, HoldsAt
<1>8. m \in Holds(q) /\ Holds(g) = Holds(q) \ {m}
  BY <1>2, <1>4, <1>7
<1> QED
  BY <1>1, <1>2, <1>3, <1>4, <1>6, <1>8

\* With nothing left to give back the request is ended, or is blk-mq's again.
LEMMA HandBackDoes ==
  ASSUME Sound, NEW r \in Requests, HandBack(r)
  PROVE  /\ Moves(r) /\ rq[r].pc = "back" /\ Holds(rq'[r]) = Holds(rq[r])
         /\ ~rq[r].wgen /\ ~rq'[r].wgen /\ rq'[r].why = rq[r].why
         /\ \/ rq'[r].pc = "sent" /\ rq'[r].res = "err" /\ hctx' = Freed(Took(hctx, r))
            \/ rq'[r].pc = "parked" /\ rq'[r].res = "none" /\ hctx' = HandedBack(hctx, r)
<1> DEFINE q == rq[r]
           g == [q EXCEPT !.pc = "parked", !.maps = {}, !.plan = <<>>, !.set = {}, !.left = {}]
<1>1. /\ q \in Request /\ q.bio # None /\ q.bio \in Bios /\ q.set # {}
      /\ q.acked = {} /\ q.errs = {} /\ q.starts = 0 /\ q.res = "none"
      /\ q.pc \notin Begins /\ ~q.wgen /\ q.pc = "back"
  BY GivingBack DEF HandBack
<1>2. Holds(q) = {}
  BY DEF HandBack, Holds
<1>3. \/ rq' = [rq EXCEPT ![r] = Rejected(q)] /\ hctx' = Freed(Took(hctx, r))
      \/ rq' = [rq EXCEPT ![r] = g] /\ hctx' = HandedBack(hctx, r)
  BY DEF HandBack
<1>4. CASE rq' = [rq EXCEPT ![r] = Rejected(q)] /\ hctx' = Freed(Took(hctx, r))
  <2>1. /\ Moves(r) /\ rq'[r].pc = "sent" /\ rq'[r].set = {} /\ ~rq'[r].wgen
        /\ rq'[r].res = "err"
    BY <1>1, <1>4, RejectedEnds
  <2>2. Holds(rq'[r]) = rq'[r].set \ rq'[r].acked
    BY <2>1, HoldsAt
  <2>3. rq'[r] = Rejected(q)
    BY <1>4 DEF Sound, Typed
  <2>4. rq'[r].why = q.why
    BY <1>1, <2>3, RejectedFields
  <2> QED
    BY <1>1, <1>2, <1>4, <2>1, <2>2, <2>4
<1>5. CASE rq' = [rq EXCEPT ![r] = g] /\ hctx' = HandedBack(hctx, r)
  <2>1. /\ g \in Request /\ g.pc = "parked" /\ g.bio = q.bio /\ g.set = {} /\ g.left = {}
        /\ g.maps = {} /\ g.acked = {} /\ g.errs = {} /\ ~g.wgen /\ g.starts = 0
        /\ g.res = "none" /\ g.why = q.why
    BY <1>1 DEF Request, Places, Plans
  <2> HIDE DEF g
  <2>2. OnPlan(g) /\ InPlace(g) /\ Covers(g)
    BY <1>1, <2>1, EarlyIsOk
  <2>3. Moves(r) /\ rq'[r] = g
    BY <1>5, <2>1, <2>2, MovesTo
  <2>4. Holds(g) = {}
    BY <2>1, HoldsAt
  <2> QED
    BY <1>1, <1>2, <1>5, <2>1, <2>3, <2>4
<1> QED
  BY <1>3, <1>4, <1>5

\* The gate counts the request, or turns it away.
LEMMA GateDoes ==
  ASSUME Sound, NEW r \in Requests, Gate(r)
  PROVE  /\ Moves(r) /\ rq[r].pc = "gate" /\ Holds(rq'[r]) = Holds(rq[r])
         /\ ~rq[r].wgen /\ rq'[r].res = "none" /\ UNCHANGED hctx
         /\ \/ /\ rq'[r].pc = "back" /\ rq'[r].why = "window" /\ ~rq'[r].wgen
               /\ UNCHANGED counted
            \/ rq'[r].pc = "start" /\ rq'[r].wgen /\ counted' = counted + 1
<1> DEFINE q == rq[r]
           f == [q EXCEPT !.pc = "back", !.why = "window", !.left = {}]
           g == [q EXCEPT !.wgen = TRUE]
           p == GoesOn(g)
<1>1. q \in Request /\ OnPlan(q) /\ InPlace(q) /\ q.pc = "gate" /\ q.pc \in Stages
  BY Known DEF Gate, Stages
<1>2. /\ q.bio # None /\ q.bio \in Bios /\ q.set # {}
      /\ q.acked = {} /\ q.errs = {} /\ q.starts = 0 /\ q.res = "none"
      /\ q.pc \notin Begins /\ ~q.wgen /\ q.set \subseteq present
      /\ q.bio.op = "write" => Touched(q.bio) \cap wmask \subseteq q.set
      /\ q.bio.op = "flush" => wmask \subseteq q.set
  BY <1>1, Staged
<1>3. q.plan = <<"start">> /\ Holds(q) = q.set
  BY <1>1, HoldsAt DEF OnPlan
<1>4. /\ UNCHANGED hctx
      /\ \/ rq' = [rq EXCEPT ![r] = f] /\ UNCHANGED counted
         \/ rq' = [rq EXCEPT ![r] = p] /\ counted' = counted + 1
  BY DEF Gate
<1>5. CASE rq' = [rq EXCEPT ![r] = f] /\ UNCHANGED counted
  <2>1. /\ f \in Request /\ f.pc = "back" /\ f.why = "window" /\ f.left = {}
        /\ f.bio = q.bio /\ f.set = q.set /\ f.acked = {} /\ f.errs = {} /\ ~f.wgen
        /\ f.starts = 0 /\ f.res = "none"
    BY <1>1, <1>2 DEF Request, Places
  <2> HIDE DEF f
  <2>2. OnPlan(f) /\ InPlace(f) /\ Covers(f)
    BY <1>2, <2>1, BackIsOk
  <2>3. Moves(r) /\ rq'[r] = f
    BY <1>5, <2>1, <2>2, MovesTo
  <2>4. Holds(f) = f.set \ f.left
    BY <2>1, HoldsAt
  <2> QED
    BY <1>1, <1>2, <1>3, <1>4, <1>5, <2>1, <2>3, <2>4
<1>6. CASE rq' = [rq EXCEPT ![r] = p] /\ counted' = counted + 1
  <2>1. /\ g \in Request /\ g.plan = q.plan /\ g.bio = q.bio /\ g.set = q.set
        /\ g.acked = {} /\ g.errs = {} /\ g.starts = 0 /\ g.res = "none" /\ g.wgen
    BY <1>1, <1>2 DEF Request
  <2> HIDE DEF g
  <2>2. /\ p.pc = Head(q.plan) /\ p.plan = Tail(q.plan) /\ p.left = q.set /\ p.bio = q.bio
        /\ p.set = q.set /\ p.acked = {} /\ p.wgen /\ p.res = "none"
        /\ (Head(q.plan) \in Places /\ Tail(q.plan) \in Plans => p \in Request)
    BY <2>1, GoesOnFields
  <2> HIDE DEF p
  <2>3. p.pc = "start" /\ p.plan = <<>>
    BY <1>3, <2>2, Ahead
  <2>4. p \in Request /\ p.pc \in Stages
    BY <1>3, <2>2, <2>3 DEF Places, Stages, Plans
  <2>5. OnPlan(p)
    BY <2>3 DEF OnPlan
  <2>6. Holds(p) = p.set
    BY <2>3, HoldsAt
  <2>7. InPlace(p) /\ Covers(p)
    BY <1>2, <1>3, <2>1, <2>3, <2>4, GoesOnInPlace DEF p
  <2>8. Moves(r) /\ rq'[r] = p
    BY <1>6, <2>4, <2>5, <2>7, MovesTo
  <2> QED
    BY <1>1, <1>2, <1>3, <1>4, <1>6, <2>2, <2>3, <2>6, <2>8
<1> QED
  BY <1>4, <1>5, <1>6

\* A request is started.
LEMMA StartDoes ==
  ASSUME Sound, NEW r \in Requests, Start(r)
  PROVE  /\ Moves(r) /\ rq[r].pc = "start" /\ rq'[r].pc = "submit"
         /\ Holds(rq'[r]) = Holds(rq[r]) /\ rq'[r].wgen = rq[r].wgen
         /\ rq'[r].res = "none" /\ UNCHANGED hctx
<1> DEFINE q == rq[r]
           g == [q EXCEPT !.pc = "submit", !.starts = @ + 1, !.left = q.set]
<1>1. q \in Request /\ OnPlan(q) /\ q.pc = "start" /\ q.pc \in Stages
  BY Known DEF Start, Stages
<1>2. /\ q.bio # None /\ q.bio \in Bios /\ q.set # {}
      /\ q.acked = {} /\ q.errs = {} /\ q.starts = 0 /\ q.res = "none"
      /\ q.set \subseteq present
      /\ q.bio.op = "write" => Touched(q.bio) \cap wmask \subseteq q.set
      /\ q.bio.op = "flush" => wmask \subseteq q.set
  BY <1>1, Staged
<1>3. q.plan = <<>> /\ Holds(q) = q.set
  BY <1>1, HoldsAt DEF OnPlan
<1>4. rq' = [rq EXCEPT ![r] = g] /\ UNCHANGED hctx
  BY DEF Start
<1>a. g = [q EXCEPT !.pc = "submit", !.starts = 1, !.left = q.set]
  <2>1. q.starts + 1 = 1
    BY <1>2
  <2> QED
    BY <2>1
<1> HIDE DEF g
<1>5. /\ g \in Request /\ g.pc = "submit" /\ g.bio = q.bio /\ g.set = q.set /\ g.left = q.set
      /\ g.acked = {} /\ g.errs = {} /\ g.wgen = q.wgen /\ g.starts = 1 /\ g.res = "none"
  BY <1>1, <1>2, <1>a DEF Request, Places
<1>6. OnPlan(g)
  BY <1>5 DEF OnPlan
<1>7. InPlace(g)
  BY <1>2, <1>5 DEF InPlace, Early, Begins, Stages
<1>8. Covers(g)
  BY <1>2, <1>5 DEF Covers
<1>9. Moves(r) /\ rq'[r] = g
  BY <1>4, <1>5, <1>6, <1>7, <1>8, MovesTo
<1>10. Holds(g) = g.set \ g.acked
  BY <1>5, HoldsAt
<1> QED
  BY <1>1, <1>3, <1>4, <1>5, <1>9, <1>10

\* What a request that was started has.
LEMMA Started ==
  ASSUME Sound, NEW r \in Requests, rq[r].pc \in Begins
  PROVE  /\ rq[r] \in Request /\ rq[r].bio # None /\ rq[r].bio \in Bios /\ rq[r].starts = 1
         /\ rq[r].left \subseteq rq[r].set /\ rq[r].acked \subseteq rq[r].set
         /\ rq[r].errs \subseteq rq[r].acked /\ (rq[r].wgen => rq[r].res = "none")
         /\ (rq[r].pc = "submit" => rq[r].set # {} /\ rq[r].left # {} /\ rq[r].set \subseteq present)
         /\ rq[r].res # "err" =>
              /\ rq[r].bio.op = "write" => Touched(rq[r].bio) \cap wmask \subseteq rq[r].set
              /\ rq[r].bio.op = "flush" => wmask \subseteq rq[r].set
         /\ rq[r].set \in SUBSET Slots /\ Holds(rq[r]) = rq[r].set \ rq[r].acked
<1>1. rq[r] \in Request /\ InPlace(rq[r]) /\ Covers(rq[r])
  BY Known
<1>2. rq[r].pc \in {"submit", "sent"} /\ rq[r].pc # "idle"
  BY DEF Begins
<1>3. /\ rq[r].bio # None /\ rq[r].bio \in Bios /\ rq[r].starts = 1
      /\ rq[r].left \subseteq rq[r].set /\ rq[r].acked \subseteq rq[r].set
      /\ rq[r].errs \subseteq rq[r].acked /\ (rq[r].wgen => rq[r].res = "none")
      /\ (rq[r].pc = "submit" => rq[r].set # {} /\ rq[r].left # {})
  BY <1>1, <1>2 DEF InPlace
<1>4. /\ (rq[r].pc = "submit" => rq[r].set \subseteq present)
      /\ rq[r].res # "err" =>
           /\ rq[r].bio.op = "write" => Touched(rq[r].bio) \cap wmask \subseteq rq[r].set
           /\ rq[r].bio.op = "flush" => wmask \subseteq rq[r].set
  BY <1>1, <1>2 DEF Covers
<1>5. Holds(rq[r]) = rq[r].set \ rq[r].acked
  BY <1>2, HoldsAt
<1>6. rq[r].set \in SUBSET Slots
  BY <1>1 DEF Request
<1> QED
  BY <1>1, <1>3, <1>4, <1>5, <1>6

\* One command is sent; the request may have been answered for meanwhile.
LEMMA SubmitDoes ==
  ASSUME Sound, NEW r \in Requests, Submit(r)
  PROVE  /\ Moves(r) /\ rq[r].pc = "submit" /\ rq'[r].pc \in Begins
         /\ Holds(rq'[r]) = Holds(rq[r]) /\ rq'[r].wgen = rq[r].wgen
         /\ rq'[r].bio = rq[r].bio /\ rq'[r].acked = rq[r].acked /\ rq'[r].errs = rq[r].errs
         /\ rq'[r].owe = rq[r].owe /\ rq'[r].res = rq[r].res
         /\ UNCHANGED hctx \/ hctx' = Took(hctx, r)
<1> DEFINE q == rq[r]
           u == q.left \ {Min(q.left)}
           c == IF u = {} THEN "sent" ELSE q.pc
           g == [q EXCEPT !.left = u, !.pc = c]
<1>1. /\ q.pc = "submit" /\ q.pc \in Begins /\ InPlace(q) /\ Covers(q)
  BY Known DEF Submit, Begins
<1>2. /\ q \in Request /\ q.bio # None /\ q.bio \in Bios /\ q.starts = 1
      /\ q.left \subseteq q.set /\ q.acked \subseteq q.set
      /\ q.errs \subseteq q.acked /\ (q.wgen => q.res = "none")
      /\ q.set # {} /\ q.set \subseteq present
      /\ q.res # "err" =>
           /\ q.bio.op = "write" => Touched(q.bio) \cap wmask \subseteq q.set
           /\ q.bio.op = "flush" => wmask \subseteq q.set
      /\ q.set \in SUBSET Slots /\ Holds(q) = q.set \ q.acked
  BY <1>1, Started
<1>3. rq' = [rq EXCEPT ![r] = g] /\ (UNCHANGED hctx \/ hctx' = Took(hctx, r))
  BY DEF Submit
<1>4. /\ u \subseteq q.set /\ c \in {"submit", "sent"} /\ (c = "submit" => u # {})
  BY <1>1, <1>2
<1> HIDE DEF u, c
<1>5. /\ g \in Request /\ g.pc = c /\ g.bio = q.bio /\ g.set = q.set /\ g.left = u
      /\ g.acked = q.acked /\ g.errs = q.errs /\ g.wgen = q.wgen /\ g.starts = 1
      /\ g.res = q.res /\ g.maps = q.maps /\ g.owe = q.owe
  BY <1>2, <1>4 DEF Request, Places
<1> HIDE DEF g
<1>6. OnPlan(g)
  BY <1>4, <1>5 DEF OnPlan
<1>7. InPlace(g)
  BY <1>1, <1>2, <1>4, <1>5 DEF InPlace, Early, Begins, Stages
<1>8. Covers(g)
  BY <1>2, <1>4, <1>5 DEF Covers
<1>9. Moves(r) /\ rq'[r] = g
  BY <1>3, <1>5, <1>6, <1>7, <1>8, MovesTo
<1>10. Holds(g) = g.set \ g.acked
  BY <1>4, <1>5, HoldsAt
<1> QED
  BY <1>1, <1>2, <1>3, <1>4, <1>5, <1>9, <1>10 DEF Begins

\* One member has answered, or been answered for; the last one ends the request.
\* What ended well has an answer of every member, a good one of each that
\* still takes writes.
LEMMA AnsweredDoes ==
  ASSUME Sound, NEW r \in Requests, NEW m \in Members, NEW ok \in BOOLEAN,
         Owes(r, m), Answered(r, m, ok)
  PROVE  /\ Moves(r) /\ rq[r].pc \in Begins /\ rq'[r].pc = rq[r].pc
         /\ rq[r].res = "none" /\ rq'[r].bio = rq[r].bio
         /\ m \in Holds(rq[r]) /\ Holds(rq'[r]) = Holds(rq[r]) \ {m}
         /\ wmask' \subseteq wmask /\ live' \subseteq wmask'
         /\ \/ rq'[r].res = "none" /\ rq'[r].wgen = rq[r].wgen /\ UNCHANGED <<counted, hctx>>
            \/ /\ rq'[r].res # "none" /\ hctx' = Freed(hctx) /\ ~rq'[r].wgen
               /\ counted' = IF rq[r].wgen THEN counted - 1 ELSE counted
         /\ rq'[r].res = "ok" =>
              /\ wmask' \cap rq'[r].errs = {}
              /\ rq'[r].bio.op = "write" => Touched(rq'[r].bio) \cap wmask \subseteq rq'[r].acked
              /\ rq'[r].bio.op = "flush" => wmask \subseteq rq'[r].acked
<1> DEFINE q == rq[r]
           e == IF ok THEN q.errs ELSE q.errs \cup {m}
           g == [q EXCEPT !.acked = q.acked \cup {m}, !.errs = e]
           gone == IF vol.level = "raid0" THEN {} ELSE g.errs
           v == IF Lost(g) THEN "err" ELSE "ok"
           h == [g EXCEPT !.res = v, !.maps = {}, !.wgen = FALSE]
<1>1. /\ q.pc \in Begins /\ InPlace(q) /\ Covers(q) /\ q.res = "none"
      /\ m \in q.set \ q.acked
  <2>1. InPlace(q) /\ Covers(q) /\ q.starts = 1 /\ q.res = "none" /\ m \in q.set \ q.acked
    BY Known DEF Owes, Begun
  <2>2. q.pc \in Begins
    BY <2>1 DEF InPlace
  <2> QED
    BY <2>1, <2>2
<1>2. /\ q \in Request /\ q.bio # None /\ q.bio \in Bios /\ q.starts = 1
      /\ q.left \subseteq q.set /\ q.acked \subseteq q.set /\ q.errs \subseteq q.acked
      /\ (q.pc = "submit" => q.set # {} /\ q.left # {} /\ q.set \subseteq present)
      /\ q.bio.op = "write" => Touched(q.bio) \cap wmask \subseteq q.set
      /\ q.bio.op = "flush" => wmask \subseteq q.set
      /\ q.set \in SUBSET Slots /\ Holds(q) = q.set \ q.acked
  BY <1>1, Started
<1>3. \/ /\ rq' = [rq EXCEPT ![r] = g] /\ UNCHANGED <<live, wmask, counted, hctx>>
      \/ /\ rq' = [rq EXCEPT ![r] = h] /\ g.acked = g.set
         /\ live' = live \ gone /\ wmask' = wmask \ gone /\ hctx' = Freed(hctx)
         /\ counted' = IF g.wgen THEN counted - 1 ELSE counted
  <2>1. CASE g.acked # g.set
    BY <2>1 DEF Answered
  <2>2. CASE g.acked = g.set
    <3>1. rq' = [rq EXCEPT ![r] = h]
      BY <2>2 DEF Answered
    <3>2. live' = live \ gone /\ wmask' = wmask \ gone /\ hctx' = Freed(hctx)
      BY <2>2 DEF Answered
    <3>3. counted' = IF g.wgen THEN counted - 1 ELSE counted
      BY <2>2 DEF Answered
    <3> QED
      BY <2>2, <3>1, <3>2, <3>3
  <2> QED
    BY <2>1, <2>2
<1>4. live \subseteq wmask
  BY DEF Sound, Typed
<1>5. e \subseteq q.acked \cup {m} /\ e \in SUBSET Slots
  BY <1>1, <1>2
<1> HIDE DEF e
<1>6. /\ g \in Request /\ g.pc = q.pc /\ g.bio = q.bio /\ g.set = q.set /\ g.left = q.left
      /\ g.acked = q.acked \cup {m} /\ g.errs = e /\ g.wgen = q.wgen /\ g.starts = 1
      /\ g.res = "none" /\ g.maps = q.maps /\ g.plan = q.plan
  BY <1>1, <1>2, <1>5 DEF Request
<1> HIDE DEF g
<1>7. CASE rq' = [rq EXCEPT ![r] = g] /\ UNCHANGED <<live, wmask, counted, hctx>>
  <2>1. OnPlan(g)
    BY <1>1, <1>6 DEF OnPlan, Begins
  <2>2. InPlace(g)
    BY <1>1, <1>2, <1>5, <1>6 DEF InPlace, Early, Begins, Stages
  <2>3. Covers(g)
    BY <1>1, <1>6 DEF Covers
  <2>4. Moves(r) /\ rq'[r] = g
    BY <1>6, <1>7, <2>1, <2>2, <2>3, MovesTo
  <2>5. Holds(g) = g.set \ g.acked
    BY <1>1, <1>6, HoldsAt DEF Begins
  <2> QED
    BY <1>1, <1>2, <1>4, <1>6, <1>7, <2>4, <2>5
<1>8. CASE /\ rq' = [rq EXCEPT ![r] = h] /\ g.acked = g.set
           /\ live' = live \ gone /\ wmask' = wmask \ gone /\ hctx' = Freed(hctx)
           /\ counted' = IF g.wgen THEN counted - 1 ELSE counted
  <2>1. v \in {"err", "ok"} /\ (v = "ok" => wmask' \cap e = {})
    <3>1. CASE vol.level = "raid0"
      <4>1. Lost(g) <=> g.errs # {}
        BY <3>1 DEF Lost
      <4> QED
        BY <1>6, <4>1
    <3>2. CASE vol.level # "raid0"
      BY <1>6, <1>8, <3>2
    <3> QED
      BY <3>1, <3>2
  <2>a. wmask' \subseteq wmask /\ live' \subseteq wmask'
    BY <1>4, <1>8
  <2> HIDE DEF v
  <2>2. /\ h \in Request /\ h.pc = q.pc /\ h.bio = q.bio /\ h.set = q.set /\ h.left = q.left
        /\ h.acked = q.set /\ h.errs = e /\ ~h.wgen /\ h.starts = 1
        /\ h.res = v /\ h.maps = {} /\ h.plan = q.plan
    BY <1>6, <1>8, <2>1 DEF Request
  <2> HIDE DEF h
  <2>3. OnPlan(h)
    BY <1>1, <2>2 DEF OnPlan, Begins
  <2>4. InPlace(h)
    BY <1>1, <1>2, <1>5, <1>6, <1>8, <2>1, <2>2 DEF InPlace, Early, Begins, Stages
  <2>5. Covers(h)
    BY <1>1, <2>2 DEF Covers
  <2>6. Moves(r) /\ rq'[r] = h
    BY <1>8, <2>2, <2>3, <2>4, <2>5, MovesTo
  <2>7. Holds(h) = h.set \ h.acked
    BY <1>1, <2>2, HoldsAt DEF Begins
  <2>8. Holds(h) = Holds(q) \ {m} /\ m \in Holds(q)
    BY <1>1, <1>2, <1>6, <1>8, <2>2, <2>7
  <2>9. /\ h.res = "ok" =>
           /\ wmask' \cap h.errs = {}
           /\ h.bio.op = "write" => Touched(h.bio) \cap wmask \subseteq h.acked
           /\ h.bio.op = "flush" => wmask \subseteq h.acked
    BY <1>2, <2>1, <2>2
  <2>10. /\ rq'[r].res = "ok" =>
             /\ wmask' \cap rq'[r].errs = {}
             /\ rq'[r].bio.op = "write" => Touched(rq'[r].bio) \cap wmask \subseteq rq'[r].acked
             /\ rq'[r].bio.op = "flush" => wmask \subseteq rq'[r].acked
    BY <2>6, <2>9
  <2>11. /\ rq'[r].res # "none" /\ hctx' = Freed(hctx) /\ ~rq'[r].wgen
         /\ counted' = IF q.wgen THEN counted - 1 ELSE counted
    <3>1. rq'[r].res # "none" /\ hctx' = Freed(hctx)
      BY <1>8, <2>1, <2>2, <2>6
    <3>2. ~rq'[r].wgen
      BY <2>2, <2>6
    <3>3. counted' = IF q.wgen THEN counted - 1 ELSE counted
      BY <1>6, <1>8
    <3> QED
      BY <3>1, <3>2, <3>3
  <2>12. rq'[r].pc = q.pc /\ rq'[r].bio = q.bio
    BY <2>2, <2>6
  <2> QED
    BY <1>1, <2>a, <2>6, <2>8, <2>10, <2>11, <2>12
<1> QED
  BY <1>3, <1>7, <1>8

\* The queue finds its list empty, or tries the head of it again.
LEMMA RunQueueDoes ==
  ASSUME Sound, Held, RunQueue
  PROVE  \/ hctx.list = <<>> /\ UNCHANGED rq /\ hctx' = [hctx EXCEPT !.run = FALSE]
         \/ \E r \in Requests :
              /\ hctx.list # <<>> /\ r = Head(hctx.list)
              /\ hctx' = [list |-> Tail(hctx.list), run |-> FALSE, restart |-> TRUE]
              /\ Moves(r) /\ rq[r].pc = "parked" /\ rq'[r].pc = "check"
              /\ Holds(rq'[r]) = Holds(rq[r]) /\ rq'[r].wgen = rq[r].wgen
              /\ rq'[r].res = "none"
<1>1. CASE hctx.list = <<>>
  BY <1>1 DEF RunQueue
<1>2. CASE hctx.list # <<>>
  <2> DEFINE r == Head(hctx.list)
             q == rq[r]
             g == [q EXCEPT !.pc = "check", !.ran = TRUE]
  <2>1. hctx.list \in Seq(Requests)
    BY DEF Sound, Typed
  <2>2. r \in Requests /\ r = hctx.list[1] /\ 1 \in DOMAIN hctx.list
    BY <1>2, <2>1
  <2>3. q.pc = "parked"
    BY <2>2 DEF Held
  <2>4. /\ rq' = [rq EXCEPT ![r] = g]
        /\ hctx' = [list |-> Tail(hctx.list), run |-> FALSE, restart |-> TRUE]
    BY <1>2 DEF RunQueue
  <2> HIDE DEF r
  <2>5. q \in Request /\ InPlace(q)
    BY <2>2, Known
  <2>6. /\ q.bio # None /\ q.bio \in Bios /\ q.set = {} /\ q.left = {} /\ q.maps = {}
        /\ q.acked = {} /\ q.errs = {} /\ q.starts = 0 /\ q.res = "none" /\ ~q.wgen
    BY <2>3, <2>5 DEF InPlace, Early, Begins
  <2>7. /\ g \in Request /\ g.pc = "check" /\ g.bio = q.bio /\ g.set = {} /\ g.left = {}
        /\ g.maps = {} /\ g.acked = {} /\ g.errs = {} /\ g.starts = 0 /\ g.res = "none"
        /\ ~g.wgen
    BY <2>5, <2>6 DEF Request, Places
  <2> HIDE DEF g
  <2>8. OnPlan(g) /\ InPlace(g) /\ Covers(g)
    BY <2>6, <2>7, EarlyIsOk
  <2>9. Moves(r) /\ rq'[r] = g
    BY <2>2, <2>4, <2>7, <2>8, MovesTo
  <2>10. Holds(g) = {} /\ Holds(q) = {}
    BY <2>3, <2>7, HoldsAt
  <2>11. /\ hctx.list # <<>> /\ r = Head(hctx.list)
         /\ hctx' = [list |-> Tail(hctx.list), run |-> FALSE, restart |-> TRUE]
    BY <1>2, <2>4 DEF r
  <2>12. /\ Moves(r) /\ rq[r].pc = "parked" /\ rq'[r].pc = "check"
         /\ Holds(rq'[r]) = Holds(rq[r]) /\ rq'[r].res = "none"
    BY <2>3, <2>7, <2>9, <2>10
  <2>13. rq'[r].wgen = rq[r].wgen
    <3>1. rq'[r].wgen \in BOOLEAN /\ rq[r].wgen \in BOOLEAN
      BY <2>5, <2>7, <2>9 DEF Request
    <3> QED
      BY <2>6, <2>7, <2>9, <3>1
  <2> QED
    BY <2>2, <2>11, <2>12, <2>13
<1> QED
  BY <1>1, <1>2

-----------------------------------------------------------------------------
(* Each part of the invariant.                                              *)

\* Every request is where its path has it.
InOrder ==
  /\ rq' \in [Requests -> Request]
  /\ \A s \in Requests : OnPlan(rq'[s]) /\ InPlace(rq'[s]) /\ Covers(rq'[s])

\* The queue has the shape of one.
Queue == [list : Seq(Requests), run : BOOLEAN, restart : BOOLEAN]

\* One request moves, or none.
LEMMA InOrderMoves ==
  ASSUME Sound, (\E r \in Requests : Moves(r)) \/ UNCHANGED rq
  PROVE  InOrder
<1>1. CASE UNCHANGED rq
  BY <1>1 DEF Sound, Typed, InOrder
<1>2. CASE \E r \in Requests : Moves(r)
  <2>1. PICK r \in Requests : Moves(r)
    BY <1>2
  <2>2. ASSUME NEW s \in Requests
        PROVE  OnPlan(rq'[s]) /\ InPlace(rq'[s]) /\ Covers(rq'[s])
    <3>1. CASE s = r
      BY <2>1, <3>1 DEF Moves
    <3>2. CASE s # r
      <4>1. rq'[s] = rq[s]
        BY <2>1, <3>2 DEF Moves
      <4> QED
        BY <4>1, Known
    <3> QED
      BY <3>1, <3>2
  <2> QED
    BY <2>1, <2>2 DEF InOrder, Moves
<1> QED
  BY <1>1, <1>2

\* The types, the masks and every request's place are kept when masks only
\* narrow and no member leaves.
LEMMA SoundKept ==
  ASSUME Sound, InOrder, UNCHANGED <<vol, present>>, wmask' \subseteq wmask,
         live' \subseteq wmask', used' \in [Slots -> Int], inner' \in [Slots -> Nat],
         lost' \in [Slots -> Nat], counted' \in Int, hctx' \in Queue, Staying'
  PROVE  Sound'
<1>1. Typed'
  <2>1. /\ vol \in Volumes /\ present \in SUBSET Slots /\ wmask \in SUBSET present
    BY DEF Sound, Typed
  <2>2. rq' \in [Requests -> Request]
    BY DEF InOrder
  <2> QED
    BY <2>1, <2>2 DEF Typed, Queue
<1>2. ASSUME NEW s \in Requests
      PROVE  (OnPlan(rq[s]) /\ InPlace(rq[s]) /\ Covers(rq[s]))'
  <2>1. OnPlan(rq'[s]) /\ InPlace(rq'[s]) /\ Covers(rq'[s])
    BY DEF InOrder
  <2>2. OnPlan(rq[s])'
    BY <2>1, OnPlanStays
  <2>3. InPlace(rq[s])'
    BY <2>1, InPlaceStays
  <2>4. Covers(rq[s])'
    BY <2>1, CoversStays
  <2> QED
    BY <2>2, <2>3, <2>4
<1> QED
  BY <1>1, <1>2 DEF Sound

\* What a member that leaves none of its own is asked of the masks.
LEMMA StayingKept ==
  ASSUME Staying, UNCHANGED <<vol, present, leaving>>, wmask' \subseteq wmask
  PROVE  Staying'
<1>1. Members' = Members
  BY DEF Members
<1> QED
  BY <1>1 DEF Staying

\* The requests that hold a slot of m.
Holders(m) == {s \in Requests : m \in Holds(rq[s])}

\* When r takes a slot of m, or gives one back, its ring counts one more or less.
LEMMA HoldersMove ==
  ASSUME NEW r \in Requests, Moves(r), NEW n, rq \in [Requests -> Request]
  PROVE  /\ (n \in Holds(rq'[r]) <=> n \in Holds(rq[r])) => Holders(n)' = Holders(n)
         /\ n \in Holds(rq'[r]) /\ n \notin Holds(rq[r])
              => Cardinality(Holders(n)') = Cardinality(Holders(n)) + 1
         /\ n \notin Holds(rq'[r]) /\ n \in Holds(rq[r])
              => Cardinality(Holders(n)') = Cardinality(Holders(n)) - 1
         /\ Cardinality(Holders(n)) \in Nat /\ Cardinality(Holders(n)') \in Nat
<1> DEFINE A == Holders(n)
           B == {s \in Requests : n \in Holds(rq'[s])}
<1>1. Holders(n)' = B
  BY DEF Holders
<1>2. \A s \in Requests : s # r => (s \in A <=> s \in B)
  BY DEF Moves, Holders
<1>3. /\ (r \in A <=> n \in Holds(rq[r])) /\ (r \in B <=> n \in Holds(rq'[r]))
      /\ A \subseteq Requests /\ B \subseteq Requests
  BY DEF Holders
<1>4. IsFiniteSet(A) /\ IsFiniteSet(B) /\ Cardinality(A) \in Nat /\ Cardinality(B) \in Nat
  BY <1>3, FewRequests
<1> HIDE DEF A, B
<1>5. (n \in Holds(rq'[r]) <=> n \in Holds(rq[r])) => B = A
  BY <1>2, <1>3
<1>6. n \in Holds(rq'[r]) /\ n \notin Holds(rq[r]) => Cardinality(B) = Cardinality(A) + 1
  <2>1. n \in Holds(rq'[r]) /\ n \notin Holds(rq[r]) => B = A \cup {r} /\ r \notin A
    BY <1>2, <1>3
  <2> QED
    BY <1>4, <2>1, FS_AddElement
<1>7. n \notin Holds(rq'[r]) /\ n \in Holds(rq[r]) => Cardinality(B) = Cardinality(A) - 1
  <2>1. n \notin Holds(rq'[r]) /\ n \in Holds(rq[r]) => B = A \ {r} /\ r \in A
    BY <1>2, <1>3
  <2> QED
    BY <1>4, <2>1, FS_RemoveElement
<1> QED
  BY <1>1, <1>4, <1>5, <1>6, <1>7 DEF A

\* So with the requests that the gate counts.
LEMMA CountedMove ==
  ASSUME NEW r \in Requests, Moves(r), rq \in [Requests -> Request]
  PROVE  /\ (rq'[r].wgen <=> rq[r].wgen) => Counted' = Counted
         /\ rq'[r].wgen /\ ~rq[r].wgen => Cardinality(Counted') = Cardinality(Counted) + 1
         /\ ~rq'[r].wgen /\ rq[r].wgen => Cardinality(Counted') = Cardinality(Counted) - 1
         /\ Cardinality(Counted) \in Nat
<1> DEFINE A == Counted
           B == {s \in Requests : rq'[s].wgen}
<1>1. Counted' = B
  BY DEF Counted
<1>2. \A s \in Requests : s # r => (s \in A <=> s \in B)
  BY DEF Moves, Counted
<1>3. /\ (r \in A <=> rq[r].wgen) /\ (r \in B <=> rq'[r].wgen)
      /\ A \subseteq Requests /\ B \subseteq Requests
  BY DEF Counted
<1>4. IsFiniteSet(A) /\ IsFiniteSet(B) /\ Cardinality(A) \in Nat /\ Cardinality(B) \in Nat
  BY <1>3, FewRequests
<1> HIDE DEF A, B
<1>5. (rq'[r].wgen <=> rq[r].wgen) => B = A
  BY <1>2, <1>3
<1>6. rq'[r].wgen /\ ~rq[r].wgen => Cardinality(B) = Cardinality(A) + 1
  <2>1. rq'[r].wgen /\ ~rq[r].wgen => B = A \cup {r} /\ r \notin A
    BY <1>2, <1>3
  <2> QED
    BY <1>4, <2>1, FS_AddElement
<1>7. ~rq'[r].wgen /\ rq[r].wgen => Cardinality(B) = Cardinality(A) - 1
  <2>1. ~rq'[r].wgen /\ rq[r].wgen => B = A \ {r} /\ r \in A
    BY <1>2, <1>3
  <2> QED
    BY <1>4, <2>1, FS_RemoveElement
<1> QED
  BY <1>1, <1>4, <1>5, <1>6, <1>7 DEF A

\* A ring's count stays when nobody's slots change.
LEMMA SlotsKept ==
  ASSUME SlotsExact, Sound, UNCHANGED <<used, inner, lost>>,
         \/ UNCHANGED rq
         \/ \E r \in Requests : Moves(r) /\ Holds(rq'[r]) = Holds(rq[r])
  PROVE  SlotsExact'
<1>1. ASSUME NEW m \in Slots
      PROVE  Holders(m)' = Holders(m)
  <2>1. CASE UNCHANGED rq
    BY <2>1 DEF Holders
  <2>2. CASE \E r \in Requests : Moves(r) /\ Holds(rq'[r]) = Holds(rq[r])
    BY <2>2, HoldersMove DEF Sound, Typed
  <2> QED
    BY <2>1, <2>2
<1> QED
  BY <1>1 DEF SlotsExact, Holders

\* So does the sum of the gate's counts.
LEMMA CountKept ==
  ASSUME CountExact, Sound, UNCHANGED counted,
         \/ UNCHANGED rq
         \/ \E r \in Requests : Moves(r) /\ (rq'[r].wgen <=> rq[r].wgen)
  PROVE  CountExact'
<1>1. Counted' = Counted
  <2>1. CASE UNCHANGED rq
    BY <2>1 DEF Counted
  <2>2. CASE \E r \in Requests : Moves(r) /\ (rq'[r].wgen <=> rq[r].wgen)
    BY <2>2, CountedMove DEF Sound, Typed
  <2> QED
    BY <2>1, <2>2
<1> QED
  BY <1>1 DEF CountExact

\* What has ended well stays so while the masks narrow.
LEMMA DurableKept ==
  ASSUME Durable, Sound, UNCHANGED vol, wmask' \subseteq wmask,
         \/ UNCHANGED rq
         \/ \E r \in Requests :
              /\ Moves(r)
              /\ rq'[r].res = "ok" => /\ rq[r].res = "ok" /\ rq'[r].bio = rq[r].bio
                                      /\ rq'[r].acked = rq[r].acked /\ rq'[r].errs = rq[r].errs
                                      /\ rq'[r].owe = rq[r].owe
  PROVE  Durable'
<1>1. ASSUME NEW s \in Requests, rq'[s].res = "ok"
      PROVE  /\ rq'[s].bio.op = "write"
                  => Touched(rq'[s].bio) \cap wmask \subseteq rq'[s].acked \ rq'[s].errs
             /\ rq'[s].bio.op = "flush"
                  => rq'[s].owe \cap wmask \subseteq rq'[s].acked \ rq'[s].errs
  <2>1. /\ rq[s].res = "ok" /\ rq'[s].bio = rq[s].bio /\ rq'[s].owe = rq[s].owe
        /\ rq'[s].acked = rq[s].acked /\ rq'[s].errs = rq[s].errs
    BY <1>1 DEF Moves
  <2> QED
    BY <2>1 DEF Durable
<1>2. ASSUME NEW s \in Requests, rq'[s].res = "ok"
      PROVE  /\ rq'[s].bio.op = "write"
                  => (Touched(rq[s].bio))' \cap wmask' \subseteq rq'[s].acked \ rq'[s].errs
             /\ rq'[s].bio.op = "flush"
                  => rq'[s].owe \cap wmask' \subseteq rq'[s].acked \ rq'[s].errs
  <2>1. (Touched(rq[s].bio))' = Touched(rq'[s].bio)
    BY TouchedStay
  <2> QED
    BY <1>1, <1>2, <2>1
<1> QED
  BY <1>2 DEF Durable

\* What the three operations on blk-mq's list do to it.
LEMMA QueueShape ==
  ASSUME hctx \in Queue, NEW r \in Requests
  PROVE  /\ /\ Took(hctx, r) \in Queue /\ Took(hctx, r).list = hctx.list
            /\ Took(hctx, r).restart = hctx.restart /\ (hctx.run => Took(hctx, r).run)
         /\ \A h \in {hctx, Took(hctx, r)} :
              /\ Freed(h) \in Queue /\ Freed(h).list = hctx.list /\ ~Freed(h).restart
              /\ (hctx.run \/ hctx.restart => Freed(h).run)
         /\ /\ HandedBack(hctx, r) \in Queue
            /\ HandedBack(hctx, r).restart = hctx.restart
            /\ HandedBack(hctx, r).run \/ HandedBack(hctx, r).restart
            /\ \/ HandedBack(hctx, r).list = <<r>> \o hctx.list
               \/ HandedBack(hctx, r).list = Append(hctx.list, r)
<1>1. /\ hctx.list \in Seq(Requests) /\ hctx.run \in BOOLEAN /\ hctx.restart \in BOOLEAN
      /\ hctx = [list |-> hctx.list, run |-> hctx.run, restart |-> hctx.restart]
  BY DEF Queue
<1>2. /\ Took(hctx, r) \in Queue /\ Took(hctx, r).list = hctx.list
      /\ Took(hctx, r).restart = hctx.restart /\ (hctx.run => Took(hctx, r).run)
  <2>1. CASE rq[r].ran /\ hctx.list # <<>>
    <3>1. Took(hctx, r) = [hctx EXCEPT !.run = TRUE]
      BY <2>1 DEF Took
    <3> QED
      BY <1>1, <3>1 DEF Queue
  <2>2. CASE ~(rq[r].ran /\ hctx.list # <<>>)
    <3>1. Took(hctx, r) = hctx
      BY <2>2 DEF Took
    <3> QED
      BY <3>1
  <2> QED
    BY <2>1, <2>2
<1>3. ASSUME NEW h \in Queue, h.list = hctx.list, h.restart = hctx.restart, hctx.run => h.run
      PROVE  /\ Freed(h) \in Queue /\ Freed(h).list = hctx.list /\ ~Freed(h).restart
             /\ (hctx.run \/ hctx.restart => Freed(h).run)
  <2>1. CASE h.restart
    <3>1. Freed(h) = [h EXCEPT !.restart = FALSE, !.run = TRUE]
      BY <2>1 DEF Freed
    <3>2. /\ Freed(h) \in Queue /\ Freed(h).list = h.list /\ ~Freed(h).restart /\ Freed(h).run
      BY <3>1 DEF Queue
    <3> QED
      BY <1>3, <3>2
  <2>2. CASE ~h.restart
    <3>1. Freed(h) = h
      BY <2>2 DEF Freed
    <3> QED
      BY <1>3, <2>2, <3>1
  <2> QED
    BY <2>1, <2>2
<1>4. ASSUME NEW h \in {hctx, Took(hctx, r)}
      PROVE  /\ Freed(h) \in Queue /\ Freed(h).list = hctx.list /\ ~Freed(h).restart
             /\ (hctx.run \/ hctx.restart => Freed(h).run)
  BY <1>2, <1>3
<1>5. /\ HandedBack(hctx, r) \in Queue
      /\ HandedBack(hctx, r).restart = hctx.restart
      /\ HandedBack(hctx, r).run \/ HandedBack(hctx, r).restart
      /\ \/ HandedBack(hctx, r).list = <<r>> \o hctx.list
         \/ HandedBack(hctx, r).list = Append(hctx.list, r)
  <2>1. <<r>> \o hctx.list \in Seq(Requests) /\ Append(hctx.list, r) \in Seq(Requests)
    BY <1>1
  <2>2. CASE rq[r].ran
    <3> DEFINE n == hctx.run \/ ~hctx.restart
    <3>1. HandedBack(hctx, r) = [hctx EXCEPT !.list = <<r>> \o hctx.list, !.run = n]
      BY <2>2 DEF HandedBack
    <3>2. n \in BOOLEAN /\ (n \/ hctx.restart)
      BY <1>1
    <3> HIDE DEF n
    <3>3. /\ HandedBack(hctx, r) \in Queue /\ HandedBack(hctx, r).list = <<r>> \o hctx.list
          /\ HandedBack(hctx, r).run = n /\ HandedBack(hctx, r).restart = hctx.restart
      BY <2>1, <3>1, <3>2 DEF Queue
    <3> QED
      BY <3>2, <3>3
  <2>3. CASE ~rq[r].ran
    <3>1. HandedBack(hctx, r) = [hctx EXCEPT !.list = Append(hctx.list, r), !.run = TRUE]
      BY <2>3 DEF HandedBack
    <3> QED
      BY <2>1, <3>1 DEF Queue
  <2> QED
    BY <2>2, <2>3
<1> QED
  BY <1>2, <1>4, <1>5

\* The requests that blk-mq has back stay as they are when another one moves.
LEMMA ListStays ==
  ASSUME Sound, Held, hctx'.list = hctx.list,
         UNCHANGED rq \/ \E r \in Requests : Moves(r) /\ rq[r].pc # "parked"
  PROVE  /\ \A i \in DOMAIN hctx.list : rq'[hctx.list[i]] = rq[hctx.list[i]]
         /\ AllFull' <=> AllFull
         /\ (hctx'.list # <<>> => hctx'.run \/ hctx'.restart) => Held'
<1>1. \A i \in DOMAIN hctx.list : hctx.list[i] \in Requests /\ rq[hctx.list[i]].pc = "parked"
  <2>1. hctx.list \in Seq(Requests)
    BY DEF Sound, Typed
  <2> QED
    BY <2>1 DEF Held
<1>2. \A i \in DOMAIN hctx.list : rq'[hctx.list[i]] = rq[hctx.list[i]]
  <2>1. CASE UNCHANGED rq
    BY <2>1
  <2>2. CASE \E r \in Requests : Moves(r) /\ rq[r].pc # "parked"
    BY <1>1, <2>2 DEF Moves
  <2> QED
    BY <2>1, <2>2
<1>3. AllFull' <=> AllFull
  BY <1>2 DEF AllFull
<1>4. (hctx'.list # <<>> => hctx'.run \/ hctx'.restart) => Held'
  BY <1>1, <1>2 DEF Held
<1> QED
  BY <1>2, <1>3, <1>4

\* A request that goes on takes no promise away.
LEMMA QueueRests ==
  ASSUME Sound, Held, Promised, hctx'.list = hctx.list, hctx'.restart = hctx.restart,
         hctx.run => hctx'.run,
         \/ UNCHANGED rq
         \/ \E r \in Requests :
              /\ Moves(r) /\ rq[r].pc # "parked"
              /\ OnItsWay(r) => \E s \in Requests : OnItsWay(s)'
  PROVE  Held' /\ Promised'
<1>1. (AllFull' <=> AllFull) /\ ((hctx'.list # <<>> => hctx'.run \/ hctx'.restart) => Held')
  BY ListStays
<1>2. Held'
  BY <1>1 DEF Held
<1>3. (\E s \in Requests : OnItsWay(s)) => (\E s \in Requests : OnItsWay(s)')
  <2>1. CASE UNCHANGED rq
    BY <2>1 DEF OnItsWay
  <2>2. CASE \E r \in Requests : /\ Moves(r) /\ rq[r].pc # "parked"
                                 /\ OnItsWay(r) => \E s \in Requests : OnItsWay(s)'
    <3>1. PICK r \in Requests : /\ Moves(r) /\ rq[r].pc # "parked"
                                /\ OnItsWay(r) => \E s \in Requests : OnItsWay(s)'
      BY <2>2
    <3>2. \A s \in Requests : s # r /\ OnItsWay(s) => OnItsWay(s)'
      BY <3>1 DEF Moves, OnItsWay
    <3> QED
      BY <3>1, <3>2
  <2> QED
    BY <2>1, <2>2
<1> QED
  BY <1>1, <1>2, <1>3 DEF Promised

\* The end of a request clears the mark and runs the queue if it was set.
LEMMA QueueEnds ==
  ASSUME Sound, Held, hctx'.list = hctx.list, ~hctx'.restart,
         hctx.run \/ hctx.restart => hctx'.run,
         NEW r \in Requests, Moves(r), rq[r].pc # "parked"
  PROVE  Held' /\ Promised'
<1>1. (hctx'.list # <<>> => hctx'.run \/ hctx'.restart) => Held'
  BY ListStays
<1>2. Held'
  BY <1>1 DEF Held
<1> QED
  BY <1>2 DEF Promised

\* A request that is handed back joins the list once, and leaves the promise to
\* another when it found its ring full.
LEMMA QueueTakesBack ==
  ASSUME Sound, Held, Promised, NEW r \in Requests, Moves(r), rq[r].pc = "back",
         rq'[r].pc = "parked", rq'[r].why = rq[r].why, hctx' = HandedBack(hctx, r)
  PROVE  Held' /\ Promised'
<1> DEFINE l == hctx.list
           k == HandedBack(hctx, r).list
<1>1. /\ l \in Seq(Requests) /\ k \in Seq(Requests) /\ (k = <<r>> \o l \/ k = Append(l, r))
      /\ hctx'.list = k /\ hctx'.restart = hctx.restart /\ (hctx'.run \/ hctx'.restart)
  <2>1. hctx \in Queue
    BY DEF Sound, Typed, Queue
  <2>2. /\ k \in Seq(Requests) /\ (k = <<r>> \o l \/ k = Append(l, r))
        /\ hctx'.list = k /\ hctx'.restart = hctx.restart /\ (hctx'.run \/ hctx'.restart)
    BY <2>1, QueueShape DEF Queue
  <2> QED
    BY <2>1, <2>2 DEF Queue
<1>2. \A i \in DOMAIN l : l[i] \in Requests /\ rq[l[i]].pc = "parked" /\ l[i] # r
  BY <1>1 DEF Held
<1>3. \A i \in DOMAIN l : rq'[l[i]] = rq[l[i]]
  BY <1>2 DEF Moves
<1>4. \A i, j \in DOMAIN l : l[i] = l[j] => i = j
  BY DEF Held
<1> HIDE DEF l, k
<1>5. /\ \A i \in DOMAIN k : k[i] = r \/ \E j \in DOMAIN l : k[i] = l[j]
      /\ \A j \in DOMAIN l : \E i \in DOMAIN k : k[i] = l[j]
      /\ \E i \in DOMAIN k : k[i] = r
      /\ \A i, j \in DOMAIN k : k[i] = k[j] => i = j
  <2>1. CASE k = Append(l, r)
    <3>1. DOMAIN l = 1 .. Len(l) /\ Len(l) \in Nat /\ DOMAIN k = 1 .. Len(l) + 1
      BY <1>1, <2>1
    <3>2. k[Len(l) + 1] = r /\ \A i \in DOMAIN l : k[i] = l[i] /\ i \in DOMAIN k
      BY <1>1, <2>1, <3>1
    <3>3. \A i \in DOMAIN k : i = Len(l) + 1 \/ i \in DOMAIN l
      BY <3>1
    <3>4. Len(l) + 1 \in DOMAIN k
      BY <3>1
    <3>5. ASSUME NEW i \in DOMAIN k, NEW j \in DOMAIN k, k[i] = k[j]
          PROVE  i = j
      BY <1>2, <1>4, <3>2, <3>3, <3>5
    <3> QED
      BY <3>2, <3>3, <3>4, <3>5
  <2>2. CASE k = <<r>> \o l
    <3>1. DOMAIN l = 1 .. Len(l) /\ Len(l) \in Nat /\ DOMAIN k = 1 .. Len(l) + 1
      BY <1>1, <2>2
    <3>2. k[1] = r /\ \A i \in DOMAIN k : i # 1 => k[i] = l[i - 1]
      BY <1>1, <2>2, <3>1
    <3>3. \A i \in DOMAIN k : i # 1 => i - 1 \in DOMAIN l
      BY <3>1
    <3>4. 1 \in DOMAIN k /\ \A j \in DOMAIN l : j + 1 \in DOMAIN k /\ k[j + 1] = l[j]
      <4>1. 1 \in DOMAIN k /\ \A j \in DOMAIN l : j + 1 \in DOMAIN k /\ j + 1 # 1 /\ j + 1 - 1 = j
        BY <3>1
      <4>2. ASSUME NEW j \in DOMAIN l
            PROVE  k[j + 1] = l[j]
        <5> DEFINE n == j + 1
        <5>1. n \in DOMAIN k /\ n # 1 /\ n - 1 = j
          BY <3>1, <4>1
        <5> HIDE DEF n
        <5>2. k[n] = l[n - 1]
          BY <3>2, <5>1
        <5> QED
          BY <5>1, <5>2 DEF n
      <4> QED
        BY <4>1, <4>2
    <3>5. ASSUME NEW i \in DOMAIN k, NEW j \in DOMAIN k, k[i] = k[j]
          PROVE  i = j
      <4>1. CASE i = 1 \/ j = 1
        BY <1>2, <3>2, <3>3, <3>5, <4>1
      <4>2. CASE i # 1 /\ j # 1
        <5>1. l[i - 1] = l[j - 1] /\ i - 1 \in DOMAIN l /\ j - 1 \in DOMAIN l
          BY <3>2, <3>3, <3>5, <4>2
        <5>2. i - 1 = j - 1
          BY <1>4, <5>1
        <5> QED
          BY <3>1, <5>2
      <4> QED
        BY <4>1, <4>2
    <3> QED
      BY <3>2, <3>3, <3>4, <3>5
  <2> QED
    BY <1>1, <2>1, <2>2
<1>6. Held'
  <2>1. \A i \in DOMAIN k : rq'[k[i]].pc = "parked"
    BY <1>2, <1>3, <1>5
  <2> QED
    BY <1>1, <1>5, <2>1 DEF Held
<1>7. Promised'
  <2> SUFFICES ASSUME hctx'.restart, AllFull'
               PROVE  \E s \in Requests : OnItsWay(s)'
    BY DEF Promised
  <2>1. \A i \in DOMAIN k : rq'[k[i]].why = "full"
    BY <1>1 DEF AllFull
  <2>2. rq[r].why = "full"
    BY <1>5, <2>1
  <2>3. \A j \in DOMAIN l : rq[l[j]].why = "full"
    BY <1>3, <1>5, <2>1
  <2>4. PICK s \in Requests : OnItsWay(s)
    BY <1>1, <2>3 DEF Promised, AllFull, l
  <2>5. s # r
    BY <2>2, <2>4 DEF OnItsWay
  <2>6. rq'[s] = rq[s]
    BY <2>5 DEF Moves
  <2> QED
    BY <2>4, <2>6 DEF OnItsWay
<1> QED
  BY <1>6, <1>7

\* Running the queue moves the promise to the request that is tried again.
LEMMA QueueRuns ==
  ASSUME Sound, Held, Promised, RunQueue
  PROVE  Held' /\ Promised' /\ hctx' \in Queue
<1>1. hctx \in Queue
  BY DEF Sound, Typed, Queue
<1>2. CASE hctx.list = <<>> /\ UNCHANGED rq /\ hctx' = [hctx EXCEPT !.run = FALSE]
  <2>1. hctx' \in Queue /\ hctx'.list = <<>> /\ hctx'.restart = hctx.restart
    BY <1>1, <1>2 DEF Queue
  <2>2. Held'
    BY <2>1 DEF Held
  <2>3. AllFull' <=> AllFull
    BY <1>2, <2>1 DEF AllFull
  <2>4. \A s \in Requests : OnItsWay(s)' <=> OnItsWay(s)
    BY <1>2 DEF OnItsWay
  <2> QED
    BY <2>1, <2>2, <2>3, <2>4 DEF Promised
<1>3. CASE \E r \in Requests :
             /\ hctx.list # <<>> /\ r = Head(hctx.list)
             /\ hctx' = [list |-> Tail(hctx.list), run |-> FALSE, restart |-> TRUE]
             /\ Moves(r) /\ rq'[r].pc = "check" /\ rq'[r].res = "none"
  <2>1. PICK r \in Requests :
             /\ hctx.list # <<>> /\ r = Head(hctx.list)
             /\ hctx' = [list |-> Tail(hctx.list), run |-> FALSE, restart |-> TRUE]
             /\ Moves(r) /\ rq'[r].pc = "check" /\ rq'[r].res = "none"
    BY <1>3
  <2> DEFINE l == hctx.list
             k == Tail(hctx.list)
  <2>2. l \in Seq(Requests) /\ k \in Seq(Requests) /\ l # <<>> /\ r = l[1]
    BY <1>1, <2>1 DEF Queue
  <2>3. /\ DOMAIN l = 1 .. Len(l) /\ Len(l) \in Nat \ {0} /\ DOMAIN k = 1 .. Len(l) - 1
        /\ \A i \in DOMAIN k : k[i] = l[i + 1]
    BY <2>2
  <2>4. /\ hctx'.list = k /\ hctx'.restart /\ hctx' \in Queue
    BY <2>1, <2>2 DEF Queue
  <2>5. /\ \A i \in DOMAIN l : l[i] \in Requests /\ rq[l[i]].pc = "parked"
        /\ \A i, j \in DOMAIN l : l[i] = l[j] => i = j
    BY <2>2 DEF Held
  <2> HIDE DEF l, k
  <2>6. \A i \in DOMAIN k : i + 1 \in DOMAIN l /\ 1 \in DOMAIN l /\ i + 1 # 1
    BY <2>3
  <2>7. \A i \in DOMAIN k : k[i] \in Requests /\ k[i] # r /\ rq[k[i]].pc = "parked"
    BY <2>2, <2>3, <2>5, <2>6
  <2>8. \A i \in DOMAIN k : rq'[k[i]].pc = "parked"
    BY <2>1, <2>7 DEF Moves
  <2>9. ASSUME NEW i \in DOMAIN k, NEW j \in DOMAIN k, k[i] = k[j]
        PROVE  i = j
    <3>1. i + 1 = j + 1
      BY <2>3, <2>5, <2>6, <2>9
    <3> QED
      BY <2>3, <3>1
  <2>10. Held'
    BY <2>4, <2>8, <2>9 DEF Held
  <2>11. OnItsWay(r)'
    BY <2>1 DEF OnItsWay
  <2> QED
    BY <2>4, <2>10, <2>11 DEF Promised
<1> QED
  BY <1>2, <1>3, RunQueueDoes

-----------------------------------------------------------------------------
(* Each action.                                                             *)

\* The invariant after a step of one request, part by part.
LEMMA PartsMake ==
  ASSUME DispatchInv, NEW r \in Requests, Moves(r), UNCHANGED <<vol, present, leaving>>,
         wmask' \subseteq wmask, live' \subseteq wmask', used' \in [Slots -> Int],
         inner' \in [Slots -> Nat], lost' \in [Slots -> Nat], counted' \in Int,
         hctx' \in Queue, Held', Promised', SlotsExact', CountExact', Durable'
  PROVE  DispatchInv'
<1>1. Sound /\ Staying
  BY DEF DispatchInv, Sound
<1>2. InOrder
  BY <1>1, InOrderMoves
<1>3. Staying'
  BY <1>1, StayingKept
<1>4. Sound'
  BY <1>1, <1>2, <1>3, SoundKept
<1> QED
  BY <1>4 DEF DispatchInv

\* A step that changes neither slots nor the gate's count.
LEMMA PassesOn ==
  ASSUME DispatchInv, NEW r \in Requests, Moves(r),
         UNCHANGED <<vol, present, leaving, used, inner, lost, counted>>,
         wmask' \subseteq wmask, live' \subseteq wmask',
         Holds(rq'[r]) = Holds(rq[r]), rq'[r].wgen <=> rq[r].wgen,
         rq'[r].res = "ok" => /\ rq[r].res = "ok" /\ rq'[r].bio = rq[r].bio
                              /\ rq'[r].acked = rq[r].acked /\ rq'[r].errs = rq[r].errs
                              /\ rq'[r].owe = rq[r].owe,
         hctx' \in Queue, Held', Promised'
  PROVE  DispatchInv'
<1>1. Sound /\ SlotsExact /\ CountExact /\ Durable
  BY DEF DispatchInv
<1>2. /\ used' \in [Slots -> Int] /\ inner' \in [Slots -> Nat]
      /\ lost' \in [Slots -> Nat] /\ counted' \in Int
  BY <1>1 DEF Sound, Typed
<1>3. SlotsExact'
  BY <1>1, SlotsKept
<1>4. CountExact'
  BY <1>1, CountKept
<1>5. Durable'
  BY <1>1, DurableKept
<1> QED
  BY <1>2, <1>3, <1>4, <1>5, PartsMake

\* blk-mq's side of a request that goes on.
LEMMA WayStays ==
  ASSUME DispatchInv, NEW r \in Requests, Moves(r), rq[r].pc # "parked",
         OnItsWay(r) => \E s \in Requests : OnItsWay(s)',
         UNCHANGED hctx \/ hctx' = Took(hctx, r)
  PROVE  hctx' \in Queue /\ Held' /\ Promised'
<1>1. Sound /\ Held /\ Promised /\ hctx \in Queue
  BY DEF DispatchInv, Sound, Typed, Queue
<1>2. /\ hctx' \in Queue /\ hctx'.list = hctx.list /\ hctx'.restart = hctx.restart
      /\ hctx.run => hctx'.run
  BY <1>1, QueueShape
<1>3. Held' /\ Promised'
  BY <1>1, <1>2, QueueRests
<1> QED
  BY <1>2, <1>3

\* blk-mq's side of a request that ends.
LEMMA WayEnds ==
  ASSUME DispatchInv, NEW r \in Requests, Moves(r), rq[r].pc # "parked",
         hctx' = Freed(hctx) \/ hctx' = Freed(Took(hctx, r))
  PROVE  hctx' \in Queue /\ Held' /\ Promised'
<1>1. Sound /\ Held /\ hctx \in Queue
  BY DEF DispatchInv, Sound, Typed, Queue
<1>2. /\ hctx' \in Queue /\ hctx'.list = hctx.list /\ ~hctx'.restart
      /\ (hctx.run \/ hctx.restart => hctx'.run)
  BY <1>1, QueueShape
<1>3. Held' /\ Promised'
  BY <1>1, <1>2, QueueEnds
<1> QED
  BY <1>2, <1>3

\* A request that was not yet routed has neither slots nor a count.
LEMMA EarlyHolds ==
  ASSUME Sound, NEW r \in Requests, rq[r].pc \in {"idle", "check", "route", "parked"}
  PROVE  Holds(rq[r]) = {} /\ ~rq[r].wgen /\ rq[r].acked = {}
<1>1. InPlace(rq[r])
  BY Known
<1>2. ~rq[r].wgen /\ rq[r].acked = {}
  BY <1>1 DEF InPlace, Begins
<1>3. Holds(rq[r]) = {}
  BY HoldsAt
<1> QED
  BY <1>2, <1>3

\* A request that ended at once has none either.
LEMMA EndedHolds ==
  ASSUME NEW q, q.pc = "sent", q.set = {}
  PROVE  Holds(q) = {}
BY HoldsAt

\* Issue.
LEMMA IssueKeeps ==
  ASSUME DispatchInv, NEW r \in Requests, NEW b \in Bios, Issue(r, b)
  PROVE  DispatchInv'
<1>1. Sound /\ Typed
  BY DEF DispatchInv, Sound
<1>2. /\ Moves(r) /\ rq[r].pc = "idle" /\ rq'[r].pc = "check" /\ ~rq'[r].wgen
      /\ rq'[r].res = "none"
  BY <1>1, IssueDoes
<1>3. /\ UNCHANGED <<vol, present, live, wmask, leaving, used, inner, lost, counted, hctx>>
      /\ live \subseteq wmask
  BY <1>1 DEF Issue, volVars, ringVars, gateVars, Typed
<1>4. Holds(rq[r]) = {} /\ ~rq[r].wgen /\ Holds(rq'[r]) = {}
  BY <1>1, <1>2, EarlyHolds, HoldsAt
<1>5. OnItsWay(r)'
  BY <1>2 DEF OnItsWay
<1>6. hctx' \in Queue /\ Held' /\ Promised'
  BY <1>2, <1>3, <1>5, WayStays
<1> QED
  BY <1>2, <1>3, <1>4, <1>6, PassesOn

\* Check.
LEMMA CheckKeeps ==
  ASSUME DispatchInv, NEW r \in Requests, Check(r)
  PROVE  DispatchInv'
<1>1. Sound /\ Typed
  BY DEF DispatchInv, Sound
<1>2. /\ Moves(r) /\ rq[r].pc = "check" /\ rq'[r].set = {} /\ ~rq'[r].wgen
      /\ \/ rq'[r].pc = "route" /\ rq'[r].res = "none" /\ UNCHANGED hctx
         \/ rq'[r].pc = "sent" /\ rq'[r].res = "err" /\ hctx' = Freed(Took(hctx, r))
  BY <1>1, CheckDoes
<1>3. /\ UNCHANGED <<vol, present, leaving, used, inner, lost, counted>>
      /\ wmask' \subseteq wmask /\ live' \subseteq wmask'
  BY <1>1 DEF Check, ringVars, gateVars, Typed
<1>4. Holds(rq[r]) = {} /\ ~rq[r].wgen
  BY <1>1, <1>2, EarlyHolds
<1>5. Holds(rq'[r]) = {} /\ rq'[r].res # "ok"
  <2>1. rq'[r].pc = "route" => Holds(rq'[r]) = {}
    BY HoldsAt
  <2>2. rq'[r].pc = "sent" => Holds(rq'[r]) = {}
    BY <1>2, EndedHolds
  <2> QED
    BY <1>2, <2>1, <2>2
<1>6. hctx' \in Queue /\ Held' /\ Promised'
  <2>1. CASE rq'[r].pc = "route" /\ rq'[r].res = "none" /\ UNCHANGED hctx
    <3>1. OnItsWay(r)'
      BY <2>1 DEF OnItsWay
    <3> QED
      BY <1>2, <2>1, <3>1, WayStays
  <2>2. CASE hctx' = Freed(Took(hctx, r))
    BY <1>2, <2>2, WayEnds
  <2> QED
    BY <1>2, <2>1, <2>2
<1> QED
  BY <1>2, <1>3, <1>4, <1>5, <1>6, PassesOn

\* Route.
LEMMA RouteKeeps ==
  ASSUME DispatchInv, NEW r \in Requests, Route(r)
  PROVE  DispatchInv'
<1>1. Sound /\ Typed
  BY DEF DispatchInv, Sound
<1>2. /\ Moves(r) /\ rq[r].pc = "route" /\ ~rq'[r].wgen
      /\ \/ /\ rq'[r].pc = "map" /\ UNCHANGED hctx
         \/ /\ rq'[r].pc = "reserve" /\ UNCHANGED hctx
            /\ rq'[r].left = rq'[r].set
         \/ /\ rq'[r].pc = "sent" /\ rq'[r].set = {} /\ hctx' = Freed(Took(hctx, r))
            /\ rq'[r].res = "err"
      /\ rq'[r].pc # "sent" => rq'[r].res = "none"
  BY <1>1, RouteDoes
<1>3. /\ UNCHANGED <<vol, present, live, wmask, leaving, used, inner, lost, counted>>
      /\ live \subseteq wmask
  BY <1>1 DEF Route, volVars, ringVars, gateVars, Typed
<1>4. Holds(rq[r]) = {} /\ ~rq[r].wgen
  BY <1>1, <1>2, EarlyHolds
<1>5. Holds(rq'[r]) = {} /\ rq'[r].res # "ok"
  <2>1. rq'[r].pc = "map" => Holds(rq'[r]) = {}
    BY HoldsAt
  <2>2. rq'[r].pc = "sent" /\ rq'[r].set = {} => Holds(rq'[r]) = {}
    BY EndedHolds
  <2>3. rq'[r].pc = "reserve" => Holds(rq'[r]) = rq'[r].set \ rq'[r].left
    BY HoldsAt
  <2> QED
    BY <1>2, <2>1, <2>2, <2>3
<1>6. hctx' \in Queue /\ Held' /\ Promised'
  <2>1. CASE rq'[r].pc \in {"map", "reserve"} /\ UNCHANGED hctx
    <3>1. OnItsWay(r)'
      BY <1>2, <2>1 DEF OnItsWay
    <3> QED
      BY <1>2, <2>1, <3>1, WayStays
  <2>2. CASE hctx' = Freed(Took(hctx, r))
    BY <1>2, <2>2, WayEnds
  <2> QED
    BY <1>2, <2>1, <2>2
<1> QED
  BY <1>2, <1>3, <1>4, <1>5, <1>6, PassesOn

\* Map.
LEMMA MapKeeps ==
  ASSUME DispatchInv, NEW r \in Requests, Map(r)
  PROVE  DispatchInv'
<1>1. Sound /\ Typed
  BY DEF DispatchInv, Sound
<1>2. /\ Moves(r) /\ rq[r].pc = "map" /\ Holds(rq'[r]) = Holds(rq[r])
      /\ ~rq[r].wgen /\ ~rq'[r].wgen
      /\ \/ rq'[r].pc \in {"build", "reserve"} /\ rq'[r].res = "none" /\ UNCHANGED hctx
         \/ rq'[r].pc = "sent" /\ rq'[r].res = "err" /\ hctx' = Freed(Took(hctx, r))
  BY <1>1, MapDoes
<1>3. /\ UNCHANGED <<vol, present, live, wmask, leaving, used, inner, lost, counted>>
      /\ live \subseteq wmask
  BY <1>1 DEF Map, volVars, ringVars, gateVars, Typed
<1>4. hctx' \in Queue /\ Held' /\ Promised'
  <2>1. CASE rq'[r].pc \in {"build", "reserve"} /\ rq'[r].res = "none" /\ UNCHANGED hctx
    <3>1. OnItsWay(r)'
      BY <2>1 DEF OnItsWay
    <3> QED
      BY <1>2, <2>1, <3>1, WayStays
  <2>2. CASE hctx' = Freed(Took(hctx, r))
    BY <1>2, <2>2, WayEnds
  <2> QED
    BY <1>2, <2>1, <2>2
<1> QED
  BY <1>2, <1>3, <1>4, PassesOn

\* Build.
LEMMA BuildKeeps ==
  ASSUME DispatchInv, NEW r \in Requests, Build(r)
  PROVE  DispatchInv'
<1>1. Sound /\ Typed
  BY DEF DispatchInv, Sound
<1>2. /\ Moves(r) /\ rq[r].pc = "build" /\ Holds(rq'[r]) = Holds(rq[r])
      /\ ~rq[r].wgen /\ ~rq'[r].wgen
      /\ \/ /\ rq'[r].pc \in {"reserve", "gate", "start"} /\ rq'[r].res = "none"
            /\ UNCHANGED hctx
         \/ /\ rq'[r].pc = "back" /\ rq'[r].why = "build" /\ rq'[r].res = "none"
            /\ UNCHANGED hctx
         \/ rq'[r].pc = "sent" /\ rq'[r].res = "err" /\ hctx' = Freed(Took(hctx, r))
  BY <1>1, BuildDoes
<1>3. /\ UNCHANGED <<vol, present, live, wmask, leaving, used, inner, lost, counted>>
      /\ live \subseteq wmask
  BY <1>1 DEF Build, volVars, ringVars, gateVars, Typed
<1>4. hctx' \in Queue /\ Held' /\ Promised'
  <2>1. CASE UNCHANGED hctx /\ rq'[r].res = "none"
    <3>1. OnItsWay(r)'
      BY <1>2, <2>1 DEF OnItsWay
    <3> QED
      BY <1>2, <2>1, <3>1, WayStays
  <2>2. CASE hctx' = Freed(Took(hctx, r))
    BY <1>2, <2>2, WayEnds
  <2> QED
    BY <1>2, <2>1, <2>2
<1> QED
  BY <1>2, <1>3, <1>4, PassesOn

\* HandBack.
LEMMA HandBackKeeps ==
  ASSUME DispatchInv, NEW r \in Requests, HandBack(r)
  PROVE  DispatchInv'
<1>1. Sound /\ Typed /\ Held /\ Promised /\ hctx \in Queue
  BY DEF DispatchInv, Sound, Typed, Queue
<1>2. /\ Moves(r) /\ rq[r].pc = "back" /\ Holds(rq'[r]) = Holds(rq[r])
      /\ ~rq[r].wgen /\ ~rq'[r].wgen /\ rq'[r].why = rq[r].why
      /\ \/ rq'[r].pc = "sent" /\ rq'[r].res = "err" /\ hctx' = Freed(Took(hctx, r))
         \/ rq'[r].pc = "parked" /\ rq'[r].res = "none" /\ hctx' = HandedBack(hctx, r)
  BY <1>1, HandBackDoes
<1>3. /\ UNCHANGED <<vol, present, live, wmask, leaving, used, inner, lost, counted>>
      /\ live \subseteq wmask
  BY <1>1 DEF HandBack, volVars, ringVars, gateVars, Typed
<1>4. hctx' \in Queue /\ Held' /\ Promised'
  <2>1. CASE rq'[r].pc = "parked" /\ hctx' = HandedBack(hctx, r)
    <3>1. hctx' \in Queue
      BY <1>1, <2>1, QueueShape
    <3>2. Held' /\ Promised'
      BY <1>1, <1>2, <2>1, QueueTakesBack
    <3> QED
      BY <3>1, <3>2
  <2>2. CASE hctx' = Freed(Took(hctx, r))
    BY <1>2, <2>2, WayEnds
  <2> QED
    BY <1>2, <2>1, <2>2
<1> QED
  BY <1>2, <1>3, <1>4, PassesOn

\* Start.
LEMMA StartKeeps ==
  ASSUME DispatchInv, NEW r \in Requests, Start(r)
  PROVE  DispatchInv'
<1>1. Sound /\ Typed
  BY DEF DispatchInv, Sound
<1>2. /\ Moves(r) /\ rq[r].pc = "start" /\ rq'[r].pc = "submit"
      /\ Holds(rq'[r]) = Holds(rq[r]) /\ rq'[r].wgen = rq[r].wgen
      /\ rq'[r].res = "none" /\ UNCHANGED hctx
  BY <1>1, StartDoes
<1>3. /\ UNCHANGED <<vol, present, live, wmask, leaving, used, inner, lost, counted>>
      /\ live \subseteq wmask
  BY <1>1 DEF Start, volVars, ringVars, gateVars, Typed
<1>4. OnItsWay(r)'
  BY <1>2 DEF OnItsWay
<1>5. hctx' \in Queue /\ Held' /\ Promised'
  BY <1>2, <1>4, WayStays
<1> QED
  BY <1>2, <1>3, <1>5, PassesOn

\* Submit.
LEMMA SubmitKeeps ==
  ASSUME DispatchInv, NEW r \in Requests, Submit(r)
  PROVE  DispatchInv'
<1>1. Sound /\ Typed
  BY DEF DispatchInv, Sound
<1>2. /\ Moves(r) /\ rq[r].pc = "submit" /\ rq'[r].pc \in Begins
      /\ Holds(rq'[r]) = Holds(rq[r]) /\ rq'[r].wgen = rq[r].wgen
      /\ rq'[r].bio = rq[r].bio /\ rq'[r].acked = rq[r].acked /\ rq'[r].errs = rq[r].errs
      /\ rq'[r].owe = rq[r].owe /\ rq'[r].res = rq[r].res
      /\ UNCHANGED hctx \/ hctx' = Took(hctx, r)
  BY <1>1, SubmitDoes
<1>3. /\ UNCHANGED <<vol, present, live, wmask, leaving, used, inner, lost, counted>>
      /\ live \subseteq wmask
  BY <1>1 DEF Submit, volVars, ringVars, gateVars, Typed
<1>4. OnItsWay(r) => OnItsWay(r)'
  BY <1>2 DEF OnItsWay, Begins
<1>5. hctx' \in Queue /\ Held' /\ Promised'
  BY <1>2, <1>4, WayStays
<1> QED
  BY <1>2, <1>3, <1>5, PassesOn

\* RunQueue.
LEMMA RunQueueKeeps ==
  ASSUME DispatchInv, RunQueue
  PROVE  DispatchInv'
<1>1. /\ Sound /\ Typed /\ Staying /\ Held /\ Promised
      /\ SlotsExact /\ CountExact /\ Durable
  BY DEF DispatchInv, Sound
<1>2. hctx' \in Queue /\ Held' /\ Promised'
  BY <1>1, QueueRuns
<1>3. /\ UNCHANGED <<vol, present, live, wmask, leaving, used, inner, lost, counted>>
      /\ live \subseteq wmask
  BY <1>1 DEF RunQueue, volVars, ringVars, gateVars, Typed
<1>4. CASE \E r \in Requests : /\ Moves(r) /\ Holds(rq'[r]) = Holds(rq[r])
                               /\ rq'[r].wgen = rq[r].wgen /\ rq'[r].res = "none"
  BY <1>2, <1>3, <1>4, PassesOn
<1>5. CASE UNCHANGED rq
  <2>1. InOrder /\ Staying'
    BY <1>1, <1>3, <1>5, InOrderMoves, StayingKept
  <2>2. /\ used' \in [Slots -> Int] /\ inner' \in [Slots -> Nat]
        /\ lost' \in [Slots -> Nat] /\ counted' \in Int
    BY <1>1, <1>3 DEF Typed
  <2>3. Sound'
    BY <1>1, <1>2, <1>3, <2>1, <2>2, SoundKept
  <2>4. SlotsExact' /\ CountExact' /\ Durable'
    BY <1>1, <1>3, <1>5, SlotsKept, CountKept, DurableKept
  <2> QED
    BY <1>2, <2>3, <2>4 DEF DispatchInv
<1> QED
  BY <1>1, <1>4, <1>5, RunQueueDoes

\* A step that leaves the requests alone.
LEMMA StandsStill ==
  ASSUME DispatchInv, UNCHANGED <<vol, present, leaving, rq, lost, counted>>,
         wmask' \subseteq wmask, live' \subseteq wmask', used' \in [Slots -> Int],
         inner' \in [Slots -> Nat],
         \A n \in Slots : used'[n] - inner'[n] = used[n] - inner[n], UNCHANGED hctx
  PROVE  DispatchInv'
<1>1. /\ Sound /\ Typed /\ Staying /\ Held /\ Promised /\ SlotsExact /\ CountExact /\ Durable
      /\ hctx \in Queue
  BY DEF DispatchInv, Sound, Typed, Queue
<1>2. InOrder /\ Staying'
  BY <1>1, InOrderMoves, StayingKept
<1>3. lost' \in [Slots -> Nat] /\ counted' \in Int /\ hctx' \in Queue
  BY <1>1 DEF Typed
<1>4. Sound'
  BY <1>1, <1>2, <1>3, SoundKept
<1>5. Held' /\ Promised'
  BY <1>1, QueueRests
<1>6. SlotsExact'
  <2>1. ASSUME NEW n \in Slots
        PROVE  used'[n] = Cardinality({r \in Requests : n \in Holds(rq'[r])}) + inner'[n] + lost'[n]
    <3> DEFINE k == Cardinality({r \in Requests : n \in Holds(rq[r])})
    <3>1. used[n] = k + inner[n] + lost[n]
      BY <1>1 DEF SlotsExact
    <3>2. used'[n] - inner'[n] = used[n] - inner[n]
      OBVIOUS
    <3>3. /\ used[n] \in Int /\ inner[n] \in Int /\ lost[n] \in Int
          /\ used'[n] \in Int /\ inner'[n] \in Int
      BY <1>1 DEF Typed
    <3>4. k \in Int
      BY FewRequests
    <3>5. Cardinality({r \in Requests : n \in Holds(rq'[r])}) = k /\ lost'[n] = lost[n]
      OBVIOUS
    <3> DEFINE a == used[n]
               b == inner[n]
               c == lost[n]
               d == used'[n]
               e == inner'[n]
    <3>6. a = k + b + c /\ d - e = a - b
      BY <3>1, <3>2
    <3>7. k \in Int /\ a \in Int /\ b \in Int /\ c \in Int /\ d \in Int /\ e \in Int
      BY <3>3, <3>4
    <3> HIDE DEF k, a, b, c, d, e
    <3>8. d = k + e + c
      BY <3>6, <3>7
    <3> QED
      BY <3>5, <3>8 DEF c, d, e
  <2> QED
    BY <2>1 DEF SlotsExact
<1>7. CountExact' /\ Durable'
  BY <1>1, CountKept, DurableKept
<1> QED
  BY <1>4, <1>5, <1>6, <1>7 DEF DispatchInv

\* The ring of m when a request takes a slot of it, gives one back, or leaves one
\* to the reset.
LEMMA RingMoves ==
  ASSUME SlotsExact, Sound, NEW r \in Requests, Moves(r), NEW m \in Slots, UNCHANGED inner,
         \/ /\ m \notin Holds(rq[r]) /\ Holds(rq'[r]) = Holds(rq[r]) \cup {m}
            /\ used' = [used EXCEPT ![m] = used[m] + 1] /\ UNCHANGED lost
         \/ /\ m \in Holds(rq[r]) /\ Holds(rq'[r]) = Holds(rq[r]) \ {m}
            /\ used' = [used EXCEPT ![m] = used[m] - 1] /\ UNCHANGED lost
         \/ /\ m \in Holds(rq[r]) /\ Holds(rq'[r]) = Holds(rq[r]) \ {m}
            /\ lost' = [lost EXCEPT ![m] = lost[m] + 1] /\ UNCHANGED used
  PROVE  SlotsExact' /\ used' \in [Slots -> Int] /\ lost' \in [Slots -> Nat]
<1>1. /\ rq \in [Requests -> Request] /\ used \in [Slots -> Int]
      /\ inner \in [Slots -> Nat] /\ lost \in [Slots -> Nat]
  BY DEF Sound, Typed
<1>2. \A n \in Slots : used[n] = Cardinality(Holders(n)) + inner[n] + lost[n]
  BY DEF SlotsExact, Holders
<1>3. used' \in [Slots -> Int] /\ lost' \in [Slots -> Nat]
  BY <1>1
<1>4. ASSUME NEW n \in Slots
      PROVE  used'[n] = Cardinality(Holders(n)') + inner'[n] + lost'[n]
  <2> DEFINE k == Cardinality(Holders(n))
             j == Cardinality(Holders(n)')
  <2>0. /\ used[n] = k + inner[n] + lost[n] /\ used[n] \in Int /\ inner[n] \in Int
        /\ lost[n] \in Int /\ k \in Nat /\ inner'[n] = inner[n]
    BY <1>1, <1>2, HoldersMove
  <2>1. CASE n # m
    <3>1. used'[n] = used[n] /\ lost'[n] = lost[n]
      BY <1>1, <2>1
    <3>2. n \in Holds(rq'[r]) <=> n \in Holds(rq[r])
      BY <2>1
    <3>3. j = k
      BY <1>1, <3>2, HoldersMove
    <3> QED
      BY <2>0, <3>1, <3>3
  <2>2. CASE n = m
    <3>1. CASE /\ m \notin Holds(rq[r]) /\ Holds(rq'[r]) = Holds(rq[r]) \cup {m}
               /\ used' = [used EXCEPT ![m] = used[m] + 1] /\ UNCHANGED lost
      <4>1. used'[n] = used[n] + 1 /\ lost'[n] = lost[n]
        BY <1>1, <2>2, <3>1
      <4>2. n \in Holds(rq'[r]) /\ n \notin Holds(rq[r])
        BY <2>2, <3>1
      <4>3. j = k + 1
        BY <1>1, <4>2, HoldersMove
      <4> HIDE DEF j, k
      <4>4. used'[n] = j + inner'[n] + lost'[n]
        BY <2>0, <4>1, <4>3
      <4> QED
        BY <4>4 DEF j
    <3>2. CASE /\ m \in Holds(rq[r]) /\ Holds(rq'[r]) = Holds(rq[r]) \ {m}
               /\ used' = [used EXCEPT ![m] = used[m] - 1] /\ UNCHANGED lost
      <4>1. used'[n] = used[n] - 1 /\ lost'[n] = lost[n]
        BY <1>1, <2>2, <3>2
      <4>2. n \notin Holds(rq'[r]) /\ n \in Holds(rq[r])
        BY <2>2, <3>2
      <4>3. j = k - 1
        BY <1>1, <4>2, HoldersMove
      <4> HIDE DEF j, k
      <4>4. used'[n] = j + inner'[n] + lost'[n]
        BY <2>0, <4>1, <4>3
      <4> QED
        BY <4>4 DEF j
    <3>3. CASE /\ m \in Holds(rq[r]) /\ Holds(rq'[r]) = Holds(rq[r]) \ {m}
               /\ lost' = [lost EXCEPT ![m] = lost[m] + 1] /\ UNCHANGED used
      <4>1. used'[n] = used[n] /\ lost'[n] = lost[n] + 1
        BY <1>1, <2>2, <3>3
      <4>2. n \notin Holds(rq'[r]) /\ n \in Holds(rq[r])
        BY <2>2, <3>3
      <4>3. j = k - 1
        BY <1>1, <4>2, HoldersMove
      <4> HIDE DEF j, k
      <4>4. used'[n] = j + inner'[n] + lost'[n]
        BY <2>0, <4>1, <4>3
      <4> QED
        BY <4>4 DEF j
    <3> QED
      BY <3>1, <3>2, <3>3
  <2> QED
    BY <2>1, <2>2
<1>5. SlotsExact'
  BY <1>4 DEF SlotsExact, Holders
<1> QED
  BY <1>3, <1>5

\* Reserve.
LEMMA ReserveKeeps ==
  ASSUME DispatchInv, NEW r \in Requests, Reserve(r)
  PROVE  DispatchInv'
<1> DEFINE m == Min(rq[r].left)
<1>1. Sound /\ Typed /\ SlotsExact /\ CountExact /\ Durable
  BY DEF DispatchInv, Sound
<1>2. /\ Moves(r) /\ rq[r].pc = "reserve" /\ ~rq[r].wgen /\ ~rq'[r].wgen
      /\ rq'[r].res = "none" /\ UNCHANGED hctx /\ m \in Slots
      /\ \/ /\ rq'[r].pc \in {"reserve", "build", "gate", "start"}
            /\ used' = [used EXCEPT ![m] = used[m] + 1]
            /\ m \notin Holds(rq[r]) /\ Holds(rq'[r]) = Holds(rq[r]) \cup {m}
         \/ /\ rq'[r].pc = "back" /\ UNCHANGED used /\ Holds(rq'[r]) = Holds(rq[r])
            /\ \/ rq'[r].why = "full" /\ \E s \in Requests : Owes(s, m)
               \/ rq'[r].why = "held"
  BY <1>1, ReserveDoes
<1>3. /\ UNCHANGED <<vol, present, live, wmask, leaving, inner, lost, counted>>
      /\ live \subseteq wmask /\ inner \in [Slots -> Nat] /\ counted \in Int
  BY <1>1 DEF Reserve, volVars, gateVars, Typed
<1> HIDE DEF m
<1>4. \E s \in Requests : OnItsWay(s)'
  <2>1. CASE rq'[r].pc \in {"reserve", "build", "gate", "start"} \/ rq'[r].why = "held"
    <3>1. rq'[r].pc \in {"reserve", "build", "gate", "start", "back"}
      BY <1>2
    <3>2. OnItsWay(r)'
      BY <1>2, <2>1, <3>1 DEF OnItsWay
    <3> QED
      BY <3>2
  <2>2. CASE \E s \in Requests : Owes(s, m)
    <3>1. PICK s \in Requests : Owes(s, m)
      BY <2>2
    <3>2. rq[s].starts = 1 /\ rq[s].res = "none"
      BY <3>1 DEF Owes, Begun
    <3>3. rq[s].pc \in Begins
      BY <1>1, <3>2, Known DEF InPlace
    <3>4. rq'[s] = rq[s]
      BY <1>2, <3>3 DEF Moves, Begins
    <3>5. OnItsWay(s)'
      BY <3>2, <3>3, <3>4 DEF OnItsWay, Begins
    <3> QED
      BY <3>5
  <2> QED
    BY <1>2, <2>1, <2>2
<1>5. hctx' \in Queue /\ Held' /\ Promised'
  BY <1>2, <1>4, WayStays
<1>6. CASE UNCHANGED used /\ Holds(rq'[r]) = Holds(rq[r])
  BY <1>2, <1>3, <1>5, <1>6, PassesOn
<1>7. CASE /\ used' = [used EXCEPT ![m] = used[m] + 1]
           /\ m \notin Holds(rq[r]) /\ Holds(rq'[r]) = Holds(rq[r]) \cup {m}
  <2>1. SlotsExact' /\ used' \in [Slots -> Int] /\ lost' \in [Slots -> Nat]
    BY <1>1, <1>2, <1>3, <1>7, RingMoves
  <2>2. CountExact' /\ Durable'
    BY <1>1, <1>2, <1>3, CountKept, DurableKept
  <2> QED
    BY <1>2, <1>3, <1>5, <2>1, <2>2, PartsMake
<1> QED
  BY <1>2, <1>6, <1>7

\* GiveBack.
LEMMA GiveBackKeeps ==
  ASSUME DispatchInv, NEW r \in Requests, GiveBack(r)
  PROVE  DispatchInv'
<1>1. Sound /\ Typed /\ SlotsExact /\ CountExact /\ Durable
  BY DEF DispatchInv, Sound
<1>2. /\ Moves(r) /\ rq[r].pc = "back" /\ rq'[r].pc = "back" /\ rq'[r].why = rq[r].why
      /\ ~rq[r].wgen /\ ~rq'[r].wgen /\ rq'[r].res = "none" /\ UNCHANGED hctx
  BY <1>1, GiveBackDoes
<1>3. PICK m \in Slots :
        /\ m \in Holds(rq[r]) /\ Holds(rq'[r]) = Holds(rq[r]) \ {m}
        /\ used' = [used EXCEPT ![m] = IF used[m] >= 1 THEN used[m] - 1 ELSE 0]
  BY <1>1, GiveBackDoes
<1>4. /\ UNCHANGED <<vol, present, live, wmask, leaving, inner, lost, counted>>
      /\ live \subseteq wmask /\ inner \in [Slots -> Nat] /\ counted \in Int
  BY <1>1 DEF GiveBack, volVars, gateVars, Typed
<1>5. used[m] >= 1
  <2>1. used[m] = Cardinality(Holders(m)) + inner[m] + lost[m]
    BY <1>1 DEF SlotsExact, Holders
  <2>2. inner[m] \in Nat /\ lost[m] \in Nat /\ rq \in [Requests -> Request]
    BY <1>1 DEF Typed
  <2>3. m \notin Holds(rq'[r]) /\ m \in Holds(rq[r])
    BY <1>3
  <2>4. /\ Cardinality(Holders(m)') = Cardinality(Holders(m)) - 1
        /\ Cardinality(Holders(m)') \in Nat /\ Cardinality(Holders(m)) \in Nat
    BY <1>2, <2>2, <2>3, HoldersMove
  <2> QED
    BY <2>1, <2>2, <2>4
<1>6. used' = [used EXCEPT ![m] = used[m] - 1]
  BY <1>3, <1>5
<1>7. SlotsExact' /\ used' \in [Slots -> Int] /\ lost' \in [Slots -> Nat]
  BY <1>1, <1>2, <1>3, <1>4, <1>6, RingMoves
<1>8. CountExact' /\ Durable'
  BY <1>1, <1>2, <1>4, CountKept, DurableKept
<1>9. OnItsWay(r) => OnItsWay(r)'
  BY <1>2 DEF OnItsWay
<1>10. hctx' \in Queue /\ Held' /\ Promised'
  BY <1>2, <1>9, WayStays
<1> QED
  BY <1>2, <1>4, <1>7, <1>8, <1>10, PartsMake

\* Gate.
LEMMA GateKeeps ==
  ASSUME DispatchInv, NEW r \in Requests, Gate(r)
  PROVE  DispatchInv'
<1>1. Sound /\ Typed /\ SlotsExact /\ CountExact /\ Durable
  BY DEF DispatchInv, Sound
<1>2. /\ Moves(r) /\ rq[r].pc = "gate" /\ Holds(rq'[r]) = Holds(rq[r])
      /\ ~rq[r].wgen /\ rq'[r].res = "none" /\ UNCHANGED hctx
      /\ \/ /\ rq'[r].pc = "back" /\ rq'[r].why = "window" /\ ~rq'[r].wgen
            /\ UNCHANGED counted
         \/ rq'[r].pc = "start" /\ rq'[r].wgen /\ counted' = counted + 1
  BY <1>1, GateDoes
<1>3. /\ UNCHANGED <<vol, present, live, wmask, leaving, used, inner, lost>>
      /\ live \subseteq wmask /\ used \in [Slots -> Int] /\ inner \in [Slots -> Nat]
      /\ lost \in [Slots -> Nat] /\ counted \in Int /\ rq \in [Requests -> Request]
  BY <1>1 DEF Gate, volVars, ringVars, Typed
<1>4. OnItsWay(r)'
  BY <1>2 DEF OnItsWay
<1>5. hctx' \in Queue /\ Held' /\ Promised'
  BY <1>2, <1>4, WayStays
<1>6. SlotsExact' /\ Durable'
  BY <1>1, <1>2, <1>3, SlotsKept, DurableKept
<1>7. CountExact' /\ counted' \in Int
  <2>1. CASE rq'[r].wgen /\ counted' = counted + 1
    <3>1. Cardinality(Counted') = Cardinality(Counted) + 1
      BY <1>2, <1>3, <2>1, CountedMove
    <3> QED
      BY <1>1, <1>3, <2>1, <3>1 DEF CountExact
  <2>2. CASE ~rq'[r].wgen /\ UNCHANGED counted
    BY <1>1, <1>2, <1>3, <2>2, CountKept
  <2> QED
    BY <1>2, <2>1, <2>2
<1> QED
  BY <1>2, <1>3, <1>5, <1>6, <1>7, PartsMake

\* Both answers, except for the slot.
LEMMA AnsweredKeeps ==
  ASSUME DispatchInv, NEW r \in Requests, NEW m \in Members, NEW ok \in BOOLEAN,
         Owes(r, m), Answered(r, m, ok), UNCHANGED <<vol, present, leaving, inner>>,
         \/ used' = [used EXCEPT ![m] = used[m] - 1] /\ UNCHANGED lost
         \/ lost' = [lost EXCEPT ![m] = lost[m] + 1] /\ UNCHANGED used
  PROVE  DispatchInv'
<1>1. Sound /\ Typed /\ SlotsExact /\ CountExact /\ Durable
  BY DEF DispatchInv, Sound
<1>2. /\ Moves(r) /\ rq[r].pc \in Begins /\ rq'[r].pc = rq[r].pc
      /\ m \in Holds(rq[r]) /\ Holds(rq'[r]) = Holds(rq[r]) \ {m}
      /\ wmask' \subseteq wmask /\ live' \subseteq wmask'
      /\ \/ rq'[r].res = "none" /\ rq'[r].wgen = rq[r].wgen /\ UNCHANGED <<counted, hctx>>
         \/ /\ rq'[r].res # "none" /\ hctx' = Freed(hctx) /\ ~rq'[r].wgen
            /\ counted' = IF rq[r].wgen THEN counted - 1 ELSE counted
      /\ rq'[r].res = "ok" =>
           /\ wmask' \cap rq'[r].errs = {}
           /\ rq'[r].bio.op = "write" => Touched(rq'[r].bio) \cap wmask \subseteq rq'[r].acked
           /\ rq'[r].bio.op = "flush" => wmask \subseteq rq'[r].acked
  BY <1>1, AnsweredDoes
<1>3. /\ inner' \in [Slots -> Nat] /\ counted \in Int /\ rq \in [Requests -> Request]
      /\ vol \in Volumes
  BY <1>1 DEF Typed
<1>4. m \in Slots
  BY <1>3, Columns
<1>5. SlotsExact' /\ used' \in [Slots -> Int] /\ lost' \in [Slots -> Nat]
  BY <1>1, <1>2, <1>4, RingMoves
<1>6. CountExact' /\ counted' \in Int
  <2>1. CASE rq'[r].wgen = rq[r].wgen /\ UNCHANGED counted
    BY <1>1, <1>2, <1>3, <2>1, CountKept
  <2>2. CASE ~rq'[r].wgen /\ ~rq[r].wgen /\ UNCHANGED counted
    BY <1>1, <1>2, <1>3, <2>2, CountKept
  <2>3. CASE ~rq'[r].wgen /\ rq[r].wgen /\ counted' = counted - 1
    <3>1. Cardinality(Counted') = Cardinality(Counted) - 1
      BY <1>2, <1>3, <2>3, CountedMove
    <3> QED
      BY <1>1, <1>3, <2>3, <3>1 DEF CountExact
  <2> QED
    BY <1>2, <2>1, <2>2, <2>3
<1>7. Durable'
  <2>1. ASSUME NEW s \in Requests, rq'[s].res = "ok"
        PROVE  /\ rq'[s].bio.op = "write"
                    => Touched(rq'[s].bio) \cap wmask' \subseteq rq'[s].acked \ rq'[s].errs
               /\ rq'[s].bio.op = "flush"
                    => rq'[s].owe \cap wmask' \subseteq rq'[s].acked \ rq'[s].errs
    <3>1. CASE s = r
      BY <1>2, <2>1, <3>1
    <3>2. CASE s # r
      <4>1. rq'[s] = rq[s]
        BY <1>2, <3>2 DEF Moves
      <4> QED
        BY <1>1, <1>2, <2>1, <4>1 DEF Durable
    <3> QED
      BY <3>1, <3>2
  <2>2. ASSUME NEW s \in Requests
        PROVE  (Touched(rq[s].bio))' = Touched(rq'[s].bio)
    BY TouchedStay
  <2> QED
    BY <2>1, <2>2 DEF Durable
<1>8. hctx' \in Queue /\ Held' /\ Promised'
  <2>0. rq[r].pc # "parked"
    BY <1>2 DEF Begins
  <2>1. CASE rq'[r].res = "none" /\ UNCHANGED hctx
    <3>1. OnItsWay(r)'
      BY <1>2, <2>1 DEF OnItsWay, Begins
    <3> QED
      BY <1>2, <2>0, <2>1, <3>1, WayStays
  <2>2. CASE hctx' = Freed(hctx)
    BY <1>2, <2>0, <2>2, WayEnds
  <2> QED
    BY <1>2, <2>1, <2>2
<1> QED
  BY <1>2, <1>3, <1>5, <1>6, <1>7, <1>8, PartsMake

\* Members that die, synchronous commands and windows.
LEMMA OthersKeep ==
  ASSUME DispatchInv,
         \/ \E m \in Members : Die(m) \/ SyncBegins(m) \/ SyncEnds(m)
         \/ \E c \in Chunks : OpenWindow(c)
         \/ MoveWindow
  PROVE  DispatchInv'
<1>1. Sound /\ Typed
  BY DEF DispatchInv, Sound
<1>2. /\ live \subseteq wmask /\ used \in [Slots -> Int] /\ inner \in [Slots -> Nat]
      /\ vol \in Volumes
  BY <1>1 DEF Typed
<1>3. CASE \/ \E m \in Members : Die(m)
           \/ \E c \in Chunks : OpenWindow(c)
           \/ MoveWindow
  <2>1. UNCHANGED <<vol, present, live, wmask, leaving, rq, used, inner, lost, counted, hctx>>
    BY <1>3 DEF Die, OpenWindow, MoveWindow, volVars, ringVars, gateVars
  <2> QED
    BY <1>2, <2>1, StandsStill
<1>4. ASSUME NEW m \in Members, SyncBegins(m) \/ SyncEnds(m)
      PROVE  DispatchInv'
  <2>1. /\ UNCHANGED <<vol, present, live, wmask, leaving, rq, lost, counted, hctx>>
    BY <1>4 DEF SyncBegins, SyncEnds, volVars, gateVars
  <2>2. m \in Slots
    BY <1>2, Columns
  <2>3. \/ used' = [used EXCEPT ![m] = @ + 1] /\ inner' = [inner EXCEPT ![m] = @ + 1]
        \/ /\ inner[m] > 0
           /\ used' = [used EXCEPT ![m] = @ - 1] /\ inner' = [inner EXCEPT ![m] = @ - 1]
    BY <1>4 DEF SyncBegins, SyncEnds
  <2>4. /\ used' \in [Slots -> Int] /\ inner' \in [Slots -> Nat]
        /\ \A n \in Slots : used'[n] - inner'[n] = used[n] - inner[n]
    BY <1>2, <2>2, <2>3
  <2> QED
    BY <1>2, <2>1, <2>4, StandsStill
<1> QED
  BY <1>3, <1>4

\* A removal begins.
LEMMA RemoveBeginsKeeps ==
  ASSUME DispatchInv, NEW m \in Members, RemoveBegins(m)
  PROVE  DispatchInv'
<1>1. /\ Sound /\ Typed /\ Staying /\ Held /\ Promised
      /\ SlotsExact /\ CountExact /\ Durable /\ hctx \in Queue
  BY DEF DispatchInv, Sound, Typed, Queue
<1>2. /\ UNCHANGED <<vol, present, rq, used, inner, lost, counted>>
      /\ vol.level # "raid0" /\ leaving' = m /\ live' = live \ {m} /\ wmask' = wmask \ {m}
      /\ hctx' = [hctx EXCEPT !.run = TRUE]
  BY DEF RemoveBegins, ringVars, gateVars
<1>3. Staying'
  BY <1>2 DEF Staying
<1>4. /\ hctx' \in Queue /\ hctx'.list = hctx.list /\ hctx'.restart = hctx.restart
      /\ hctx'.run
  BY <1>1, <1>2 DEF Queue
<1>5. Held' /\ Promised'
  BY <1>1, <1>2, <1>4, QueueRests
<1>6. Sound'
  <2>1. InOrder
    BY <1>1, <1>2, InOrderMoves
  <2>2. /\ used' \in [Slots -> Int] /\ inner' \in [Slots -> Nat]
        /\ lost' \in [Slots -> Nat] /\ counted' \in Int
        /\ wmask' \subseteq wmask /\ live' \subseteq wmask'
    BY <1>1, <1>2 DEF Typed
  <2> QED
    BY <1>1, <1>2, <1>3, <1>4, <2>1, <2>2, SoundKept
<1>7. SlotsExact' /\ CountExact' /\ Durable'
  BY <1>1, <1>2, SlotsKept, CountKept, DurableKept
<1> QED
  BY <1>5, <1>6, <1>7 DEF DispatchInv

\* A removal ends: no request is on its way, and the member takes no writes.
LEMMA RemoveEndsKeeps ==
  ASSUME DispatchInv, RemoveEnds
  PROVE  DispatchInv'
<1>1. /\ Sound /\ Typed /\ Staying /\ Held /\ Promised
      /\ SlotsExact /\ CountExact /\ Durable /\ hctx \in Queue
  BY DEF DispatchInv, Sound, Typed, Queue
<1>2. /\ UNCHANGED <<vol, live, wmask, rq, used, inner, lost, counted, hctx>>
      /\ leaving # None /\ present' = present \ {leaving} /\ leaving' = None
      /\ \A r \in Requests : rq[r].bio # None => rq[r].pc = "sent"
  BY DEF RemoveEnds, ringVars, gateVars
<1>3. Staying' /\ wmask \subseteq present'
  BY <1>1, <1>2 DEF Staying, Typed
<1>4. Typed'
  BY <1>1, <1>2, <1>3 DEF Typed
<1>5. ASSUME NEW s \in Requests
      PROVE  (OnPlan(rq[s]) /\ InPlace(rq[s]) /\ Covers(rq[s]))'
  <2>1. OnPlan(rq[s]) /\ InPlace(rq[s]) /\ Covers(rq[s]) /\ rq'[s] = rq[s]
    BY <1>1, <1>2, Known
  <2>2. OnPlan(rq[s])'
    BY <1>2, <2>1, OnPlanStays
  <2>3. InPlace(rq[s])'
    BY <1>2, <2>1, InPlaceStays
  <2>4. rq[s].pc \in {"idle", "sent"}
    BY <1>2, <2>1 DEF InPlace
  <2>5. Touched(rq[s].bio)' = Touched(rq[s].bio)
    BY <1>2, <2>1, TouchedStay
  <2>6. Covers(rq[s])'
    BY <1>2, <2>1, <2>4, <2>5 DEF Covers, Stages
  <2> QED
    BY <2>2, <2>3, <2>6
<1>6. Sound'
  BY <1>3, <1>4, <1>5 DEF Sound
<1>7. Held' /\ Promised'
  BY <1>1, <1>2, QueueRests
<1>8. SlotsExact' /\ CountExact' /\ Durable'
  BY <1>1, <1>2, SlotsKept, CountKept, DurableKept
<1> QED
  BY <1>6, <1>7, <1>8 DEF DispatchInv

-----------------------------------------------------------------------------
(* The theorems.                                                            *)

\* The invariant holds of a volume in service before the first request.
LEMMA DispatchStarts == Init => DispatchInv
<1> SUFFICES ASSUME Init
             PROVE  DispatchInv
  OBVIOUS
<1>1. /\ vol \in Volumes /\ live \in SUBSET Members /\ CanServe(live)
      /\ present \in {live, Members} /\ wmask \in {live, present}
      /\ used = [m \in Slots |-> 0] /\ inner = [m \in Slots |-> 0]
      /\ lost = [m \in Slots |-> 0] /\ rq = [r \in Requests |-> Fresh]
      /\ counted = 0 /\ hctx = [list |-> <<>>, run |-> FALSE, restart |-> FALSE]
      /\ leaving = None
  BY DEF Init
<1>2. Members \subseteq Slots
  BY <1>1, Columns
<1>3. Fresh \in Request
  <2>1. /\ "idle" \in Places /\ <<>> \in Plans /\ None \in Asked \cup {None}
        /\ {} \in SUBSET Slots /\ FALSE \in BOOLEAN /\ 0 \in Nat
    BY DEF Places, Plans
  <2> QED
    BY <2>1 DEF Fresh, Request
<1>4. Typed
  <2>1. hctx \in [list : Seq(Requests), run : BOOLEAN, restart : BOOLEAN]
    BY <1>1
  <2>2. rq \in [Requests -> Request]
    BY <1>1, <1>3
  <2> QED
    BY <1>1, <1>2, <2>1, <2>2 DEF Typed
<1>5. Staying
  <2>1. vol.level = "raid0" => live = Members
    BY <1>1 DEF CanServe
  <2> QED
    BY <1>1, <2>1 DEF Staying
<1>6. OnPlan(Fresh) /\ InPlace(Fresh) /\ Covers(Fresh)
  <2>1. /\ Fresh.pc = "idle" /\ Fresh.bio = None /\ Fresh.set = {} /\ Fresh.left = {}
        /\ Fresh.maps = {} /\ Fresh.acked = {} /\ Fresh.errs = {} /\ ~Fresh.wgen
        /\ Fresh.starts = 0 /\ Fresh.res = "none"
    BY DEF Fresh
  <2>2. OnPlan(Fresh)
    BY <2>1 DEF OnPlan
  <2>3. InPlace(Fresh)
    BY <2>1 DEF InPlace, Early, Begins, Stages
  <2>4. Covers(Fresh)
    BY <2>1 DEF Covers, Begins, Stages
  <2> QED
    BY <2>2, <2>3, <2>4
<1>7. Sound
  BY <1>1, <1>4, <1>5, <1>6 DEF Sound
<1>8. Held /\ Promised
  <2>1. hctx.list = <<>> /\ ~hctx.restart /\ DOMAIN hctx.list = {}
    BY <1>1
  <2> QED
    BY <2>1 DEF Held, Promised
<1>9. SlotsExact
  <2>1. ASSUME NEW m \in Slots
        PROVE  used[m] = Cardinality({r \in Requests : m \in Holds(rq[r])}) + inner[m] + lost[m]
    <3>1. Holds(Fresh) = {}
      BY DEF Fresh, Holds
    <3>2. {r \in Requests : m \in Holds(rq[r])} = {}
      BY <1>1, <3>1
    <3>3. Cardinality({r \in Requests : m \in Holds(rq[r])}) = 0
      BY <3>2, FS_EmptySet
    <3>4. used[m] = 0 /\ inner[m] = 0 /\ lost[m] = 0
      BY <1>1
    <3> QED
      BY <3>3, <3>4
  <2> QED
    BY <2>1 DEF SlotsExact
<1>10. CountExact
  <2>1. Counted = {}
    BY <1>1 DEF Counted, Fresh
  <2> QED
    BY <1>1, <2>1, FS_EmptySet DEF CountExact
<1>11. Durable
  BY <1>1 DEF Durable, Fresh
<1> QED
  BY <1>7, <1>8, <1>9, <1>10, <1>11 DEF DispatchInv

\* Every step keeps it.
LEMMA DispatchSteps == DispatchInv /\ [Next]_vars => DispatchInv'
<1> SUFFICES ASSUME DispatchInv, [Next]_vars
             PROVE  DispatchInv'
  OBVIOUS
<1>1. ASSUME NEW r \in Requests, NEW b \in Bios, Issue(r, b)
      PROVE  DispatchInv'
  BY <1>1, IssueKeeps
<1>2. ASSUME NEW r \in Requests, Check(r) \/ Route(r) \/ Map(r) \/ Build(r)
      PROVE  DispatchInv'
  BY <1>2, CheckKeeps, RouteKeeps, MapKeeps, BuildKeeps
<1>3. ASSUME NEW r \in Requests, Reserve(r) \/ GiveBack(r) \/ HandBack(r)
      PROVE  DispatchInv'
  BY <1>3, ReserveKeeps, GiveBackKeeps, HandBackKeeps
<1>4. ASSUME NEW r \in Requests, Gate(r) \/ Start(r) \/ Submit(r)
      PROVE  DispatchInv'
  BY <1>4, GateKeeps, StartKeeps, SubmitKeeps
<1>5. ASSUME NEW r \in Requests, NEW m \in Members, Answer(r, m)
      PROVE  DispatchInv'
  <2>1. /\ Owes(r, m) /\ Answered(r, m, TRUE) /\ UNCHANGED <<vol, present, leaving, inner>>
        /\ used' = [used EXCEPT ![m] = used[m] - 1] /\ UNCHANGED lost
    BY <1>5 DEF Answer
  <2> QED
    BY <2>1, AnsweredKeeps
<1>6. ASSUME NEW r \in Requests, NEW m \in Members, Drain(r, m)
      PROVE  DispatchInv'
  <2>1. /\ Owes(r, m) /\ Answered(r, m, FALSE) /\ UNCHANGED <<vol, present, leaving, inner>>
        /\ lost' = [lost EXCEPT ![m] = lost[m] + 1] /\ UNCHANGED used
    BY <1>6 DEF Drain
  <2> QED
    BY <2>1, AnsweredKeeps
<1>7. ASSUME \/ \E m \in Members : Die(m) \/ SyncBegins(m) \/ SyncEnds(m)
             \/ \E c \in Chunks : OpenWindow(c)
             \/ MoveWindow
      PROVE  DispatchInv'
  BY <1>7, OthersKeep
<1>8. ASSUME NEW m \in Members, RemoveBegins(m)
      PROVE  DispatchInv'
  BY <1>8, RemoveBeginsKeeps
<1>9. CASE RunQueue
  BY <1>9, RunQueueKeeps
<1>10. CASE RemoveEnds
  BY <1>10, RemoveEndsKeeps
<1>11. CASE UNCHANGED vars
  <2>1. /\ UNCHANGED <<vol, present, live, wmask, leaving, rq, used, inner, lost, counted, hctx>>
    BY <1>11 DEF vars
  <2>2. live \subseteq wmask /\ used \in [Slots -> Int] /\ inner \in [Slots -> Nat]
    BY DEF DispatchInv, Sound, Typed
  <2> QED
    BY <2>1, <2>2, StandsStill
<1> QED
  BY <1>1, <1>2, <1>3, <1>4, <1>5, <1>6, <1>7, <1>8, <1>9, <1>10, <1>11 DEF Next

\* The invariant holds throughout.
LEMMA DispatchAlways == Spec => []DispatchInv
BY DispatchStarts, DispatchSteps, PTL DEF Spec

\* Every slot that is counted in sq_inflight belongs to exactly one command, for
\* any number of dispatches on rings of any size (rc_nvme_sq_reserve and the
\* unreserve loops).
THEOREM SlotsAlwaysExact == Spec => []SlotsExact
<1>1. DispatchInv => SlotsExact
  BY DEF DispatchInv
<1> QED
  BY <1>1, DispatchAlways, PTL

\* A request that blk-mq has back keeps nothing of its dispatch, is not started
\* when it is to be tried again and was started once when it has ended (the error
\* paths of the dispatch functions).
THEOREM NothingEverKept == Spec => []NothingKept
<1>1. DispatchInv => NothingKept
  <2> SUFFICES ASSUME DispatchInv
               PROVE  NothingKept
    OBVIOUS
  <2>1. Sound /\ counted = Cardinality({r \in Requests : rq[r].wgen})
    BY DEF DispatchInv, CountExact, Counted
  <2>2. ASSUME NEW r \in Requests
        PROVE  /\ rq[r].pc = "parked" => rq[r].starts = 0
               /\ rq[r].res # "none" => rq[r].starts = 1
               /\ rq[r].pc = "parked" \/ rq[r].res # "none" => rq[r].maps = {} /\ ~rq[r].wgen
    <3>1. InPlace(rq[r])
      BY <2>1, Known
    <3> QED
      BY <3>1 DEF InPlace, Early, Begins
  <2> QED
    BY <2>1, <2>2 DEF NothingKept
<1> QED
  BY <1>1, DispatchAlways, PTL

\* No dispatch goes through a slot of rc_volume_members whose member has left.
THEOREM MembersAlwaysThere == Spec => []MembersThere
<1>1. DispatchInv => MembersThere
  BY DEF DispatchInv, Sound, Covers, MembersThere
<1> QED
  BY <1>1, DispatchAlways, PTL

\* What ended well is where it has to be, whatever members died or left, and
\* whichever ring was full, on the way (rc_volume_finish_status).
THEOREM AlwaysWritten == Spec => []Durable
<1>1. DispatchInv => Durable
  BY DEF DispatchInv
<1> QED
  BY <1>1, DispatchAlways, PTL

\* What blk-mq holds because a ring was full is tried again: the queue is about to
\* be run, or a request is on its way whose end runs it (BLK_STS_DEV_RESOURCE).
THEOREM NoneEverForgotten == Spec => []NoneForgotten
<1>1. DispatchInv => NoneForgotten
  BY DEF DispatchInv, Held, Promised, AllFull, NoneForgotten
<1> QED
  BY <1>1, DispatchAlways, PTL
=============================================================================
