---------------------------- MODULE StripeFanout ----------------------------
(***************************************************************************)
(* Where the sectors of a striped volume live, and how one request, or one  *)
(* rebuild, is turned into commands to its members (src/src/rc_nvme.c).     *)
(*                                                                          *)
(* The address is computed in several places: rc_volume_map_lba for a       *)
(* request inside one stripe, the walk over the request's buffers of the    *)
(* multi-stripe and RAID10 fan-outs, the closed formula of the discards,    *)
(* and the cursor of the resync thread.  A fan-out sends ONE command to each *)
(* member, so the sectors it gives a member must be consecutive there.      *)
(*                                                                          *)
(* A behaviour is the life of one request or of one rebuild.  RAID1 stripes *)
(* nothing; its path is in MirrorResync, and so is the resync gate.         *)
(***************************************************************************)
EXTENDS Integers, Sequences, FiniteSets

CONSTANTS
  Geometries, \* volumes: level, number of members, sectors of a stripe
  Rows, Rest, \* bounds: full rows of stripes in the volume, and sectors after them
  Base,       \* rc_volume_member_phys_offset
  Page,       \* sectors of a page
  MaxSectors, \* max_hw_sectors and max_hw_discard_sectors
  Xfer,       \* RC_RESYNC_XFER_SECTORS
  ReadBoth    \* reads of several stripes of a RAID10 volume with both copies of a
              \* column live

ASSUME FanoutOK ==
  /\ \A g \in Geometries :
       /\ g.level \in {"RAID0", "RAID10"} /\ g.nm \in Nat /\ g.nm >= 2
       /\ g.level = "RAID10" => g.nm % 2 = 0
       /\ g.stripe \in Nat \ {0}
       /\ \A m \in 0 .. g.nm - 1 : Base[m] \in Nat
  /\ Rows \in Nat \ {0} /\ Rest \in Nat
  /\ Page \in Nat \ {0} /\ MaxSectors \in Nat \ {0}
  /\ Xfer \in Nat \ {0} /\ ReadBoth \in BOOLEAN

VARIABLES
  geo,    \* the volume
  req,    \* the request - op, pos, nr, where its buffer starts in a page - or the
          \* rebuild of member "pos"
  live,   \* rc_volume_live_mask, as the request reads it
  wmask,  \* rc_volume_write_mask, as the request reads it
  pc,     \* where it is
  cur,    \* cur_lba, or the cursor of the rebuild
  seg,    \* end of the buffer segment being walked
  sg,     \* the scatter list of each member: sectors of the request, in order
  start,  \* member_start_lba
  cmd,    \* the command to each member: slba and nlb
  chunk,  \* what the rebuild copies: logical, srv_lba, tgt_lba, nlb
  copied  \* the sectors it has copied

fanoutVars == <<geo, req, live, wmask, pc, cur, seg, sg, start, cmd, chunk, copied>>

-----------------------------------------------------------------------------
(* Addresses.                                                               *)

Members == 0 .. geo.nm - 1

\* Stripes are dealt out to columns: members, or mirror pairs {2c, 2c + 1}.
Cols == IF geo.level = "RAID10" THEN geo.nm \div 2 ELSE geo.nm
ColOf(m) == IF geo.level = "RAID10" THEN m \div 2 ELSE m
Column(x) == (x \div geo.stripe) % Cols
Copies(x) == {m \in Members : ColOf(m) = Column(x)}

\* rc_volume_phys_for_member, and the same arithmetic for RAID0 in map_lba.
PhysForMember(m, x) ==
  ((x \div geo.stripe) \div Cols) * geo.stripe + (x % geo.stripe) + Base[m]

\* rc_amd_map_nested_raid10.
NestedMember(x, nm) == 2 * ((x \div geo.stripe) % (nm \div 2))
NestedLba(x, nm) == ((x \div geo.stripe) \div (nm \div 2)) * geo.stripe + (x % geo.stripe)

\* The members rc_volume_map_lba may pick: the column's, or a live copy of it (the
\* round-robin counter is shared by all CPUs).
MapLba(x) == Copies(x) \cap live

\* ld_capacity_sectors, from the metadata.
Capacity == Rows * geo.stripe * Cols + Rest

\* rc_volume_per_member_sectors.
PerMemberSectors == Capacity \div Cols

-----------------------------------------------------------------------------
(* One request.                                                             *)

End == req.pos + req.nr
MultiStripe(pos, nr) == pos \div geo.stripe # (pos + nr - 1) \div geo.stripe
Multi == MultiStripe(req.pos, req.nr)

\* Where the buffer of a sector of the request is in its page.
PageOff(x) == (req.buf + x - req.pos) % Page

\* A column of the volume always has a live copy (rc_volume_fatal), and a live
\* member is in the write mask.
Masks(g) ==
  IF g.level = "RAID0"
  THEN {[l |-> 0 .. g.nm - 1, w |-> 0 .. g.nm - 1]}
  ELSE {k \in [l : SUBSET (0 .. g.nm - 1), w : SUBSET (0 .. g.nm - 1)] :
          k.l \subseteq k.w /\ \A c \in 0 .. g.nm \div 2 - 1 : {2 * c, 2 * c + 1} \cap k.l # {}}

Whole(l, nm) == \E c \in 0 .. nm \div 2 - 1 : {2 * c, 2 * c + 1} \subseteq l

Idle ==
  /\ seg = cur /\ sg = [m \in Members |-> <<>>] /\ start = [m \in Members |-> 0]
  /\ cmd = [m \in Members |-> [slba |-> 0, nlb |-> 0]]
  /\ chunk = [logical |-> 0, srv |-> 0, tgt |-> 0, nlb |-> 0] /\ copied = {}

InitRequest ==
  /\ req \in [op : {"read", "write", "discard"}, pos : 0 .. Capacity - 1,
              nr : 1 .. MaxSectors, buf : 0 .. Page - 1]
  /\ req.op = "discard" => req.buf = 0
  /\ geo.level = "RAID10" /\ req.op = "read" /\ Multi /\ ~ReadBoth
       => ~Whole(live, geo.nm)
  /\ pc = "new" /\ cur = req.pos

\* A member that is not live but written to, whose partner is live.
InitRebuild ==
  /\ geo.level = "RAID10"
  /\ req \in [op : {"rebuild"}, pos : wmask \ live, nr : {0}, buf : {0}]
  /\ pc = "copy" /\ cur = 0

FanoutInit ==
  /\ geo \in Geometries
  /\ \E k \in Masks(geo) : live = k.l /\ wmask = k.w
  /\ InitRequest \/ InitRebuild
  /\ Idle

Refuse ==
  /\ pc' = "refused"
  /\ UNCHANGED <<geo, req, live, wmask, cur, seg, sg, start, cmd, chunk, copied>>

\* Mutant: only the first sector is compared with the capacity.
StartsInside == req.pos < Capacity

\* rc_volume_queue_rq: not past the end of the volume.
InBounds == End <= Capacity

OutOfBounds == pc = "new" /\ ~InBounds /\ Refuse

\* The walk over the buffer, for requests that need more than one member.
StartWalk ==
  /\ pc = "new" /\ InBounds /\ req.op # "discard"
  /\ Multi \/ (geo.level = "RAID10" /\ req.op = "write")
  /\ pc' = "walk"
  /\ UNCHANGED <<geo, req, live, wmask, cur, seg, sg, start, cmd, chunk, copied>>

\* rq_for_each_segment: the next piece of the buffer, inside one page.
TakeSegment(n) ==
  /\ pc = "walk" /\ cur = seg /\ cur + n <= End /\ n <= Page - PageOff(cur)
  /\ seg' = cur + n
  /\ UNCHANGED <<geo, req, live, wmask, pc, cur, sg, start, cmd, chunk, copied>>

\* Mutant: a segment is not split at the end of a stripe.
StripWholeSegment == seg - cur

\* What of the segment lies in the stripe of cur.
StripLen ==
  LET boundary == (cur \div geo.stripe + 1) * geo.stripe
  IN IF seg <= boundary THEN seg - cur ELSE boundary - cur

\* A write goes to every copy in the write mask, a read to one live copy.
Targets == IF req.op = "write" THEN {Copies(cur) \cap wmask}
           ELSE {{m} : m \in MapLba(cur)}

\* The strip is appended to the list of each target; the address of its first is
\* the address of the command.
Strip(targets) ==
  LET n == StripLen
      strip == [i \in 1 .. n |-> cur + i - 1]
  IN /\ pc = "walk" /\ cur < seg
     /\ start' = [m \in Members |->
                    IF m \in targets /\ sg[m] = <<>> THEN PhysForMember(m, cur)
                    ELSE start[m]]
     /\ sg' = [m \in Members |-> IF m \in targets THEN sg[m] \o strip ELSE sg[m]]
     /\ cur' = cur + n
     /\ UNCHANGED <<geo, req, live, wmask, pc, seg, cmd, chunk, copied>>

Involved == {m \in Members : sg[m] # <<>>}

\* A multi-stripe RAID0 request with one member "shouldn't reach here" and is refused.
EndWalk ==
  /\ pc = "walk" /\ cur = End
  /\ pc' = IF geo.level = "RAID0" /\ Cardinality(Involved) < 2 THEN "lonely" ELSE "built"
  /\ UNCHANGED <<geo, req, live, wmask, cur, seg, sg, start, cmd, chunk, copied>>

\* A request inside one stripe, to one member.
Single(m) ==
  /\ pc = "new" /\ InBounds /\ req.op # "discard"
  /\ ~Multi /\ (geo.level = "RAID10" => req.op = "read")
  /\ m \in MapLba(cur)
  /\ start' = [start EXCEPT ![m] = PhysForMember(m, cur)]
  /\ sg' = [sg EXCEPT ![m] = [i \in 1 .. req.nr |-> cur + i - 1]]
  /\ pc' = "built" /\ cur' = End /\ seg' = End
  /\ UNCHANGED <<geo, req, live, wmask, cmd, chunk, copied>>

\* rc_volume_build_prp takes a list when every entry but the first starts at a page
\* boundary; an entry goes on as long as the buffer does (rc_volume_sg_append).
PrpOk(list) ==
  \A k \in 1 .. Len(list) - 1 :
    list[k + 1] = list[k] + 1 \/ PageOff(list[k + 1]) = 0

Unexpressible == pc = "built" /\ ~(\A m \in Members : PrpOk(sg[m])) /\ Refuse

Submit ==
  /\ pc = "built" /\ \A m \in Members : PrpOk(sg[m])
  /\ cmd' = [m \in Members |-> [slba |-> start[m], nlb |-> Len(sg[m])]]
  /\ pc' = "submitted"
  /\ UNCHANGED <<geo, req, live, wmask, cur, seg, sg, start, chunk, copied>>

-----------------------------------------------------------------------------
(* Discards.                                                                *)

\* The stripes of a column inside the request: its first and its last.
FirstOwned(c) ==
  LET first == req.pos \div geo.stripe
  IN first + ((c + Cols - (first % Cols)) % Cols)
LastStripe == (End - 1) \div geo.stripe
LastOwned(c) == FirstOwned(c) + ((LastStripe - FirstOwned(c)) \div Cols) * Cols

\* Mutant: the last stripe of every member is taken to end with the request.
DiscardEndsEverywhere(m) ==
  LET c == ColOf(m)
      from == IF FirstOwned(c) = req.pos \div geo.stripe THEN req.pos % geo.stripe ELSE 0
      to == (End - 1) % geo.stripe
  IN [slba |-> (FirstOwned(c) \div Cols) * geo.stripe + from + Base[m],
      nlb |-> (LastOwned(c) \div Cols - FirstOwned(c) \div Cols) * geo.stripe
                + to - from + 1]

\* One range for each member, without a walk.
DiscardRange(m) ==
  LET c == ColOf(m)
      from == IF FirstOwned(c) = req.pos \div geo.stripe THEN req.pos % geo.stripe ELSE 0
      to == IF LastOwned(c) = LastStripe THEN (End - 1) % geo.stripe ELSE geo.stripe - 1
  IN [slba |-> (FirstOwned(c) \div Cols) * geo.stripe + from + Base[m],
      nlb |-> (LastOwned(c) \div Cols - FirstOwned(c) \div Cols) * geo.stripe
                + to - from + 1]

DiscardFanout ==
  /\ pc = "new" /\ InBounds /\ req.op = "discard"
  /\ Multi \/ geo.level = "RAID10"
  /\ cmd' = [m \in Members |->
               IF m \in wmask /\ FirstOwned(ColOf(m)) <= LastStripe
               THEN DiscardRange(m) ELSE cmd[m]]
  /\ pc' = "submitted"
  /\ UNCHANGED <<geo, req, live, wmask, cur, seg, sg, start, chunk, copied>>

DiscardSingle(m) ==
  /\ pc = "new" /\ InBounds /\ req.op = "discard"
  /\ ~Multi /\ geo.level = "RAID0" /\ m \in MapLba(cur)
  /\ cmd' = [cmd EXCEPT ![m] = [slba |-> PhysForMember(m, cur), nlb |-> req.nr]]
  /\ pc' = "submitted"
  /\ UNCHANGED <<geo, req, live, wmask, cur, seg, sg, start, chunk, copied>>

-----------------------------------------------------------------------------
(* A rebuild of one copy of a column (rc_volume_resync_fn).                 *)

MinOf(a, b) == IF a <= b THEN a ELSE b

\* Mutant: a chunk is not cut at the end of its stripe.
CopyLenUncut == MinOf(Xfer, PerMemberSectors - cur)

CopyLen == MinOf(MinOf(Xfer, geo.stripe - (cur % geo.stripe)), PerMemberSectors - cur)

Partner(m) == IF m % 2 = 0 THEN m + 1 ELSE m - 1

\* The logical address of the cursor, published as the window the writes avoid, and
\* the copy from the partner.
CopyChunk ==
  LET logical == (cur \div geo.stripe) * (geo.stripe * Cols)
                   + (req.pos \div 2) * geo.stripe + (cur % geo.stripe)
  IN /\ pc = "copy" /\ cur < PerMemberSectors
     /\ chunk' = [logical |-> logical, srv |-> cur + Base[Partner(req.pos)],
                  tgt |-> cur + Base[req.pos], nlb |-> CopyLen]
     /\ copied' = copied \cup (logical .. logical + CopyLen - 1)
     /\ cur' = cur + CopyLen
     /\ UNCHANGED <<geo, req, live, wmask, pc, seg, sg, start, cmd>>

CopyDone ==
  /\ pc = "copy" /\ cur >= PerMemberSectors
  /\ pc' = "promoted"
  /\ UNCHANGED <<geo, req, live, wmask, cur, seg, sg, start, cmd, chunk, copied>>

-----------------------------------------------------------------------------
FanoutNext ==
  \/ OutOfBounds \/ StartWalk
  \/ \E n \in 1 .. Page : TakeSegment(n)
  \/ \E targets \in Targets : Strip(targets)
  \/ EndWalk
  \/ \E m \in Members : Single(m) \/ DiscardSingle(m)
  \/ Unexpressible \/ Submit \/ DiscardFanout
  \/ CopyChunk \/ CopyDone

FanoutSpec == FanoutInit /\ [][FanoutNext]_fanoutVars

-----------------------------------------------------------------------------
(* Properties.                                                              *)

FanoutTypeOK ==
  /\ geo \in Geometries /\ live \subseteq wmask /\ wmask \subseteq Members
  /\ pc \in {"new", "walk", "built", "submitted", "refused", "lonely", "copy", "promoted"}
  /\ cur \in 0 .. Capacity + MaxSectors /\ seg \in 0 .. Capacity + MaxSectors
  /\ sg \in [Members -> Seq(0 .. Capacity - 1)]
  /\ start \in [Members -> Nat]
  /\ cmd \in [Members -> [slba : Nat, nlb : 0 .. MaxSectors]]
  /\ chunk \in [logical : Nat, srv : Nat, tgt : Nat, nlb : 0 .. Xfer]
  /\ copied \subseteq Nat

Reached(m) == {cmd[m].slba + i : i \in 0 .. cmd[m].nlb - 1}
Sectors == req.pos .. End - 1

\* Every sector of a request that InitRequest admits goes to the place it has on that
\* member: the k-th of a member's list is k sectors after the address of its command,
\* though stripes of other members lie between them in the request.  Without ReadBoth
\* that is every write, every read of a RAID0 volume or of one stripe, and a read of
\* several stripes of a RAID10 volume with one copy of each column left.  A read of
\* several stripes of a healthy RAID10 volume is not among them: the copy is picked
\* page by page, and some of its sectors come from elsewhere.
RightPlace ==
  pc = "submitted" /\ req.op # "discard" =>
    \A m \in Members : \A k \in 1 .. cmd[m].nlb :
      m \in Copies(sg[m][k]) /\ cmd[m].slba + k - 1 = PhysForMember(m, sg[m][k])

\* A write reaches every copy that takes writes, the one being rebuilt included; a
\* read gets every sector from one live copy; and nothing twice.
AllSent ==
  pc = "submitted" /\ req.op # "discard" =>
    /\ \A x \in Sectors :
         LET to == {m \in Members : \E k \in 1 .. cmd[m].nlb : sg[m][k] = x}
         IN IF req.op = "write" THEN to = Copies(x) \cap wmask
            ELSE Cardinality(to) = 1 /\ to \subseteq live
    /\ \A m \in Members : \A k, l \in 1 .. cmd[m].nlb : sg[m][k] = sg[m][l] => k = l

\* The closed formula of the discards covers what the request's sectors occupy, on
\* every copy that takes writes, and no other sector of any member.
DiscardExact ==
  pc = "submitted" /\ req.op = "discard" =>
    \A m \in Members :
      Reached(m) = {PhysForMember(m, x) : x \in {y \in Sectors : m \in Copies(y) \cap wmask}}

\* The addresses agree: each sector is where as many sectors of its column come
\* before it as its address says, which is what the on-disk layout asks for, and the
\* nested RAID10 map gives the same.
MapPacked ==
  \A m \in Copies(cur) : cur < Capacity =>
    /\ PhysForMember(m, cur) - Base[m] = Cardinality({y \in 0 .. cur - 1 : Column(y) = Column(cur)})
    /\ geo.level = "RAID10" =>
         /\ ColOf(NestedMember(cur, geo.nm)) = ColOf(m)
         /\ NestedLba(cur, geo.nm) = PhysForMember(m, cur) - Base[m]

\* "A chunk that crossed it would map to a NON-contiguous logical range ... the
\* gate would then under-cover": what a rebuild copies is what the window says, at
\* the place it has on both copies.
CopyAligned ==
  req.op = "rebuild" =>
    \A i \in 0 .. chunk.nlb - 1 :
      /\ i < Xfer
      /\ req.pos \in Copies(chunk.logical + i)
      /\ chunk.tgt + i = PhysForMember(req.pos, chunk.logical + i)
      /\ chunk.srv + i = PhysForMember(Partner(req.pos), chunk.logical + i)

\* A copy is only promoted when every sector of its column was copied.
CopyComplete ==
  pc = "promoted" => {x \in 0 .. Capacity - 1 : req.pos \in Copies(x)} \subseteq copied

\* The controller takes a list to fill its pages: nothing but the first page starts,
\* and nothing but the last ends, in the middle.
NoTornPage ==
  pc = "submitted" /\ req.op # "discard" =>
    \A m \in Members : \A k \in 1 .. Len(sg[m]) - 1 :
      \/ sg[m][k + 1] = sg[m][k] + 1
      \/ PageOff(sg[m][k]) = Page - 1 /\ PageOff(sg[m][k + 1]) = 0

\* What a request or a rebuild reaches on each member is what it stands for there,
\* by whichever formula it is computed.
FanoutExact == AllSent /\ DiscardExact /\ MapPacked /\ CopyComplete /\ NoTornPage

\* "merge contiguous fragments precisely so this can't happen": no request within
\* the limits is refused, and none is left with one member only.
NoneRefused == pc \in {"refused", "lonely"} => End > Capacity
=============================================================================
