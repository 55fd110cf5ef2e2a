----------------------------- MODULE LogicalDisk -----------------------------
(***************************************************************************)
(* What the RAID1 volume /dev/rcraid0 promises its users: it behaves as one *)
(* disk.  A read of a sector returns the last write that was acknowledged   *)
(* there; while a write is outstanding, or after one that failed, it may    *)
(* return that write or what was there before.                              *)
(*                                                                          *)
(* There is no member, no resync and no failure here: MirrorResync is shown *)
(* to implement this specification.                                         *)
(***************************************************************************)
CONSTANTS Writers, Sectors, Initial

VARIABLES
  status,      \* status[w]: the life of the write w
  extent,      \* extent[w]: the sectors an outstanding write w covers, or {}
  acceptable,  \* acceptable[s]: the contents the sector may have, all writes
               \* having ended
  readable     \* readable[s]: the contents a read may be served with now

vars == <<status, extent, acceptable, readable>>

Allowed(s) == acceptable[s] \cup {w \in Writers : s \in extent[w]}

\* Whatever happens inside the volume, a read returns something allowed.
ReadsAllowed == \A s \in Sectors : readable[s] \subseteq Allowed(s)

Init ==
  /\ status = [w \in Writers |-> "new"]
  /\ extent = [w \in Writers |-> {}]
  /\ acceptable = [s \in Sectors |-> {Initial}]
  /\ readable = [s \in Sectors |-> {Initial}]

\* A write is issued.
Begin(w, E) ==
  /\ status[w] = "new"
  /\ \A v \in Writers : extent[v] \cap E = {}
  /\ status' = [status EXCEPT ![w] = "pending"]
  /\ extent' = [extent EXCEPT ![w] = E]
  /\ UNCHANGED <<acceptable, readable>>

\* A write ends: acknowledged, failed, or rejected without having any effect.
End(w) ==
  /\ status[w] = "pending"
  /\ status' = [status EXCEPT ![w] = "ended"]
  /\ extent' = [extent EXCEPT ![w] = {}]
  /\ \E left \in {"new contents", "either", "old contents"} :
       acceptable' = [s \in Sectors |->
         IF s \notin extent[w] \/ left = "old contents" THEN acceptable[s]
         ELSE IF left = "either" THEN acceptable[s] \cup {w} ELSE {w}]
  /\ readable' \in [Sectors -> SUBSET UNION {Allowed(s) : s \in Sectors}]

\* The volume moves data, loses or regains copies, and serves from others.
Internal ==
  /\ UNCHANGED <<status, extent, acceptable>>
  /\ readable' \in [Sectors -> SUBSET UNION {Allowed(s) : s \in Sectors}]

Next ==
  /\ \/ \E w \in Writers : End(w) \/ \E E \in SUBSET Sectors : Begin(w, E)
     \/ Internal
  /\ ReadsAllowed'

Spec == Init /\ [][Next]_vars
=============================================================================
