------------------------- MODULE MirrorResync_proofs -------------------------
(***************************************************************************)
(* What is proved of MirrorResync:                                          *)
(*   TypeCorrect           every variable keeps its type;                   *)
(*   CopyIsExclusive       no submitted write overlaps the chunk copied;    *)
(*   PromotionFollowsCopy  a member becomes LIVE at the end of a complete   *)
(*                         copy only;                                       *)
(*   CopiesStayCurrent     what is read from or was copied to a member is   *)
(*                         never stale;                                     *)
(*   MirrorIsOneDisk       the mirror implements LogicalDisk.               *)
(***************************************************************************)
EXTENDS MirrorResync, TLAPS

\* What an action leaves alone stays typed.
LEMMA Untouched ==
  /\ MembersTyped /\ UNCHANGED memberVars => MembersTyped'
  /\ GateTyped /\ UNCHANGED gateVars => GateTyped'
  /\ ThreadTyped /\ UNCHANGED threadVars => ThreadTyped'
  /\ MediaTyped /\ UNCHANGED mediaVars => MediaTyped'
  /\ FaultsTyped /\ UNCHANGED faultVars => FaultsTyped'
  BY DEF MembersTyped, GateTyped, ThreadTyped, MediaTyped, FaultsTyped,
     memberVars, gateVars, threadVars, mediaVars, faultVars

\* The gate stays typed when blk-mq dispatches what it kept, or not.
LEMMA QueueRun ==
  ASSUME GateTyped, UNCHANGED <<window, wgen, wgenCount>>, bounced' \in {bounced, {}}
  PROVE  GateTyped'
  BY DEF GateTyped

\* Setting the state of some members keeps the three member variables typed.
LEMMA SetStateType ==
  ASSUME MembersTyped, NEW S \in SUBSET Members, NEW st \in States,
         SetState(S, st)
  PROVE  MembersTyped'
  BY DEF MembersTyped, SetState, States

LEMMA MarkFailedType ==
  ASSUME MembersTyped, NEW S \in SUBSET Members, MarkFailed(S)
  PROVE  MembersTyped'
  <1>1. SetState({m \in S : memberState[m] \in {"LIVE", "RESYNCING"}}, "FAILED")
    BY DEF MarkFailed
  <1> QED BY <1>1, SetStateType DEF States

LEMMA FreshType == Fresh \in Requests /\ Idle \in Threads
  BY ConstantsOK DEF Fresh, Idle, Requests, Threads, ReqPcs, Dispatching,
     Sectors, Values, ThreadPcs, Copying

\* The media stay typed when a member executes a write or a copy.
LEMMA OverwriteType ==
  ASSUME MediaTyped, NEW m, NEW f \in [Sectors -> Values]
  PROVE  [data EXCEPT ![m] = f] \in [Members -> [Sectors -> Values]]
  BY DEF MediaTyped

LEMMA WrittenType ==
  ASSUME MediaTyped, NEW m \in Members, NEW w \in Writers
  PROVE  Written(w, m) \in [Members -> [Sectors -> Values]]
  <1> DEFINE f == [s \in Sectors |-> IF s \in Extent(w) THEN w ELSE data[m][s]]
  <1>1. f \in [Sectors -> Values]
    BY DEF MediaTyped, Values
  <1>2. Written(w, m) = [data EXCEPT ![m] = f]
    BY DEF MediaTyped, Written
  <1> QED BY <1>1, <1>2, OverwriteType

LEMMA CopiedType ==
  ASSUME MediaTyped, NEW m \in Members, NEW S, NEW buf \in [Sectors -> Values]
  PROVE  Copied(m, S, buf) \in [Members -> [Sectors -> Values]]
  <1> DEFINE f == [s \in Sectors |-> IF s \in S THEN buf[s] ELSE data[m][s]]
  <1>1. f \in [Sectors -> Values]
    BY DEF MediaTyped
  <1>2. Copied(m, S, buf) = [data EXCEPT ![m] = f]
    BY DEF MediaTyped, Copied
  <1> QED BY <1>1, <1>2, OverwriteType

\* A transient or final error leaves a typed thread with the same target.
LEMMA RetryType ==
  ASSUME resync \in Threads
  PROVE  /\ {Transient, Failed} \subseteq Threads
         /\ Transient.target = resync.target /\ Failed.target = resync.target
         /\ Transient.pc \notin Copying /\ Failed.pc \notin Copying
  <1>1. Idle.buf \in [Sectors -> Values]
    BY DEF Idle, Values
  <1>2. resync.retries \in 0 .. MaxRetries
    BY DEF Threads
  <1>3. resync.retries < MaxRetries => resync.retries + 1 \in 0 .. MaxRetries
    BY <1>2, ConstantsOK
  <1>4. Failed \in Threads
    BY <1>1 DEF Failed, Threads, ThreadPcs, Copying
  <1>5. Transient \in Threads
    BY <1>1, <1>3 DEF Transient, Threads, ThreadPcs, Copying
  <1>6. Transient.target = resync.target /\ Transient.pc \notin Copying
    BY DEF Transient, Threads, Copying
  <1>7. Failed.target = resync.target /\ Failed.pc \notin Copying
    BY DEF Failed, Threads, Copying
  <1> QED BY <1>4, <1>5, <1>6, <1>7

LEMMA InitType == Init => TypeOK
  <1> SUFFICES ASSUME Init PROVE TypeOK
    OBVIOUS
  <1>1. PICK parked \in {{}} \cup {{m} : m \in Members} :
          /\ memberState = [m \in Members |->
                              IF m \in parked THEN "NEEDS_RESYNC" ELSE "LIVE"]
          /\ liveMask = Members \ parked
          /\ writeMask = Members \ parked
          /\ rebuildQueued = (parked # {})
          /\ data = [m \in Members |-> [s \in Sectors |->
                       IF m \in parked THEN Stale ELSE Initial]]
    BY DEF Init
  <1>2. MembersTyped /\ rebuildQueued \in BOOLEAN
    BY <1>1 DEF MembersTyped, States
  <1>3. GateTyped
    BY DEF Init, GateTyped
  <1>4. MediaTyped
    BY <1>1 DEF Init, MediaTyped, Values
  <1>5. ThreadTyped
    <2>1. resync = Idle /\ stop = FALSE
      BY DEF Init
    <2>2. Idle.pc = "none"
      BY DEF Idle
    <2> QED BY <2>1, <2>2, FreshType DEF ThreadTyped, Copying
  <1>6. FaultsTyped
    BY ConstantsOK DEF Init, FaultsTyped
  <1>7. req \in [Writers -> Requests] /\ acceptable \in [Sectors -> SUBSET Values]
    BY FreshType DEF Init, Values
  <1> QED BY <1>2, <1>3, <1>4, <1>5, <1>6, <1>7 DEF TypeOK

\* A request that only moves to another point of its path stays typed.
LEMMA MoveType ==
  ASSUME req \in [Writers -> Requests], NEW w \in Writers, NEW pc \in ReqPcs
  PROVE  [req EXCEPT ![w].pc = pc] \in [Writers -> Requests]
  <1>1. [req[w] EXCEPT !.pc = pc] \in Requests
    BY DEF Requests
  <1> QED BY <1>1

\* The actions of the write path.
LEMMA WriterStepType ==
  ASSUME TypeOK, NEW w \in Writers, WriterStep(w)
  PROVE  TypeOK'
  <1> USE Untouched DEF TypeOK
  <1>0. /\ {"queued", "checked", "snapped", "g_read", "gated", "counted",
            "inflight", "uncounted"} \subseteq ReqPcs
        /\ [Fresh EXCEPT !.pc = "ended"] \in Requests
        /\ [Fresh EXCEPT !.pc = "queued", !.pos = req[w].pos,
                        !.nr = req[w].nr] \in Requests
    BY FreshType DEF Requests, ReqPcs, Dispatching
  <1>1. ASSUME CheckFatal(w) PROVE TypeOK'
    <2>1. MembersTyped'
      <3>1. dead \ absent \in SUBSET Members
        BY DEF FaultsTyped
      <3> QED BY <1>1, <3>1, MarkFailedType DEF CheckFatal
    <2>2. req' \in [Writers -> Requests]
      <3>1. \/ req' = [req EXCEPT ![w].pc = "checked"]
            \/ req' = [req EXCEPT ![w] = [Fresh EXCEPT !.pc = "ended"]]
        BY <1>1 DEF CheckFatal
      <3> QED BY <3>1, <1>0, MoveType
    <2>3. GateTyped'
      BY <1>1, QueueRun DEF CheckFatal
    <2> QED BY <1>1, <2>1, <2>2, <2>3 DEF CheckFatal
  <1>2. ASSUME SnapshotMask(w) PROVE TypeOK'
    <2>1. req' \in [Writers -> Requests]
      <3>1. \/ req' = [req EXCEPT ![w] = [Fresh EXCEPT !.pc = "ended"]]
            \/ req' = [req EXCEPT ![w] = [req[w] EXCEPT !.pc = "snapped",
                                                      !.mask = writeMask]]
        BY <1>2 DEF SnapshotMask
      <3>2. [req[w] EXCEPT !.pc = "snapped", !.mask = writeMask] \in Requests
        BY <1>0 DEF Requests, MembersTyped
      <3> QED BY <3>1, <3>2, <1>0
    <2>2. UNCHANGED <<memberVars, threadVars, rebuildQueued, mediaVars,
                      faultVars, acceptable>>
      BY <1>2 DEF SnapshotMask
    <2>3. GateTyped'
      BY <1>2, QueueRun DEF SnapshotMask
    <2> QED BY <2>1, <2>2, <2>3
  <1>3. ASSUME GateReadGen(w) PROVE TypeOK'
    <2>1. req' \in [Writers -> Requests]
      <3>1. req' = [req EXCEPT ![w] = [req[w] EXCEPT !.pc = "g_read",
                                                    !.g = wgen]]
        BY <1>3 DEF GateReadGen
      <3>2. [req[w] EXCEPT !.pc = "g_read", !.g = wgen] \in Requests
        BY <1>0 DEF Requests, GateTyped
      <3> QED BY <3>1, <3>2
    <2> QED BY <1>3, <2>1 DEF GateReadGen
  <1>4. ASSUME GateCount(w) PROVE TypeOK'
    <2>1. req' \in [Writers -> Requests]
      BY <1>4, <1>0, MoveType DEF GateCount
    <2>2. GateTyped'
      BY <1>4 DEF GateCount, GateTyped
    <2> QED BY <1>4, <2>1, <2>2 DEF GateCount
  <1>5. ASSUME GateRecheck(w) PROVE TypeOK'
    <2>1. req' \in [Writers -> Requests]
      BY <1>5, <1>0, MoveType DEF GateRecheck
    <2>2. GateTyped'
      BY <1>5 DEF GateRecheck, GateTyped
    <2> QED BY <1>5, <2>1, <2>2 DEF GateRecheck
  <1>6. ASSUME GateWindow(w) PROVE TypeOK'
    <2>1. req' \in [Writers -> Requests]
      <3>1. \/ req' = [req EXCEPT ![w] = [Fresh EXCEPT !.pc = "queued",
                                 !.pos = req[w].pos, !.nr = req[w].nr]]
            \/ req' = [req EXCEPT ![w].pc = "inflight"]
        BY <1>6 DEF GateWindow
      <3> QED BY <3>1, <1>0, MoveType
    <2>2. GateTyped'
      BY <1>6 DEF GateWindow, GateTyped
    <2>3. UNCHANGED <<memberVars, threadVars, rebuildQueued, mediaVars,
                      faultVars, acceptable>>
      BY <1>6 DEF GateWindow
    <2> QED BY <2>1, <2>2, <2>3
  <1>7. ASSUME Uncount(w) PROVE TypeOK'
    <2>1. req' \in [Writers -> Requests]
      BY <1>7, <1>0, MoveType DEF Uncount
    <2>2. GateTyped'
      BY <1>7 DEF Uncount, GateTyped
    <2> QED BY <1>7, <2>1, <2>2 DEF Uncount
  <1>8. ASSUME Finish(w) PROVE TypeOK'
    <2>1. MembersTyped'
      <3>1. req[w].err \in SUBSET Members
        BY DEF Requests
      <3> QED BY <1>8, <3>1, MarkFailedType DEF Finish
    <2>2. req' \in [Writers -> Requests]
      BY <1>8, <1>0 DEF Finish
    <2>3. acceptable' \in [Sectors -> SUBSET Values]
      BY <1>8 DEF Finish, Values
    <2>4. GateTyped'
      BY <1>8, QueueRun DEF Finish
    <2> QED BY <1>8, <2>1, <2>2, <2>3, <2>4 DEF Finish
  <1> QED BY <1>1, <1>2, <1>3, <1>4, <1>5, <1>6, <1>7, <1>8 DEF WriterStep

\* The scheduler and the thread.
LEMMA ThreadStepType ==
  ASSUME TypeOK, ThreadStep \/ StartRebuild \/ LateWrite
  PROVE  TypeOK'
  <1> USE Untouched, FreshType, ConstantsOK DEF TypeOK
  <1>1. ASSUME StartRebuild PROVE TypeOK'
    <2>1. rebuildQueued' \in BOOLEAN /\ UNCHANGED <<gateVars, stop, mediaVars,
                                                   faultVars, req, acceptable>>
      BY <1>1 DEF StartRebuild
    <2>2. MembersTyped' /\ ThreadTyped'
      <3>1. CASE UNCHANGED <<memberVars, resync>>
        BY <3>1, <2>1 DEF ThreadTyped, threadVars
      <3>2. ASSUME NEW m \in Members, SetState({m}, "RESYNCING"),
                   resync' = [Idle EXCEPT !.pc = "top", !.target = m]
            PROVE  MembersTyped' /\ ThreadTyped'
        <4>1. MembersTyped'
          BY <3>2, SetStateType DEF States
        <4>2. resync' \in Threads
          BY <3>2 DEF Threads, ThreadPcs, Copying
        <4>3. resync'.target = m /\ resync'.pc = "top"
          BY <3>2 DEF Idle
        <4> QED BY <2>1, <4>1, <4>2, <4>3 DEF ThreadTyped, Copying
      <3> QED BY <1>1, <3>1, <3>2 DEF StartRebuild
    <2> QED BY <2>1, <2>2
  <1>2. ASSUME LoopTop PROVE TypeOK'
    <2>1. ThreadTyped'
      <3>1. resync.pc = "top" /\ stop' = stop
        BY <1>2 DEF LoopTop
      <3>2. \/ resync' = [resync EXCEPT !.pc = "exit",
                                       !.ok = (resync.cursor = Total)]
            \/ \E s \in Survivors(resync.target) :
                 resync' = [resync EXCEPT !.pc = "flip", !.srv = s]
        BY <1>2 DEF LoopTop
      <3>3. Survivors(resync.target) \subseteq Members
        BY DEF Survivors, MembersTyped
      <3>4. resync \in Threads /\ resync.target \in Members
        BY <3>1 DEF ThreadTyped
      <3>5. /\ resync' \in Threads /\ resync'.target = resync.target
            /\ resync'.pc \in Copying => resync'.srv \in Members
        <4>1. CASE resync' = [resync EXCEPT !.pc = "exit",
                                            !.ok = (resync.cursor = Total)]
          <5>1. resync' \in Threads
            BY <4>1, <3>4 DEF Threads, ThreadPcs, Copying
          <5>2. resync'.target = resync.target /\ resync'.pc = "exit"
            BY <4>1, <3>4 DEF Threads
          <5> QED BY <5>1, <5>2 DEF Copying
        <4>2. ASSUME NEW s \in Members,
                     resync' = [resync EXCEPT !.pc = "flip", !.srv = s]
              PROVE  resync' \in Threads /\ resync'.target = resync.target
                       /\ resync'.srv = s
          <5>1. resync' \in Threads
            BY <4>2, <3>4 DEF Threads, ThreadPcs, Copying
          <5>2. resync'.target = resync.target /\ resync'.srv = s
            BY <4>2, <3>4 DEF Threads
          <5> QED BY <5>1, <5>2
        <4> QED BY <3>2, <3>3, <4>1, <4>2
      <3> QED BY <3>1, <3>4, <3>5 DEF ThreadTyped
    <2>2. GateTyped'
      <3>1. /\ window' = window \/ (window' = resync.cursor
                                      /\ resync.cursor # Total)
            /\ wgen' = wgen /\ wgenCount' = wgenCount
            /\ bounced' = bounced
        BY <1>2 DEF LoopTop
      <3>2. resync.cursor \in 0 .. Total
        BY DEF ThreadTyped, Threads
      <3>3. resync.cursor # Total => resync.cursor \in Sectors
        BY <3>2 DEF Sectors
      <3> QED BY <3>1, <3>3 DEF GateTyped
    <2>3. UNCHANGED <<memberVars, rebuildQueued, mediaVars, faultVars, req,
                      acceptable>>
      BY <1>2 DEF LoopTop
    <2> QED BY <2>1, <2>2, <2>3
  <1>3. ASSUME FlipGen PROVE TypeOK'
    <2>1. ThreadTyped'
      BY <1>3 DEF FlipGen, ThreadTyped, Threads, ThreadPcs, Copying, GateTyped
    <2>2. GateTyped'
      BY <1>3 DEF FlipGen, GateTyped
    <2>3. UNCHANGED <<memberVars, rebuildQueued, mediaVars, faultVars, req,
                      acceptable>>
      BY <1>3 DEF FlipGen
    <2> QED BY <2>1, <2>2, <2>3
  <1>4. ASSUME Drain PROVE TypeOK'
    <2>1. ThreadTyped'
      BY <1>4 DEF Drain, ThreadTyped, Threads, ThreadPcs, Copying
    <2>2. UNCHANGED <<memberVars, gateVars, rebuildQueued, mediaVars, faultVars, req,
                      acceptable>>
      BY <1>4 DEF Drain
    <2> QED BY <2>1, <2>2
  <1>5. ASSUME ReadChunk PROVE TypeOK'
    <2>1. ThreadTyped'
      <3> DEFINE read == [s \in Sectors |->
              IF s \in Chunk THEN data[resync.srv][s] ELSE resync.buf[s]]
      <3>1. resync.pc = "read" /\ stop' = stop
        BY <1>5 DEF ReadChunk
      <3>2. /\ resync \in Threads /\ resync.target \in Members
            /\ resync.srv \in Members
        BY <3>1 DEF ThreadTyped, Copying
      <3>3. \/ resync' = [resync EXCEPT !.pc = "write", !.buf = read]
            \/ resync' \in {Transient, Failed}
        BY <1>5 DEF ReadChunk
      <3>4. read \in [Sectors -> Values]
        BY <3>2 DEF MediaTyped, Threads
      <3> HIDE DEF read
      <3>5. /\ resync' \in Threads /\ resync'.target = resync.target
            /\ resync'.pc \in Copying => resync'.srv \in Members
        <4>1. CASE resync' = [resync EXCEPT !.pc = "write", !.buf = read]
          <5>1. resync' \in Threads
            BY <4>1, <3>2, <3>4 DEF Threads, ThreadPcs, Copying
          <5>2. resync'.target = resync.target /\ resync'.srv = resync.srv
            BY <4>1, <3>2 DEF Threads
          <5> QED BY <5>1, <5>2, <3>2
        <4> QED BY <3>2, <3>3, <4>1, RetryType
      <3> QED BY <3>1, <3>2, <3>5 DEF ThreadTyped
    <2>2. UNCHANGED <<memberVars, gateVars, rebuildQueued, mediaVars, faultVars, req,
                      acceptable>>
      BY <1>5 DEF ReadChunk
    <2> QED BY <2>1, <2>2
  <1>6. ASSUME WriteChunk PROVE TypeOK'
    <2>8. resync.pc = "write" /\ stop' = stop
      BY <1>6 DEF WriteChunk
    <2>9. /\ resync \in Threads /\ resync.target \in Members
          /\ resync.buf \in [Sectors -> Values] /\ resync.cursor \in 0 .. Total
      BY <2>8 DEF ThreadTyped, Threads
    <2>1. ThreadTyped'
      <3>1. \/ resync' = [resync EXCEPT !.pc = "top", !.retries = 0,
                   !.cursor = Min(resync.cursor + Xfer, Total),
                   !.buf = Idle.buf]
            \/ resync' \in {Transient, Failed}
        BY <1>6 DEF WriteChunk
      <3>2. Min(resync.cursor + Xfer, Total) \in 0 .. Total
        BY <2>9 DEF Min
      <3>3. /\ resync' \in Threads /\ resync'.target = resync.target
            /\ resync'.pc \notin Copying
        <4> DEFINE end == Min(resync.cursor + Xfer, Total)
        <4>1. CASE resync' = [resync EXCEPT !.pc = "top", !.retries = 0,
                                 !.cursor = end, !.buf = Idle.buf]
          <5> HIDE DEF end
          <5>1. end \in 0 .. Total /\ Idle.buf \in [Sectors -> Values]
            BY <3>2, FreshType DEF end, Threads
          <5> DEFINE t == [resync EXCEPT !.pc = "top", !.retries = 0]
          <5>2. resync' \in Threads
            <6>1. t \in Threads
              <7>1. 0 \in 0 .. MaxRetries
                OBVIOUS
              <7> QED BY <2>9, <7>1 DEF Threads, ThreadPcs, Copying
            <6>2. resync' = [t EXCEPT !.cursor = end, !.buf = Idle.buf]
              BY <4>1, <2>9 DEF Threads
            <6> HIDE DEF t
            <6> QED BY <6>1, <6>2, <5>1 DEF Threads
          <5>3. resync'.target = resync.target /\ resync'.pc = "top"
            BY <4>1, <2>9 DEF Threads
          <5> QED BY <5>2, <5>3 DEF Copying
        <4> QED BY <2>9, <3>1, <4>1, RetryType
      <3> QED BY <2>8, <2>9, <3>3 DEF ThreadTyped
    <2>2. MediaTyped'
      <3>1. /\ data' \in {data, Copied(resync.target, Chunk, resync.buf)}
            /\ \/ late' = late
               \/ late' = late \cup {[m |-> resync.target,
                                      first |-> resync.cursor,
                                      buf |-> resync.buf]}
        BY <1>6 DEF WriteChunk
      <3>2. Copied(resync.target, Chunk, resync.buf)
              \in [Members -> [Sectors -> Values]]
        BY <2>9, CopiedType
      <3>3. [m |-> resync.target, first |-> resync.cursor, buf |-> resync.buf]
              \in Copies
        BY <2>9 DEF Copies
      <3> QED BY <3>1, <3>2, <3>3 DEF MediaTyped
    <2>3. UNCHANGED <<memberVars, gateVars, rebuildQueued, faultVars, req,
                      acceptable>>
      BY <1>6 DEF WriteChunk
    <2> QED BY <2>1, <2>2, <2>3
  <1>7. ASSUME CloseWindow PROVE TypeOK'
    <2>1. ThreadTyped'
      BY <1>7 DEF CloseWindow, ThreadTyped, Threads, ThreadPcs, Copying
    <2>2. GateTyped'
      BY <1>7 DEF CloseWindow, GateTyped
    <2>3. UNCHANGED <<memberVars, rebuildQueued, mediaVars, faultVars, req,
                      acceptable>>
      BY <1>7 DEF CloseWindow
    <2> QED BY <2>1, <2>2, <2>3
  <1>8. ASSUME Settle PROVE TypeOK'
    <2>1. MembersTyped'
      <3>1. resync.target \in Members
        BY <1>8 DEF Settle, ThreadTyped
      <3>2. \/ SetState({resync.target}, "LIVE")
            \/ SetState({resync.target}, "NEEDS_RESYNC")
            \/ UNCHANGED memberVars
        BY <1>8 DEF Settle
      <3> QED BY <3>1, <3>2, SetStateType DEF States
    <2>2. ThreadTyped'
      <3>1. resync' = Idle /\ stop' = FALSE
        BY <1>8 DEF Settle
      <3>2. Idle.pc = "none"
        BY DEF Idle
      <3> QED BY <3>1, <3>2 DEF ThreadTyped, Copying
    <2>3. rebuildQueued' \in BOOLEAN
      BY <1>8 DEF Settle
    <2>4. UNCHANGED <<gateVars, mediaVars, faultVars, req,
                      acceptable>>
      BY <1>8 DEF Settle
    <2> QED BY <2>1, <2>2, <2>3, <2>4
  <1>9. ASSUME LateWrite PROVE TypeOK'
    <2>1. MediaTyped'
      <3>1. PICK c \in late :
              /\ data' = Copied(c.m, c.first .. Min(c.first + Xfer, Total) - 1,
                                c.buf)
              /\ late' = late \ {c}
        BY <1>9 DEF LateWrite
      <3>2. c.buf \in [Sectors -> Values]
        BY DEF MediaTyped, Copies
      <3> QED BY <3>1, <3>2, CopiedType DEF MediaTyped, Copies
    <2>2. UNCHANGED <<memberVars, gateVars, threadVars, rebuildQueued,
                      faultVars, req, acceptable>>
      BY <1>9 DEF LateWrite
    <2> QED BY <2>1, <2>2
  <1> QED BY <1>1, <1>2, <1>3, <1>4, <1>5, <1>6, <1>7, <1>8, <1>9 DEF ThreadStep

\* The answers of the members.
LEMMA AnswerType ==
  ASSUME TypeOK, NEW w \in Writers, NEW m \in Members,
         MemberAnswers(w, m) \/ MediaError(w, m)
  PROVE  TypeOK'
  <1> USE Untouched, ConstantsOK DEF TypeOK
  <1>1. ASSUME MemberAck(w, m) PROVE TypeOK'
    <2>1. req' \in [Writers -> Requests]
      BY <1>1 DEF MemberAck, Requests
    <2>2. MediaTyped'
      <3>1. Written(w, m) \in [Members -> [Sectors -> Values]]
        BY WrittenType
      <3> QED BY <1>1, <3>1 DEF MemberAck, MediaTyped
    <2>3. UNCHANGED <<memberVars, gateVars, threadVars, rebuildQueued,
                      faultVars, acceptable>>
      BY <1>1 DEF MemberAck
    <2> QED BY <2>1, <2>2, <2>3
  <1>2. ASSUME DeadError(w, m) PROVE TypeOK'
    <2>1. req' \in [Writers -> Requests]
      <3> DEFINE r == [req[w] EXCEPT !.acked = req[w].acked \cup {m},
                                     !.err = req[w].err \cup {m}]
      <3>1. r \in Requests
        BY DEF Requests
      <3>2. req' = [req EXCEPT ![w] = r]
        BY <1>2 DEF DeadError
      <3> QED BY <3>1, <3>2
    <2>2. MediaTyped'
      <3>1. Written(w, m) \in [Members -> [Sectors -> Values]]
        BY WrittenType
      <3> QED BY <1>2, <3>1 DEF DeadError, MediaTyped
    <2>3. UNCHANGED <<memberVars, gateVars, threadVars, rebuildQueued,
                      faultVars, acceptable>>
      BY <1>2 DEF DeadError
    <2> QED BY <2>1, <2>2, <2>3
  <1>3. ASSUME MediaError(w, m) PROVE TypeOK'
    <2>1. req' \in [Writers -> Requests]
      <3> DEFINE r == [req[w] EXCEPT !.acked = req[w].acked \cup {m},
                                     !.err = req[w].err \cup {m}]
      <3>1. r \in Requests
        BY DEF Requests
      <3>2. req' = [req EXCEPT ![w] = r]
        BY <1>3 DEF MediaError
      <3> QED BY <3>1, <3>2
    <2>2. FaultsTyped'
      BY <1>3 DEF MediaError, MayFault, FaultsTyped
    <2>3. UNCHANGED <<memberVars, gateVars, threadVars, rebuildQueued,
                      mediaVars, acceptable>>
      BY <1>3 DEF MediaError
    <2> QED BY <2>1, <2>2, <2>3
  <1> QED BY <1>1, <1>2, <1>3 DEF MemberAnswers

\* Faults, reset, removal and re-plug.
LEMMA FaultStepType ==
  ASSUME TypeOK, NEW m \in Members,
         \/ Break(m) \/ OperatorFail(m) \/ Reset(m) \/ RemoveStop(m)
         \/ Replug(m) \/ RemoveStep
  PROVE  TypeOK'
  <1> USE Untouched, ConstantsOK DEF TypeOK
  <1>1. ASSUME Break(m) PROVE TypeOK'
    <2>1. FaultsTyped'
      BY <1>1 DEF Break, MayFault, FaultsTyped
    <2>2. UNCHANGED <<memberVars, gateVars, threadVars, rebuildQueued,
                      mediaVars, req, acceptable>>
      BY <1>1 DEF Break
    <2> QED BY <2>1, <2>2
  <1>2. ASSUME OperatorFail(m) PROVE TypeOK'
    <2>1. MembersTyped'
      BY <1>2, MarkFailedType DEF OperatorFail
    <2>2. FaultsTyped'
      BY <1>2 DEF OperatorFail, MayFault, FaultsTyped
    <2>3. UNCHANGED <<gateVars, threadVars, rebuildQueued, mediaVars, req,
                      acceptable>>
      BY <1>2 DEF OperatorFail
    <2> QED BY <2>1, <2>2, <2>3
  <1>3. ASSUME Reset(m) PROVE TypeOK'
    <2>1. MembersTyped' /\ rebuildQueued' \in BOOLEAN
      <3>1. CASE UNCHANGED <<memberVars, rebuildQueued>>
        BY <3>1
      <3>2. CASE SetState({m}, "NEEDS_RESYNC") /\ rebuildQueued' = TRUE
        BY <3>2, SetStateType DEF States
      <3> QED BY <1>3, <3>1, <3>2 DEF Reset
    <2>2. FaultsTyped'
      BY <1>3 DEF Reset, FaultsTyped
    <2>3. MediaTyped'
      BY <1>3 DEF Reset, MediaTyped
    <2>4. UNCHANGED <<threadVars, req, acceptable>>
      BY <1>3 DEF Reset
    <2>5. GateTyped'
      BY <1>3, QueueRun DEF Reset
    <2> QED BY <2>1, <2>2, <2>3, <2>4, <2>5
  <1>4. ASSUME RemoveStop(m) PROVE TypeOK'
    <2>1. FaultsTyped'
      BY <1>4 DEF RemoveStop, MayFault, FaultsTyped
    <2>2. ThreadTyped'
      BY <1>4 DEF RemoveStop, ThreadTyped
    <2>3. UNCHANGED <<memberVars, gateVars, rebuildQueued, mediaVars, req,
                      acceptable>>
      BY <1>4 DEF RemoveStop
    <2> QED BY <2>1, <2>2, <2>3
  <1>5. ASSUME RemoveDetach PROVE TypeOK'
    <2>1. remove.slot \in Members
      BY <1>5 DEF RemoveDetach, FaultsTyped
    <2>2. MembersTyped'
      BY <1>5, <2>1, SetStateType DEF RemoveDetach, States
    <2>3. FaultsTyped'
      BY <1>5, <2>1 DEF RemoveDetach, FaultsTyped
    <2>4. UNCHANGED <<threadVars, rebuildQueued, mediaVars, req, acceptable>>
      BY <1>5 DEF RemoveDetach
    <2>5. GateTyped'
      BY <1>5, QueueRun DEF RemoveDetach
    <2> QED BY <2>1, <2>2, <2>3, <2>4, <2>5
  <1>6. ASSUME RemoveFinish PROVE TypeOK'
    <2>1. remove.slot \in Members
      BY <1>6 DEF RemoveFinish, FaultsTyped
    <2>2. FaultsTyped'
      BY <1>6, <2>1 DEF RemoveFinish, FaultsTyped
    <2>3. MediaTyped'
      BY <1>6 DEF RemoveFinish, MediaTyped
    <2>4. UNCHANGED <<memberVars, gateVars, threadVars, rebuildQueued, req,
                      acceptable>>
      BY <1>6 DEF RemoveFinish
    <2> QED BY <2>1, <2>2, <2>3, <2>4
  <1>7. ASSUME Replug(m) PROVE TypeOK'
    <2>1. MembersTyped' /\ rebuildQueued' \in BOOLEAN
      BY <1>7, SetStateType DEF Replug, States
    <2>2. FaultsTyped'
      BY <1>7 DEF Replug, FaultsTyped
    <2>3. UNCHANGED <<gateVars, threadVars, mediaVars, req, acceptable>>
      BY <1>7 DEF Replug
    <2> QED BY <2>1, <2>2, <2>3
  <1> QED BY <1>1, <1>2, <1>3, <1>4, <1>5, <1>6, <1>7 DEF RemoveStep

LEMMA IssueType ==
  ASSUME TypeOK, NEW w \in Writers, NEW pos \in Sectors, NEW nr \in 1 .. Total,
         Issue(w, pos, nr)
  PROVE  TypeOK'
  <1> USE Untouched DEF TypeOK
  <1>1. req' \in [Writers -> Requests]
    <2> DEFINE r == [req[w] EXCEPT !.pc = "queued", !.pos = pos, !.nr = nr]
    <2>1. r \in Requests
      BY DEF Requests, ReqPcs, Dispatching
    <2>2. req' = [req EXCEPT ![w] = r]
      BY DEF Issue
    <2> QED BY <2>1, <2>2
  <1>2. UNCHANGED <<memberVars, gateVars, threadVars, rebuildQueued, mediaVars,
                    faultVars, acceptable>>
    BY DEF Issue
  <1> QED BY <1>1, <1>2

\* Every step of the mirror and its resync keeps the variables typed: in
\* particular no count is taken twice, no cursor passes the end.
LEMMA NextType == TypeOK /\ [Next]_vars => TypeOK'
  <1> SUFFICES ASSUME TypeOK, [Next]_vars PROVE TypeOK'
    OBVIOUS
  <1>1. CASE UNCHANGED vars
    BY <1>1, Untouched DEF TypeOK, vars
  <1>2. ASSUME NEW w \in Writers, NEW pos \in Sectors, NEW nr \in 1 .. Total,
               Issue(w, pos, nr)
        PROVE  TypeOK'
    BY <1>2, IssueType
  <1>3. ASSUME NEW w \in Writers, WriterStep(w) PROVE TypeOK'
    BY <1>3, WriterStepType
  <1>4. ASSUME NEW w \in Writers, NEW m \in Members,
               MemberAnswers(w, m) \/ MediaError(w, m)
        PROVE  TypeOK'
    BY <1>4, AnswerType
  <1>5. ASSUME ThreadStep \/ StartRebuild \/ LateWrite PROVE TypeOK'
    BY <1>5, ThreadStepType
  <1>6. ASSUME NEW m \in Members,
               \/ Break(m) \/ OperatorFail(m) \/ Reset(m) \/ RemoveStop(m)
               \/ Replug(m)
        PROVE  TypeOK'
    BY <1>6, FaultStepType
  <1>7. ASSUME RemoveStep PROVE TypeOK'
    <2>1. remove.slot \in Members
      BY <1>7 DEF RemoveStep, RemoveDetach, RemoveFinish, TypeOK, FaultsTyped
    <2> QED BY <1>7, <2>1, FaultStepType
  <1>8. ASSUME RunQueue PROVE TypeOK'
    BY <1>8, Untouched, QueueRun DEF TypeOK, RunQueue
  <1> QED BY <1>1, <1>2, <1>3, <1>4, <1>5, <1>6, <1>7, <1>8 DEF Next

THEOREM TypeCorrect == Spec => []TypeOK
  <1> QED BY InitType, NextType, PTL DEF Spec

-----------------------------------------------------------------------------
(* The exclusion of the copy.  CopyExclusive is not inductive: it has to be  *)
(* known which generation the writes past the gate were counted in.          *)

Counted(w)  == req[w].pc \in {"counted", "gated", "inflight"}
PastGate(w) == req[w].pc \in {"gated", "inflight"}

\* A generation's count is exactly the writes that entered the gate in it.
CountsExact ==
  \A w \in Writers, g \in {0, 1} :
    w \in wgenCount[g] <=> Counted(w) /\ req[w].g = g

\* The window is the chunk being copied; a stop comes from a removal.
WindowOpen == resync.pc \in Copying => window = resync.cursor
StopKnown  == stop => remove.pc = "stopping"

\* Outside the drain every write past the gate was counted in the current
\* generation.  A thread stopped in the drain leaves others behind: then a
\* removal is under way, and its freeze outlives them.
OneGeneration ==
  resync.pc # "drain"
    /\ (remove.pc = "idle" \/ resync.pc \in {"top", "flip", "read", "write"})
  => \A w \in Writers : PastGate(w) => req[w].g = wgen

\* In the drain the overlapping writes are counted in the generation waited for.
DrainCovers ==
  resync.pc = "drain" =>
    /\ resync.oldGen = 1 - wgen
    /\ \A w \in Writers :
         req[w].pc = "inflight" /\ HitsWindow(w) => req[w].g = resync.oldGen

\* After it there are none.
CopyAlone ==
  resync.pc \in {"read", "write"} =>
    \A w \in Writers : req[w].pc = "inflight" => ~HitsWindow(w)

GateInv == /\ CountsExact /\ WindowOpen /\ StopKnown
           /\ OneGeneration /\ DrainCovers /\ CopyAlone

\* An action that does not touch the gate, the thread and the removal, and
\* moves no request in or out of the gate, keeps GateInv.
LEMMA GateUntouched ==
  ASSUME GateInv, UNCHANGED <<window, wgen, wgenCount, threadVars, remove>>,
         \A w \in Writers :
           \/ /\ req'[w].pc = req[w].pc /\ req'[w].g = req[w].g
              /\ req'[w].pos = req[w].pos /\ req'[w].nr = req[w].nr
           \/ ~Counted(w) /\ ~Counted(w)'
  PROVE  GateInv'
  <1>1. UNCHANGED <<window, wgen, wgenCount, resync, stop, remove>>
    BY DEF threadVars
  <1>2. CountsExact'
    BY <1>1 DEF GateInv, CountsExact, Counted
  <1>3. WindowOpen' /\ StopKnown'
    BY <1>1 DEF GateInv, WindowOpen, StopKnown
  <1>4. OneGeneration'
    BY <1>1 DEF GateInv, OneGeneration, Counted, PastGate
  <1>5. DrainCovers'
    BY <1>1 DEF GateInv, DrainCovers, Counted, HitsWindow
  <1>6. CopyAlone'
    BY <1>1 DEF GateInv, CopyAlone, Counted, HitsWindow
  <1> QED BY <1>2, <1>3, <1>4, <1>5, <1>6 DEF GateInv

\* The same when the thread moves on without touching the requests.
LEMMA ThreadMoves ==
  ASSUME GateInv, UNCHANGED <<wgen, wgenCount, req>>,
         WindowOpen', StopKnown', OneGeneration', DrainCovers', CopyAlone'
  PROVE  GateInv'
  BY DEF GateInv, CountsExact, Counted

LEMMA GateInit == Init => GateInv
  <1> SUFFICES ASSUME Init PROVE GateInv
    OBVIOUS
  <1>1. /\ wgenCount = [g \in {0, 1} |-> {}] /\ resync = Idle /\ stop = FALSE
        /\ req = [w \in Writers |-> Fresh]
    BY DEF Init
  <1>2. Idle.pc = "none" /\ Fresh.pc = "new"
    BY DEF Idle, Fresh
  <1>3. \A w \in Writers : ~Counted(w)
    BY <1>1, <1>2 DEF Counted
  <1> QED BY <1>1, <1>2, <1>3 DEF GateInv, CountsExact, WindowOpen, StopKnown,
             OneGeneration, DrainCovers, CopyAlone, Copying, Counted, PastGate

\* The steps of a write.
LEMMA GateWriter ==
  ASSUME TypeOK, GateInv, NEW w \in Writers, WriterStep(w)
  PROVE  GateInv'
  <1>1. /\ req \in [Writers -> Requests] /\ wgen \in {0, 1}
        /\ wgenCount \in [{0, 1} -> SUBSET Writers] /\ req[w].g \in {0, 1}
    BY DEF TypeOK, GateTyped, Requests
  <1>2. UNCHANGED <<window, wgen, threadVars, remove>>
    BY DEF WriterStep, CheckFatal, SnapshotMask, GateReadGen, GateCount,
       GateRecheck, GateWindow, Uncount, Finish, gateVars, faultVars
  <1>3. \A v \in Writers \ {w} : req'[v] = req[v]
    BY <1>1 DEF WriterStep, CheckFatal, SnapshotMask, GateReadGen, GateCount,
       GateRecheck, GateWindow, Uncount, Finish
  <1>4. CASE CheckFatal(w) \/ SnapshotMask(w) \/ GateReadGen(w) \/ Finish(w)
    <2>1. ~Counted(w) /\ UNCHANGED wgenCount
      BY <1>4 DEF Counted, CheckFatal, SnapshotMask, GateReadGen, Finish,
         gateVars
    <2>2. ASSUME CheckFatal(w) \/ SnapshotMask(w) PROVE ~Counted(w)'
      <3>1. \/ req'[w].pc \in {"checked", "snapped"}
            \/ req'[w] = [Fresh EXCEPT !.pc = "ended"]
        BY <2>2, <1>1 DEF CheckFatal, SnapshotMask, Requests
      <3> QED BY <3>1 DEF Counted, Fresh
    <2>3. ASSUME GateReadGen(w) PROVE ~Counted(w)'
      BY <2>3, <1>1 DEF GateReadGen, Counted, Requests
    <2>4. ASSUME Finish(w) PROVE ~Counted(w)'
      <3>1. req'[w] = [Fresh EXCEPT !.pc = "ended"]
        BY <2>4, <1>1 DEF Finish
      <3> QED BY <3>1 DEF Counted, Fresh
    <2>5. ~Counted(w)'
      BY <1>4, <2>2, <2>3, <2>4
    <2> QED BY <1>2, <1>3, <2>1, <2>5, GateUntouched
  <1> DEFINE Enters == /\ ~Counted(w) /\ req'[w].pc = "counted"
                       /\ req'[w].g = req[w].g
                       /\ wgenCount' = [wgenCount EXCEPT
                                          ![req[w].g] = @ \cup {w}]
             Leaves == /\ Counted(w) /\ ~Counted(w)'
                       /\ wgenCount' = [wgenCount EXCEPT ![req[w].g] = @ \ {w}]
             Passes == /\ Counted(w) /\ Counted(w)' /\ wgenCount' = wgenCount
                       /\ req'[w].g = req[w].g /\ req'[w].pos = req[w].pos
                       /\ req'[w].nr = req[w].nr
                       /\ req'[w].pc = "gated" => req[w].g = wgen
                       /\ req'[w].pc = "inflight" => PastGate(w) /\ ~HitsWindow(w)
  <1>5. Enters \/ Leaves \/ Passes => GateInv'
    <2> SUFFICES ASSUME Enters \/ Leaves \/ Passes PROVE GateInv'
      OBVIOUS
    <2>1. CountsExact'
      BY <1>1, <1>3 DEF GateInv, CountsExact, Counted
    <2>2. WindowOpen' /\ StopKnown'
      BY <1>2 DEF GateInv, WindowOpen, StopKnown, threadVars
    <2>3. OneGeneration'
      BY <1>1, <1>2, <1>3 DEF GateInv, OneGeneration, PastGate, Counted, threadVars
    <2>4. DrainCovers'
      BY <1>1, <1>2, <1>3 DEF GateInv, DrainCovers, HitsWindow, Counted, threadVars
    <2>5. CopyAlone'
      BY <1>1, <1>2, <1>3 DEF GateInv, CopyAlone, HitsWindow, Counted, threadVars
    <2> QED BY <2>1, <2>2, <2>3, <2>4, <2>5 DEF GateInv
  <1>6. CASE GateCount(w)
    <2>1. Enters
      BY <1>6, <1>1 DEF GateCount, Counted, Requests
    <2> QED BY <2>1, <1>5
  <1>7. CASE GateRecheck(w)
    <2>1. Leaves \/ Passes
      BY <1>7, <1>1 DEF GateRecheck, Counted, Requests
    <2> QED BY <2>1, <1>5
  <1>8. CASE GateWindow(w)
    <2>1. CASE HitsWindow(w)
      <3>1. /\ Counted(w)
            /\ wgenCount' = [wgenCount EXCEPT ![req[w].g] = @ \ {w}]
        BY <1>8, <2>1 DEF GateWindow, Counted
      <3>2. req'[w] = [Fresh EXCEPT !.pc = "queued", !.pos = req[w].pos,
                                    !.nr = req[w].nr]
        BY <1>8, <2>1, <1>1 DEF GateWindow
      <3>3. ~Counted(w)'
        BY <3>2 DEF Counted, Fresh
      <3> QED BY <3>1, <3>3, <1>5
    <2>2. CASE ~HitsWindow(w)
      <3>1. Counted(w) /\ PastGate(w) /\ wgenCount' = wgenCount
        BY <1>8, <2>2 DEF GateWindow, Counted, PastGate
      <3>2. req'[w] = [req[w] EXCEPT !.pc = "inflight"]
        BY <1>8, <2>2, <1>1 DEF GateWindow
      <3>3. /\ req'[w].pc = "inflight" /\ req'[w].g = req[w].g
            /\ req'[w].pos = req[w].pos /\ req'[w].nr = req[w].nr
        BY <3>2, <1>1 DEF Requests
      <3>4. Passes
        BY <3>1, <3>3, <2>2 DEF Counted
      <3> QED BY <3>4, <1>5
    <2> QED BY <2>1, <2>2
  <1>9. CASE Uncount(w)
    <2>1. Leaves
      BY <1>9, <1>1 DEF Uncount, Counted, Requests
    <2> QED BY <2>1, <1>5
  <1> QED BY <1>4, <1>6, <1>7, <1>8, <1>9 DEF WriterStep

\* Everything the resync thread does: the flip makes the generation of all the
\* writes past the gate the old one, the drain waits until it is empty, and a
\* drain that is given up leaves a removal that will freeze the queue.
LEMMA GateThread ==
  ASSUME TypeOK, GateInv, "unstopped" \notin Admit, ThreadStep \/ StartRebuild
  PROVE  GateInv'
  <1>1. /\ req \in [Writers -> Requests] /\ wgen \in {0, 1}
        /\ wgenCount \in [{0, 1} -> SUBSET Writers] /\ resync \in Threads
    BY DEF TypeOK, GateTyped, ThreadTyped
  <1>2. UNCHANGED <<wgenCount, req, remove>>
    BY DEF ThreadStep, StartRebuild, LoopTop, FlipGen, Drain, ReadChunk,
       WriteChunk, CloseWindow, Settle, gateVars, faultVars
  \* Outside the flip and the drain a step of the thread is harmless.
  <1> DEFINE Calm == /\ wgen' = wgen
                     /\ stop' => stop
                     /\ resync'.pc \in Copying => window' = resync'.cursor
                     /\ resync'.pc # "drain"
                     /\ OneGeneration'
                     /\ resync'.pc \in {"read", "write"} =>
                          resync.pc \in {"read", "write"} /\ window' = window
  <1>3. Calm => GateInv'
    <2> SUFFICES ASSUME Calm PROVE GateInv'
      OBVIOUS
    <2>1. WindowOpen' /\ OneGeneration' /\ DrainCovers'
      BY DEF WindowOpen, DrainCovers
    <2>3. StopKnown'
      BY <1>2 DEF GateInv, StopKnown
    <2>2. CopyAlone'
      BY <1>2 DEF GateInv, CopyAlone, HitsWindow
    <2> QED BY <1>2, <2>1, <2>2, <2>3, ThreadMoves
  <1>4. CASE StartRebuild
    <2>1. UNCHANGED <<window, wgen, stop>>
      BY <1>4 DEF StartRebuild, gateVars
    <2>2. CASE resync' = resync
      BY <1>2, <1>4, <2>1, <2>2, GateUntouched
         DEF StartRebuild, gateVars, threadVars
    <2>3. CASE resync' # resync
      <3>1. resync.pc = "none" /\ remove.pc = "idle" /\ resync'.pc = "top"
        BY <1>4, <2>3 DEF StartRebuild, Idle
      <3>2. OneGeneration'
        BY <1>2, <2>1, <3>1 DEF GateInv, OneGeneration, PastGate
      <3> QED BY <2>1, <3>1, <3>2, <1>3 DEF Copying
    <2> QED BY <2>2, <2>3
  <1>5. CASE LoopTop
    <2>1. /\ UNCHANGED <<wgen, stop>> /\ resync.pc = "top"
          /\ \/ resync'.pc = "exit"
             \/ resync'.pc = "flip" /\ window' = resync'.cursor
      BY <1>5, <1>1 DEF LoopTop, Threads
    <2>2. OneGeneration'
      BY <1>2, <2>1 DEF GateInv, OneGeneration, PastGate
    <2> QED BY <2>1, <2>2, <1>3 DEF Copying
  <1>6. CASE FlipGen
    <2>1. /\ UNCHANGED <<window, stop>> /\ resync.pc = "flip"
          /\ resync'.pc = "drain" /\ resync'.cursor = resync.cursor
          /\ resync'.oldGen = wgen /\ wgen' = 1 - wgen
      BY <1>6, <1>1 DEF FlipGen, Threads
    <2>2. WindowOpen' /\ StopKnown'
      BY <1>2, <2>1 DEF GateInv, WindowOpen, StopKnown, Copying
    <2>3. OneGeneration' /\ CopyAlone'
      BY <2>1 DEF OneGeneration, CopyAlone
    <2>4. \A w \in Writers : PastGate(w) => req[w].g = wgen
      BY <2>1 DEF GateInv, OneGeneration
    <2>5. DrainCovers'
      BY <1>1, <1>2, <2>1, <2>4 DEF DrainCovers, PastGate
    <2>6. CountsExact'
      BY <1>2 DEF GateInv, CountsExact, Counted
    <2> QED BY <2>2, <2>3, <2>5, <2>6 DEF GateInv
  <1>7. CASE Drain
    <2>1. UNCHANGED <<window, wgen, stop>> /\ resync.pc = "drain"
      BY <1>7 DEF Drain, gateVars
    <2>2. CASE wgenCount[resync.oldGen] = {}
      <3>1. resync'.pc = "read" /\ resync'.cursor = resync.cursor
        BY <1>7, <1>1, <2>2 DEF Drain, Threads
      <3>2. resync.oldGen = 1 - wgen
        BY <2>1 DEF GateInv, DrainCovers
      <3>3. \A w \in Writers : Counted(w) => req[w].g # resync.oldGen
        BY <1>1, <2>2, <3>2 DEF GateInv, CountsExact
      <3>4. \A w \in Writers : Counted(w) => req[w].g = wgen
        BY <1>1, <3>2, <3>3 DEF Requests
      <3>5. OneGeneration'
        BY <1>2, <2>1, <3>4 DEF OneGeneration, PastGate, Counted
      <3>6. CopyAlone'
        BY <1>2, <2>1, <3>3 DEF GateInv, DrainCovers, CopyAlone, HitsWindow,
           Counted
      <3>7. WindowOpen' /\ StopKnown' /\ DrainCovers'
        BY <1>2, <2>1, <3>1 DEF GateInv, WindowOpen, StopKnown, DrainCovers,
           Copying
      <3> QED BY <1>2, <2>1, <3>5, <3>6, <3>7, ThreadMoves
    <2>3. CASE wgenCount[resync.oldGen] # {}
      <3>1. resync'.pc = "exit" /\ stop
        BY <1>7, <1>1, <2>3 DEF Drain, Threads
      <3>2. OneGeneration'
        BY <1>2, <3>1 DEF GateInv, StopKnown, OneGeneration
      <3> QED BY <2>1, <3>1, <3>2, <1>3 DEF Copying
    <2> QED BY <2>2, <2>3
  <1>8. CASE ReadChunk \/ WriteChunk
    <2>1. UNCHANGED <<window, wgen, stop>> /\ resync.pc \in {"read", "write"}
      BY <1>8 DEF ReadChunk, WriteChunk, gateVars
    <2>2. \/ resync'.pc \in {"top", "exit"}
          \/ resync'.pc = "write" /\ resync'.cursor = resync.cursor
      BY <1>8, <1>1 DEF ReadChunk, WriteChunk, Transient, Failed, Threads
    <2>3. OneGeneration'
      BY <1>2, <2>1 DEF GateInv, OneGeneration, PastGate
    <2>4. WindowOpen'
      BY <2>1, <2>2 DEF GateInv, WindowOpen, Copying
    <2> QED BY <2>1, <2>2, <2>3, <2>4, <1>3 DEF WindowOpen, Copying
  <1>9. CASE CloseWindow \/ Settle
    <2>1. wgen' = wgen /\ resync.pc \in {"exit", "settle"}
      BY <1>9 DEF CloseWindow, Settle, gateVars
    <2>2. stop' => stop
      BY <1>9 DEF CloseWindow, Settle
    <2>3. ASSUME CloseWindow PROVE resync'.pc = "settle"
      BY <2>3, <1>1 DEF CloseWindow, Threads
    <2>4. ASSUME Settle PROVE resync'.pc = "none"
      BY <2>4 DEF Settle, Idle
    <2>5. resync'.pc \in {"settle", "none"}
      BY <1>9, <2>3, <2>4
    <2>6. OneGeneration'
      BY <1>2, <2>1, <2>5 DEF GateInv, OneGeneration, PastGate
    <2> QED BY <2>1, <2>2, <2>5, <2>6, <1>3 DEF Copying
  <1> QED BY <1>4, <1>5, <1>6, <1>7, <1>8, <1>9 DEF ThreadStep

\* The rest of the system: it leaves the requests where they are in the gate,
\* and a removal freezes the queue before it lets a thread start again.
LEMMA GateOthers ==
  ASSUME TypeOK, GateInv,
         \/ \E w \in Writers :
              \/ \E pos \in Sectors, nr \in 1 .. Total : Issue(w, pos, nr)
              \/ \E m \in Members : MemberAnswers(w, m) \/ MediaError(w, m)
         \/ LateWrite \/ RunQueue
         \/ \E m \in Members : Break(m) \/ OperatorFail(m) \/ Reset(m)
                                 \/ RemoveStop(m) \/ Replug(m)
         \/ RemoveStep
  PROVE  GateInv'
  <1>1. req \in [Writers -> Requests] /\ wgenCount \in [{0, 1} -> SUBSET Writers]
    BY DEF TypeOK, GateTyped
  <1>2. ASSUME NEW w \in Writers, NEW pos \in Sectors, NEW nr \in 1 .. Total,
               Issue(w, pos, nr)
        PROVE  GateInv'
    <2>1. UNCHANGED <<window, wgen, wgenCount, threadVars, remove>>
          /\ ~Counted(w)
      BY <1>2 DEF Issue, gateVars, faultVars, Counted
    <2>2. req' = [req EXCEPT ![w].pc = "queued", ![w].pos = pos, ![w].nr = nr]
      BY <1>2 DEF Issue
    <2>3. req'[w].pc = "queued" /\ \A v \in Writers \ {w} : req'[v] = req[v]
      BY <2>2, <1>1 DEF Requests
    <2>4. ~Counted(w)'
      BY <2>3 DEF Counted
    <2> QED BY <2>1, <2>3, <2>4, GateUntouched
  <1>3. ASSUME NEW w \in Writers, NEW m \in Members,
               MemberAnswers(w, m) \/ MediaError(w, m)
        PROVE  GateInv'
    <2>1. UNCHANGED <<window, wgen, wgenCount, threadVars, remove>>
      BY <1>3 DEF MemberAnswers, MemberAck, DeadError, MediaError, gateVars,
         faultVars
    <2>2. \/ req' = [req EXCEPT ![w].acked = @ \cup {m}]
          \/ req' = [req EXCEPT ![w].acked = @ \cup {m}, ![w].err = @ \cup {m}]
      BY <1>3 DEF MemberAnswers, MemberAck, DeadError, MediaError
    <2>3. \A v \in Writers : /\ req'[v].pc = req[v].pc /\ req'[v].g = req[v].g
                             /\ req'[v].pos = req[v].pos /\ req'[v].nr = req[v].nr
      <3>1. \A v \in Writers : v # w => req'[v] = req[v]
        BY <2>2, <1>1
      <3>2. /\ req'[w].pc = req[w].pc /\ req'[w].g = req[w].g
            /\ req'[w].pos = req[w].pos /\ req'[w].nr = req[w].nr
        BY <2>2, <1>1 DEF Requests
      <3> QED BY <3>1, <3>2
    <2> QED BY <2>1, <2>3, GateUntouched
  <1>4. ASSUME NEW m \in Members,
               Break(m) \/ OperatorFail(m) \/ Reset(m) \/ Replug(m)
        PROVE  GateInv'
    <2>1. UNCHANGED <<window, wgen, wgenCount, threadVars, remove, req>>
      BY <1>4 DEF Break, OperatorFail, Reset, Replug, gateVars, faultVars
    <2> QED BY <2>1, GateUntouched
  <1>5. CASE LateWrite
    <2>1. UNCHANGED <<window, wgen, wgenCount, threadVars, remove, req>>
      BY <1>5 DEF LateWrite, gateVars, faultVars
    <2> QED BY <2>1, GateUntouched
  <1>6. ASSUME NEW m \in Members, RemoveStop(m) PROVE GateInv'
    <2>1. /\ UNCHANGED <<window, wgen, wgenCount, resync, req>>
          /\ remove.pc = "idle" /\ remove'.pc = "stopping"
      BY <1>6 DEF RemoveStop, gateVars
    <2>2. CountsExact' /\ WindowOpen' /\ DrainCovers' /\ CopyAlone'
      BY <2>1 DEF GateInv, CountsExact, WindowOpen, DrainCovers,
         CopyAlone, Counted, HitsWindow
    <2>3. OneGeneration' /\ StopKnown'
      BY <2>1 DEF GateInv, OneGeneration, PastGate, StopKnown
    <2> QED BY <2>2, <2>3 DEF GateInv
  <1>7. CASE RemoveStep
    <2>1. /\ UNCHANGED <<window, wgen, wgenCount, resync, stop, req>> /\ ~stop
          /\ remove.pc \in {"stopping", "freezing"}
          /\ remove'.pc = "idle" => \A w \in Writers : ~Active(w)
      BY <1>7 DEF RemoveStep, RemoveDetach, RemoveFinish, gateVars, threadVars,
         GateInv,
         StopKnown, TypeOK, FaultsTyped
    <2>2. CountsExact' /\ WindowOpen' /\ DrainCovers' /\ CopyAlone'
      BY <2>1 DEF GateInv, CountsExact, WindowOpen, DrainCovers,
         CopyAlone, Counted, HitsWindow
    <2>3. OneGeneration'
      BY <2>1 DEF GateInv, OneGeneration, PastGate, Active
    <2>4. StopKnown'
      BY <2>1 DEF StopKnown
    <2> QED BY <2>2, <2>3, <2>4 DEF GateInv
  <1>8. CASE RunQueue
    <2>1. UNCHANGED <<window, wgen, wgenCount, threadVars, remove, req>>
      BY <1>8 DEF RunQueue, faultVars
    <2> QED BY <2>1, GateUntouched
  <1> QED BY <1>2, <1>3, <1>4, <1>5, <1>6, <1>7, <1>8

LEMMA GateNext ==
  ASSUME TypeOK, GateInv, "unstopped" \notin Admit, [Next]_vars
  PROVE  GateInv'
  <1>1. CASE UNCHANGED vars
    <2>1. UNCHANGED <<window, wgen, wgenCount, threadVars, remove, req>>
      BY <1>1 DEF vars, gateVars, faultVars
    <2> QED BY <2>1, GateUntouched
  <1>2. CASE Next
    BY <1>2, GateWriter, GateThread, GateOthers DEF Next
  <1> QED BY <1>1, <1>2

\* "After the drain, no application write overlapping this chunk is in flight,
\* and none can start until the window moves" (rc_volume_resync_fn): for any
\* members, any writers, any chunk size, while the thread reads or writes a
\* chunk no submitted write overlaps it.  What it takes is that no thread is
\* started while a removal that gave up a drain is still under way.
THEOREM CopyIsExclusive ==
  ASSUME "unstopped" \notin Admit
  PROVE  Spec => []CopyExclusive
  <1>1. Init => TypeOK /\ GateInv
    BY InitType, GateInit
  <1>2. TypeOK /\ GateInv /\ [Next]_vars => (TypeOK /\ GateInv)'
    BY NextType, GateNext
  <1>3. GateInv => CopyExclusive
    BY DEF GateInv, WindowOpen, CopyAlone, CopyExclusive, Copying
  <1> QED BY <1>1, <1>2, <1>3, PTL DEF Spec


-----------------------------------------------------------------------------
(* What the copy protocol achieves.  CopiesCurrent says it of the sectors no *)
(* write covers; to be inductive it has to be said of the others too, of the *)
(* chunk in the thread's buffer, and of the snapshots the writes were taken  *)
(* through the gate with.                                                    *)

\* The masks are those of the states, one member is being resynced at most,
\* and it becomes LIVE only after its last sector.
MasksExact ==
  /\ liveMask = {m \in Members : memberState[m] = "LIVE"}
  /\ writeMask = {m \in Members : memberState[m] \in {"LIVE", "RESYNCING"}}

OneTarget ==
  /\ \A m \in Members : memberState[m] = "RESYNCING" =>
       resync.pc # "none" /\ resync.target = m
  /\ resync.pc # "none" => memberState[resync.target] # "LIVE"

OkAtTheEnd ==
  resync.ok => resync.pc \in {"exit", "settle"} /\ resync.cursor = Total

\* No thread runs while the queue is frozen for a departing member.
ThreadStopped ==
  remove.pc = "freezing" \/ (remove.pc = "stopping" /\ ~stop)
    => resync.pc = "none"

\* Outstanding writes do not overlap, and their answers start when they are
\* submitted and are complete when their count is given back.
Apart == \A v, w \in Writers :
  v # w /\ Active(v) /\ Active(w) => Extent(v) \cap Extent(w) = {}

Unanswered(w) == req[w].acked = {} /\ req[w].err = {}

Answered == \A w \in Writers :
  /\ ~Landing(w) => Unanswered(w)
  /\ req[w].pc = "uncounted" => req[w].mask \subseteq req[w].acked

\* A write with a snapshot that is not yet counted out goes to every LIVE
\* member, and to the target too, unless the thread has yet to wait for it.
Sampled(w) ==
  req[w].pc \in {"snapped", "g_read", "counted", "gated", "inflight"}

FirstDrainAhead(w) ==
  /\ PastGate(w) /\ resync.cursor = 0
  /\ \/ resync.pc \in {"top", "flip", "exit", "settle"}
     \/ resync.pc = "drain" /\ req[w].g = resync.oldGen

LiveWritten == \A w \in Writers, m \in Members :
  memberState[m] = "LIVE" /\ Sampled(w) => m \in req[w].mask

TargetWritten == \A w \in Writers, m \in Members :
  memberState[m] = "RESYNCING" /\ Sampled(w) /\ m \notin req[w].mask
    => FirstDrainAhead(w)

\* The sectors of m that are read from it, or that the copy is past.
Vouched(m) ==
  IF memberState[m] = "LIVE" THEN Sectors
  ELSE IF memberState[m] = "RESYNCING" THEN 0 .. resync.cursor - 1 ELSE {}

\* A write on its way to the media covers s.
Covers(w, s) == Landing(w) /\ s \in Extent(w)

\* Such a sector holds what it may hold between writes, or the one write that
\* covers it; and it holds that write once the member answered without error,
\* or was copied over after the write.
Holds(m, s) ==
  /\ Quiet(s) => data[m][s] \in acceptable[s]
  /\ \A w \in Writers : Covers(w, s) =>
       \/ data[m][s] = w
       \/ /\ data[m][s] \in acceptable[s]
          /\ m \in req[w].err \cup (req[w].mask \ req[w].acked)

ContentsRight == \A m \in Members : \A s \in Vouched(m) : Holds(m, s)

\* What was read from the survivor is still right when it is written.
BufferRight == resync.pc = "write" => \A s \in Chunk :
  /\ Quiet(s) => resync.buf[s] \in acceptable[s]
  /\ \A w \in Writers : Covers(w, s) => resync.buf[s] = w

MembersInv == MasksExact /\ OneTarget /\ OkAtTheEnd
WritesInv  == Apart /\ Answered /\ LiveWritten /\ TargetWritten
MediaInv   == late = {} /\ ContentsRight /\ BufferRight /\ DepartedNotCopied
CopyInv    == MembersInv /\ ThreadStopped /\ WritesInv /\ MediaInv

-----------------------------------------------------------------------------
(* What the actions do, field by field.                                      *)

\* A step of one request leaves the others alone.
LEMMA OnlyOne ==
  ASSUME req \in [Writers -> Requests], NEW w \in Writers,
         \/ \E pos \in Sectors, nr \in 1 .. Total : Issue(w, pos, nr)
         \/ WriterStep(w)
         \/ \E m \in Members : MemberAnswers(w, m) \/ MediaError(w, m)
  PROVE  \A v \in Writers \ {w} : req'[v] = req[v]
  <1>1. ASSUME NEW pos, NEW nr, Issue(w, pos, nr)
        PROVE  \A v \in Writers \ {w} : req'[v] = req[v]
    BY <1>1 DEF Issue
  <1>2. CASE WriterStep(w)
    BY <1>2 DEF WriterStep, CheckFatal, SnapshotMask, GateReadGen, GateCount,
       GateRecheck, GateWindow, Uncount, Finish
  <1>3. ASSUME NEW m \in Members, MemberAnswers(w, m) \/ MediaError(w, m)
        PROVE  \A v \in Writers \ {w} : req'[v] = req[v]
    BY <1>3 DEF MemberAnswers, MemberAck, DeadError, MediaError
  <1> QED BY <1>1, <1>2, <1>3

\* A request that ends, is bounced by the window, or moves on.
Ends(w)    == /\ req'[w].pc = "ended" /\ req'[w].acked = {} /\ req'[w].err = {}
              /\ req'[w].mask = {}
Advances(w, from, to) ==
  /\ req[w].pc = from /\ req'[w].pc = to
  /\ req'[w].pos = req[w].pos /\ req'[w].nr = req[w].nr
  /\ req'[w].acked = req[w].acked /\ req'[w].err = req[w].err

LEMMA IssueDoes ==
  ASSUME req \in [Writers -> Requests], NEW w \in Writers,
         NEW pos, NEW nr, Issue(w, pos, nr)
  PROVE  /\ req[w].pc = "new" /\ req'[w].pc = "queued"
         /\ req'[w].pos = pos /\ req'[w].nr = nr
         /\ req'[w].acked = req[w].acked /\ req'[w].err = req[w].err
  <1>1. req'[w] = [req[w] EXCEPT !.pc = "queued", !.pos = pos, !.nr = nr]
    BY DEF Issue
  <1> QED BY <1>1 DEF Issue, Requests

LEMMA CheckFatalDoes ==
  ASSUME req \in [Writers -> Requests], NEW w \in Writers, CheckFatal(w)
  PROVE  \/ Advances(w, "queued", "checked")
         \/ req[w].pc = "queued" /\ Ends(w)
  <1>1. \/ req'[w] = [req[w] EXCEPT !.pc = "checked"]
        \/ req'[w] = [Fresh EXCEPT !.pc = "ended"]
    BY DEF CheckFatal
  <1>2. req[w].pc = "queued"
    BY DEF CheckFatal
  <1> QED BY <1>1, <1>2 DEF Requests, Advances, Ends, Fresh

LEMMA SnapshotMaskDoes ==
  ASSUME req \in [Writers -> Requests], NEW w \in Writers, SnapshotMask(w)
  PROVE  \/ Advances(w, "checked", "snapped") /\ req'[w].mask = writeMask
         \/ req[w].pc = "checked" /\ Ends(w)
  <1>1. \/ req'[w] = [req[w] EXCEPT !.pc = "snapped", !.mask = writeMask]
        \/ req'[w] = [Fresh EXCEPT !.pc = "ended"]
    BY DEF SnapshotMask
  <1>2. req[w].pc = "checked"
    BY DEF SnapshotMask
  <1> QED BY <1>1, <1>2 DEF Requests, Advances, Ends, Fresh

LEMMA GateDoes ==
  ASSUME req \in [Writers -> Requests], NEW w \in Writers
  PROVE  /\ GateReadGen(w) => /\ Advances(w, "snapped", "g_read")
                              /\ req'[w].mask = req[w].mask
         /\ GateCount(w)   => /\ Advances(w, "g_read", "counted")
                              /\ req'[w].mask = req[w].mask
         /\ GateRecheck(w) => /\ \/ Advances(w, "counted", "gated")
                                 \/ Advances(w, "counted", "snapped")
                              /\ req'[w].mask = req[w].mask
                              /\ req'[w].g = req[w].g
         /\ Uncount(w)     => /\ Advances(w, "inflight", "uncounted")
                              /\ req'[w].mask = req[w].mask
                              /\ req[w].mask \subseteq req[w].acked
  <1>1. ASSUME GateReadGen(w)
        PROVE  Advances(w, "snapped", "g_read") /\ req'[w].mask = req[w].mask
    <2>1. req'[w] = [req[w] EXCEPT !.pc = "g_read", !.g = wgen]
      BY <1>1 DEF GateReadGen
    <2> QED BY <1>1, <2>1 DEF GateReadGen, Requests, Advances
  <1>2. ASSUME GateCount(w)
        PROVE  Advances(w, "g_read", "counted") /\ req'[w].mask = req[w].mask
    <2>1. req'[w] = [req[w] EXCEPT !.pc = "counted"]
      BY <1>2 DEF GateCount
    <2> QED BY <1>2, <2>1 DEF GateCount, Requests, Advances
  <1>3. ASSUME GateRecheck(w)
        PROVE  /\ \/ Advances(w, "counted", "gated")
                  \/ Advances(w, "counted", "snapped")
               /\ req'[w].mask = req[w].mask /\ req'[w].g = req[w].g
    <2>1. \/ req'[w] = [req[w] EXCEPT !.pc = "gated"]
          \/ req'[w] = [req[w] EXCEPT !.pc = "snapped"]
      BY <1>3 DEF GateRecheck
    <2> QED BY <1>3, <2>1 DEF GateRecheck, Requests, Advances
  <1>4. ASSUME Uncount(w)
        PROVE  /\ Advances(w, "inflight", "uncounted")
               /\ req'[w].mask = req[w].mask
               /\ req[w].mask \subseteq req[w].acked
    <2>1. req'[w] = [req[w] EXCEPT !.pc = "uncounted"]
      BY <1>4 DEF Uncount
    <2> QED BY <1>4, <2>1 DEF Uncount, Requests, Advances, Owed
  <1> QED BY <1>1, <1>2, <1>3, <1>4

LEMMA GateWindowDoes ==
  ASSUME req \in [Writers -> Requests], NEW w \in Writers, GateWindow(w)
  PROVE  \/ /\ Advances(w, "gated", "inflight") /\ ~HitsWindow(w)
            /\ req'[w].mask = req[w].mask /\ req'[w].g = req[w].g
         \/ /\ req[w].pc = "gated" /\ req'[w].pc = "queued"
            /\ req'[w].pos = req[w].pos /\ req'[w].nr = req[w].nr
            /\ req'[w].acked = {} /\ req'[w].err = {}
  <1>1. req[w].pc = "gated"
    BY DEF GateWindow
  <1>2. CASE HitsWindow(w)
    <2>1. req'[w] = [Fresh EXCEPT !.pc = "queued", !.pos = req[w].pos,
                                  !.nr = req[w].nr]
      BY <1>2 DEF GateWindow
    <2> QED BY <1>1, <2>1 DEF Fresh
  <1>3. CASE ~HitsWindow(w)
    <2>1. req'[w] = [req[w] EXCEPT !.pc = "inflight"]
      BY <1>3 DEF GateWindow
    <2> QED BY <1>1, <1>3, <2>1 DEF Requests, Advances
  <1> QED BY <1>2, <1>3

LEMMA FinishDoes ==
  ASSUME req \in [Writers -> Requests], NEW w \in Writers, Finish(w)
  PROVE  req[w].pc = "uncounted" /\ Ends(w)
  <1>1. req'[w] = [Fresh EXCEPT !.pc = "ended"]
    BY DEF Finish
  <1> QED BY <1>1 DEF Finish, Ends, Fresh

\* An answer of the member m, good or bad.
Answers(w, m) ==
  /\ req[w].pc = "inflight" /\ req'[w].pc = "inflight"
  /\ req'[w].pos = req[w].pos /\ req'[w].nr = req[w].nr
  /\ req'[w].mask = req[w].mask /\ req'[w].g = req[w].g
  /\ req'[w].acked = req[w].acked \cup {m}

LEMMA AnswerDoes ==
  ASSUME req \in [Writers -> Requests], NEW w \in Writers, NEW m \in Members
  PROVE  /\ MemberAck(w, m) =>
              Answers(w, m) /\ req'[w].err = req[w].err
         /\ DeadError(w, m) \/ MediaError(w, m) =>
              Answers(w, m) /\ req'[w].err = req[w].err \cup {m}
  <1>1. ASSUME MemberAck(w, m)
        PROVE  Answers(w, m) /\ req'[w].err = req[w].err
    <2>1. req'[w] = [req[w] EXCEPT !.acked = req[w].acked \cup {m}]
      BY <1>1 DEF MemberAck
    <2>2. req[w].pc = "inflight"
      BY <1>1 DEF MemberAck, Owed
    <2> QED BY <2>1, <2>2 DEF Requests, Answers
  <1>2. ASSUME DeadError(w, m) \/ MediaError(w, m)
        PROVE  Answers(w, m) /\ req'[w].err = req[w].err \cup {m}
    <2>1. req'[w] = [req[w] EXCEPT !.acked = req[w].acked \cup {m},
                                  !.err = req[w].err \cup {m}]
      BY <1>2 DEF DeadError, MediaError
    <2>2. req[w].pc = "inflight"
      BY <1>2 DEF DeadError, MediaError, Owed
    <2> QED BY <2>1, <2>2 DEF Requests, Answers
  <1> QED BY <1>1, <1>2

\* The steps of the thread.
Keeps == /\ resync'.target = resync.target /\ resync'.cursor = resync.cursor
         /\ resync'.ok = resync.ok

LEMMA LoopTopDoes ==
  ASSUME resync \in Threads, LoopTop
  PROVE  /\ resync.pc = "top"
         /\ resync'.target = resync.target /\ resync'.cursor = resync.cursor
         /\ \/ resync'.pc = "exit" /\ resync'.ok = (resync.cursor = Total)
            \/ /\ resync'.pc = "flip" /\ resync'.ok = resync.ok
               /\ resync'.srv \in Survivors(resync.target)
               /\ resync.target \notin absent
  <1>1. resync.pc = "top"
    BY DEF LoopTop
  <1>2. CASE resync' = [resync EXCEPT !.pc = "exit",
                                      !.ok = (resync.cursor = Total)]
    BY <1>1, <1>2 DEF Threads
  <1>3. ASSUME NEW s \in Survivors(resync.target),
               resync' = [resync EXCEPT !.pc = "flip", !.srv = s],
               resync.target \notin absent
        PROVE  /\ resync'.target = resync.target
               /\ resync'.cursor = resync.cursor
               /\ resync'.pc = "flip" /\ resync'.ok = resync.ok
               /\ resync'.srv = s
    BY <1>3 DEF Threads
  <1> QED BY <1>1, <1>2, <1>3 DEF LoopTop

LEMMA FlipGenDoes ==
  ASSUME resync \in Threads, FlipGen
  PROVE  /\ Keeps /\ resync.pc = "flip" /\ resync'.pc = "drain"
         /\ resync'.srv = resync.srv /\ resync'.oldGen = wgen
  BY DEF FlipGen, Threads, Keeps

LEMMA DrainDoes ==
  ASSUME resync \in Threads, Drain
  PROVE  /\ Keeps /\ resync.pc = "drain" /\ resync'.srv = resync.srv
         /\ \/ resync'.pc = "read" /\ wgenCount[resync.oldGen] = {}
            \/ resync'.pc = "exit"
  BY DEF Drain, Threads, Keeps

LEMMA FallsBack ==
  ASSUME resync \in Threads, resync' \in {Transient, Failed}
  PROVE  Keeps /\ resync'.pc \in {"top", "exit"}
  BY DEF Transient, Failed, Threads, Keeps

LEMMA ReadChunkDoes ==
  ASSUME resync \in Threads, ReadChunk
  PROVE  /\ Keeps /\ resync.pc = "read"
         /\ \/ resync'.pc \in {"top", "exit"}
            \/ /\ resync'.pc = "write" /\ resync'.srv = resync.srv
               /\ StillSurvives \/ "survivor" \in Admit
               /\ \A s \in Sectors : s \in Chunk =>
                    resync'.buf[s] = data[resync.srv][s]
  <1>1. CASE resync' \in {Transient, Failed}
    BY <1>1, FallsBack DEF ReadChunk
  <1>2. CASE ~(resync' \in {Transient, Failed})
    <2>1. /\ resync' = [resync EXCEPT !.pc = "write",
                !.buf = [s \in Sectors |->
                           IF s \in Chunk THEN data[resync.srv][s]
                                          ELSE resync.buf[s]]]
          /\ StillSurvives \/ "survivor" \in Admit
      BY <1>2 DEF ReadChunk
    <2>2. resync'.buf = [s \in Sectors |->
                           IF s \in Chunk THEN data[resync.srv][s]
                                          ELSE resync.buf[s]]
      BY <2>1 DEF Threads
    <2>3. Keeps /\ resync'.pc = "write" /\ resync'.srv = resync.srv
      BY <2>1 DEF Threads, Keeps
    <2> QED BY <2>1, <2>2, <2>3 DEF ReadChunk
  <1> QED BY <1>1, <1>2

LEMMA WriteChunkDoes ==
  ASSUME resync \in Threads, WriteChunk
  PROVE  /\ resync.pc = "write" /\ resync'.target = resync.target
         /\ resync'.ok = resync.ok
         /\ \/ resync'.cursor = resync.cursor /\ resync'.pc \in {"top", "exit"}
            \/ /\ resync'.cursor = Min(resync.cursor + Xfer, Total)
               /\ resync'.pc = "top"
               /\ data' = Copied(resync.target, Chunk, resync.buf)
         /\ "late_write" \notin Admit =>
              /\ late' = late
              /\ data' \in {data, Copied(resync.target, Chunk, resync.buf)}
  <1>1. CASE resync' \in {Transient, Failed}
    <2>1. /\ resync.pc = "write"
          /\ "late_write" \notin Admit =>
               /\ late' = late
               /\ data' \in {data, Copied(resync.target, Chunk, resync.buf)}
      BY <1>1 DEF WriteChunk
    <2> QED BY <1>1, <2>1, FallsBack DEF Keeps
  <1>2. CASE ~(resync' \in {Transient, Failed})
    <2>1. /\ resync' = [resync EXCEPT !.pc = "top", !.retries = 0,
                !.cursor = Min(resync.cursor + Xfer, Total), !.buf = Idle.buf]
          /\ resync.pc = "write" /\ late' = late
          /\ data' = Copied(resync.target, Chunk, resync.buf)
      BY <1>2 DEF WriteChunk
    <2> QED BY <2>1 DEF Threads
  <1> QED BY <1>1, <1>2

LEMMA CloseWindowDoes ==
  ASSUME resync \in Threads, CloseWindow
  PROVE  Keeps /\ resync.pc = "exit" /\ resync'.pc = "settle"
  BY DEF CloseWindow, Threads, Keeps

LEMMA SettleDoes ==
  ASSUME Settle
  PROVE  /\ resync.pc = "settle" /\ resync'.pc = "none"
         /\ resync'.ok = FALSE /\ resync'.cursor = 0
  BY DEF Settle, Idle

\* A thread is started for a parked member; without the two races, while no
\* removal is under way and no write holds a snapshot that lacks it.
Starts(m) ==
  /\ memberState[m] = "NEEDS_RESYNC" /\ SetState({m}, "RESYNCING")
  /\ resync.pc = "none"
  /\ "unstopped" \in Admit \/ remove.pc = "idle"
  /\ "snapshot" \in Admit \/ ~Bypasses(m)
  /\ resync'.pc = "top" /\ resync'.target = m /\ resync'.cursor = 0
  /\ resync'.ok = FALSE

LEMMA StartRebuildDoes ==
  ASSUME StartRebuild
  PROVE  \/ UNCHANGED <<memberVars, resync>>
         \/ \E m \in Members : Starts(m)
  <1>1. CASE UNCHANGED <<memberVars, resync>>
    BY <1>1
  <1>2. CASE ~UNCHANGED <<memberVars, resync>>
    <2>1. PICK m \in Members :
            /\ memberState[m] = "NEEDS_RESYNC" /\ SetState({m}, "RESYNCING")
            /\ resync.pc = "none"
            /\ "unstopped" \in Admit \/ remove.pc = "idle"
            /\ "snapshot" \in Admit \/ ~Bypasses(m)
            /\ resync' = [Idle EXCEPT !.pc = "top", !.target = m]
      BY <1>2 DEF StartRebuild
    <2>2. /\ resync'.pc = "top" /\ resync'.target = m /\ resync'.cursor = 0
          /\ resync'.ok = FALSE
      BY <2>1 DEF Idle
    <2> QED BY <2>1, <2>2 DEF Starts
  <1> QED BY <1>1, <1>2

-----------------------------------------------------------------------------
(* The states, the thread and the removal.                                   *)

LEMMA SetStateExact ==
  ASSUME TypeOK, MasksExact, NEW S \in SUBSET Members, NEW st \in States,
         SetState(S, st)
  PROVE  MasksExact'
  BY DEF TypeOK, MembersTyped, MasksExact, SetState, States

LEMMA MarkFailedExact ==
  ASSUME TypeOK, MasksExact, NEW S \in SUBSET Members, MarkFailed(S)
  PROVE  MasksExact'
  <1>1. SetState({m \in S : memberState[m] \in {"LIVE", "RESYNCING"}}, "FAILED")
    BY DEF MarkFailed
  <1> QED BY <1>1, SetStateExact DEF States

\* Apart from the start and the end of a copy, a step only takes members out
\* of service.
Demotes == \A m \in Members :
  memberState'[m] \in {"LIVE", "RESYNCING"} => memberState'[m] = memberState[m]

LEMMA SetStateDemotes ==
  ASSUME TypeOK, NEW S \in SUBSET Members, NEW st \in {"FAILED", "NEEDS_RESYNC"},
         SetState(S, st)
  PROVE  Demotes
  BY DEF TypeOK, MembersTyped, SetState, Demotes

LEMMA MarkFailedDemotes ==
  ASSUME TypeOK, NEW S \in SUBSET Members, MarkFailed(S)
  PROVE  /\ Demotes
         /\ \A m \in S : memberState'[m] \notin {"LIVE", "RESYNCING"}
  <1>1. SetState({m \in S : memberState[m] \in {"LIVE", "RESYNCING"}}, "FAILED")
    BY DEF MarkFailed
  <1>2. Demotes
    BY <1>1, SetStateDemotes
  <1>3. \A m \in S : memberState'[m] \notin {"LIVE", "RESYNCING"}
    BY <1>1 DEF SetState
  <1> QED BY <1>2, <1>3

\* The end of the copy.
Promotes(m) ==
  /\ resync.pc = "settle" /\ resync.target = m /\ resync.ok
  /\ memberState[m] = "RESYNCING" /\ SetState({m}, "LIVE")

LEMMA MembersMove ==
  ASSUME TypeOK, MasksExact, [Next]_vars
  PROVE  /\ MasksExact'
         /\ \/ Demotes
            \/ StartRebuild /\ \E m \in Members : Starts(m)
            \/ Settle /\ \E m \in Members : Promotes(m)
  <1> DEFINE Goal == /\ MasksExact'
                     /\ \/ Demotes
                        \/ StartRebuild /\ \E m \in Members : Starts(m)
                        \/ Settle /\ \E m \in Members : Promotes(m)
  <1>1. ASSUME UNCHANGED memberVars PROVE Goal
    BY <1>1 DEF memberVars, MasksExact, Demotes
  <1>2. ASSUME NEW S \in SUBSET Members, MarkFailed(S) PROVE Goal
    BY <1>2, MarkFailedExact, MarkFailedDemotes
  <1>3. ASSUME NEW m \in Members, NEW st \in {"FAILED", "NEEDS_RESYNC"},
               SetState({m}, st)
        PROVE  Goal
    <2>1. st \in States
      BY DEF States
    <2> QED BY <1>3, <2>1, SetStateExact, SetStateDemotes
  <1>4. ASSUME UNCHANGED vars PROVE Goal
    BY <1>1, <1>4 DEF vars
  <1>5. ASSUME NEW w \in Writers, WriterStep(w) PROVE Goal
    <2>1. ASSUME CheckFatal(w) PROVE Goal
      <3>1. dead \ absent \in SUBSET Members
        BY DEF TypeOK, FaultsTyped
      <3>2. MarkFailed(dead \ absent)
        BY <2>1 DEF CheckFatal
      <3> QED BY <1>2, <3>1, <3>2
    <2>2. ASSUME Finish(w) PROVE Goal
      <3>1. req[w].err \in SUBSET Members
        BY DEF TypeOK, Requests
      <3>2. MarkFailed(req[w].err)
        BY <2>2 DEF Finish
      <3> QED BY <1>2, <3>1, <3>2
    <2>3. ASSUME \/ SnapshotMask(w) \/ GateReadGen(w) \/ GateCount(w)
                 \/ GateRecheck(w) \/ GateWindow(w) \/ Uncount(w)
          PROVE  Goal
      BY <1>1, <2>3 DEF SnapshotMask, GateReadGen, GateCount, GateRecheck,
         GateWindow, Uncount
    <2> QED BY <1>5, <2>1, <2>2, <2>3 DEF WriterStep
  <1>6. ASSUME NEW w \in Writers,
               \/ \E pos \in Sectors, nr \in 1 .. Total : Issue(w, pos, nr)
               \/ \E m \in Members : MemberAnswers(w, m) \/ MediaError(w, m)
        PROVE  Goal
    BY <1>1, <1>6 DEF Issue, MemberAnswers, MemberAck, DeadError, MediaError
  <1>7. ASSUME StartRebuild PROVE Goal
    <2>1. CASE UNCHANGED memberVars
      BY <1>1, <2>1
    <2>2. ASSUME NEW m \in Members, Starts(m) PROVE Goal
      <3>1. MasksExact'
        BY <2>2, SetStateExact DEF Starts, States
      <3> QED BY <1>7, <2>2, <3>1
    <2> QED BY <1>7, <2>1, <2>2, StartRebuildDoes
  <1>8. ASSUME Settle PROVE Goal
    <2>1. resync.target \in Members
      BY <1>8 DEF Settle, TypeOK, ThreadTyped
    <2>2. CASE UNCHANGED memberVars
      BY <1>1, <2>2
    <2>3. CASE SetState({resync.target}, "NEEDS_RESYNC")
      BY <1>3, <2>1, <2>3
    <2>4. CASE resync.ok /\ SetState({resync.target}, "LIVE")
                 /\ memberState[resync.target] = "RESYNCING"
      <3>1. MasksExact'
        BY <2>1, <2>4, SetStateExact DEF States
      <3>2. Promotes(resync.target)
        BY <1>8, <2>4 DEF Promotes, Settle
      <3> QED BY <1>8, <2>1, <3>1, <3>2
    <2> QED BY <1>8, <2>2, <2>3, <2>4 DEF Settle
  <1>9. ASSUME LoopTop \/ FlipGen \/ Drain \/ ReadChunk \/ WriteChunk
                 \/ CloseWindow \/ LateWrite \/ RunQueue
        PROVE  Goal
    BY <1>1, <1>9 DEF LoopTop, FlipGen, Drain, ReadChunk, WriteChunk,
       CloseWindow, LateWrite, RunQueue
  <1>10. ASSUME NEW m \in Members,
                Break(m) \/ OperatorFail(m) \/ Reset(m) \/ RemoveStop(m)
                  \/ Replug(m)
         PROVE  Goal
    <2>1. CASE OperatorFail(m)
      <3>1. MarkFailed({m}) /\ {m} \in SUBSET Members
        BY <2>1 DEF OperatorFail
      <3> QED BY <1>2, <3>1
    <2>2. CASE Reset(m) \/ Replug(m)
      <3>1. SetState({m}, "NEEDS_RESYNC") \/ UNCHANGED memberVars
        BY <2>2 DEF Reset, Replug
      <3> QED BY <1>1, <1>3, <3>1
    <2>3. CASE Break(m) \/ RemoveStop(m)
      BY <1>1, <2>3 DEF Break, RemoveStop
    <2> QED BY <1>10, <2>1, <2>2, <2>3
  <1>11. ASSUME RemoveStep PROVE Goal
    <2>1. CASE RemoveDetach
      <3>1. SetState({remove.slot}, "FAILED") /\ remove.slot \in Members
        BY <2>1 DEF RemoveDetach, TypeOK, FaultsTyped
      <3> QED BY <1>3, <3>1
    <2>2. CASE RemoveFinish
      BY <1>1, <2>2 DEF RemoveFinish
    <2> QED BY <1>11, <2>1, <2>2 DEF RemoveStep
  <1> HIDE DEF Goal
  <1>12. Next => Goal
    BY <1>5, <1>6, <1>7, <1>8, <1>9, <1>10, <1>11 DEF Next, ThreadStep
  <1>13. Goal
    BY <1>4, <1>12
  <1> QED BY <1>13 DEF Goal

\* The thread keeps its target from start to end.
LEMMA ThreadMovesOn ==
  ASSUME TypeOK, Next
  PROVE  \/ UNCHANGED resync
         \/ /\ resync.pc # "none" /\ resync'.pc # "none"
            /\ resync'.target = resync.target
            /\ LoopTop \/ FlipGen \/ Drain \/ ReadChunk \/ WriteChunk
                 \/ CloseWindow
         \/ Settle
         \/ StartRebuild /\ \E m \in Members : Starts(m)
  <1>1. resync \in Threads
    BY DEF TypeOK, ThreadTyped
  <1>2. CASE LoopTop \/ FlipGen \/ Drain \/ ReadChunk \/ WriteChunk
               \/ CloseWindow
    <2>1. CASE LoopTop
      BY <1>1, <2>1, LoopTopDoes
    <2>2. CASE FlipGen
      BY <1>1, <2>2, FlipGenDoes DEF Keeps
    <2>3. CASE Drain
      BY <1>1, <2>3, DrainDoes DEF Keeps
    <2>4. CASE ReadChunk
      BY <1>1, <2>4, ReadChunkDoes DEF Keeps
    <2>5. CASE WriteChunk
      BY <1>1, <2>5, WriteChunkDoes
    <2>6. CASE CloseWindow
      BY <1>1, <2>6, CloseWindowDoes DEF Keeps
    <2> QED BY <1>2, <2>1, <2>2, <2>3, <2>4, <2>5, <2>6
  <1>3. CASE StartRebuild
    BY <1>3, StartRebuildDoes
  <1>4. ASSUME NEW w \in Writers,
               \/ \E pos \in Sectors, nr \in 1 .. Total : Issue(w, pos, nr)
               \/ WriterStep(w)
               \/ \E m \in Members : MemberAnswers(w, m) \/ MediaError(w, m)
        PROVE  UNCHANGED resync
    <2>1. CASE WriterStep(w)
      BY <2>1 DEF WriterStep, CheckFatal, SnapshotMask, GateReadGen, GateCount,
         GateRecheck, GateWindow, Uncount, Finish, threadVars
    <2>2. CASE ~WriterStep(w)
      BY <1>4, <2>2 DEF Issue, MemberAnswers, MemberAck, DeadError, MediaError,
         threadVars
    <2> QED BY <2>1, <2>2
  <1>5. ASSUME NEW m \in Members,
               Break(m) \/ OperatorFail(m) \/ Reset(m) \/ RemoveStop(m)
                 \/ Replug(m)
        PROVE  UNCHANGED resync
    BY <1>5 DEF Break, OperatorFail, Reset, RemoveStop, Replug, threadVars
  <1>6. CASE LateWrite \/ RemoveStep \/ RunQueue
    BY <1>6 DEF LateWrite, RemoveStep, RemoveDetach, RemoveFinish, RunQueue,
       threadVars
  <1> QED BY <1>2, <1>3, <1>4, <1>5, <1>6 DEF Next, ThreadStep

LEMMA OneTargetNext ==
  ASSUME TypeOK, MasksExact, OneTarget, Next
  PROVE  OneTarget'
  <1>0. memberState \in [Members -> States] /\ memberState' \in [Members -> States]
    BY NextType DEF TypeOK, MembersTyped
  <1>1. CASE Settle
    <2>1. resync'.pc = "none"
      BY <1>1, SettleDoes
    <2>2. \A m \in Members : memberState'[m] # "RESYNCING"
      BY <1>0, <1>1 DEF OneTarget, Settle, SetState, memberVars
    <2> QED BY <2>1, <2>2 DEF OneTarget
  <1>2. ASSUME NEW m \in Members, Starts(m) PROVE OneTarget'
    <2>1. \A n \in Members : memberState'[n] = "RESYNCING" => n = m
      BY <1>2 DEF OneTarget, Starts, SetState
    <2>2. memberState'[m] = "RESYNCING"
      BY <1>2 DEF Starts, SetState
    <2> QED BY <1>2, <2>1, <2>2 DEF OneTarget, Starts
  <1>3. ASSUME Demotes, ~Settle,
               \/ UNCHANGED resync
               \/ /\ resync.pc # "none" /\ resync'.pc # "none"
                  /\ resync'.target = resync.target
        PROVE  OneTarget'
    <2>1. resync.pc # "none" => resync.target \in Members
      BY DEF TypeOK, ThreadTyped
    <2> QED BY <1>3, <2>1 DEF OneTarget, Demotes
  <1>4. [Next]_vars
    OBVIOUS
  <1> QED BY <1>1, <1>2, <1>3, <1>4, MembersMove, ThreadMovesOn

LEMMA OkAtTheEndNext ==
  ASSUME TypeOK, OkAtTheEnd, Next
  PROVE  OkAtTheEnd'
  <1>1. resync \in Threads
    BY DEF TypeOK, ThreadTyped
  <1>2. CASE UNCHANGED resync
    BY <1>2 DEF OkAtTheEnd
  <1>3. CASE Settle
    BY <1>3, SettleDoes DEF OkAtTheEnd
  <1>4. ASSUME NEW m \in Members, Starts(m) PROVE OkAtTheEnd'
    BY <1>4 DEF Starts, OkAtTheEnd
  <1>5. CASE LoopTop
    BY <1>1, <1>5, LoopTopDoes DEF OkAtTheEnd
  <1>6. CASE FlipGen
    BY <1>1, <1>6, FlipGenDoes DEF OkAtTheEnd, Keeps
  <1>7. CASE Drain
    BY <1>1, <1>7, DrainDoes DEF OkAtTheEnd, Keeps
  <1>8. CASE ReadChunk
    BY <1>1, <1>8, ReadChunkDoes DEF OkAtTheEnd, Keeps
  <1>9. CASE WriteChunk
    BY <1>1, <1>9, WriteChunkDoes DEF OkAtTheEnd
  <1>10. CASE CloseWindow
    BY <1>1, <1>10, CloseWindowDoes DEF OkAtTheEnd, Keeps
  <1> QED BY <1>2, <1>3, <1>4, <1>5, <1>6, <1>7, <1>8, <1>9, <1>10,
             ThreadMovesOn

LEMMA RemovalMoves ==
  ASSUME TypeOK, Next
  PROVE  \/ UNCHANGED <<remove, stop, absent>>
         \/ Settle /\ UNCHANGED <<remove, absent>>
         \/ /\ \E m \in Members : RemoveStop(m)
            /\ UNCHANGED <<resync, absent>>
         \/ RemoveDetach /\ UNCHANGED <<resync, stop, absent>>
         \/ RemoveFinish /\ UNCHANGED <<resync, stop>> /\ remove'.pc = "idle"
         \/ UNCHANGED <<remove, stop, resync>> /\ absent' \subseteq absent
  <1>1. ASSUME NEW w \in Writers,
               \/ \E pos \in Sectors, nr \in 1 .. Total : Issue(w, pos, nr)
               \/ WriterStep(w)
               \/ \E m \in Members : MemberAnswers(w, m) \/ MediaError(w, m)
        PROVE  UNCHANGED <<remove, stop, absent>>
    <2>1. CASE WriterStep(w)
      BY <2>1 DEF WriterStep, CheckFatal, SnapshotMask, GateReadGen, GateCount,
         GateRecheck, GateWindow, Uncount, Finish, threadVars, faultVars
    <2>2. CASE ~WriterStep(w)
      BY <1>1, <2>2 DEF Issue, MemberAnswers, MemberAck, DeadError, MediaError,
         threadVars, faultVars
    <2> QED BY <2>1, <2>2
  <1>2. ASSUME LoopTop \/ FlipGen \/ Drain \/ ReadChunk \/ WriteChunk
                 \/ CloseWindow \/ LateWrite \/ StartRebuild \/ RunQueue
        PROVE  UNCHANGED <<remove, stop, absent>>
    BY <1>2 DEF LoopTop, FlipGen, Drain, ReadChunk, WriteChunk, CloseWindow,
       LateWrite, StartRebuild, RunQueue, threadVars, faultVars
  <1>3. ASSUME Settle PROVE UNCHANGED <<remove, absent>>
    BY <1>3 DEF Settle, faultVars
  <1>4. ASSUME NEW m \in Members,
               Break(m) \/ OperatorFail(m) \/ Reset(m)
        PROVE  UNCHANGED <<remove, stop, absent>>
    BY <1>4 DEF Break, OperatorFail, Reset, threadVars
  <1>5. ASSUME NEW m \in Members, RemoveStop(m)
        PROVE  UNCHANGED <<resync, absent>>
    BY <1>5 DEF RemoveStop
  <1>6. ASSUME NEW m \in Members, Replug(m)
        PROVE  UNCHANGED <<remove, stop, resync>> /\ absent' \subseteq absent
    BY <1>6 DEF Replug, threadVars
  <1>7. ASSUME RemoveDetach PROVE UNCHANGED <<resync, stop, absent>>
    BY <1>7 DEF RemoveDetach, threadVars
  <1>8. ASSUME RemoveFinish
        PROVE  UNCHANGED <<resync, stop>> /\ remove'.pc = "idle"
    BY <1>8 DEF RemoveFinish, threadVars
  <1> QED BY <1>1, <1>2, <1>3, <1>4, <1>5, <1>6, <1>7, <1>8
          DEF Next, ThreadStep, RemoveStep

LEMMA ThreadStoppedNext ==
  ASSUME TypeOK, ThreadStopped, Next, "unstopped" \notin Admit
  PROVE  ThreadStopped'
  <1>1. CASE Settle
    BY <1>1, SettleDoes DEF ThreadStopped
  <1>2. ASSUME ~Settle, UNCHANGED <<remove, stop>> PROVE ThreadStopped'
    BY <1>2, ThreadMovesOn DEF ThreadStopped, Starts
  <1>3. ASSUME NEW m \in Members, RemoveStop(m) PROVE ThreadStopped'
    BY <1>3 DEF RemoveStop, ThreadStopped
  <1>4. ASSUME RemoveDetach, UNCHANGED <<resync, stop>> PROVE ThreadStopped'
    BY <1>4 DEF RemoveDetach, ThreadStopped
  <1>5. ASSUME remove'.pc = "idle" PROVE ThreadStopped'
    BY <1>5 DEF ThreadStopped
  <1> QED BY <1>1, <1>2, <1>3, <1>4, <1>5, RemovalMoves

LEMMA DepartedNext ==
  ASSUME TypeOK, ThreadStopped, DepartedNotCopied, Next
  PROVE  DepartedNotCopied'
  <1>1. resync \in Threads
    BY DEF TypeOK, ThreadTyped
  <1>2. CASE Settle
    BY <1>2, SettleDoes DEF DepartedNotCopied, Copying
  <1>3. ASSUME UNCHANGED resync, absent' \subseteq absent PROVE DepartedNotCopied'
    BY <1>3 DEF DepartedNotCopied
  <1>4. CASE RemoveFinish
    <2>1. remove.pc = "freezing" /\ resync' = resync
      BY <1>4 DEF RemoveFinish, threadVars
    <2> QED BY <2>1 DEF ThreadStopped, DepartedNotCopied, Copying
  <1>5. ASSUME NEW m \in Members, Starts(m) PROVE DepartedNotCopied'
    BY <1>5 DEF Starts, DepartedNotCopied, Copying
  <1>6. ASSUME LoopTop, UNCHANGED absent PROVE DepartedNotCopied'
    BY <1>1, <1>6, LoopTopDoes DEF Survivors, DepartedNotCopied, Copying
  <1>7. ASSUME FlipGen \/ Drain \/ ReadChunk \/ WriteChunk \/ CloseWindow,
               UNCHANGED absent
        PROVE  DepartedNotCopied'
    <2>1. /\ resync.pc \in Copying \cup {"exit"}
          /\ resync'.target = resync.target
          /\ resync'.pc \in Copying =>
               resync.pc \in Copying /\ resync'.srv = resync.srv
      <3>1. CASE FlipGen
        BY <1>1, <3>1, FlipGenDoes DEF Keeps, Copying
      <3>2. CASE Drain
        BY <1>1, <3>2, DrainDoes DEF Keeps, Copying
      <3>3. CASE ReadChunk
        BY <1>1, <3>3, ReadChunkDoes DEF Keeps, Copying
      <3>4. CASE WriteChunk
        BY <1>1, <3>4, WriteChunkDoes DEF Copying
      <3>5. CASE CloseWindow
        BY <1>1, <3>5, CloseWindowDoes DEF Keeps, Copying
      <3> QED BY <1>7, <3>1, <3>2, <3>3, <3>4, <3>5
    <2> QED BY <1>7, <2>1 DEF DepartedNotCopied
  <1>8. CASE UNCHANGED resync
    BY <1>3, <1>4, <1>8, <1>2, RemovalMoves
  <1>9. CASE ~UNCHANGED resync
    BY <1>2, <1>5, <1>6, <1>7, <1>9, RemovalMoves, ThreadMovesOn
  <1> QED BY <1>8, <1>9

LEMMA MembersInit == Init => MembersInv
  <1> SUFFICES ASSUME Init PROVE MembersInv
    OBVIOUS
  <1>1. resync.pc = "none" /\ resync.ok = FALSE
    BY DEF Init, Idle
  <1>2. PICK parked \in {{}} \cup {{m} : m \in Members} :
          /\ memberState = [m \in Members |->
                              IF m \in parked THEN "NEEDS_RESYNC" ELSE "LIVE"]
          /\ liveMask = Members \ parked
          /\ writeMask = Members \ parked
    BY DEF Init
  <1> QED BY <1>1, <1>2 DEF MembersInv, MasksExact, OneTarget, OkAtTheEnd

LEMMA MembersNext ==
  ASSUME TypeOK, MembersInv, [Next]_vars
  PROVE  MembersInv'
  <1>1. MasksExact'
    BY MembersMove DEF MembersInv
  <1>2. CASE Next
    BY <1>1, <1>2, OneTargetNext, OkAtTheEndNext DEF MembersInv
  <1>3. CASE UNCHANGED vars
    BY <1>3 DEF MembersInv, MasksExact, OneTarget, OkAtTheEnd, vars, memberVars,
       threadVars
  <1> QED BY <1>2, <1>3

\* A member becomes LIVE only from RESYNCING, at the end of a complete copy: no
\* reset, re-plug or failure path puts a stale mirror back into the reads,
\* whatever races are admitted.
THEOREM PromotionFollowsCopy == Spec => PromotedOnlyByCopy
  <1>1. Init => TypeOK /\ MembersInv
    BY InitType, MembersInit
  <1>2. TypeOK /\ MembersInv /\ [Next]_vars => (TypeOK /\ MembersInv)'
    BY NextType, MembersNext
  <1>3. ASSUME TypeOK, MembersInv, [Next]_vars, NEW m \in Members,
               memberState[m] # "LIVE", memberState'[m] = "LIVE"
        PROVE  resync.target = m /\ resync.ok /\ resync.cursor = Total
    <2>1. ~Demotes
      BY <1>3 DEF Demotes
    <2>2. ~\E n \in Members : Starts(n)
      BY <1>3 DEF Starts, SetState
    <2>3. PICK n \in Members : Promotes(n)
      BY <1>3, <2>1, <2>2, MembersMove DEF MembersInv
    <2>4. m = n
      BY <1>3, <2>3 DEF Promotes, SetState
    <2> QED BY <1>3, <2>3, <2>4 DEF Promotes, MembersInv, OkAtTheEnd
  <1>4. TypeOK /\ MembersInv /\ [Next]_vars =>
          [\A m \in Members : memberState[m] # "LIVE" /\ memberState'[m] = "LIVE"
             => resync.target = m /\ resync.ok /\ resync.cursor = Total]_vars
    BY <1>3
  <1> QED BY <1>1, <1>2, <1>4, PTL DEF Spec, PromotedOnlyByCopy

-----------------------------------------------------------------------------
(* The writes.                                                               *)

\* A step of one request, whatever happens to the rest of the system.
RequestStep(w) ==
  \/ \E pos \in Sectors, nr \in 1 .. Total : Issue(w, pos, nr)
  \/ WriterStep(w)
  \/ \E m \in Members : MemberAnswers(w, m) \/ MediaError(w, m)

LEMMA RequestsMove ==
  ASSUME Next
  PROVE  UNCHANGED req \/ \E w \in Writers : RequestStep(w)
  <1>1. CASE StartRebuild \/ ThreadStep \/ LateWrite \/ RemoveStep \/ RunQueue
    BY <1>1 DEF RunQueue, StartRebuild, ThreadStep, LoopTop, FlipGen, Drain, ReadChunk,
       WriteChunk, CloseWindow, Settle, LateWrite, RemoveStep, RemoveDetach,
       RemoveFinish
  <1>2. ASSUME NEW m \in Members,
               Break(m) \/ OperatorFail(m) \/ Reset(m) \/ RemoveStop(m)
                 \/ Replug(m)
        PROVE  UNCHANGED req
    BY <1>2 DEF Break, OperatorFail, Reset, RemoveStop, Replug
  <1> QED BY <1>1, <1>2 DEF Next, RequestStep

\* A request that is outstanding afterwards was so before, with the same
\* extent, unless it was issued by the step.
LEMMA StaysPut ==
  ASSUME req \in [Writers -> Requests], NEW w \in Writers,
         WriterStep(w) \/ \E m \in Members : MemberAnswers(w, m) \/ MediaError(w, m)
  PROVE  /\ Active(w)
         /\ Active(w)' => Extent(w)' = Extent(w)
  <1>1. CASE CheckFatal(w)
    BY <1>1, CheckFatalDoes DEF Advances, Ends, Active, Extent
  <1>2. CASE SnapshotMask(w)
    BY <1>2, SnapshotMaskDoes DEF Advances, Ends, Active, Extent
  <1>3. CASE GateReadGen(w) \/ GateCount(w) \/ GateRecheck(w) \/ Uncount(w)
    BY <1>3, GateDoes DEF Advances, Active, Extent
  <1>4. CASE GateWindow(w)
    BY <1>4, GateWindowDoes DEF Advances, Active, Extent
  <1>5. CASE Finish(w)
    BY <1>5, FinishDoes DEF Ends, Active
  <1>6. ASSUME NEW m \in Members, MemberAnswers(w, m) \/ MediaError(w, m)
        PROVE  /\ Active(w)
               /\ Active(w)' => Extent(w)' = Extent(w)
    BY <1>6, AnswerDoes DEF Answers, MemberAnswers, Active, Extent
  <1> QED BY <1>1, <1>2, <1>3, <1>4, <1>5, <1>6 DEF WriterStep

LEMMA ApartNext ==
  ASSUME TypeOK, Apart, Next
  PROVE  Apart'
  <1>1. req \in [Writers -> Requests]
    BY DEF TypeOK
  <1>2. CASE UNCHANGED req
    BY <1>2 DEF Apart, Active, Extent
  <1>3. ASSUME NEW w \in Writers, RequestStep(w) PROVE Apart'
    <2>1. \A v \in Writers \ {w} : req'[v] = req[v]
      BY <1>1, <1>3, OnlyOne DEF RequestStep
    <2>2. \A v \in Writers \ {w} : (Active(v)' <=> Active(v)) /\ Extent(v)' = Extent(v)
      BY <2>1 DEF Active, Extent
    <2>3. \A v \in Writers \ {w} :
            Active(v) /\ Active(w)' => Extent(v) \cap Extent(w)' = {}
      <3>1. ASSUME NEW pos \in Sectors, NEW nr \in 1 .. Total, Issue(w, pos, nr)
            PROVE  \A v \in Writers \ {w} :
                     Active(v) /\ Active(w)' => Extent(v) \cap Extent(w)' = {}
        <4>1. Extent(w)' = pos .. pos + nr - 1
          BY <1>1, <3>1, IssueDoes DEF Extent
        <4> QED BY <3>1, <4>1 DEF Issue
      <3>2. ASSUME ~\E pos \in Sectors, nr \in 1 .. Total : Issue(w, pos, nr)
            PROVE  \A v \in Writers \ {w} :
                     Active(v) /\ Active(w)' => Extent(v) \cap Extent(w)' = {}
        <4>1. Active(w) /\ (Active(w)' => Extent(w)' = Extent(w))
          BY <1>1, <1>3, <3>2, StaysPut DEF RequestStep
        <4> QED BY <4>1 DEF Apart
      <3> QED BY <3>1, <3>2
    <2> QED BY <2>2, <2>3 DEF Apart
  <1> QED BY <1>2, <1>3, RequestsMove

LEMMA AnsweredNext ==
  ASSUME TypeOK, Answered, Next
  PROVE  Answered'
  <1>1. req \in [Writers -> Requests]
    BY DEF TypeOK
  <1>2. CASE UNCHANGED req
    BY <1>2 DEF Answered, Landing, Unanswered
  <1>3. ASSUME NEW w \in Writers, RequestStep(w) PROVE Answered'
    <2>1. \A v \in Writers \ {w} : req'[v] = req[v]
      BY <1>1, <1>3, OnlyOne DEF RequestStep
    <2> DEFINE Right == /\ ~Landing(w)' => Unanswered(w)'
                        /\ req'[w].pc = "uncounted" =>
                             req'[w].mask \subseteq req'[w].acked
    <2>2. Right
      <3>0. ~Landing(w) => Unanswered(w)
        BY DEF Answered
      <3>1. ASSUME NEW pos, NEW nr, Issue(w, pos, nr) PROVE Right
        BY <1>1, <3>0, <3>1, IssueDoes DEF Landing, Unanswered
      <3>2. CASE CheckFatal(w)
        BY <1>1, <3>0, <3>2, CheckFatalDoes DEF Landing, Unanswered, Advances, Ends
      <3>3. CASE SnapshotMask(w)
        BY <1>1, <3>0, <3>3, SnapshotMaskDoes DEF Landing, Unanswered, Advances, Ends
      <3>4. CASE GateReadGen(w)
        BY <1>1, <3>0, <3>4, GateDoes DEF Landing, Unanswered, Advances
      <3>5. CASE GateCount(w)
        BY <1>1, <3>0, <3>5, GateDoes DEF Landing, Unanswered, Advances
      <3>6. CASE GateRecheck(w)
        BY <1>1, <3>0, <3>6, GateDoes DEF Landing, Unanswered, Advances
      <3>7. CASE Uncount(w)
        BY <1>1, <3>7, GateDoes DEF Landing, Advances
      <3>8. CASE GateWindow(w)
        BY <1>1, <3>8, GateWindowDoes DEF Landing, Unanswered, Advances
      <3>9. CASE Finish(w)
        BY <1>1, <3>9, FinishDoes DEF Landing, Unanswered, Ends
      <3>10. ASSUME NEW m \in Members, MemberAnswers(w, m) \/ MediaError(w, m)
             PROVE  Right
        BY <1>1, <3>10, AnswerDoes DEF Landing, Answers, MemberAnswers
      <3> QED BY <1>3, <3>1, <3>2, <3>3, <3>4, <3>5, <3>6, <3>7, <3>8, <3>9,
                 <3>10 DEF RequestStep, WriterStep
    <2> HIDE DEF Right
    <2>3. ASSUME NEW v \in Writers, v # w
          PROVE  /\ ~Landing(v)' => Unanswered(v)'
                 /\ req'[v].pc = "uncounted" => req'[v].mask \subseteq req'[v].acked
      BY <2>1, <2>3 DEF Answered, Landing, Unanswered
    <2> QED BY <2>2, <2>3 DEF Right, Answered
  <1> QED BY <1>2, <1>3, RequestsMove

\* Taking a snapshot is the only step into the gate, and it keeps the mask.
LEMMA SamplesMove ==
  ASSUME TypeOK, Next, NEW w \in Writers, Sampled(w)'
  PROVE  \/ /\ Sampled(w) /\ req'[w].mask = req[w].mask
            /\ PastGate(w) => PastGate(w)' /\ req'[w].g = req[w].g
         \/ SnapshotMask(w) /\ req'[w].mask = writeMask
  <1>1. req \in [Writers -> Requests]
    BY DEF TypeOK
  <1> DEFINE Goal == \/ /\ Sampled(w) /\ req'[w].mask = req[w].mask
                        /\ PastGate(w) => PastGate(w)' /\ req'[w].g = req[w].g
                     \/ SnapshotMask(w) /\ req'[w].mask = writeMask
  <1>2. ASSUME req'[w] = req[w] PROVE Goal
    BY <1>2 DEF Sampled, PastGate
  <1>3. ASSUME NEW v \in Writers, RequestStep(v), v # w PROVE Goal
    BY <1>1, <1>2, <1>3, OnlyOne DEF RequestStep
  <1>4. ASSUME RequestStep(w) PROVE Goal
    <2>1. ASSUME NEW pos, NEW nr, Issue(w, pos, nr) PROVE Goal
      BY <1>1, <2>1, IssueDoes DEF Sampled
    <2>2. ASSUME CheckFatal(w) PROVE Goal
      BY <1>1, <2>2, CheckFatalDoes DEF Sampled, Advances, Ends
    <2>3. ASSUME SnapshotMask(w) PROVE Goal
      BY <1>1, <2>3, SnapshotMaskDoes DEF Sampled, Advances, Ends
    <2>4. ASSUME GateReadGen(w) \/ GateCount(w) \/ GateRecheck(w) PROVE Goal
      BY <1>1, <2>4, GateDoes DEF Sampled, Advances, PastGate
    <2>5. ASSUME Uncount(w) PROVE Goal
      BY <1>1, <2>5, GateDoes DEF Sampled, Advances
    <2>6. ASSUME GateWindow(w) PROVE Goal
      BY <1>1, <2>6, GateWindowDoes DEF Sampled, Advances, PastGate
    <2>7. ASSUME Finish(w) PROVE Goal
      BY <1>1, <2>7, FinishDoes DEF Sampled, Ends
    <2>8. ASSUME NEW m \in Members, MemberAnswers(w, m) \/ MediaError(w, m)
          PROVE  Goal
      BY <1>1, <2>8, AnswerDoes DEF Sampled, Answers, MemberAnswers, PastGate
    <2> QED BY <1>4, <2>1, <2>2, <2>3, <2>4, <2>5, <2>6, <2>7, <2>8
            DEF RequestStep, WriterStep
  <1> HIDE DEF Goal
  <1>5. Goal
    BY <1>2, <1>3, <1>4, RequestsMove
  <1> QED BY <1>5 DEF Goal

LEMMA LiveWrittenNext ==
  ASSUME TypeOK, MembersInv, LiveWritten, TargetWritten, Next
  PROVE  LiveWritten'
  <1> SUFFICES ASSUME NEW w \in Writers, NEW m \in Members,
                      memberState'[m] = "LIVE", Sampled(w)'
               PROVE  m \in req'[w].mask
    BY DEF LiveWritten
  <1>1. CASE memberState[m] = "LIVE"
    <2>1. m \in writeMask
      BY <1>1 DEF MembersInv, MasksExact
    <2> QED BY <1>1, <2>1, SamplesMove DEF LiveWritten
  <1>2. CASE memberState[m] # "LIVE"
    <2>1. ~Demotes
      BY <1>2 DEF Demotes
    <2>2. ~\E n \in Members : Starts(n)
      BY <1>2 DEF Starts, SetState
    <2>3. PICK n \in Members : Settle /\ Promotes(n)
      BY <2>1, <2>2, MembersMove DEF MembersInv
    <2>4. m = n
      BY <1>2, <2>3 DEF Promotes, SetState
    <2>5. resync.cursor # 0
      BY <2>3, ConstantsOK DEF Promotes, MembersInv, OkAtTheEnd
    <2>6. UNCHANGED req
      BY <2>3 DEF Settle
    <2>7. Sampled(w) /\ memberState[m] = "RESYNCING"
      BY <2>3, <2>4, <2>6 DEF Sampled, Promotes
    <2> QED BY <2>5, <2>6, <2>7 DEF TargetWritten, FirstDrainAhead
  <1> QED BY <1>1, <1>2

\* How far the thread is from its first drain.
LEMMA TargetWrittenNext ==
  ASSUME TypeOK, GateInv, MembersInv, TargetWritten, Next,
         "snapshot" \notin Admit
  PROVE  TargetWritten'
  <1> SUFFICES ASSUME NEW w \in Writers, NEW m \in Members,
                      memberState'[m] = "RESYNCING", Sampled(w)',
                      m \notin req'[w].mask
               PROVE  FirstDrainAhead(w)'
    BY DEF TargetWritten
  <1>0. resync \in Threads
    BY DEF TypeOK, ThreadTyped
  <1>1. CASE memberState[m] # "RESYNCING"
    <2>1. ~Demotes
      BY <1>1 DEF Demotes
    <2>2. ~\E n \in Members : Promotes(n)
      BY <1>1 DEF Promotes, SetState
    <2>3. PICK n \in Members : StartRebuild /\ Starts(n)
      BY <2>1, <2>2, MembersMove DEF MembersInv
    <2>4. m = n
      BY <1>1, <2>3 DEF Starts, SetState
    <2>5. UNCHANGED req
      BY <2>3 DEF StartRebuild
    <2>6. Sampled(w) /\ ~Bypasses(m)
      BY <2>3, <2>4, <2>5 DEF Sampled, Starts
    <2>7. PastGate(w)'
      BY <2>5, <2>6 DEF Bypasses, Sampled, PastGate
    <2> QED BY <2>3, <2>7 DEF Starts, FirstDrainAhead
  <1>2. CASE memberState[m] = "RESYNCING"
    <2>1. m \in writeMask
      BY <1>2 DEF MembersInv, MasksExact
    <2>2. /\ Sampled(w) /\ req'[w].mask = req[w].mask
          /\ PastGate(w) => PastGate(w)' /\ req'[w].g = req[w].g
      BY <2>1, SamplesMove
    <2>3. FirstDrainAhead(w)
      BY <1>2, <2>2 DEF TargetWritten
    <2>4. PastGate(w)' /\ req'[w].g = req[w].g /\ resync.cursor = 0
      BY <2>2, <2>3 DEF FirstDrainAhead
    <2>5. CASE UNCHANGED resync
      BY <2>3, <2>4, <2>5 DEF FirstDrainAhead
    <2>6. CASE LoopTop
      BY <1>0, <2>4, <2>6, LoopTopDoes DEF FirstDrainAhead
    <2>7. CASE FlipGen
      <3>1. resync.pc = "flip" /\ resync'.oldGen = wgen /\ resync'.pc = "drain"
              /\ resync'.cursor = resync.cursor
        BY <1>0, <2>7, FlipGenDoes DEF Keeps
      <3>2. req[w].g = wgen
        BY <2>3, <3>1 DEF FirstDrainAhead, GateInv, OneGeneration
      <3> QED BY <2>4, <3>1, <3>2 DEF FirstDrainAhead
    <2>8. CASE Drain
      <3>1. /\ resync.pc = "drain" /\ resync'.cursor = resync.cursor
            /\ resync'.pc = "exit" \/ wgenCount[resync.oldGen] = {}
        BY <1>0, <2>8, DrainDoes DEF Keeps
      <3>2. req[w].g = resync.oldGen /\ Counted(w) /\ resync.oldGen \in {0, 1}
        BY <1>0, <2>3, <3>1 DEF FirstDrainAhead, PastGate, Counted, Threads
      <3>3. w \in wgenCount[resync.oldGen]
        BY <3>2 DEF GateInv, CountsExact
      <3> QED BY <2>4, <3>1, <3>3 DEF FirstDrainAhead
    <2>9. CASE ReadChunk \/ WriteChunk
      BY <1>0, <2>3, <2>9, ReadChunkDoes, WriteChunkDoes DEF FirstDrainAhead
    <2>10. CASE CloseWindow
      BY <1>0, <2>4, <2>10, CloseWindowDoes DEF FirstDrainAhead, Keeps
    <2>11. CASE Settle
      <3>1. memberState'[m] # "RESYNCING"
        BY <1>2, <2>11 DEF MembersInv, OneTarget, Settle, SetState
      <3> QED BY <3>1
    <2>12. ASSUME NEW n \in Members, Starts(n) PROVE FALSE
      BY <1>2, <2>12 DEF MembersInv, OneTarget, Starts
    <2> QED BY <2>5, <2>6, <2>7, <2>8, <2>9, <2>10, <2>11, <2>12, ThreadMovesOn
  <1> QED BY <1>1, <1>2

-----------------------------------------------------------------------------
(* The media.                                                                *)

\* Where a write lands, and who has answered it.
LandsAlike(w) ==
  /\ Landing(w)' <=> Landing(w)
  /\ Landing(w) => /\ Extent(w)' = Extent(w) /\ req'[w].mask = req[w].mask
                   /\ req'[w].acked = req[w].acked /\ req'[w].err = req[w].err

\* A write is submitted to the members of its snapshot.
Submits(w) ==
  /\ GateWindow(w) /\ ~HitsWindow(w)
  /\ req[w].pc = "gated" /\ Landing(w)' /\ Extent(w)' = Extent(w)
  /\ req'[w].mask = req[w].mask /\ req'[w].acked = req[w].acked
  /\ req'[w].err = req[w].err

LEMMA LandingMoves ==
  ASSUME TypeOK, NEW w \in Writers, RequestStep(w)
  PROVE  \/ LandsAlike(w) /\ UNCHANGED <<data, acceptable>>
         \/ Submits(w) /\ UNCHANGED <<data, acceptable>>
         \/ Finish(w)
         \/ \E m \in Members : MemberAnswers(w, m) \/ MediaError(w, m)
  <1>1. req \in [Writers -> Requests]
    BY DEF TypeOK
  <1>2. ASSUME NEW pos, NEW nr, Issue(w, pos, nr)
        PROVE  LandsAlike(w) /\ UNCHANGED <<data, acceptable>>
    <2>1. LandsAlike(w)
      BY <1>1, <1>2, IssueDoes DEF LandsAlike, Landing
    <2> QED BY <1>2, <2>1 DEF Issue, mediaVars
  <1>3. ASSUME CheckFatal(w)
        PROVE  LandsAlike(w) /\ UNCHANGED <<data, acceptable>>
    <2>1. LandsAlike(w)
      BY <1>1, <1>3, CheckFatalDoes DEF LandsAlike, Landing, Advances, Ends
    <2> QED BY <1>3, <2>1 DEF CheckFatal, mediaVars
  <1>4. ASSUME SnapshotMask(w)
        PROVE  LandsAlike(w) /\ UNCHANGED <<data, acceptable>>
    <2>1. LandsAlike(w)
      BY <1>1, <1>4, SnapshotMaskDoes DEF LandsAlike, Landing, Advances, Ends
    <2> QED BY <1>4, <2>1 DEF SnapshotMask, mediaVars
  <1>5. ASSUME GateReadGen(w) \/ GateCount(w) \/ GateRecheck(w) \/ Uncount(w)
        PROVE  LandsAlike(w) /\ UNCHANGED <<data, acceptable>>
    <2>1. LandsAlike(w)
      BY <1>1, <1>5, GateDoes DEF LandsAlike, Landing, Extent, Advances
    <2> QED BY <1>5, <2>1 DEF GateReadGen, GateCount, GateRecheck, Uncount,
               mediaVars
  <1>6. ASSUME GateWindow(w)
        PROVE  /\ LandsAlike(w) \/ Submits(w)
               /\ UNCHANGED <<data, acceptable>>
    <2>1. LandsAlike(w) \/ Submits(w)
      BY <1>1, <1>6, GateWindowDoes DEF LandsAlike, Submits, Landing, Extent,
         Advances
    <2> QED BY <1>6, <2>1 DEF GateWindow, mediaVars
  <1> QED BY <1>2, <1>3, <1>4, <1>5, <1>6 DEF RequestStep, WriterStep

\* What is vouched for grows only by the chunk that was copied.
LEMMA VouchedGrows ==
  ASSUME TypeOK, MembersInv, Next, NEW m \in Members, NEW s \in Vouched(m)'
  PROVE  \/ s \in Vouched(m)
         \/ /\ WriteChunk /\ m = resync.target /\ s \in Chunk
            /\ data' = Copied(m, Chunk, resync.buf)
  <1>1. /\ resync \in Threads /\ resync.cursor \in 0 .. Total
        /\ resync.target \in Members \cup {None}
    BY DEF TypeOK, ThreadTyped, Threads
  <1>2. CASE memberState'[m] = "LIVE"
    <2>1. s \in Sectors
      BY <1>2 DEF Vouched
    <2>2. CASE memberState[m] = "LIVE"
      BY <2>1, <2>2 DEF Vouched
    <2>3. CASE memberState[m] # "LIVE"
      <3>1. ~Demotes
        BY <1>2, <2>3 DEF Demotes
      <3>2. ~\E n \in Members : Starts(n)
        BY <1>2, <2>3 DEF Starts, SetState
      <3>3. PICK n \in Members : Promotes(n)
        BY <3>1, <3>2, MembersMove DEF MembersInv
      <3>4. m = n
        BY <1>2, <2>3, <3>3 DEF Promotes, SetState
      <3>5. memberState[m] = "RESYNCING" /\ resync.cursor = Total
        BY <3>3, <3>4 DEF Promotes, MembersInv, OkAtTheEnd
      <3> QED BY <2>1, <3>5 DEF Vouched, Sectors
    <2> QED BY <2>2, <2>3
  <1>3. CASE memberState'[m] = "RESYNCING"
    <2>1. s \in 0 .. resync'.cursor - 1
      BY <1>3 DEF Vouched
    <2>2. CASE memberState[m] = "RESYNCING"
      <3>1. resync.pc # "none" /\ resync.target = m
        BY <2>2 DEF MembersInv, OneTarget
      <3>2. ASSUME resync'.cursor = resync.cursor PROVE s \in Vouched(m)
        BY <2>1, <2>2, <3>2 DEF Vouched
      <3>3. CASE LoopTop \/ FlipGen \/ Drain \/ ReadChunk \/ CloseWindow
        <4>1. CASE LoopTop
          BY <1>1, <3>2, <4>1, LoopTopDoes
        <4>2. CASE FlipGen
          BY <1>1, <3>2, <4>2, FlipGenDoes DEF Keeps
        <4>3. CASE Drain
          BY <1>1, <3>2, <4>3, DrainDoes DEF Keeps
        <4>4. CASE ReadChunk
          BY <1>1, <3>2, <4>4, ReadChunkDoes DEF Keeps
        <4>5. CASE CloseWindow
          BY <1>1, <3>2, <4>5, CloseWindowDoes DEF Keeps
        <4> QED BY <3>3, <4>1, <4>2, <4>3, <4>4, <4>5
      <3>4. CASE WriteChunk
        <4>1. CASE resync'.cursor = resync.cursor
          BY <3>2, <4>1
        <4>2. CASE resync'.cursor # resync.cursor
          <5>1. /\ resync'.cursor = Min(resync.cursor + Xfer, Total)
                /\ data' = Copied(resync.target, Chunk, resync.buf)
            BY <1>1, <3>4, <4>2, WriteChunkDoes
          <5>2. Min(resync.cursor + Xfer, Total) \in Int
            BY <1>1, ConstantsOK DEF Min
          <5>3. s \in 0 .. resync.cursor - 1 \/ s \in Chunk
            BY <1>1, <2>1, <5>1, <5>2 DEF Chunk
          <5> QED BY <2>2, <3>1, <3>4, <5>1, <5>3 DEF Vouched
        <4> QED BY <4>1, <4>2
      <3>5. CASE Settle
        <4>1. memberState'[m] # "RESYNCING"
          BY <2>2, <3>1, <3>5 DEF Settle, SetState
        <4> QED BY <1>3, <4>1
      <3>6. ~\E n \in Members : Starts(n)
        BY <3>1 DEF Starts
      <3> QED BY <3>2, <3>3, <3>4, <3>5, <3>6, ThreadMovesOn
    <2>3. CASE memberState[m] # "RESYNCING"
      <3>1. ~Demotes
        BY <1>3, <2>3 DEF Demotes
      <3>2. ~\E n \in Members : Promotes(n)
        BY <1>3, <2>3 DEF Promotes, SetState
      <3>3. resync'.cursor = 0
        BY <3>1, <3>2, MembersMove DEF MembersInv, Starts
      <3> QED BY <2>1, <3>3
    <2> QED BY <2>2, <2>3
  <1> QED BY <1>2, <1>3 DEF Vouched

\* A sector that nobody writes to, and whose writes are answered by nobody.
LEMMA HoldsOn ==
  ASSUME NEW m, NEW s, Holds(m, s),
         data'[m][s] = data[m][s], acceptable'[s] = acceptable[s],
         \A w \in Writers : LandsAlike(w)
  PROVE  Holds(m, s)'
  BY DEF Holds, LandsAlike, Quiet, Covers

\* The same when only the write w moves, and it does not cover the sector.
LEMMA HoldsBeside ==
  ASSUME NEW m, NEW s, Holds(m, s),
         data'[m][s] = data[m][s], acceptable'[s] = acceptable[s],
         NEW w \in Writers, \A v \in Writers \ {w} : LandsAlike(v),
         ~Covers(w, s), ~Covers(w, s)'
  PROVE  Holds(m, s)'
  <1>1. \A v \in Writers : Covers(v, s)' <=> Covers(v, s)
    BY DEF LandsAlike, Covers
  <1>2. \A v \in Writers : Covers(v, s) =>
           /\ req'[v].mask = req[v].mask /\ req'[v].acked = req[v].acked
           /\ req'[v].err = req[v].err
    BY DEF LandsAlike, Covers
  <1>3. Quiet(s)' <=> Quiet(s)
    BY <1>1 DEF Quiet, Covers
  <1> QED BY <1>1, <1>2, <1>3 DEF Holds

\* No two writes cover a sector.
LEMMA CoverOnce ==
  ASSUME Apart, NEW v \in Writers, NEW w \in Writers, NEW s,
         Covers(v, s), Active(w), s \in Extent(w)
  PROVE  v = w
  BY DEF Apart, Covers, Landing, Active

LEMMA WrittenThere ==
  ASSUME TypeOK, NEW w \in Writers, NEW m \in Members, NEW n \in Members,
         NEW s \in Sectors
  PROVE  Written(w, m)[n][s] = IF n = m /\ s \in Extent(w) THEN w ELSE data[n][s]
  BY DEF TypeOK, MediaTyped, Written

LEMMA CopiedThere ==
  ASSUME TypeOK, NEW S, NEW m \in Members, NEW buf, NEW n \in Members,
         NEW s \in Sectors
  PROVE  Copied(m, S, buf)[n][s] = IF n = m /\ s \in S THEN buf[s] ELSE data[n][s]
  BY DEF TypeOK, MediaTyped, Copied

\* An answer of the member m, with or without the write on its media.
LEMMA HoldsAnswer ==
  ASSUME TypeOK, Apart, NEW w \in Writers, NEW m \in Members,
         NEW n \in Members, NEW s \in Sectors, Holds(n, s),
         Answers(w, m), \A v \in Writers \ {w} : LandsAlike(v),
         acceptable' = acceptable,
         \/ data' = Written(w, m) /\ req'[w].err = req[w].err
         \/ /\ data' \in {data, Written(w, m)}
            /\ req'[w].err = req[w].err \cup {m}
  PROVE  Holds(n, s)'
  <1>1. /\ Active(w) /\ Landing(w) /\ Landing(w)' /\ Extent(w)' = Extent(w)
        /\ Covers(w, s)' <=> Covers(w, s)
    BY DEF Answers, Active, Landing, Extent, Covers
  <1>2. data'[n][s] = data[n][s] \/ (n = m /\ s \in Extent(w) /\ data'[n][s] = w)
    BY WrittenThere
  <1>3. CASE s \notin Extent(w)
    BY <1>1, <1>2, <1>3, HoldsBeside DEF Covers
  <1>4. CASE s \in Extent(w)
    <2>1. Covers(w, s) /\ ~Quiet(s)'
      BY <1>1, <1>4 DEF Covers, Quiet
    <2>2. \A v \in Writers : Covers(v, s)' => v = w
      BY <1>1, <1>4, CoverOnce DEF LandsAlike, Covers
    <2>3. \/ data'[n][s] = w
          \/ /\ data'[n][s] \in acceptable'[s]
             /\ n \in req'[w].err \cup (req'[w].mask \ req'[w].acked)
      <3>1. CASE data'[n][s] = w
        BY <3>1
      <3>2. CASE data'[n][s] # w
        <4>1. /\ data[n][s] \in acceptable[s] /\ data'[n][s] = data[n][s]
              /\ n \in req[w].err \cup (req[w].mask \ req[w].acked)
          BY <1>2, <2>1, <3>2 DEF Holds
        <4>2. CASE n # m
          BY <4>1, <4>2 DEF Answers
        <4>3. CASE n = m
          <5>1. Written(w, m)[n][s] = w
            BY <1>4, <4>3, WrittenThere
          <5>2. req'[w].err = req[w].err \cup {m}
            BY <3>2, <5>1
          <5> QED BY <4>1, <4>3, <5>2
        <4> QED BY <4>2, <4>3
      <3> QED BY <3>1, <3>2
    <2> QED BY <2>1, <2>2, <2>3 DEF Holds
  <1> QED BY <1>3, <1>4

\* A submitted write goes to every member that is vouched for.
LEMMA HoldsSubmit ==
  ASSUME TypeOK, WritesInv, NEW w \in Writers, NEW m \in Members, NEW s \in Sectors,
         s \in Vouched(m), Holds(m, s), Submits(w),
         \A v \in Writers \ {w} : LandsAlike(v), UNCHANGED <<data, acceptable>>
  PROVE  Holds(m, s)'
  <1>1. Active(w) /\ ~Landing(w) /\ Extent(w)' = Extent(w)
    BY DEF Submits, Active, Landing
  <1>2. CASE s \notin Extent(w)
    BY <1>1, <1>2, HoldsBeside DEF Covers
  <1>3. CASE s \in Extent(w)
    <2>1. \A v \in Writers : ~Covers(v, s)
      BY <1>1, <1>3, CoverOnce DEF WritesInv, Covers
    <2>2. data[m][s] \in acceptable[s]
      BY <2>1 DEF Holds, Quiet, Covers
    <2>3. m \in req[w].mask
      <3>1. Sampled(w)
        BY DEF Submits, Sampled
      <3>2. CASE memberState[m] = "LIVE"
        BY <3>1, <3>2 DEF WritesInv, LiveWritten
      <3>3. CASE memberState[m] # "LIVE"
        <4>1. memberState[m] = "RESYNCING" /\ resync.cursor # 0
          BY <3>3 DEF Vouched
        <4> QED BY <3>1, <4>1 DEF WritesInv, TargetWritten, FirstDrainAhead
      <3> QED BY <3>2, <3>3
    <2>4. req[w].acked = {}
      BY <1>1 DEF WritesInv, Answered, Unanswered
    <2>5. \A v \in Writers : Covers(v, s)' => v = w
      BY <2>1 DEF LandsAlike, Covers
    <2>6. Covers(w, s)'
      BY <1>1, <1>3 DEF Submits, Covers
    <2> QED BY <2>2, <2>3, <2>4, <2>5, <2>6 DEF Holds, Quiet, Covers, Submits
  <1> QED BY <1>2, <1>3

\* The end of a write fails the members that erred it; the others have it.
LEMMA HoldsFinish ==
  ASSUME TypeOK, WritesInv, NEW w \in Writers, NEW m \in Members, NEW s \in Sectors,
         m \notin req[w].err, Holds(m, s), Finish(w),
         \A v \in Writers \ {w} : LandsAlike(v)
  PROVE  Holds(m, s)'
  <1>1. /\ Active(w) /\ Landing(w) /\ ~Landing(w)' /\ data' = data
        /\ req[w].pc = "uncounted"
    <2>1. req[w].pc = "uncounted" /\ Ends(w)
      BY FinishDoes DEF TypeOK
    <2> QED BY <2>1 DEF Finish, Active, Landing, Ends, mediaVars
  <1>2. acceptable'[s] =
          IF s \notin Extent(w) THEN acceptable[s]
          ELSE {w} \cup (IF req[w].err = req[w].mask THEN acceptable[s] ELSE {})
    BY DEF Finish
  <1>3. CASE s \notin Extent(w)
    BY <1>1, <1>2, <1>3, HoldsBeside DEF Covers
  <1>4. CASE s \in Extent(w)
    <2>1. Covers(w, s)
      BY <1>1, <1>4 DEF Covers
    <2>2. m \notin req[w].mask \ req[w].acked
      BY <1>1 DEF WritesInv, Answered
    <2>3. data[m][s] = w
      BY <2>1, <2>2 DEF Holds
    <2>4. \A v \in Writers : ~Covers(v, s)'
      BY <1>1, <1>4, CoverOnce DEF WritesInv, LandsAlike, Covers
    <2> QED BY <1>1, <1>2, <1>4, <2>3, <2>4 DEF Holds
  <1> QED BY <1>3, <1>4

\* Nothing else touches the media, or what they may hold, but the copy.
LEMMA MediaAlone ==
  ASSUME TypeOK, late = {}, Next
  PROVE  \/ \E w \in Writers : RequestStep(w)
         \/ WriteChunk
         \/ UNCHANGED <<req, data, acceptable>>
  <1>1. CASE StartRebuild \/ LoopTop \/ FlipGen \/ Drain \/ ReadChunk
               \/ CloseWindow \/ Settle \/ RemoveStep \/ RunQueue
    BY <1>1 DEF StartRebuild, LoopTop, FlipGen, Drain, ReadChunk, CloseWindow,
       Settle, RemoveStep, RemoveDetach, RemoveFinish, RunQueue, mediaVars
  <1>2. ASSUME NEW m \in Members,
               Break(m) \/ OperatorFail(m) \/ Reset(m) \/ RemoveStop(m)
                 \/ Replug(m)
        PROVE  UNCHANGED <<req, data, acceptable>>
    BY <1>2 DEF Break, OperatorFail, Reset, RemoveStop, Replug, mediaVars
  <1>3. ~LateWrite
    BY DEF LateWrite
  <1> QED BY <1>1, <1>2, <1>3 DEF Next, ThreadStep, RequestStep

\* Only one request moves.
LEMMA OthersAlike ==
  ASSUME TypeOK, NEW w \in Writers, RequestStep(w)
  PROVE  \A v \in Writers \ {w} : LandsAlike(v)
  <1>1. \A v \in Writers \ {w} : req'[v] = req[v]
    BY OnlyOne DEF TypeOK, RequestStep
  <1> QED BY <1>1 DEF LandsAlike, Landing, Extent

LEMMA VouchedSectors ==
  ASSUME TypeOK, NEW m \in Members
  PROVE  Vouched(m) \cup Chunk \subseteq Sectors
  <1>1. resync.cursor \in 0 .. Total
    BY DEF TypeOK, ThreadTyped, Threads
  <1>2. Vouched(m) \subseteq Sectors
    BY <1>1, ConstantsOK DEF Vouched, Sectors
  <1>3. Chunk \subseteq Sectors
    BY <1>1, ConstantsOK DEF Chunk, Min, Sectors
  <1> QED BY <1>2, <1>3

LEMMA ContentsNext ==
  ASSUME TypeOK, CopyInv, Next, "late_write" \notin Admit
  PROVE  ContentsRight'
  <1> SUFFICES ASSUME NEW m \in Members, NEW s \in Vouched(m)'
               PROVE  Holds(m, s)'
    BY DEF ContentsRight
  <1>0. /\ MembersInv /\ WritesInv /\ Apart /\ late = {}
        /\ ContentsRight /\ BufferRight
    BY DEF CopyInv, MediaInv, WritesInv
  <1>1. s \in Sectors
    BY <1>0, VouchedGrows, VouchedSectors
  <1>2. resync \in Threads
    BY DEF TypeOK, ThreadTyped
  <1>3. CASE WriteChunk
    <2>1. UNCHANGED <<req, acceptable, memberState>>
      BY <1>3 DEF WriteChunk, memberVars
    <2>2. \A w \in Writers : LandsAlike(w)
      BY <2>1 DEF LandsAlike, Landing, Extent
    <2>3. /\ resync.pc = "write" /\ resync.target \in Members
          /\ data' \in {data, Copied(resync.target, Chunk, resync.buf)}
      BY <1>2, <1>3, WriteChunkDoes DEF TypeOK, ThreadTyped, Copying
    <2>4. CASE s \in Vouched(m)
      <3>1. Holds(m, s)
        BY <1>0, <2>4 DEF ContentsRight
      <3>2. ~(m = resync.target /\ s \in Chunk)
        <4>1. ASSUME m = resync.target, s \in Chunk PROVE FALSE
          <5>1. memberState[m] # "LIVE"
            BY <1>0, <2>3, <4>1 DEF MembersInv, OneTarget
          <5>2. s \in 0 .. resync.cursor - 1
            BY <2>4, <5>1 DEF Vouched
          <5> QED BY <1>2, <4>1, <5>2 DEF Chunk, Threads
        <4> QED BY <4>1
      <3>3. data'[m][s] = data[m][s]
        BY <1>1, <2>3, <3>2, CopiedThere
      <3> QED BY <2>1, <2>2, <3>1, <3>3, HoldsOn
    <2>5. CASE s \notin Vouched(m)
      <3>1. /\ m = resync.target /\ s \in Chunk
            /\ data' = Copied(m, Chunk, resync.buf)
        BY <1>0, <2>5, VouchedGrows
      <3>2. data'[m][s] = resync.buf[s]
        BY <1>1, <3>1, CopiedThere
      <3>3. /\ Quiet(s) => resync.buf[s] \in acceptable[s]
            /\ \A w \in Writers : Covers(w, s) => resync.buf[s] = w
        BY <1>0, <2>3, <3>1 DEF BufferRight
      <3> QED BY <2>1, <2>2, <3>2, <3>3 DEF Holds, LandsAlike, Quiet, Covers
    <2> QED BY <2>4, <2>5
  <1>4. CASE ~WriteChunk
    <2>1. s \in Vouched(m) /\ Holds(m, s)
      BY <1>0, <1>4, VouchedGrows DEF ContentsRight
    <2>2. CASE UNCHANGED <<req, data, acceptable>>
      <3>1. \A w \in Writers : LandsAlike(w)
        BY <2>2 DEF LandsAlike, Landing, Extent
      <3> QED BY <2>1, <2>2, <3>1, HoldsOn
    <2>3. ASSUME NEW w \in Writers, RequestStep(w) PROVE Holds(m, s)'
      <3>0. \A v \in Writers \ {w} : LandsAlike(v)
        BY <2>3, OthersAlike
      <3>1. CASE LandsAlike(w) /\ UNCHANGED <<data, acceptable>>
        BY <2>1, <3>0, <3>1, HoldsOn
      <3>2. CASE Submits(w) /\ UNCHANGED <<data, acceptable>>
        BY <1>0, <1>1, <2>1, <3>0, <3>2, HoldsSubmit
      <3>3. CASE Finish(w)
        <4>1. m \notin req[w].err
          <5>1. MarkFailed(req[w].err) /\ req[w].err \in SUBSET Members
            BY <3>3 DEF Finish, TypeOK, Requests
          <5>2. memberState'[m] \in {"LIVE", "RESYNCING"}
            BY DEF Vouched
          <5> QED BY <5>1, <5>2, MarkFailedDemotes
        <4> QED BY <1>0, <1>1, <2>1, <3>0, <3>3, <4>1, HoldsFinish
      <3>4. ASSUME NEW n \in Members, MemberAnswers(w, n) \/ MediaError(w, n)
            PROVE  Holds(m, s)'
        <4>1. /\ acceptable' = acceptable
              /\ \/ MemberAck(w, n) /\ data' = Written(w, n)
                 \/ /\ DeadError(w, n) \/ MediaError(w, n)
                    /\ data' \in {data, Written(w, n)}
          BY <3>4 DEF MemberAnswers, MemberAck, DeadError, MediaError, mediaVars
        <4>2. /\ Answers(w, n)
              /\ \/ data' = Written(w, n) /\ req'[w].err = req[w].err
                 \/ /\ data' \in {data, Written(w, n)}
                    /\ req'[w].err = req[w].err \cup {n}
          BY <4>1, AnswerDoes DEF TypeOK
        <4> QED BY <1>0, <1>1, <2>1, <3>0, <4>1, <4>2, HoldsAnswer
      <3> QED BY <2>3, <3>1, <3>2, <3>3, <3>4, LandingMoves
    <2> QED BY <1>0, <1>4, <2>2, <2>3, MediaAlone
  <1> QED BY <1>3, <1>4

\* The chunk the thread has read stays right until it is written.
Kept(s) ==
  /\ Quiet(s) => resync.buf[s] \in acceptable[s]
  /\ \A w \in Writers : Covers(w, s) => resync.buf[s] = w

\* A chunk is inside its window, so that no submitted write covers it.
LEMMA ChunkShut ==
  ASSUME TypeOK, GateInv, resync.pc \in {"read", "write"},
         NEW s \in Chunk, NEW w \in Writers, s \in Extent(w)
  PROVE  HitsWindow(w) /\ req[w].pc # "inflight"
  <1>1. window = resync.cursor
    BY DEF GateInv, WindowOpen, Copying
  <1>2. /\ req[w].pos \in Int /\ req[w].nr \in Int
        /\ resync.cursor \in Int /\ Xfer \in Int /\ Total \in Int
    BY ConstantsOK DEF TypeOK, ThreadTyped, Threads, Requests, Sectors
  <1>3. resync.cursor <= s /\ s < resync.cursor + Xfer
    BY <1>2 DEF Chunk, Min
  <1>4. req[w].pos <= s /\ s < req[w].pos + req[w].nr
    BY <1>2, <1>3 DEF Extent
  <1>5. s \in Int
    BY <1>2 DEF Extent
  <1>6. HitsWindow(w)
    BY <1>1, <1>2, <1>3, <1>4, <1>5, ConstantsOK DEF HitsWindow
  <1> QED BY <1>6 DEF GateInv, CopyAlone

\* The buffer after a read of a survivor that is still good.
LEMMA BufferRead ==
  ASSUME TypeOK, GateInv, CopyInv, ReadChunk, resync'.pc = "write",
         "survivor" \notin Admit
  PROVE  BufferRight'
  <1>1. resync \in Threads /\ resync.srv \in Members
    BY DEF TypeOK, ThreadTyped, Copying, ReadChunk
  <1>2. /\ resync.pc = "read" /\ StillSurvives /\ resync'.cursor = resync.cursor
        /\ \A s \in Sectors : s \in Chunk => resync'.buf[s] = data[resync.srv][s]
    BY <1>1, ReadChunkDoes DEF Keeps
  <1>3. UNCHANGED <<req, data, acceptable>>
    BY DEF ReadChunk, mediaVars
  <1> SUFFICES ASSUME NEW s \in Chunk
               PROVE  /\ Quiet(s) => resync'.buf[s] \in acceptable[s]
                      /\ \A w \in Writers : Covers(w, s) => resync'.buf[s] = w
    BY <1>2, <1>3 DEF BufferRight, Chunk, Quiet, Covers, Landing, Extent
  <1>4. s \in Sectors
    BY <1>1, ConstantsOK DEF Chunk, Min, Sectors, Threads
  <1>5. memberState[resync.srv] = "LIVE"
    BY <1>2 DEF StillSurvives, CopyInv, MembersInv, MasksExact
  <1>6. Holds(resync.srv, s)
    BY <1>1, <1>4, <1>5 DEF CopyInv, MediaInv, ContentsRight, Vouched
  <1>7. resync'.buf[s] = data[resync.srv][s]
    BY <1>2, <1>4
  <1>8. ASSUME NEW w \in Writers, Covers(w, s) PROVE data[resync.srv][s] = w
    <2>1. req[w].pc = "uncounted"
      BY <1>2, <1>8, ChunkShut DEF Covers, Landing
    <2>2. resync.srv \notin req[w].err \cup (req[w].mask \ req[w].acked)
      BY <1>2, <2>1 DEF StillSurvives, CopyInv, WritesInv, Answered
    <2> QED BY <1>6, <1>8, <2>2 DEF Holds
  <1> QED BY <1>6, <1>7, <1>8 DEF Holds

LEMMA BufferNext ==
  ASSUME TypeOK, GateInv, CopyInv, Next, "survivor" \notin Admit,
         "late_write" \notin Admit
  PROVE  BufferRight'
  <1> SUFFICES ASSUME resync'.pc = "write" PROVE BufferRight'
    BY DEF BufferRight
  <1>0. Apart /\ late = {} /\ BufferRight /\ resync \in Threads
    BY DEF CopyInv, WritesInv, MediaInv, TypeOK, ThreadTyped
  <1>1. CASE ReadChunk
    BY <1>1, BufferRead
  <1>2. CASE ~ReadChunk
    <2>1. UNCHANGED resync /\ resync.pc = "write"
      <3>1. ~\E n \in Members : Starts(n)
        BY DEF Starts
      <3>2. ~(LoopTop \/ FlipGen \/ Drain \/ WriteChunk \/ CloseWindow \/ Settle)
        BY <1>0, LoopTopDoes, FlipGenDoes, DrainDoes, WriteChunkDoes,
           CloseWindowDoes, SettleDoes
      <3> QED BY <1>2, <3>1, <3>2, ThreadMovesOn
    <2> SUFFICES ASSUME NEW s \in Chunk PROVE Kept(s)'
      BY <2>1 DEF BufferRight, Kept, Chunk
    <2>2. Kept(s)
      BY <1>0, <2>1 DEF BufferRight, Kept
    <2>3. ASSUME acceptable' = acceptable, \A w \in Writers : LandsAlike(w)
          PROVE  Kept(s)'
      BY <2>1, <2>2, <2>3 DEF Kept, LandsAlike, Quiet, Covers
    <2>4. CASE UNCHANGED <<req, data, acceptable>>
      BY <2>3, <2>4 DEF LandsAlike, Landing, Extent
    <2>5. ASSUME NEW w \in Writers, RequestStep(w) PROVE Kept(s)'
      <3>0. \A v \in Writers \ {w} : LandsAlike(v)
        BY <2>5, OthersAlike
      <3>1. CASE LandsAlike(w) /\ UNCHANGED <<data, acceptable>>
        BY <2>3, <3>0, <3>1
      <3>2. CASE Submits(w) /\ UNCHANGED <<data, acceptable>>
        <4>1. s \notin Extent(w) /\ Extent(w)' = Extent(w)
          BY <2>1, <3>2, ChunkShut DEF Submits
        <4>2. \A v \in Writers : Covers(v, s)' <=> Covers(v, s)
          BY <3>0, <4>1 DEF LandsAlike, Covers
        <4> QED BY <2>1, <2>2, <3>2, <4>2 DEF Kept, Quiet, Covers
      <3>3. CASE Finish(w)
        <4>1. /\ Active(w) /\ Landing(w) /\ ~Landing(w)'
              /\ acceptable' = [t \in Sectors |->
                   IF t \notin Extent(w) THEN acceptable[t]
                   ELSE {w} \cup (IF req[w].err = req[w].mask THEN acceptable[t]
                                  ELSE {})]
          <5>1. req[w].pc = "uncounted" /\ Ends(w)
            BY <3>3, FinishDoes DEF TypeOK
          <5> QED BY <3>3, <5>1 DEF Finish, Active, Landing, Ends
        <4>2. s \in Sectors
          BY <1>0, ConstantsOK DEF Chunk, Min, Sectors, Threads
        <4>3. CASE s \in Extent(w)
          <5>1. resync.buf[s] = w
            BY <2>2, <4>1, <4>3 DEF Kept, Covers
          <5>2. \A v \in Writers : ~Covers(v, s)'
            BY <1>0, <3>0, <4>1, <4>3, CoverOnce DEF LandsAlike, Covers
          <5> QED BY <2>1, <4>1, <4>2, <4>3, <5>1, <5>2 DEF Kept
        <4>4. CASE s \notin Extent(w)
          <5>1. \A v \in Writers : Covers(v, s)' <=> Covers(v, s)
            BY <3>0, <4>1, <4>4 DEF LandsAlike, Covers
          <5> QED BY <2>1, <2>2, <4>1, <4>2, <4>4, <5>1 DEF Kept, Quiet, Covers
        <4> QED BY <4>3, <4>4
      <3>4. ASSUME NEW n \in Members, MemberAnswers(w, n) \/ MediaError(w, n)
            PROVE  Kept(s)'
        <4>1. acceptable' = acceptable
          BY <3>4 DEF MemberAnswers, MemberAck, DeadError, MediaError
        <4>2. Answers(w, n)
          BY <3>4, AnswerDoes DEF TypeOK, MemberAnswers
        <4>3. \A v \in Writers : Covers(v, s)' <=> Covers(v, s)
          BY <3>0, <4>2 DEF LandsAlike, Answers, Covers, Landing, Extent
        <4> QED BY <2>1, <2>2, <4>1, <4>3 DEF Kept, Quiet, Covers
      <3> QED BY <2>5, <3>1, <3>2, <3>3, <3>4, LandingMoves
    <2>6. ~WriteChunk
      BY <1>0, <2>1, WriteChunkDoes
    <2> QED BY <1>0, <2>4, <2>5, <2>6, MediaAlone
  <1> QED BY <1>1, <1>2

LEMMA LateNext ==
  ASSUME TypeOK, late = {}, Next, "late_write" \notin Admit
  PROVE  late' = {}
  <1>1. CASE WriteChunk
    BY <1>1, WriteChunkDoes DEF TypeOK, ThreadTyped
  <1>2. CASE StartRebuild \/ LoopTop \/ FlipGen \/ Drain \/ ReadChunk
               \/ CloseWindow \/ Settle \/ LateWrite \/ RemoveStep \/ RunQueue
    BY <1>2 DEF StartRebuild, LoopTop, FlipGen, Drain, ReadChunk, CloseWindow,
       Settle, LateWrite, RemoveStep, RemoveDetach, RemoveFinish, RunQueue,
       mediaVars
  <1>3. ASSUME NEW m \in Members,
               Break(m) \/ OperatorFail(m) \/ Reset(m) \/ RemoveStop(m)
                 \/ Replug(m)
        PROVE  late' = {}
    BY <1>3 DEF Break, OperatorFail, Reset, RemoveStop, Replug, mediaVars
  <1>4. ASSUME NEW w \in Writers, RequestStep(w) PROVE late' = {}
    <2>1. CASE WriterStep(w)
      BY <2>1 DEF WriterStep, CheckFatal, SnapshotMask, GateReadGen, GateCount,
         GateRecheck, GateWindow, Uncount, Finish, mediaVars
    <2>2. CASE ~WriterStep(w)
      BY <1>4, <2>2 DEF RequestStep, Issue, MemberAnswers, MemberAck, DeadError,
         MediaError, mediaVars
    <2> QED BY <2>1, <2>2
  <1> QED BY <1>1, <1>2, <1>3, <1>4 DEF Next, ThreadStep, RequestStep

LEMMA CopyInit == Init => CopyInv
  <1> SUFFICES ASSUME Init PROVE CopyInv
    OBVIOUS
  <1>1. resync.pc = "none" /\ remove.pc = "idle" /\ late = {}
    BY DEF Init, Idle
  <1>2. \A w \in Writers : req[w].pc = "new" /\ Unanswered(w)
    BY DEF Init, Fresh, Unanswered
  <1>3. PICK parked \in {{}} \cup {{m} : m \in Members} :
          /\ memberState = [m \in Members |->
                              IF m \in parked THEN "NEEDS_RESYNC" ELSE "LIVE"]
          /\ data = [m \in Members |-> [s \in Sectors |->
                       IF m \in parked THEN Stale ELSE Initial]]
    BY DEF Init
  <1>4. WritesInv
    BY <1>2 DEF WritesInv, Apart, Answered, LiveWritten, TargetWritten, Active,
       Landing, Sampled
  <1>5. ContentsRight
    <2> SUFFICES ASSUME NEW m \in Members, NEW s \in Vouched(m) PROVE Holds(m, s)
      BY DEF ContentsRight
    <2>1. m \notin parked /\ s \in Sectors
      BY <1>3 DEF Vouched
    <2>2. data[m][s] = Initial /\ acceptable[s] = {Initial}
      BY <1>3, <2>1 DEF Init
    <2> QED BY <1>2, <2>2 DEF Holds, Covers, Landing
  <1>6. BufferRight /\ DepartedNotCopied /\ ThreadStopped
    BY <1>1 DEF BufferRight, DepartedNotCopied, ThreadStopped, Copying
  <1> QED BY <1>1, <1>4, <1>5, <1>6, MembersInit DEF CopyInv, MediaInv

LEMMA CopyNext ==
  ASSUME TypeOK, GateInv, CopyInv, [Next]_vars, Admit = {}
  PROVE  CopyInv'
  <1>1. CASE UNCHANGED vars
    <2>1. MembersInv'
      BY MembersNext DEF CopyInv
    <2>2. UNCHANGED <<memberState, resync, stop, remove, req, data, late, absent,
                      acceptable>>
      BY <1>1 DEF vars, memberVars, threadVars, faultVars, mediaVars
    <2>3. WritesInv'
      BY <2>2 DEF CopyInv, WritesInv, Apart, Answered, LiveWritten,
         TargetWritten, Active, Extent, Landing, Unanswered, Sampled,
         FirstDrainAhead, PastGate
    <2>4. ContentsRight' /\ BufferRight'
      BY <2>2 DEF CopyInv, MediaInv, ContentsRight, BufferRight, Vouched, Holds,
         Quiet, Covers, Landing, Extent, Chunk
    <2>5. ThreadStopped' /\ DepartedNotCopied'
      BY <2>2 DEF CopyInv, MediaInv, ThreadStopped, DepartedNotCopied
    <2> QED BY <2>1, <2>2, <2>3, <2>4, <2>5 DEF CopyInv, MediaInv
  <1>2. CASE Next
    <2>1. MembersInv'
      BY MembersNext DEF CopyInv
    <2>2. ThreadStopped' /\ DepartedNotCopied'
      BY <1>2, ThreadStoppedNext, DepartedNext DEF CopyInv, MediaInv
    <2>3. WritesInv'
      BY <1>2, ApartNext, AnsweredNext, LiveWrittenNext, TargetWrittenNext
         DEF CopyInv, WritesInv
    <2>4. late' = {}
      BY <1>2, LateNext DEF CopyInv, MediaInv
    <2>5. ContentsRight' /\ BufferRight'
      BY <1>2, ContentsNext, BufferNext
    <2> QED BY <2>1, <2>2, <2>3, <2>4, <2>5 DEF CopyInv, MediaInv
  <1> QED BY <1>1, <1>2

\* What is vouched for is what CopiesCurrent speaks of.
LEMMA CopyCurrent ==
  ASSUME TypeOK, CopyInv
  PROVE  CopiesCurrent
  <1>1. LiveCurrent
    BY DEF CopyInv, MediaInv, ContentsRight, Holds, Vouched, LiveCurrent
  <1>2. CopiedCurrent
    <2> SUFFICES ASSUME resync.pc \in Copying \cup {"top"},
                        memberState[resync.target] = "RESYNCING",
                        NEW s \in 0 .. resync.cursor - 1, Quiet(s)
                 PROVE  data[resync.target][s] \in acceptable[s]
      BY DEF CopiedCurrent
    <2>1. resync.target \in Members
      BY DEF TypeOK, ThreadTyped, Copying
    <2>2. s \in Vouched(resync.target)
      BY DEF Vouched
    <2> QED BY <2>1, <2>2 DEF CopyInv, MediaInv, ContentsRight, Holds
  <1> QED BY <1>1, <1>2 DEF CopyInv, MediaInv, CopiesCurrent

\* The whole of it, inductive.
LEMMA CopyProtocol ==
  ASSUME Admit = {}
  PROVE  Spec => [](TypeOK /\ GateInv /\ CopyInv)
  <1>1. Init => TypeOK /\ GateInv /\ CopyInv
    BY InitType, GateInit, CopyInit
  <1>2. TypeOK /\ GateInv /\ CopyInv /\ [Next]_vars
          => (TypeOK /\ GateInv /\ CopyInv)'
    BY NextType, GateNext, CopyNext
  <1> QED BY <1>1, <1>2, PTL DEF Spec

\* "A resyncing member receives every application write (so blocks behind the
\* resync cursor stay current)": no member lacks an acknowledged write that it
\* is read for or was copied past, and no copy goes on with a member that left,
\* for any members, writers, chunk size and number of faults, none of the four
\* races being admitted.
THEOREM CopiesStayCurrent ==
  ASSUME Admit = {}
  PROVE  Spec => []CopiesCurrent
  BY CopyProtocol, CopyCurrent, PTL


-----------------------------------------------------------------------------
(* The refinement.  A mirror's step is a step of LogicalDisk that begins or  *)
(* ends one write, or an internal one.                                       *)

\* The disk's view of the state.
Status   == [w \in Writers |-> IF Active(w) THEN "pending" ELSE req[w].pc]
Extents  == [w \in Writers |-> IF Active(w) THEN Extent(w) ELSE {}]
Readable == [s \in Sectors |-> {data[m][s] : m \in liveMask \ dead}]

MayRead(s) == acceptable[s] \cup {w \in Writers : s \in Extents[w]}
ReadsRight == \A s \in Sectors : Readable[s] \subseteq MayRead(s)

\* What LIVE members hold is what a read may return.
LEMMA ReadsAreRight ==
  ASSUME TypeOK, CopyInv
  PROVE  ReadsRight
  <1> SUFFICES ASSUME NEW s \in Sectors, NEW m \in liveMask
               PROVE  data[m][s] \in MayRead(s)
    BY DEF ReadsRight, Readable
  <1>1. m \in Members /\ memberState[m] = "LIVE"
    BY DEF CopyInv, MembersInv, MasksExact
  <1>2. Holds(m, s)
    BY <1>1 DEF CopyInv, MediaInv, ContentsRight, Vouched
  <1>3. CASE Quiet(s)
    BY <1>2, <1>3 DEF Holds, MayRead
  <1>4. ASSUME NEW w \in Writers, Covers(w, s) PROVE data[m][s] \in MayRead(s)
    <2>1. s \in Extents[w]
      BY <1>4 DEF Covers, Landing, Active, Extents
    <2> QED BY <1>2, <1>4, <2>1 DEF Holds, MayRead
  <1> QED BY <1>3, <1>4 DEF Quiet, Covers

\* Reading what is allowed after the step that was allowed before it.
LEMMA ReadsStay ==
  ASSUME ReadsRight', \A s \in Sectors : MayRead(s)' \subseteq MayRead(s)
  PROVE  Readable' \in [Sectors -> SUBSET UNION {MayRead(s) : s \in Sectors}]
  <1>1. Readable' = [s \in Sectors |-> Readable'[s]]
    BY DEF Readable
  <1>2. ASSUME NEW s \in Sectors
        PROVE  Readable'[s] \subseteq UNION {MayRead(t) : t \in Sectors}
    BY DEF ReadsRight
  <1> QED BY <1>1, <1>2

BeginsWrite(w, E) ==
  /\ Status[w] = "new"
  /\ \A v \in Writers : Extents[v] \cap E = {}
  /\ Status' = [Status EXCEPT ![w] = "pending"]
  /\ Extents' = [Extents EXCEPT ![w] = E]
  /\ acceptable' = acceptable /\ Readable' = Readable

EndsWrite(w) ==
  /\ Status[w] = "pending"
  /\ Status' = [Status EXCEPT ![w] = "ended"]
  /\ Extents' = [Extents EXCEPT ![w] = {}]
  /\ \E left \in {"new contents", "either", "old contents"} :
       acceptable' = [s \in Sectors |->
         IF s \notin Extents[w] \/ left = "old contents" THEN acceptable[s]
         ELSE IF left = "either" THEN acceptable[s] \cup {w} ELSE {w}]

\* The life of a write, as the disk sees it.
LEMMA DiskBegins ==
  ASSUME TypeOK, NEW w \in Writers, NEW pos \in Sectors, NEW nr \in 1 .. Total,
         Issue(w, pos, nr)
  PROVE  pos .. pos + nr - 1 \subseteq Sectors /\ BeginsWrite(w, pos .. pos + nr - 1)
  <1>1. req \in [Writers -> Requests]
    BY DEF TypeOK
  <1>2. \A v \in Writers \ {w} : req'[v] = req[v]
    BY <1>1, OnlyOne
  <1>3. /\ req[w].pc = "new" /\ req'[w].pc = "queued"
        /\ req'[w].pos = pos /\ req'[w].nr = nr
    BY <1>1, IssueDoes
  <1>4. /\ Status' = [Status EXCEPT ![w] = "pending"]
        /\ Extents' = [Extents EXCEPT ![w] = pos .. pos + nr - 1]
    BY <1>2, <1>3 DEF Status, Extents, Active, Extent
  <1>5. Status[w] = "new"
    BY <1>3 DEF Status, Active
  <1>6. \A v \in Writers : Extents[v] \cap (pos .. pos + nr - 1) = {}
    BY DEF Issue, Extents
  <1>7. acceptable' = acceptable /\ Readable' = Readable
    BY DEF Issue, Readable, memberVars, mediaVars, faultVars
  <1>8. pos .. pos + nr - 1 \subseteq Sectors
    BY ConstantsOK DEF Issue, Sectors
  <1> QED BY <1>4, <1>5, <1>6, <1>7, <1>8 DEF BeginsWrite

LEMMA DiskEnds ==
  ASSUME TypeOK, NEW w \in Writers, Active(w), req'[w].pc = "ended",
         \A v \in Writers \ {w} : req'[v] = req[v],
         \/ acceptable' = acceptable
         \/ acceptable' = [s \in Sectors |->
              IF s \notin Extent(w) THEN acceptable[s]
              ELSE {w} \cup (IF req[w].err = req[w].mask THEN acceptable[s]
                                                         ELSE {})]
  PROVE  EndsWrite(w)
  <1>1. Status[w] = "pending" /\ Extents[w] = Extent(w)
    BY DEF Status, Extents
  <1>2. /\ Status' = [Status EXCEPT ![w] = "ended"]
        /\ Extents' = [Extents EXCEPT ![w] = {}]
    BY DEF Status, Extents, Active, Extent
  <1>3. CASE acceptable' = acceptable
    <2>1. acceptable' = [s \in Sectors |-> acceptable[s]]
      BY <1>3 DEF TypeOK
    <2> QED BY <1>1, <1>2, <2>1 DEF EndsWrite
  <1>4. CASE acceptable' # acceptable /\ req[w].err = req[w].mask
    <2>1. acceptable' = [s \in Sectors |->
            IF s \notin Extent(w) THEN acceptable[s] ELSE acceptable[s] \cup {w}]
      BY <1>4
    <2>2. acceptable' = [s \in Sectors |->
            IF s \notin Extents[w] \/ "either" = "old contents" THEN acceptable[s]
            ELSE IF "either" = "either" THEN acceptable[s] \cup {w} ELSE {w}]
      BY <1>1, <2>1
    <2> QED BY <1>1, <1>2, <2>2 DEF EndsWrite
  <1>5. CASE acceptable' # acceptable /\ req[w].err # req[w].mask
    <2>1. acceptable' = [s \in Sectors |->
            IF s \notin Extent(w) THEN acceptable[s] ELSE {w}]
      BY <1>5
    <2>2. acceptable' = [s \in Sectors |->
            IF s \notin Extents[w] \/ "new contents" = "old contents"
            THEN acceptable[s]
            ELSE IF "new contents" = "either" THEN acceptable[s] \cup {w}
            ELSE {w}]
      BY <1>1, <2>1
    <2> QED BY <1>1, <1>2, <2>2 DEF EndsWrite
  <1> QED BY <1>3, <1>4, <1>5

\* Every other step of a request leaves its status and its extent.
LEMMA DiskSteps ==
  ASSUME TypeOK, NEW w \in Writers, RequestStep(w)
  PROVE  \/ \E pos \in Sectors, nr \in 1 .. Total : Issue(w, pos, nr)
         \/ EndsWrite(w)
         \/ UNCHANGED <<Status, Extents, acceptable>>
  <1>1. req \in [Writers -> Requests]
    BY DEF TypeOK
  <1>2. \A v \in Writers \ {w} : req'[v] = req[v]
    BY <1>1, OnlyOne DEF RequestStep
  <1>3. CASE \E pos \in Sectors, nr \in 1 .. Total : Issue(w, pos, nr)
    BY <1>3
  <1>4. CASE ~\E pos \in Sectors, nr \in 1 .. Total : Issue(w, pos, nr)
    <2>1. Active(w) /\ (Active(w)' => Extent(w)' = Extent(w))
      BY <1>1, <1>4, StaysPut DEF RequestStep
    <2>2. ASSUME Active(w)' PROVE UNCHANGED <<Status, Extents>>
      BY <1>2, <2>1, <2>2 DEF Status, Extents, Active, Extent
    <2>3. ASSUME ~Active(w)' PROVE req'[w].pc = "ended"
      <3>1. req'[w].pc # "new"
        <4>1. CASE CheckFatal(w)
          BY <1>1, <4>1, CheckFatalDoes DEF Advances, Ends
        <4>2. CASE SnapshotMask(w)
          BY <1>1, <4>2, SnapshotMaskDoes DEF Advances, Ends
        <4>3. CASE GateReadGen(w) \/ GateCount(w) \/ GateRecheck(w) \/ Uncount(w)
          BY <1>1, <4>3, GateDoes DEF Advances
        <4>4. CASE GateWindow(w)
          BY <1>1, <4>4, GateWindowDoes DEF Advances
        <4>5. CASE Finish(w)
          BY <1>1, <4>5, FinishDoes DEF Ends
        <4>6. ASSUME NEW m \in Members, MemberAnswers(w, m) \/ MediaError(w, m)
              PROVE  req'[w].pc # "new"
          BY <1>1, <4>6, AnswerDoes DEF Answers, MemberAnswers
        <4> QED BY <1>3, <1>4, <4>1, <4>2, <4>3, <4>4, <4>5, <4>6
                DEF RequestStep, WriterStep
      <3> QED BY <2>3, <3>1 DEF Active
    <2>4. \/ acceptable' = acceptable
          \/ /\ req'[w].pc = "ended"
             /\ acceptable' = [s \in Sectors |->
                  IF s \notin Extent(w) THEN acceptable[s]
                  ELSE {w} \cup (IF req[w].err = req[w].mask THEN acceptable[s]
                                                             ELSE {})]
      <3>1. CASE Finish(w)
        <4>1. req'[w].pc = "ended"
          BY <1>1, <3>1, FinishDoes DEF Ends
        <4> QED BY <3>1, <4>1 DEF Finish
      <3>2. CASE WriterStep(w) /\ ~Finish(w)
        BY <3>2 DEF WriterStep, CheckFatal, SnapshotMask, GateReadGen, GateCount,
           GateRecheck, GateWindow, Uncount
      <3>3. CASE \E m \in Members : MemberAnswers(w, m) \/ MediaError(w, m)
        BY <3>3 DEF MemberAnswers, MemberAck, DeadError, MediaError
      <3> QED BY <1>4, <3>1, <3>2, <3>3 DEF RequestStep
    <2>5. CASE Active(w)'
      BY <2>2, <2>4, <2>5 DEF Active
    <2>6. CASE ~Active(w)'
      BY <1>2, <2>1, <2>3, <2>4, <2>6, DiskEnds
    <2> QED BY <2>5, <2>6
  <1> QED BY <1>3, <1>4

\* The three steps in the words of LogicalDisk.
LEMMA DiskInit == Init => Disk!Init
  <1> SUFFICES ASSUME Init PROVE Disk!Init
    OBVIOUS
  <1>1. \A w \in Writers : req[w].pc = "new"
    BY DEF Init, Fresh
  <1>2. PICK parked \in {{}} \cup {{m} : m \in Members} :
          /\ parked # Members /\ liveMask = Members \ parked
          /\ data = [m \in Members |-> [s \in Sectors |->
                       IF m \in parked THEN Stale ELSE Initial]]
    BY DEF Init
  <1>3. PICK n \in Members : n \notin parked
    BY <1>2
  <1>4. ASSUME NEW s \in Sectors
        PROVE  {data[m][s] : m \in liveMask \ dead} = {Initial}
    <2>1. \A m \in liveMask \ dead : data[m][s] = Initial
      BY <1>2
    <2>2. n \in liveMask \ dead
      BY <1>2, <1>3 DEF Init
    <2> QED BY <2>1, <2>2
  <1> QED BY <1>1, <1>4 DEF Init, Disk!Init, Active

LEMMA DiskNext ==
  ASSUME TypeOK, ReadsRight', late = {}, [Next]_vars
  PROVE  [Disk!Next]_(Disk!vars)
  <1>1. CASE UNCHANGED vars
    BY <1>1 DEF vars, memberVars, mediaVars, faultVars, Disk!vars, Active, Extent
  <1>2. CASE Next
    <2>1. Disk!ReadsAllowed'
      BY DEF ReadsRight, Readable, MayRead, Extents, Disk!ReadsAllowed,
         Disk!Allowed
    <2>2. ASSUME UNCHANGED <<Status, Extents, acceptable>> PROVE Disk!Internal
      <3>1. \A s \in Sectors : MayRead(s)' = MayRead(s)
        BY <2>2 DEF MayRead
      <3>2. Readable' \in [Sectors -> SUBSET UNION {MayRead(s) : s \in Sectors}]
        BY <3>1, ReadsStay
      <3> QED BY <2>2, <3>2 DEF Disk!Internal, Disk!Allowed, Status, Extents,
                 Readable, MayRead
    <2>3. ASSUME NEW w \in Writers, EndsWrite(w) PROVE Disk!End(w)
      <3>1. \A s \in Sectors : MayRead(s)' \subseteq MayRead(s)
        <4> SUFFICES ASSUME NEW s \in Sectors
                     PROVE  MayRead(s)' \subseteq MayRead(s)
          OBVIOUS
        <4>1. acceptable'[s] \subseteq
                acceptable[s] \cup (IF s \in Extents[w] THEN {w} ELSE {})
          BY <2>3 DEF EndsWrite
        <4>2. \A v \in Writers : Extents'[v] \subseteq Extents[v]
          BY <2>3 DEF EndsWrite, Extents
        <4> QED BY <4>1, <4>2 DEF MayRead
      <3>2. Readable' \in [Sectors -> SUBSET UNION {MayRead(s) : s \in Sectors}]
        BY <3>1, ReadsStay
      <3> QED BY <2>3, <3>2 DEF Disk!End, Disk!Allowed, EndsWrite, Status,
                 Extents, Readable, MayRead
    <2>4. ASSUME NEW w \in Writers, NEW E \in SUBSET Sectors, BeginsWrite(w, E)
          PROVE  Disk!Begin(w, E)
      BY <2>4 DEF Disk!Begin, BeginsWrite, Status, Extents, Readable
    <2>5. CASE UNCHANGED <<req, data, acceptable>> \/ WriteChunk
      <3>1. UNCHANGED <<req, acceptable>>
        BY <2>5 DEF WriteChunk
      <3>2. UNCHANGED <<Status, Extents, acceptable>>
        BY <3>1 DEF Status, Extents, Active, Extent
      <3> QED BY <2>1, <2>2, <3>2 DEF Disk!Next
    <2>6. ASSUME NEW w \in Writers, RequestStep(w) PROVE Disk!Next
      <3>1. ASSUME NEW pos \in Sectors, NEW nr \in 1 .. Total, Issue(w, pos, nr)
            PROVE  Disk!Next
        <4>1. PICK E \in SUBSET Sectors : BeginsWrite(w, E)
          BY <3>1, DiskBegins
        <4>2. Disk!Begin(w, E)
          BY <4>1, <2>4
        <4> QED BY <2>1, <4>2 DEF Disk!Next
      <3>2. CASE EndsWrite(w)
        <4>1. Disk!End(w)
          BY <2>3, <3>2
        <4> QED BY <2>1, <4>1 DEF Disk!Next
      <3>3. CASE UNCHANGED <<Status, Extents, acceptable>>
        <4>1. Disk!Internal
          BY <2>2, <3>3
        <4> QED BY <2>1, <4>1 DEF Disk!Next
      <3> QED BY <2>6, <3>1, <3>2, <3>3, DiskSteps
    <2> QED BY <1>2, <2>5, <2>6, MediaAlone
  <1> QED BY <1>1, <1>2

\* The mirror behaves as one disk: whatever members die, are removed, come back
\* and are copied over, a read of a sector returns the last write acknowledged
\* there, or one that is outstanding or failed since.
THEOREM MirrorIsOneDisk ==
  ASSUME Admit = {}
  PROVE  Spec => BehavesAsOneDisk
  <1> DEFINE Inv == TypeOK /\ GateInv /\ CopyInv
  <1>1. Spec => []Inv
    BY CopyProtocol
  <1>2. Inv => ReadsRight
    BY ReadsAreRight
  <1>3. Inv /\ ReadsRight' /\ [Next]_vars => [Disk!Next]_(Disk!vars)
    BY DiskNext DEF CopyInv, MediaInv
  <1> QED BY <1>1, <1>2, <1>3, DiskInit, PTL DEF Spec, BehavesAsOneDisk, Disk!Spec
=============================================================================
