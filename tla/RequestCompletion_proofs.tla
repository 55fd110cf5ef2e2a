---------------------- MODULE RequestCompletion_proofs ----------------------
(***************************************************************************)
(* Proofs about RequestCompletion, for any members, tags, batch size and    *)
(* fault bound: the variables stay typed, and every request is ended at     *)
(* most once, whether or not late completions meet a tag that is in use     *)
(* again; if none does, nothing is owed to a request that ends, and a write *)
(* that ended OK is durable.                                                *)
(***************************************************************************)
EXTENDS RequestCompletion, FiniteSetTheorems, TLAPS

\* Whoever is at work on a request knows its tag.
Placed ==
  /\ \A m \in Members :
       isr[m].pc \in {"consume", "dec", "claim"} => isr[m].t \in Tags
  /\ \A d \in Callers : drain[d].pc \in {"ack", "dec", "claim"} => drain[d].t \in Tags
  /\ timer.pc # "none" => timer.t \in Tags

Typed == TypeOK /\ Placed

-----------------------------------------------------------------------------
(* Typing, one lemma per group of actions.                                  *)

LEMMA InitTyped == Init => Typed
  <1> SUFFICES ASSUME Init PROVE Typed
    OBVIOUS
  <1>1. rq \in [Tags -> Requests]
    BY ConstantsOK DEF Init, Requests, RqStates
  <1>2. isr \in [Members -> Handlers] /\ \A m \in Members : isr[m].pc = "out"
    BY ConstantsOK DEF Init, Handlers
  <1>3. drain \in [Callers -> Drains] /\ \A d \in Callers : drain[d].pc = "none"
    BY DEF Init, Drains
  <1>4. timer \in Timers /\ timer.pc = "none"
    BY DEF Init, Timers
  <1>5. /\ live \in SUBSET Members /\ dead \in SUBSET Members
        /\ softirq \in SUBSET Tags /\ exec \in SUBSET Commands
    BY DEF Init
  <1>6. /\ hw \in [Members -> {"running", "fatal", "off", "hung"}]
        /\ cq \in [Members -> SUBSET Entries]
    BY DEF Init
  <1>7. degrade \in BOOLEAN
    BY DEF Init
  <1>8. faults \in 0 .. MaxFaults
    BY ConstantsOK DEF Init
  <1> QED BY <1>1, <1>2, <1>3, <1>4, <1>5, <1>6, <1>7, <1>8 DEF Typed, TypeOK, Placed

\* A request whose fields are overwritten with values of their types.
LEMMA EndedType ==
  ASSUME NEW r \in Requests, NEW x \in {"ok", "err"}
  PROVE  Ended(r, x) \in Requests
  <1>1. r.ends + 1 \in Nat /\ "idle" \in RqStates /\ x \in {"none", "ok", "err"}
    BY DEF Requests, RqStates
  <1> DEFINE a == [r EXCEPT !.st = "idle"]
             b == [a EXCEPT !.claimed = TRUE]
             c == [b EXCEPT !.result = x]
  <1>2. a \in Requests
    BY <1>1 DEF Requests
  <1>3. b \in Requests
    <2> HIDE DEF a
    <2> QED BY <1>2 DEF Requests
  <1>4. c \in Requests
    <2> HIDE DEF b
    <2> QED BY <1>1, <1>3 DEF Requests
  <1>5. [c EXCEPT !.ends = r.ends + 1] \in Requests
    <2> HIDE DEF c
    <2> QED BY <1>1, <1>4 DEF Requests
  <1>6. Ended(r, x) = [c EXCEPT !.ends = r.ends + 1]
    BY DEF Ended, Requests
  <1> QED BY <1>5, <1>6

LEMMA FieldType ==
  ASSUME NEW r \in Requests
  PROVE  /\ \A S \in SUBSET Members :
              /\ [r EXCEPT !.acked = S] \in Requests
              /\ [r EXCEPT !.unsent = S] \in Requests
              /\ [r EXCEPT !.wrote = S] \in Requests
              /\ [r EXCEPT !.err = S] \in Requests
         /\ \A p \in Int : [r EXCEPT !.pending = p] \in Requests
         /\ \A x \in RqStates : [r EXCEPT !.st = x] \in Requests
         /\ \A k \in 0 .. MaxRearm : [r EXCEPT !.rearm = k] \in Requests
         /\ [r EXCEPT !.sc = TRUE] \in Requests
         /\ [r EXCEPT !.claimed = TRUE] \in Requests
  <1>1. \A S \in SUBSET Members : [r EXCEPT !.acked = S] \in Requests
    BY DEF Requests
  <1>2. \A S \in SUBSET Members : [r EXCEPT !.unsent = S] \in Requests
    BY DEF Requests
  <1>3. \A S \in SUBSET Members : [r EXCEPT !.wrote = S] \in Requests
    BY DEF Requests
  <1>4. \A S \in SUBSET Members : [r EXCEPT !.err = S] \in Requests
    BY DEF Requests
  <1>5. \A p \in Int : [r EXCEPT !.pending = p] \in Requests
    BY DEF Requests
  <1>6. \A x \in RqStates : [r EXCEPT !.st = x] \in Requests
    BY DEF Requests
  <1>7. \A k \in 0 .. MaxRearm : [r EXCEPT !.rearm = k] \in Requests
    BY DEF Requests
  <1>8. [r EXCEPT !.sc = TRUE] \in Requests
    BY DEF Requests
  <1>9. [r EXCEPT !.claimed = TRUE] \in Requests
    BY DEF Requests
  <1> QED BY <1>1, <1>2, <1>3, <1>4, <1>5, <1>6, <1>7, <1>8, <1>9

LEMMA FinishType ==
  ASSUME Typed, NEW t \in Tags, FinishRequest(t)
  PROVE  /\ rq' \in [Tags -> Requests]
         /\ live' \in SUBSET Members /\ degrade' \in BOOLEAN
  <1>1. FinishStatus(t) \in {"ok", "err"}
    BY DEF FinishStatus
  <1>2. Ended(rq[t], FinishStatus(t)) \in Requests
    BY <1>1, EndedType DEF Typed, TypeOK
  <1>3. rq' = [rq EXCEPT ![t] = Ended(rq[t], FinishStatus(t))]
    BY DEF FinishRequest
  <1>4. rq' \in [Tags -> Requests]
    BY <1>2, <1>3 DEF Typed, TypeOK
  <1>5. live' \in SUBSET Members /\ degrade' \in BOOLEAN
    BY DEF FinishRequest, MarkFailed, Typed, TypeOK
  <1> QED BY <1>4, <1>5

LEMMA DispatchTyped ==
  ASSUME Typed, NEW t \in Tags, NEW op \in {"read", "write"}, Dispatch(t, op)
  PROVE  Typed'
  <1>1. PICK mask \in SUBSET Members :
          LET r == [st |-> "prep", use |-> rq[t].use + 1, op |-> op,
                    mask |-> mask, unsent |-> {}, acked |-> {}, err |-> {},
                    sc |-> FALSE, pending |-> Cardinality(mask),
                    claimed |-> FALSE, rearm |-> 0, result |-> "none",
                    ends |-> 0, wrote |-> {}]
          IN rq' = [rq EXCEPT ![t] = IF mask = {} THEN Ended(r, "err") ELSE r]
    <2>1. live' \in SUBSET Members
      BY DEF Dispatch, MarkFailed, Typed, TypeOK
    <2>2. (IF op = "write" \/ live' = {} THEN {live'} ELSE {{m} : m \in live'})
            \subseteq SUBSET Members
      BY <2>1
    <2> QED BY <2>2 DEF Dispatch
  <1> DEFINE r == [st |-> "prep", use |-> rq[t].use + 1, op |-> op,
                   mask |-> mask, unsent |-> {}, acked |-> {}, err |-> {},
                   sc |-> FALSE, pending |-> Cardinality(mask),
                   claimed |-> FALSE, rearm |-> 0, result |-> "none",
                   ends |-> 0, wrote |-> {}]
  <1>2. Cardinality(mask) \in Int
    BY ConstantsOK, FS_Subset, FS_CardinalityType
  <1>3. rq[t].use + 1 \in 0 .. MaxUses
    BY ConstantsOK DEF Dispatch, Typed, TypeOK, Requests
  <1>4. r \in Requests
    BY <1>2, <1>3, ConstantsOK DEF Requests, RqStates
  <1>5. Ended(r, "err") \in Requests
    BY <1>4, EndedType
  <1>6. rq' = [rq EXCEPT ![t] = IF mask = {} THEN Ended(r, "err") ELSE r]
    BY <1>1
  <1> HIDE DEF r
  <1>7. rq' \in [Tags -> Requests]
    BY <1>4, <1>5, <1>6 DEF Typed, TypeOK
  <1>8. live' \in SUBSET Members /\ degrade' \in BOOLEAN
    BY DEF Dispatch, MarkFailed, Typed, TypeOK
  <1>9. UNCHANGED <<dead, hw, exec, cq, softirq, isr, drain, timer, faults>>
    BY DEF Dispatch, mediaVars
  <1> QED BY <1>7, <1>8, <1>9 DEF Typed, TypeOK, Placed

\* The types of everything but the requests.
Rest ==
  /\ live \in SUBSET Members /\ dead \in SUBSET Members
  /\ hw \in [Members -> {"running", "fatal", "off", "hung"}]
  /\ degrade \in BOOLEAN
  /\ softirq \in SUBSET Tags
  /\ exec \in SUBSET Commands
  /\ cq \in [Members -> SUBSET Entries]
  /\ faults \in 0 .. MaxFaults
AtWork == {"consume", "dec", "claim"}
IsrOK == /\ isr \in [Members -> Handlers]
         /\ \A m \in Members : isr[m].pc \in AtWork => isr[m].t \in Tags
DrainOK == /\ drain \in [Callers -> Drains]
           /\ \A d \in Callers :
                drain[d].pc \in {"ack", "dec", "claim"} => drain[d].t \in Tags
TimerOK == timer \in Timers /\ (timer.pc # "none" => timer.t \in Tags)
Actors == IsrOK /\ DrainOK /\ TimerOK

LEMMA TypedParts == Typed <=> rq \in [Tags -> Requests] /\ Rest /\ Actors
  BY DEF Typed, TypeOK, Rest, Actors, IsrOK, DrainOK, TimerOK, Placed, AtWork

LEMMA TypedNext ==
  ASSUME rq' \in [Tags -> Requests], Rest', Actors' PROVE Typed'
  BY DEF Typed, TypeOK, Rest, Actors, IsrOK, DrainOK, TimerOK, Placed, AtWork

LEMMA RestKept ==
  ASSUME Rest, UNCHANGED <<live, dead, hw, degrade, softirq, exec, cq, faults>>
  PROVE  Rest'
  BY DEF Rest

LEMMA ActorsKept == ASSUME Actors, UNCHANGED <<isr, drain, timer>> PROVE Actors'
  BY DEF Actors, IsrOK, DrainOK, TimerOK

LEMMA RestParts ==
  ASSUME Rest
  PROVE  /\ live \in SUBSET Members /\ dead \in SUBSET Members
         /\ hw \in [Members -> {"running", "fatal", "off", "hung"}]
         /\ exec \in SUBSET Commands /\ cq \in [Members -> SUBSET Entries]
         /\ faults \in 0 .. MaxFaults
  BY DEF Rest

LEMMA SubmitTyped ==
  ASSUME Typed, NEW t \in Tags, Start(t) \/ Submit(t)
  PROVE  Typed'
  <1> rq \in [Tags -> Requests] /\ Rest /\ Actors
    BY TypedParts
  <1> rq[t] \in Requests
    OBVIOUS
  <1>1. CASE Start(t)
    <2> DEFINE a == [rq[t] EXCEPT !.st = "started"]
    <2>0. "started" \in RqStates /\ rq[t].mask \in SUBSET Members
      BY DEF RqStates, Requests
    <2>1. a \in Requests
      BY <2>0, FieldType
    <2>2. [a EXCEPT !.unsent = rq[t].mask] \in Requests
      <3> HIDE DEF a
      <3> QED BY <2>0, <2>1, FieldType
    <2>3. rq' = [rq EXCEPT ![t] = [a EXCEPT !.unsent = rq[t].mask]]
      BY <1>1 DEF Start, Requests
    <2>4. rq' \in [Tags -> Requests]
      <3> HIDE DEF a
      <3> QED BY <2>2, <2>3
    <2>5. UNCHANGED <<live, dead, hw, degrade, softirq, exec, cq, faults>>
      BY <1>1 DEF Start, mediaVars
    <2>6. UNCHANGED <<isr, drain, timer>>
      BY <1>1 DEF Start, mediaVars
    <2>7. Rest' /\ Actors'
      BY <2>5, <2>6, RestKept, ActorsKept
    <2> QED BY <2>4, <2>7, TypedNext
  <1>2. CASE Submit(t)
    <2>1. PICK m \in rq[t].unsent :
            /\ rq' = [rq EXCEPT ![t].unsent = @ \ {m}]
            /\ \/ /\ hw[m] \in {"running", "hung"}
                  /\ exec' = exec \cup {[t |-> t, use |-> rq[t].use, m |-> m]}
               \/ hw[m] # "running" /\ UNCHANGED exec
            /\ UNCHANGED <<live, dead, hw, cq, degrade, softirq, isr, drain,
                           timer, faults>>
      BY <1>2 DEF Submit
    <2>2. rq[t].unsent \in SUBSET Members /\ rq[t].use \in 0 .. MaxUses
      BY DEF Requests
    <2>3. [rq[t] EXCEPT !.unsent = rq[t].unsent \ {m}] \in Requests
      BY <2>2, FieldType
    <2>4. rq' \in [Tags -> Requests]
      BY <2>1, <2>3
    <2>5. exec' \in SUBSET Commands
      BY <2>1, <2>2 DEF Commands, Rest
    <2>6. Rest'
      BY <2>1, <2>5 DEF Rest
    <2>7. Actors'
      BY <2>1, ActorsKept
    <2> QED BY <2>4, <2>6, <2>7, TypedNext
  <1> QED BY <1>1, <1>2

LEMMA ExecuteTyped ==
  ASSUME Typed, NEW c \in exec, NEW ok \in BOOLEAN, Execute(c, ok)
  PROVE  Typed'
  <1>1. rq \in [Tags -> Requests] /\ Rest /\ Actors
    BY TypedParts
  <1>2. c.t \in Tags /\ c.m \in Members /\ c.use \in 0 .. MaxUses
    BY <1>1 DEF Commands, Rest
  <1>3. rq' \in [Tags -> Requests]
    <2>1. rq[c.t] \in Requests
      BY <1>1, <1>2
    <2>2. rq[c.t].wrote \cup {c.m} \in SUBSET Members
      BY <1>2, <2>1 DEF Requests
    <2>3. [rq[c.t] EXCEPT !.wrote = rq[c.t].wrote \cup {c.m}] \in Requests
      BY <2>1, <2>2, FieldType
    <2>4. \/ rq' = [rq EXCEPT ![c.t].wrote = rq[c.t].wrote \cup {c.m}]
          \/ rq' = rq
      BY DEF Execute
    <2> QED BY <1>1, <1>2, <2>3, <2>4
  <1>4. exec' \in SUBSET Commands
    BY <1>1 DEF Execute, Rest
  <1>5. faults' \in 0 .. MaxFaults
    BY <1>1, ConstantsOK DEF Execute, Rest
  <1>6. cq' \in [Members -> SUBSET Entries]
    <2>1. [t |-> c.t, use |-> c.use, ok |-> ok] \in Entries
      BY <1>2 DEF Entries
    <2> QED BY <1>1, <1>2, <2>1 DEF Execute, Rest
  <1>7. UNCHANGED <<live, dead, hw, degrade, softirq, isr, drain, timer>>
    BY DEF Execute
  <1>8. Rest'
    BY <1>1, <1>4, <1>5, <1>6, <1>7 DEF Rest
  <1>9. Actors'
    BY <1>1, <1>7, ActorsKept
  <1> QED BY <1>3, <1>8, <1>9, TypedNext

LEMMA DieTyped == ASSUME Typed, NEW m \in Members, Die(m) PROVE Typed'
  <1>1. rq \in [Tags -> Requests] /\ Rest /\ Actors
    BY TypedParts
  <1>2. hw' \in [Members -> {"running", "fatal", "off", "hung"}]
    BY <1>1 DEF Die, Rest
  <1>3. faults' \in 0 .. MaxFaults
    BY <1>1, ConstantsOK DEF Die, Rest
  <1>4. exec' \in SUBSET Commands
    BY <1>1 DEF Die, Rest
  <1>5. UNCHANGED <<live, dead, degrade, rq, softirq, cq, isr, drain, timer>>
    BY DEF Die
  <1>6. Rest'
    BY <1>1, <1>2, <1>3, <1>4, <1>5 DEF Rest
  <1>7. rq' \in [Tags -> Requests] /\ Actors'
    BY <1>1, <1>5, ActorsKept
  <1> QED BY <1>6, <1>7, TypedNext

-----------------------------------------------------------------------------
(* One request, one handler or one drain is replaced.                       *)

LEMMA RequestsKept ==
  ASSUME rq \in [Tags -> Requests], NEW t \in Tags, NEW r \in Requests,
         rq' = [rq EXCEPT ![t] = r]
  PROVE  rq' \in [Tags -> Requests]
  OBVIOUS

LEMMA HandlerKept ==
  ASSUME IsrOK, NEW m \in Members, NEW h \in Handlers,
         h.pc \in AtWork => h.t \in Tags, isr' = [isr EXCEPT ![m] = h]
  PROVE  IsrOK'
  BY DEF IsrOK

LEMMA DrainKept ==
  ASSUME DrainOK, NEW d \in Callers, NEW g \in Drains,
         g.pc \in {"ack", "dec", "claim"} => g.t \in Tags,
         drain' = [drain EXCEPT ![d] = g]
  PROVE  DrainOK'
  BY DEF DrainOK

LEMMA ActorsNext == ASSUME IsrOK', DrainOK', TimerOK' PROVE Actors'
  BY DEF Actors

LEMMA IsrKept == ASSUME IsrOK, UNCHANGED isr PROVE IsrOK'
  BY DEF IsrOK
LEMMA DrainsKept == ASSUME DrainOK, UNCHANGED drain PROVE DrainOK'
  BY DEF DrainOK
LEMMA TimerKept == ASSUME TimerOK, UNCHANGED timer PROVE TimerOK'
  BY DEF TimerOK

\* What a step of the interrupt handler of m may assume and has to show.
LEMMA IsrPasses ==
  ASSUME Typed, NEW m \in Members, NEW h \in Handlers,
         h.pc \in AtWork => h.t \in Tags, isr' = [isr EXCEPT ![m] = h],
         rq' \in [Tags -> Requests], Rest', UNCHANGED <<drain, timer>>
  PROVE  Typed'
  <1>1. IsrOK /\ DrainOK /\ TimerOK
    BY TypedParts DEF Actors
  <1>2. IsrOK'
    BY <1>1, HandlerKept
  <1>3. DrainOK' /\ TimerOK'
    BY <1>1, DrainsKept, TimerKept
  <1> QED BY <1>2, <1>3, ActorsNext, TypedNext

LEMMA IsrFatalTyped ==
  ASSUME Typed, NEW m \in Members, IsrSeesFatal(m) PROVE Typed'
  <1>1. rq \in [Tags -> Requests] /\ Rest /\ Actors
    BY TypedParts
  <1>2. UNCHANGED <<live, hw, exec, cq, degrade, rq, softirq, isr, drain, timer,
                    faults>>
    BY DEF IsrSeesFatal, mediaVars
  <1>3. dead' \in SUBSET Members
    BY <1>1 DEF IsrSeesFatal, Rest
  <1>4. Rest'
    BY <1>1, <1>2, <1>3 DEF Rest
  <1> QED BY <1>1, <1>2, <1>4, ActorsKept, TypedNext

\* The handler moves between its places without touching anything else.
LEMMA IsrMovesTyped ==
  ASSUME Typed, NEW m \in Members, IsrEnter(m) \/ IsrLeave(m) PROVE Typed'
  <1>1. rq \in [Tags -> Requests] /\ Rest /\ isr[m] \in Handlers
    BY TypedParts DEF Actors, IsrOK
  <1>2. PICK x \in {"walk", "end"} : isr' = [isr EXCEPT ![m].pc = x]
    BY DEF IsrEnter, IsrLeave
  <1> DEFINE h == [isr[m] EXCEPT !.pc = x]
  <1>3. h \in Handlers /\ h.pc \notin AtWork
    BY <1>1 DEF Handlers, AtWork
  <1>4. isr' = [isr EXCEPT ![m] = h]
    BY <1>2
  <1>5. UNCHANGED <<live, dead, hw, exec, cq, degrade, rq, softirq, drain, timer,
                    faults>>
    BY DEF IsrEnter, IsrLeave, mediaVars
  <1>6. rq' \in [Tags -> Requests] /\ Rest'
    BY <1>1, <1>5, RestKept
  <1> HIDE DEF h
  <1> QED BY <1>3, <1>4, <1>5, <1>6, IsrPasses

LEMMA IsrTakeTyped ==
  ASSUME Typed, NEW m \in Members, IsrTake(m) PROVE Typed'
  <1>1. rq \in [Tags -> Requests] /\ Rest /\ isr[m] \in Handlers
    BY TypedParts DEF Actors, IsrOK
  <1>2. PICK e \in cq[m] :
          /\ cq' = [cq EXCEPT ![m] = @ \ {e}]
          /\ isr' = [isr EXCEPT ![m].pc = "consume", ![m].t = e.t, ![m].use = e.use]
          /\ rq' = IF e.ok THEN rq
                   ELSE [rq EXCEPT ![e.t].sc = TRUE, ![e.t].err = @ \cup {m}]
    BY DEF IsrTake
  <1>3. e \in Entries /\ e.t \in Tags /\ e.use \in 0 .. MaxUses
    BY <1>1 DEF Rest, Entries
  <1> DEFINE h == [isr[m] EXCEPT !.pc = "consume", !.t = e.t, !.use = e.use]
  <1>4. h \in Handlers /\ (h.pc \in AtWork => h.t \in Tags)
    BY <1>1, <1>3 DEF Handlers
  <1>5. isr' = [isr EXCEPT ![m] = h]
    BY <1>2
  <1>6. rq' \in [Tags -> Requests]
    <2> DEFINE a == [rq[e.t] EXCEPT !.sc = TRUE]
    <2>1. a \in Requests
      BY <1>1, <1>3, FieldType
    <2>2. rq[e.t].err \cup {m} \in SUBSET Members
      BY <1>1, <1>3 DEF Requests
    <2>3. [a EXCEPT !.err = rq[e.t].err \cup {m}] \in Requests
      <3> HIDE DEF a
      <3> QED BY <2>1, <2>2, FieldType
    <2>4. \/ rq' = rq
          \/ rq' = [rq EXCEPT ![e.t] = [a EXCEPT !.err = rq[e.t].err \cup {m}]]
      BY <1>1, <1>2, <1>3 DEF Requests
    <2> HIDE DEF a
    <2> QED BY <1>1, <1>3, <2>3, <2>4
  <1>7. cq' \in [Members -> SUBSET Entries]
    BY <1>1, <1>2 DEF Rest
  <1>8. UNCHANGED <<live, dead, hw, exec, degrade, softirq, drain, timer, faults>>
    BY DEF IsrTake
  <1>9. Rest'
    BY <1>1, <1>7, <1>8 DEF Rest
  <1> HIDE DEF h
  <1> QED BY <1>4, <1>5, <1>6, <1>8, <1>9, IsrPasses

LEMMA IsrConsumeTyped ==
  ASSUME Typed, NEW m \in Members, IsrConsume(m) PROVE Typed'
  <1>1. rq \in [Tags -> Requests] /\ Rest /\ isr[m] \in Handlers
    BY TypedParts DEF Actors, IsrOK
  <1>2. isr[m].t \in Tags
    BY TypedParts DEF Actors, IsrOK, IsrConsume, AtWork
  <1>3. PICK x \in {"walk", "dec"} : isr' = [isr EXCEPT ![m].pc = x]
    BY DEF IsrConsume
  <1> DEFINE h == [isr[m] EXCEPT !.pc = x]
  <1>4. h \in Handlers /\ h.t \in Tags
    BY <1>1, <1>2 DEF Handlers
  <1>5. isr' = [isr EXCEPT ![m] = h]
    BY <1>3
  <1>6. rq' \in [Tags -> Requests]
    <2>1. rq[isr[m].t].acked \cup {m} \in SUBSET Members
      BY <1>1, <1>2 DEF Requests
    <2>2. [rq[isr[m].t] EXCEPT !.acked = rq[isr[m].t].acked \cup {m}] \in Requests
      BY <1>1, <1>2, <2>1, FieldType
    <2> QED BY <1>1, <1>2, <2>2 DEF IsrConsume
  <1>7. UNCHANGED <<live, dead, hw, exec, cq, degrade, softirq, drain, timer,
                    faults>>
    BY DEF IsrConsume, mediaVars
  <1>8. Rest'
    BY <1>1, <1>7, RestKept
  <1> HIDE DEF h
  <1> QED BY <1>4, <1>5, <1>6, <1>7, <1>8, IsrPasses

LEMMA IsrDecTyped ==
  ASSUME Typed, NEW m \in Members, IsrDec(m) PROVE Typed'
  <1>1. rq \in [Tags -> Requests] /\ Rest /\ isr[m] \in Handlers
    BY TypedParts DEF Actors, IsrOK
  <1>2. isr[m].t \in Tags
    BY TypedParts DEF Actors, IsrOK, IsrDec, AtWork
  <1>3. PICK x \in {"walk", "claim"} : isr' = [isr EXCEPT ![m].pc = x]
    BY DEF IsrDec
  <1> DEFINE h == [isr[m] EXCEPT !.pc = x]
  <1>4. h \in Handlers /\ h.t \in Tags
    BY <1>1, <1>2 DEF Handlers
  <1>5. isr' = [isr EXCEPT ![m] = h]
    BY <1>3
  <1>6. rq' \in [Tags -> Requests]
    <2>1. rq[isr[m].t].pending - 1 \in Int
      BY <1>1, <1>2 DEF Requests
    <2>2. [rq[isr[m].t] EXCEPT !.pending = rq[isr[m].t].pending - 1] \in Requests
      BY <1>1, <1>2, <2>1, FieldType
    <2> QED BY <1>1, <1>2, <2>2 DEF IsrDec
  <1>7. UNCHANGED <<live, dead, hw, exec, cq, degrade, softirq, drain, timer,
                    faults>>
    BY DEF IsrDec, mediaVars
  <1>8. Rest'
    BY <1>1, <1>7, RestKept
  <1> HIDE DEF h
  <1> QED BY <1>4, <1>5, <1>6, <1>7, <1>8, IsrPasses

\* A request that is claimed, and perhaps handed to the softirq.
LEMMA ClaimType ==
  ASSUME rq \in [Tags -> Requests], NEW t \in Tags,
         \/ rq' = [rq EXCEPT ![t].claimed = TRUE]
         \/ rq' = [rq EXCEPT ![t].claimed = TRUE, ![t].st = "complete"]
         \/ rq' = rq
  PROVE  rq' \in [Tags -> Requests]
  <1> DEFINE a == [rq[t] EXCEPT !.claimed = TRUE]
  <1>1. a \in Requests
    BY FieldType
  <1>2. [a EXCEPT !.st = "complete"] \in Requests
    <2>1. "complete" \in RqStates
      BY DEF RqStates
    <2> HIDE DEF a
    <2> QED BY <1>1, <2>1, FieldType
  <1>3. \/ rq' = [rq EXCEPT ![t] = a]
        \/ rq' = [rq EXCEPT ![t] = [a EXCEPT !.st = "complete"]]
        \/ rq' = rq
    BY DEF Requests
  <1> HIDE DEF a
  <1> QED BY <1>1, <1>2, <1>3

LEMMA IsrClaimTyped ==
  ASSUME Typed, NEW m \in Members, IsrClaim(m) PROVE Typed'
  <1>1. rq \in [Tags -> Requests] /\ Rest /\ isr[m] \in Handlers
    BY TypedParts DEF Actors, IsrOK
  <1>2. isr[m].t \in Tags
    BY TypedParts DEF Actors, IsrOK, IsrClaim, AtWork
  <1>3. PICK h \in Handlers : isr' = [isr EXCEPT ![m] = h] /\ h.pc = "walk"
    <2> DEFINE a == [isr[m] EXCEPT !.pc = "walk"]
               b == [isr[m] EXCEPT !.pc = "walk", !.done = @ \cup {isr[m].t}]
    <2>1. a \in Handlers /\ b \in Handlers /\ a.pc = "walk" /\ b.pc = "walk"
      BY <1>1, <1>2 DEF Handlers
    <2>2. isr' = [isr EXCEPT ![m] = a] \/ isr' = [isr EXCEPT ![m] = b]
      BY DEF IsrClaim
    <2> HIDE DEF a, b
    <2> QED BY <2>1, <2>2
  <1>4. rq' \in [Tags -> Requests]
    <2>1. \/ rq' = [rq EXCEPT ![isr[m].t].claimed = TRUE]
          \/ rq' = [rq EXCEPT ![isr[m].t].claimed = TRUE,
                              ![isr[m].t].st = "complete"]
          \/ rq' = rq
      BY DEF IsrClaim
    <2> QED BY <1>1, <1>2, <2>1, ClaimType
  <1>5. softirq' \in SUBSET Tags
    BY <1>1, <1>2 DEF IsrClaim, Rest
  <1>6. UNCHANGED <<live, dead, hw, exec, cq, degrade, drain, timer, faults>>
    BY DEF IsrClaim, mediaVars
  <1>7. Rest'
    BY <1>1, <1>5, <1>6 DEF Rest
  <1>8. h.pc \in AtWork => h.t \in Tags
    BY <1>3 DEF AtWork
  <1> QED BY <1>3, <1>4, <1>6, <1>7, <1>8, IsrPasses

LEMMA IsrEndTyped ==
  ASSUME Typed, NEW m \in Members, IsrEnd(m) PROVE Typed'
  <1>1. rq \in [Tags -> Requests] /\ Rest /\ isr[m] \in Handlers
    BY TypedParts DEF Actors, IsrOK
  <1>2. UNCHANGED <<dead, hw, exec, cq, softirq, drain, timer, faults>>
    BY DEF IsrEnd, mediaVars
  <1>3. CASE isr[m].done = {} /\ UNCHANGED <<live, degrade, rq>>
               /\ isr' = [isr EXCEPT ![m].pc = "out"]
    <2> DEFINE h == [isr[m] EXCEPT !.pc = "out"]
    <2>1. h \in Handlers /\ (h.pc \in AtWork => h.t \in Tags)
      BY <1>1 DEF Handlers, AtWork
    <2>2. isr' = [isr EXCEPT ![m] = h]
      BY <1>3
    <2>3. rq' \in [Tags -> Requests] /\ Rest'
      BY <1>1, <1>2, <1>3, RestKept
    <2> HIDE DEF h
    <2> QED BY <1>2, <2>1, <2>2, <2>3, IsrPasses
  <1>4. ASSUME NEW t \in isr[m].done, FinishRequest(t),
               isr' = [isr EXCEPT ![m].done = @ \ {t}]
        PROVE  Typed'
    <2>1. t \in Tags
      BY <1>1 DEF Handlers
    <2>2. /\ rq' \in [Tags -> Requests]
          /\ live' \in SUBSET Members /\ degrade' \in BOOLEAN
      BY <1>4, <2>1, FinishType
    <2>3. Rest'
      BY <1>1, <1>2, <2>2 DEF Rest
    <2> DEFINE h == [isr[m] EXCEPT !.done = isr[m].done \ {t}]
    <2>4. h \in Handlers /\ (h.pc \in AtWork => h.t \in Tags)
      BY <1>1 DEF Handlers, AtWork, IsrEnd
    <2>5. isr' = [isr EXCEPT ![m] = h]
      BY <1>4
    <2> HIDE DEF h
    <2> QED BY <1>2, <2>2, <2>3, <2>4, <2>5, IsrPasses
  <1> QED BY <1>3, <1>4 DEF IsrEnd

LEMMA SoftirqTyped ==
  ASSUME Typed, NEW t \in Tags, Softirq(t) PROVE Typed'
  <1>1. rq \in [Tags -> Requests] /\ Rest /\ Actors
    BY TypedParts
  <1>2. /\ rq' \in [Tags -> Requests]
        /\ live' \in SUBSET Members /\ degrade' \in BOOLEAN
    BY FinishType DEF Softirq
  <1>3. UNCHANGED <<dead, hw, exec, cq, isr, drain, timer, faults>>
    BY DEF Softirq, mediaVars
  <1>4. softirq' \in SUBSET Tags
    BY <1>1 DEF Softirq, Rest
  <1>5. Rest'
    BY <1>1, <1>2, <1>3, <1>4 DEF Rest
  <1> QED BY <1>1, <1>2, <1>3, <1>5, ActorsKept, TypedNext

-----------------------------------------------------------------------------
(* Typing: the drain and the timeout handler.                               *)

\* What a step of the drain d may assume and has to show.
LEMMA DrainPasses ==
  ASSUME Typed, NEW d \in Callers, NEW g \in Drains,
         g.pc \in {"ack", "dec", "claim"} => g.t \in Tags,
         drain' = [drain EXCEPT ![d] = g],
         rq' \in [Tags -> Requests], Rest', UNCHANGED <<isr, timer>>
  PROVE  Typed'
  <1>1. IsrOK /\ DrainOK /\ TimerOK
    BY TypedParts DEF Actors
  <1>2. DrainOK'
    BY <1>1, DrainKept
  <1>3. IsrOK' /\ TimerOK'
    BY <1>1, IsrKept, TimerKept
  <1> QED BY <1>2, <1>3, ActorsNext, TypedNext

LEMMA DrainBeginTyped ==
  ASSUME Typed, NEW d \in Callers, DrainBegin(d) PROVE Typed'
  <1>1. rq \in [Tags -> Requests] /\ Rest /\ drain[d] \in Drains
    BY TypedParts DEF Actors, DrainOK
  <1>2. PICK x \in {"none", "disable"} :
          drain' = [drain EXCEPT ![d].pc = x, ![d].mask = dead]
    BY DEF DrainBegin
  <1> DEFINE g == [drain[d] EXCEPT !.pc = x, !.mask = dead]
  <1>3. g \in Drains /\ g.pc \notin {"ack", "dec", "claim"}
    <2>1. dead \in SUBSET Members
      BY <1>1, RestParts
    <2> QED BY <1>1, <2>1 DEF Drains
  <1>4. drain' = [drain EXCEPT ![d] = g]
    BY <1>2
  <1>5. UNCHANGED <<live, dead, hw, exec, cq, degrade, rq, softirq, isr, timer,
                    faults>>
    BY DEF DrainBegin, mediaVars
  <1>6. rq' \in [Tags -> Requests] /\ Rest'
    BY <1>1, <1>5, RestKept
  <1> HIDE DEF g
  <1> QED BY <1>3, <1>4, <1>5, <1>6, DrainPasses

LEMMA DrainDisableTyped ==
  ASSUME Typed, NEW d \in Callers, DrainDisable(d) PROVE Typed'
  <1>1. rq \in [Tags -> Requests] /\ Rest /\ drain[d] \in Drains
    BY TypedParts DEF Actors, DrainOK
  <1> DEFINE g == [drain[d] EXCEPT !.pc = "iter", !.todo = Tags]
  <1>2. g \in Drains /\ g.pc \notin {"ack", "dec", "claim"}
    BY <1>1 DEF Drains
  <1>3. drain' = [drain EXCEPT ![d] = g]
    BY DEF DrainDisable
  <1>4. hw' \in [Members -> {"running", "fatal", "off", "hung"}]
    BY <1>1 DEF DrainDisable, Rest
  <1>5. exec' \in SUBSET Commands
    BY <1>1 DEF DrainDisable, Rest
  <1>6. UNCHANGED <<live, dead, cq, degrade, rq, softirq, isr, timer, faults>>
    BY DEF DrainDisable
  <1>7. rq' \in [Tags -> Requests] /\ Rest'
    BY <1>1, <1>4, <1>5, <1>6 DEF Rest
  <1> HIDE DEF g
  <1> QED BY <1>2, <1>3, <1>6, <1>7, DrainPasses

LEMMA DrainVisitTyped ==
  ASSUME Typed, NEW d \in Callers, DrainVisit(d) PROVE Typed'
  <1>1. rq \in [Tags -> Requests] /\ Rest /\ drain[d] \in Drains
    BY TypedParts DEF Actors, DrainOK
  <1>2. UNCHANGED <<live, dead, hw, exec, cq, degrade, rq, softirq, isr, timer,
                    faults>>
    BY DEF DrainVisit, mediaVars
  <1>3. rq' \in [Tags -> Requests] /\ Rest'
    BY <1>1, <1>2, RestKept
  <1>4. PICK g \in Drains : /\ drain' = [drain EXCEPT ![d] = g]
                            /\ g.pc \in {"ack", "dec", "claim"} => g.t \in Tags
    <2>1. CASE drain' = [drain EXCEPT ![d].pc = "none"]
      <3> DEFINE g == [drain[d] EXCEPT !.pc = "none"]
      <3>1. g \in Drains /\ g.pc = "none"
        BY <1>1 DEF Drains
      <3>2. drain' = [drain EXCEPT ![d] = g]
        BY <2>1
      <3> HIDE DEF g
      <3> QED BY <3>1, <3>2
    <2>2. ASSUME NEW t \in drain[d].todo,
                 LET involved == rq[t].mask \cap drain[d].mask
                     visited  == rq[t].st \in {"started", "complete"}
                                   /\ involved # {}
                 IN drain' = [drain EXCEPT
                      ![d].todo = @ \ {t},
                      ![d].pc   = IF visited THEN "ack" ELSE "iter",
                      ![d].t    = IF visited THEN t ELSE None,
                      ![d].left = IF visited THEN involved ELSE {}]
          PROVE  \E g \in Drains : /\ drain' = [drain EXCEPT ![d] = g]
                                   /\ g.pc \in {"ack", "dec", "claim"} => g.t \in Tags
      <3> DEFINE involved == rq[t].mask \cap drain[d].mask
      <3>1. t \in Tags /\ involved \in SUBSET Members
        BY <1>1 DEF Drains
      <3>2. CASE rq[t].st \in {"started", "complete"} /\ involved # {}
        <4> DEFINE g == [drain[d] EXCEPT !.todo = @ \ {t}, !.pc = "ack", !.t = t,
                                         !.left = involved]
        <4>1. drain' = [drain EXCEPT ![d] = g]
          BY <2>2, <3>2
        <4> HIDE DEF involved
        <4>2. g \in Drains /\ g.t \in Tags
          BY <1>1, <3>1 DEF Drains
        <4> HIDE DEF g
        <4> QED BY <4>1, <4>2
      <3>3. CASE ~(rq[t].st \in {"started", "complete"} /\ involved # {})
        <4> DEFINE g == [drain[d] EXCEPT !.todo = @ \ {t}, !.pc = "iter", !.t = None,
                                         !.left = {}]
        <4>1. drain' = [drain EXCEPT ![d] = g]
          BY <2>2, <3>3
        <4> HIDE DEF involved
        <4>2. g \in Drains /\ g.pc = "iter"
          BY <1>1, <3>1 DEF Drains
        <4> HIDE DEF g
        <4> QED BY <4>1, <4>2
      <3> QED BY <3>2, <3>3
    <2> QED BY <2>1, <2>2 DEF DrainVisit
  <1> QED BY <1>2, <1>3, <1>4, DrainPasses

LEMMA DrainAckTyped ==
  ASSUME Typed, NEW d \in Callers, DrainAck(d) PROVE Typed'
  <1>1. rq \in [Tags -> Requests] /\ Rest /\ drain[d] \in Drains
    BY TypedParts DEF Actors, DrainOK
  <1>2. drain[d].t \in Tags
    BY TypedParts DEF Actors, DrainOK, DrainAck
  <1>3. UNCHANGED <<live, dead, hw, exec, cq, degrade, softirq, isr, timer, faults>>
    BY DEF DrainAck, mediaVars
  <1>4. Rest'
    BY <1>1, <1>3, RestKept
  <1>5. PICK g \in Drains : drain' = [drain EXCEPT ![d] = g] /\ g.t \in Tags
    <2>1. CASE drain' = [drain EXCEPT ![d].pc = "claim"]
      <3> DEFINE g == [drain[d] EXCEPT !.pc = "claim"]
      <3>1. g \in Drains /\ g.t \in Tags
        BY <1>1, <1>2 DEF Drains
      <3>2. drain' = [drain EXCEPT ![d] = g]
        BY <2>1
      <3> HIDE DEF g
      <3> QED BY <3>1, <3>2
    <2>2. ASSUME NEW m \in drain[d].left,
                 \/ drain' = [drain EXCEPT ![d].left = @ \ {m}]
                 \/ drain' = [drain EXCEPT ![d].left = @ \ {m}, ![d].pc = "dec"]
          PROVE  \E g \in Drains : drain' = [drain EXCEPT ![d] = g] /\ g.t \in Tags
      <3> DEFINE a == [drain[d] EXCEPT !.left = @ \ {m}]
                 b == [drain[d] EXCEPT !.left = @ \ {m}, !.pc = "dec"]
      <3>1. a \in Drains /\ b \in Drains /\ a.t \in Tags /\ b.t \in Tags
        BY <1>1, <1>2 DEF Drains
      <3>2. drain' = [drain EXCEPT ![d] = a] \/ drain' = [drain EXCEPT ![d] = b]
        BY <2>2
      <3> HIDE DEF a, b
      <3> QED BY <3>1, <3>2
    <2> QED BY <2>1, <2>2 DEF DrainAck
  <1>6. rq' \in [Tags -> Requests]
    <2> DEFINE t == drain[d].t
    <2>1. ASSUME NEW m \in Members,
                 rq' = [rq EXCEPT ![t].acked = @ \cup {m},
                                  ![t].err = @ \cup {m}, ![t].sc = TRUE]
          PROVE  rq' \in [Tags -> Requests]
      <3> DEFINE a == [rq[t] EXCEPT !.acked = rq[t].acked \cup {m}]
                 b == [a EXCEPT !.err = rq[t].err \cup {m}]
      <3>1. rq[t].acked \cup {m} \in SUBSET Members
            /\ rq[t].err \cup {m} \in SUBSET Members
        BY <1>1, <1>2 DEF Requests
      <3>2. a \in Requests
        BY <1>1, <1>2, <3>1, FieldType
      <3>3. b \in Requests
        <4> HIDE DEF a
        <4> QED BY <3>1, <3>2, FieldType
      <3>4. [b EXCEPT !.sc = TRUE] \in Requests
        <4> HIDE DEF b
        <4> QED BY <3>3, FieldType
      <3>5. rq' = [rq EXCEPT ![t] = [b EXCEPT !.sc = TRUE]]
        BY <1>1, <1>2, <2>1 DEF Requests
      <3> HIDE DEF b
      <3> QED BY <1>1, <1>2, <3>4, <3>5
    <2>2. drain[d].left \subseteq Members
      BY <1>1 DEF Drains
    <2> QED BY <1>1, <2>1, <2>2 DEF DrainAck
  <1> QED BY <1>3, <1>4, <1>5, <1>6, DrainPasses

LEMMA DrainDecTyped ==
  ASSUME Typed, NEW d \in Callers, DrainDec(d) PROVE Typed'
  <1>1. rq \in [Tags -> Requests] /\ Rest /\ drain[d] \in Drains
    BY TypedParts DEF Actors, DrainOK
  <1>2. drain[d].t \in Tags
    BY TypedParts DEF Actors, DrainOK, DrainDec
  <1>3. UNCHANGED <<live, dead, hw, exec, cq, degrade, softirq, isr, timer, faults>>
    BY DEF DrainDec, mediaVars
  <1>4. Rest'
    BY <1>1, <1>3, RestKept
  <1> DEFINE x == drain[d].last \/ rq[drain[d].t].pending = 1
             g == [drain[d] EXCEPT !.pc = "ack", !.last = x]
  <1>5. drain' = [drain EXCEPT ![d] = g]
    BY DEF DrainDec
  <1>6. x \in BOOLEAN
    BY <1>1 DEF Drains
  <1>7. g \in Drains /\ g.t \in Tags
    <2> HIDE DEF x
    <2> QED BY <1>1, <1>2, <1>6 DEF Drains
  <1>8. rq' \in [Tags -> Requests]
    <2>1. rq[drain[d].t].pending - 1 \in Int
      BY <1>1, <1>2 DEF Requests
    <2>2. [rq[drain[d].t] EXCEPT !.pending = rq[drain[d].t].pending - 1] \in Requests
      BY <1>1, <1>2, <2>1, FieldType
    <2> QED BY <1>1, <1>2, <2>2 DEF DrainDec
  <1> HIDE DEF g
  <1> QED BY <1>3, <1>4, <1>5, <1>7, <1>8, DrainPasses

LEMMA DrainClaimTyped ==
  ASSUME Typed, NEW d \in Callers, DrainClaim(d) PROVE Typed'
  <1>1. rq \in [Tags -> Requests] /\ Rest /\ drain[d] \in Drains
    BY TypedParts DEF Actors, DrainOK
  <1>2. drain[d].t \in Tags
    BY TypedParts DEF Actors, DrainOK, DrainClaim
  <1>3. UNCHANGED <<live, dead, hw, exec, cq, degrade, isr, timer, faults>>
    BY DEF DrainClaim, mediaVars
  <1>4. softirq' \in SUBSET Tags
    BY <1>1, <1>2 DEF DrainClaim, Rest
  <1>5. Rest'
    BY <1>1, <1>3, <1>4 DEF Rest
  <1> DEFINE g == [drain[d] EXCEPT !.pc = "iter", !.t = None, !.last = FALSE]
  <1>6. drain' = [drain EXCEPT ![d] = g]
    BY DEF DrainClaim
  <1>7. g \in Drains /\ g.pc \notin {"ack", "dec", "claim"}
    BY <1>1 DEF Drains
  <1>8. rq' \in [Tags -> Requests]
    <2>1. \/ rq' = [rq EXCEPT ![drain[d].t].claimed = TRUE,
                              ![drain[d].t].st = "complete"]
          \/ rq' = rq
      BY DEF DrainClaim
    <2> QED BY <1>1, <1>2, <2>1, ClaimType
  <1> HIDE DEF g
  <1> QED BY <1>3, <1>5, <1>6, <1>7, <1>8, DrainPasses

LEMMA DegradeTyped == ASSUME Typed, Degrade PROVE Typed'
  <1>1. rq \in [Tags -> Requests] /\ Rest /\ drain["degrade"] \in Drains
    BY TypedParts DEF Actors, DrainOK, Callers
  <1> DEFINE g == [drain["degrade"] EXCEPT !.pc = "begin"]
  <1>2. g \in Drains /\ g.pc \notin {"ack", "dec", "claim"}
    BY <1>1 DEF Drains
  <1>3. drain' = [drain EXCEPT !["degrade"] = g]
    BY DEF Degrade
  <1>4. UNCHANGED <<live, dead, hw, exec, cq, rq, softirq, isr, timer, faults>>
    BY DEF Degrade, mediaVars
  <1>5. degrade' \in BOOLEAN
    BY DEF Degrade
  <1>6. rq' \in [Tags -> Requests] /\ Rest'
    BY <1>1, <1>4, <1>5 DEF Rest
  <1>7. "degrade" \in Callers
    BY DEF Callers
  <1> HIDE DEF g
  <1> QED BY <1>2, <1>3, <1>4, <1>6, <1>7, DrainPasses

\* What a step of the timeout handler has to show: the places it can go to.
LEMMA TimerPasses ==
  ASSUME Typed, TimerOK', DrainOK', rq' \in [Tags -> Requests], Rest',
         UNCHANGED isr
  PROVE  Typed'
  <1>1. IsrOK
    BY TypedParts DEF Actors
  <1>2. IsrOK'
    BY <1>1, IsrKept
  <1> QED BY <1>2, ActorsNext, TypedNext

LEMMA TimerPlaces ==
  ASSUME TimerOK,
         \/ timer' = Idle
         \/ /\ timer.pc # "none"
            /\ \E x \in {"abort", "judge", "net"} : timer' = [timer EXCEPT !.pc = x]
         \/ /\ timer.pc # "none"
            /\ \E x \in {"drained", "final"}, b \in BOOLEAN :
                  timer' = [timer EXCEPT !.pc = x, !.redone = b]
  PROVE  TimerOK'
  <1>1. Idle \in Timers /\ Idle.pc = "none"
    BY DEF Idle, Timers
  <1> QED BY <1>1 DEF TimerOK, Timers

LEMMA CalledDrainTyped ==
  ASSUME DrainOK, drain' = [drain EXCEPT !["timeout"].pc = "begin"]
  PROVE  DrainOK'
  <1> DEFINE g == [drain["timeout"] EXCEPT !.pc = "begin"]
  <1>1. "timeout" \in Callers
    BY DEF Callers
  <1>2. drain["timeout"] \in Drains
    BY <1>1 DEF DrainOK
  <1>3. g \in Drains /\ g.pc \notin {"ack", "dec", "claim"}
    BY <1>2 DEF Drains
  <1>4. drain' = [drain EXCEPT !["timeout"] = g]
    OBVIOUS
  <1> HIDE DEF g
  <1> QED BY <1>1, <1>3, <1>4, DrainKept

LEMMA TimeoutFiresTyped ==
  ASSUME Typed, NEW t \in Tags, TimeoutFires(t) PROVE Typed'
  <1>1. rq \in [Tags -> Requests] /\ Rest /\ DrainOK /\ TimerOK
    BY TypedParts DEF Actors
  <1>2. UNCHANGED <<live, dead, hw, exec, cq, degrade, rq, softirq, isr, drain,
                    faults>>
    BY DEF TimeoutFires, mediaVars
  <1>3. TimerOK'
    BY DEF TimeoutFires, TimerOK, Timers, Idle
  <1>4. DrainOK' /\ Rest' /\ rq' \in [Tags -> Requests]
    BY <1>1, <1>2, DrainsKept, RestKept
  <1> QED BY <1>2, <1>3, <1>4, TimerPasses

LEMMA TimeoutCheckTyped == ASSUME Typed, TimeoutCheck PROVE Typed'
  <1>1. rq \in [Tags -> Requests] /\ Rest /\ DrainOK /\ TimerOK
    BY TypedParts DEF Actors
  <1>2. UNCHANGED <<live, hw, exec, cq, degrade, rq, softirq, isr, faults>>
    BY DEF TimeoutCheck, mediaVars
  <1>3. rq[timer.t].mask \in SUBSET Members
    BY <1>1 DEF TimeoutCheck, TimerOK, Requests
  <1>4. dead' \in SUBSET Members
    BY <1>1, <1>3, RestParts DEF TimeoutCheck
  <1>5. Rest'
    BY <1>1, <1>2, <1>4 DEF Rest
  <1>6. TimerOK'
    BY <1>1, TimerPlaces DEF TimeoutCheck, CallDrain
  <1>7. UNCHANGED drain \/ drain' = [drain EXCEPT !["timeout"].pc = "begin"]
    BY DEF TimeoutCheck, CallDrain
  <1>8. DrainOK'
    BY <1>1, <1>7, CalledDrainTyped, DrainsKept
  <1> QED BY <1>1, <1>2, <1>5, <1>6, <1>8, TimerPasses

LEMMA TimeoutDrainedTyped == ASSUME Typed, TimeoutDrained PROVE Typed'
  <1>1. rq \in [Tags -> Requests] /\ Rest /\ DrainOK /\ TimerOK
    BY TypedParts DEF Actors
  <1>2. UNCHANGED <<live, hw, exec, cq, degrade, softirq, isr, faults>>
    BY DEF TimeoutDrained, mediaVars
  <1>3. timer.t \in Tags
    BY <1>1 DEF TimeoutDrained, TimerOK
  <1>4. rq[timer.t].mask \in SUBSET Members
    BY <1>1, <1>3 DEF Requests
  <1>5. dead' \in SUBSET Members
    BY <1>1, <1>4, RestParts DEF TimeoutDrained
  <1>6. Rest'
    BY <1>1, <1>2, <1>5 DEF Rest
  <1>7. TimerOK'
    BY <1>1, TimerPlaces DEF TimeoutDrained, CallDrain
  <1>8. UNCHANGED drain \/ drain' = [drain EXCEPT !["timeout"].pc = "begin"]
    BY DEF TimeoutDrained, CallDrain
  <1>9. DrainOK'
    BY <1>1, <1>8, CalledDrainTyped, DrainsKept
  <1>10. rq' \in [Tags -> Requests]
    <2>1. \/ UNCHANGED rq
          \/ /\ rq[timer.t].rearm < MaxRearm
             /\ rq' = [rq EXCEPT ![timer.t].rearm = @ + 1]
      BY DEF TimeoutDrained
    <2>2. CASE UNCHANGED rq
      BY <1>1, <2>2
    <2>3. CASE /\ rq[timer.t].rearm < MaxRearm
               /\ rq' = [rq EXCEPT ![timer.t].rearm = @ + 1]
      <3>1. rq[timer.t].rearm \in 0 .. MaxRearm
        BY <1>1, <1>3 DEF Requests
      <3>2. rq[timer.t].rearm + 1 \in 0 .. MaxRearm
        BY <2>3, <3>1, ConstantsOK
      <3>3. [rq[timer.t] EXCEPT !.rearm = rq[timer.t].rearm + 1] \in Requests
        BY <1>1, <1>3, <3>2, FieldType
      <3> QED BY <1>1, <1>3, <2>3, <3>3
    <2> QED BY <2>1, <2>2, <2>3
  <1> QED BY <1>2, <1>6, <1>7, <1>9, <1>10, TimerPasses

LEMMA TimeoutAbortTyped == ASSUME Typed, TimeoutAbort PROVE Typed'
  <1>1. rq \in [Tags -> Requests] /\ Rest /\ DrainOK /\ TimerOK
    BY TypedParts DEF Actors
  <1>2. UNCHANGED <<live, dead, hw, exec, cq, degrade, rq, softirq, isr, drain,
                    faults>>
    BY DEF TimeoutAbort, mediaVars
  <1>3. TimerOK'
    BY <1>1, TimerPlaces DEF TimeoutAbort
  <1>4. DrainOK' /\ Rest' /\ rq' \in [Tags -> Requests]
    BY <1>1, <1>2, DrainsKept, RestKept
  <1> QED BY <1>2, <1>3, <1>4, TimerPasses

LEMMA TimeoutJudgeTyped == ASSUME Typed, TimeoutJudge PROVE Typed'
  <1>1. rq \in [Tags -> Requests] /\ Rest /\ DrainOK /\ TimerOK
    BY TypedParts DEF Actors
  <1>2. UNCHANGED <<live, hw, exec, cq, degrade, rq, softirq, isr, faults>>
    BY DEF TimeoutJudge, mediaVars
  <1>3. rq[timer.t].mask \in SUBSET Members
    BY <1>1 DEF TimeoutJudge, TimerOK, Requests
  <1>4. Stuck(timer.t) \in SUBSET Members
    BY <1>3 DEF Stuck
  <1>5. dead' \in SUBSET Members
    BY <1>1, <1>4, RestParts DEF TimeoutJudge
  <1>6. Rest'
    BY <1>1, <1>2, <1>5 DEF Rest
  <1>7. TimerOK'
    BY <1>1, TimerPlaces DEF TimeoutJudge, CallDrain
  <1>8. UNCHANGED drain \/ drain' = [drain EXCEPT !["timeout"].pc = "begin"]
    BY DEF TimeoutJudge, CallDrain
  <1>9. DrainOK'
    BY <1>1, <1>8, CalledDrainTyped, DrainsKept
  <1> QED BY <1>1, <1>2, <1>6, <1>7, <1>9, TimerPasses

LEMMA TimeoutEndsTyped == ASSUME Typed, TimeoutEnds PROVE Typed'
  <1>1. rq \in [Tags -> Requests] /\ Rest /\ DrainOK /\ TimerOK
    BY TypedParts DEF Actors
  <1>2. UNCHANGED <<live, dead, hw, exec, cq, degrade, softirq, isr, drain, faults>>
    BY DEF TimeoutEnds, mediaVars
  <1>3. TimerOK'
    BY <1>1, TimerPlaces DEF TimeoutEnds
  <1>4. DrainOK' /\ Rest'
    BY <1>1, <1>2, DrainsKept, RestKept
  <1>5. rq' \in [Tags -> Requests]
    <2>1. timer.t \in Tags
      BY <1>1 DEF TimeoutEnds, TimerOK
    <2>2. Ended(rq[timer.t], "err") \in Requests
      BY <1>1, <2>1, EndedType
    <2>3. \/ rq' = [rq EXCEPT ![timer.t] = Ended(rq[timer.t], "err")]
          \/ rq' = rq
      BY DEF TimeoutEnds
    <2> QED BY <1>1, <2>1, <2>2, <2>3
  <1> QED BY <1>2, <1>3, <1>4, <1>5, TimerPasses

LEMMA StutterTyped == ASSUME Typed, UNCHANGED vars PROVE Typed'
  BY DEF Typed, TypeOK, Placed, vars, mediaVars

\* The requests, the actors' places and everything they hand over keep their
\* types under every step of dispatch, interrupt handlers, drains and timeout.
LEMMA StepTyped == Typed /\ [Next]_vars => Typed'
  <1> SUFFICES ASSUME Typed, [Next]_vars PROVE Typed'
    OBVIOUS
  <1>1. ASSUME NEW t \in Tags, NEW op \in {"read", "write"}, Dispatch(t, op)
        PROVE  Typed'
    BY <1>1, DispatchTyped
  <1>2. ASSUME NEW t \in Tags, Start(t) \/ Submit(t) PROVE Typed'
    BY <1>2, SubmitTyped
  <1>3. ASSUME NEW t \in Tags, Softirq(t) PROVE Typed'
    BY <1>3, SoftirqTyped
  <1>4. ASSUME NEW t \in Tags, TimeoutFires(t) PROVE Typed'
    BY <1>4, TimeoutFiresTyped
  <1>5. ASSUME NEW c \in exec, NEW ok \in BOOLEAN, Execute(c, ok) PROVE Typed'
    BY <1>5, ExecuteTyped
  <1>6. ASSUME NEW m \in Members, Die(m) PROVE Typed'
    BY <1>6, DieTyped
  <1>7. ASSUME NEW m \in Members, IsrStep(m) PROVE Typed'
    BY <1>7, IsrFatalTyped, IsrMovesTyped, IsrTakeTyped, IsrConsumeTyped,
       IsrDecTyped, IsrClaimTyped, IsrEndTyped DEF IsrStep
  <1>8. ASSUME NEW d \in Callers, DrainStep(d) PROVE Typed'
    BY <1>8, DrainBeginTyped, DrainDisableTyped, DrainVisitTyped, DrainAckTyped,
       DrainDecTyped, DrainClaimTyped DEF DrainStep
  <1>9. CASE Degrade
    BY <1>9, DegradeTyped
  <1>10. CASE TimeoutStep
    BY <1>10, TimeoutCheckTyped, TimeoutDrainedTyped, TimeoutAbortTyped,
       TimeoutJudgeTyped, TimeoutEndsTyped DEF TimeoutStep
  <1>11. CASE UNCHANGED vars
    BY <1>11, StutterTyped
  <1> QED BY <1>1, <1>2, <1>3, <1>4, <1>5, <1>6, <1>7, <1>8, <1>9, <1>10, <1>11
          DEF Next

\* The variables of the request life cycle keep their types.
THEOREM RequestTypeCorrect == Spec => []TypeOK
  <1>1. Typed => TypeOK
    BY DEF Typed
  <1> QED BY InitTyped, StepTyped, <1>1, PTL DEF Spec

-----------------------------------------------------------------------------
(* A request ends once.  The invariant says who may end it: whoever owns it -  *)
(* the softirq, or the batch of one handler - and nobody owns it before it   *)
(* is claimed or after it has ended.  A late completion may claim a request  *)
(* of a later use of its tag, but only one in use: a tag that some completion *)
(* still mentions and that is idle again is still claimed.                   *)

Unowned(t) == t \notin softirq /\ \A m \in Members : t \notin isr[m].done

\* Somebody may still claim the request by way of a completion.
Mentioned(t) ==
  \/ rq[t].unsent # {}
  \/ \E c \in exec : c.t = t
  \/ \E m \in Members : \E e \in cq[m] : e.t = t
  \/ \E m \in Members : isr[m].pc \in AtWork /\ isr[m].t = t

Begun(t) == Mentioned(t) => rq[t].st # "idle" \/ rq[t].claimed

Claims(t) ==
  /\ ~rq[t].claimed => rq[t].ends = 0 /\ Unowned(t)
  /\ rq[t].ends <= 1
  /\ ~Unowned(t) => rq[t].ends = 0 /\ rq[t].st # "idle"

Owner(t) ==
  /\ t \in softirq => \A m \in Members : t \notin isr[m].done
  /\ \A m, n \in Members : t \in isr[m].done /\ t \in isr[n].done => m = n

OnceInv == \A t \in Tags : Begun(t) /\ Claims(t) /\ Owner(t)

OnceAt(t) == Begun(t) /\ Claims(t) /\ Owner(t)

\* A step that leaves the state, the claim, the owner and the end of request u
\* alone, and lets nobody new mention it.
Same(u) ==
  /\ rq'[u].st = rq[u].st
  /\ rq'[u].claimed = rq[u].claimed /\ rq'[u].ends = rq[u].ends

OwnerSame(u) == /\ u \in softirq' <=> u \in softirq
                /\ \A m \in Members : u \in isr'[m].done <=> u \in isr[m].done

NoNewMention(u) == Mentioned(u)' => Mentioned(u)

LEMMA TagKept ==
  ASSUME NEW u \in Tags, OnceAt(u), Same(u), OwnerSame(u), NoNewMention(u)
  PROVE  OnceAt(u)'
  BY DEF OnceAt, Begun, Claims, Owner, Unowned, Same, OwnerSame, NoNewMention

\* The places a request is mentioned at are handed on: from the dispatcher to
\* the controller, its completion queue and the interrupt handler.
HandedOn ==
  /\ \A c \in exec' : c \in exec \/ Mentioned(c.t)
  /\ \A m \in Members : \A e \in cq'[m] : e \in cq[m] \/ Mentioned(e.t)
  /\ \A m \in Members : isr'[m].pc \in AtWork =>
        \/ isr[m].pc \in AtWork /\ isr'[m].t = isr[m].t
        \/ Mentioned(isr'[m].t)

LEMMA MentionsKept ==
  ASSUME NEW u \in Tags, HandedOn, rq'[u].unsent \subseteq rq[u].unsent
  PROVE  NoNewMention(u)
  <1> SUFFICES ASSUME Mentioned(u)' PROVE Mentioned(u)
    BY DEF NoNewMention
  <1>1. CASE rq'[u].unsent # {}
    BY <1>1 DEF Mentioned
  <1>2. ASSUME NEW c \in exec', c.t = u PROVE Mentioned(u)
    BY <1>2 DEF HandedOn, Mentioned
  <1>3. ASSUME NEW m \in Members, NEW e \in cq'[m], e.t = u PROVE Mentioned(u)
    BY <1>3 DEF HandedOn, Mentioned
  <1>4. ASSUME NEW m \in Members, isr'[m].pc \in AtWork, isr'[m].t = u
        PROVE  Mentioned(u)
    BY <1>4 DEF HandedOn, Mentioned
  <1> QED BY <1>1, <1>2, <1>3, <1>4 DEF Mentioned

\* A step that touches no request in any of these ways.
Quiet ==
  /\ \A u \in Tags : Same(u) /\ rq'[u].unsent \subseteq rq[u].unsent
  /\ UNCHANGED softirq
  /\ \A m \in Members : isr'[m].done = isr[m].done
  /\ HandedOn

LEMMA QuietOnce == ASSUME OnceInv, Quiet PROVE OnceInv'
  <1> SUFFICES ASSUME NEW u \in Tags PROVE OnceAt(u)'
    BY DEF OnceInv, OnceAt
  <1>1. OnceAt(u) /\ Same(u)
    BY DEF OnceInv, OnceAt, Quiet
  <1>2. OwnerSame(u)
    BY DEF Quiet, OwnerSame
  <1>3. NoNewMention(u)
    BY MentionsKept DEF Quiet
  <1> QED BY <1>1, <1>2, <1>3, TagKept

LEMMA HandedOnStays == ASSUME UNCHANGED <<exec, cq, isr>> PROVE HandedOn
  BY DEF HandedOn

\* Only the fields a completion counts in are written.
LEMMA SameRequests ==
  ASSUME Typed, NEW t \in Tags, NEW r \in Requests, rq' = [rq EXCEPT ![t] = r],
         r.st = rq[t].st, r.claimed = rq[t].claimed,
         r.ends = rq[t].ends, r.unsent \subseteq rq[t].unsent
  PROVE  \A u \in Tags : Same(u) /\ rq'[u].unsent \subseteq rq[u].unsent
  BY DEF Typed, TypeOK, Same

LEMMA RequestsSame ==
  ASSUME UNCHANGED rq
  PROVE  \A u \in Tags : Same(u) /\ rq'[u].unsent \subseteq rq[u].unsent
  BY DEF Same

LEMMA InitOnce == Init => OnceInv
  <1> SUFFICES ASSUME Init, NEW t \in Tags PROVE OnceAt(t)
    BY DEF OnceInv, OnceAt
  <1>1. ~Mentioned(t)
    BY DEF Init, Mentioned, AtWork
  <1>2. Unowned(t) /\ Owner(t)
    BY DEF Init, Unowned, Owner
  <1>3. rq[t].ends = 0
    BY DEF Init
  <1>4. Begun(t) /\ Claims(t)
    BY <1>1, <1>2, <1>3 DEF Begun, Claims
  <1> QED BY <1>2, <1>4 DEF OnceAt

LEMMA SubmitOnce == ASSUME Typed, OnceInv, NEW t \in Tags, Submit(t) PROVE OnceInv'
  <1>1. rq \in [Tags -> Requests] /\ Rest
    BY TypedParts
  <1>2. PICK m \in rq[t].unsent :
          /\ rq' = [rq EXCEPT ![t].unsent = @ \ {m}]
          /\ \/ /\ hw[m] \in {"running", "hung"}
                /\ exec' = exec \cup {[t |-> t, use |-> rq[t].use, m |-> m]}
             \/ hw[m] # "running" /\ UNCHANGED exec
          /\ UNCHANGED <<live, dead, hw, cq, degrade, softirq, isr, drain,
                         timer, faults>>
    BY DEF Submit
  <1>3. \A u \in Tags : Same(u) /\ rq'[u].unsent \subseteq rq[u].unsent
    BY <1>1, <1>2 DEF Same, Requests
  <1>4. Mentioned(t)
    BY <1>2 DEF Mentioned
  <1>5. HandedOn
    BY <1>2, <1>4 DEF HandedOn
  <1> QED BY <1>2, <1>3, <1>5, QuietOnce DEF Quiet

LEMMA ExecuteOnce ==
  ASSUME Typed, OnceInv, NEW c \in exec, NEW ok \in BOOLEAN, Execute(c, ok)
  PROVE  OnceInv'
  <1>1. rq \in [Tags -> Requests] /\ Rest
    BY TypedParts
  <1>2. c.t \in Tags /\ c.m \in Members
    BY <1>1 DEF Rest, Commands
  <1>3. \A u \in Tags : Same(u) /\ rq'[u].unsent \subseteq rq[u].unsent
    <2>1. \/ rq' = [rq EXCEPT ![c.t].wrote = @ \cup {c.m}]
          \/ rq' = rq
      BY DEF Execute
    <2> QED BY <1>1, <1>2, <2>1 DEF Same, Requests
  <1>4. Mentioned(c.t)
    BY DEF Mentioned
  <1>5. exec' \subseteq exec /\ UNCHANGED <<softirq, isr>>
    BY DEF Execute
  <1>6. \A m \in Members : \A e \in cq'[m] :
           e \in cq[m] \/ e = [t |-> c.t, use |-> c.use, ok |-> ok]
    BY <1>1 DEF Execute, Rest
  <1>7. HandedOn
    BY <1>4, <1>5, <1>6 DEF HandedOn
  <1> QED BY <1>3, <1>5, <1>7, QuietOnce DEF Quiet

LEMMA DieOnce == ASSUME OnceInv, NEW m \in Members, Die(m) PROVE OnceInv'
  <1>1. exec' \subseteq exec /\ UNCHANGED <<rq, softirq, cq, isr>>
    BY DEF Die
  <1>2. HandedOn
    BY <1>1 DEF HandedOn
  <1> QED BY <1>1, <1>2, RequestsSame, QuietOnce DEF Quiet

LEMMA IsrTakeOnce ==
  ASSUME Typed, OnceInv, NEW m \in Members, IsrTake(m) PROVE OnceInv'
  <1>1. rq \in [Tags -> Requests] /\ Rest /\ isr \in [Members -> Handlers]
    BY TypedParts DEF Actors, IsrOK
  <1>2. PICK e \in cq[m] :
          /\ cq' = [cq EXCEPT ![m] = @ \ {e}]
          /\ isr' = [isr EXCEPT ![m].pc = "consume", ![m].t = e.t, ![m].use = e.use]
          /\ rq' = IF e.ok THEN rq
                   ELSE [rq EXCEPT ![e.t].sc = TRUE, ![e.t].err = @ \cup {m}]
    BY DEF IsrTake
  <1>3. e.t \in Tags
    BY <1>1 DEF Rest, Entries
  <1>4. \A u \in Tags : Same(u) /\ rq'[u].unsent \subseteq rq[u].unsent
    BY <1>1, <1>2, <1>3 DEF Same, Requests
  <1>5. Mentioned(e.t)
    BY DEF Mentioned
  <1>6. /\ \A n \in Members : cq'[n] \subseteq cq[n] /\ isr'[n].done = isr[n].done
        /\ \A n \in Members : n # m => isr'[n] = isr[n]
        /\ isr'[m].t = e.t
    BY <1>1, <1>2 DEF Rest, Handlers
  <1>7. UNCHANGED <<exec, softirq>>
    BY DEF IsrTake
  <1>8. HandedOn
    BY <1>5, <1>6, <1>7 DEF HandedOn
  <1> QED BY <1>4, <1>6, <1>7, <1>8, QuietOnce DEF Quiet

\* Where the handler goes on with the tag it has, or with none.
LEMMA IsrGoesOn ==
  ASSUME Typed, NEW m \in Members, NEW x,
         isr' = [isr EXCEPT ![m].pc = x], isr[m].pc \in AtWork \/ x \notin AtWork
  PROVE  \A n \in Members : /\ isr'[n].done = isr[n].done
                            /\ isr'[n].pc \in AtWork =>
                                 isr[n].pc \in AtWork /\ isr'[n].t = isr[n].t
  BY TypedParts DEF Actors, IsrOK, Handlers

LEMMA IsrQuietOnce ==
  ASSUME Typed, OnceInv, NEW m \in Members,
         IsrSeesFatal(m) \/ IsrEnter(m) \/ IsrConsume(m) \/ IsrDec(m) \/ IsrLeave(m)
  PROVE  OnceInv'
  <1>1. rq \in [Tags -> Requests] /\ isr \in [Members -> Handlers]
    BY TypedParts DEF Actors, IsrOK
  <1>2. UNCHANGED <<exec, cq, softirq>>
    BY DEF IsrSeesFatal, IsrEnter, IsrConsume, IsrDec, IsrLeave, mediaVars
  <1>3. \A u \in Tags : Same(u) /\ rq'[u].unsent \subseteq rq[u].unsent
    <2>1. CASE IsrConsume(m)
      <3>1. isr[m].t \in Tags /\ rq' = [rq EXCEPT ![isr[m].t].acked = @ \cup {m}]
        BY <2>1, TypedParts DEF Actors, IsrOK, IsrConsume, AtWork
      <3> QED BY <1>1, <3>1 DEF Same, Requests
    <2>2. CASE IsrDec(m)
      <3>1. isr[m].t \in Tags /\ rq' = [rq EXCEPT ![isr[m].t].pending = @ - 1]
        BY <2>2, TypedParts DEF Actors, IsrOK, IsrDec, AtWork
      <3> QED BY <1>1, <3>1 DEF Same, Requests
    <2>3. CASE UNCHANGED rq
      BY <2>3, RequestsSame
    <2> QED BY <2>1, <2>2, <2>3 DEF IsrSeesFatal, IsrEnter, IsrLeave
  <1>4. \A n \in Members : /\ isr'[n].done = isr[n].done
                           /\ isr'[n].pc \in AtWork =>
                                isr[n].pc \in AtWork /\ isr'[n].t = isr[n].t
    <2>1. CASE UNCHANGED isr
      BY <2>1
    <2>2. CASE \E x : /\ isr' = [isr EXCEPT ![m].pc = x]
                      /\ isr[m].pc \in AtWork \/ x \notin AtWork
      BY <2>2, IsrGoesOn
    <2> QED BY <2>1, <2>2
            DEF IsrSeesFatal, IsrEnter, IsrConsume, IsrDec, IsrLeave, AtWork
  <1>5. HandedOn
    BY <1>2, <1>4 DEF HandedOn
  <1> QED BY <1>2, <1>3, <1>4, <1>5, QuietOnce DEF Quiet

LEMMA DrainQuietOnce ==
  ASSUME Typed, OnceInv, NEW d \in Callers,
         \/ DrainBegin(d) \/ DrainDisable(d) \/ DrainVisit(d)
         \/ DrainAck(d) \/ DrainDec(d)
  PROVE  OnceInv'
  <1>1. rq \in [Tags -> Requests] /\ drain \in [Callers -> Drains]
    BY TypedParts DEF Actors, DrainOK
  <1>2. UNCHANGED <<cq, isr, softirq>> /\ exec' \subseteq exec
    BY DEF DrainBegin, DrainDisable, DrainVisit, DrainAck, DrainDec, mediaVars
  <1>3. \A u \in Tags : Same(u) /\ rq'[u].unsent \subseteq rq[u].unsent
    <2>1. CASE DrainAck(d)
      <3>1. drain[d].t \in Tags
        BY <2>1, TypedParts DEF Actors, DrainOK, DrainAck
      <3>2. \/ UNCHANGED rq
            \/ \E m \in drain[d].left :
                 rq' = [rq EXCEPT ![drain[d].t].acked = @ \cup {m},
                                  ![drain[d].t].err = @ \cup {m},
                                  ![drain[d].t].sc = TRUE]
        BY <2>1 DEF DrainAck
      <3>3. ASSUME NEW m,
                   rq' = [rq EXCEPT ![drain[d].t].acked = @ \cup {m},
                                    ![drain[d].t].err = @ \cup {m},
                                    ![drain[d].t].sc = TRUE]
            PROVE  \A u \in Tags : Same(u) /\ rq'[u].unsent \subseteq rq[u].unsent
        <4> DEFINE r == [rq[drain[d].t] EXCEPT !.acked = @ \cup {m},
                                               !.err = @ \cup {m}, !.sc = TRUE]
        <4>1. /\ r.st = rq[drain[d].t].st
              /\ r.claimed = rq[drain[d].t].claimed
              /\ r.ends = rq[drain[d].t].ends /\ r.unsent = rq[drain[d].t].unsent
          BY <1>1, <3>1 DEF Requests
        <4>2. rq' = [rq EXCEPT ![drain[d].t] = r]
          BY <1>1, <3>1, <3>3 DEF Requests
        <4> HIDE DEF r
        <4> QED BY <1>1, <3>1, <4>1, <4>2 DEF Same
      <3> QED BY <3>2, <3>3, RequestsSame
    <2>2. CASE DrainDec(d)
      <3>1. drain[d].t \in Tags /\ rq' = [rq EXCEPT ![drain[d].t].pending = @ - 1]
        BY <2>2, TypedParts DEF Actors, DrainOK, DrainDec
      <3> QED BY <1>1, <3>1 DEF Same, Requests
    <2>3. CASE UNCHANGED rq
      BY <2>3, RequestsSame
    <2> QED BY <2>1, <2>2, <2>3 DEF DrainBegin, DrainDisable, DrainVisit
  <1>4. HandedOn
    BY <1>2 DEF HandedOn
  <1> QED BY <1>2, <1>3, <1>4, QuietOnce DEF Quiet

LEMMA TimerQuietOnce ==
  ASSUME Typed, OnceInv,
         \/ Degrade \/ TimeoutCheck \/ TimeoutDrained \/ TimeoutAbort
         \/ TimeoutJudge \/ \E t \in Tags : TimeoutFires(t)
  PROVE  OnceInv'
  <1>1. rq \in [Tags -> Requests] /\ TimerOK
    BY TypedParts DEF Actors
  <1>2. UNCHANGED <<exec, cq, isr, softirq>>
    BY DEF Degrade, TimeoutCheck, TimeoutDrained, TimeoutAbort, TimeoutJudge,
           TimeoutFires, mediaVars
  <1>3. \A u \in Tags : Same(u) /\ rq'[u].unsent \subseteq rq[u].unsent
    <2>1. CASE TimeoutDrained
      <3>1. timer.t \in Tags
        BY <1>1, <2>1 DEF TimerOK, TimeoutDrained
      <3>2. UNCHANGED rq \/ rq' = [rq EXCEPT ![timer.t].rearm = @ + 1]
        BY <2>1 DEF TimeoutDrained
      <3> QED BY <1>1, <3>1, <3>2 DEF Same, Requests
    <2>2. CASE UNCHANGED rq
      BY <2>2, RequestsSame
    <2> QED BY <2>1, <2>2
            DEF Degrade, TimeoutCheck, TimeoutAbort, TimeoutJudge, TimeoutFires
  <1>4. HandedOn
    BY <1>2, HandedOnStays
  <1> QED BY <1>2, <1>3, <1>4, QuietOnce DEF Quiet

-----------------------------------------------------------------------------
(* The steps that claim, hand over or end a request: everything happens at   *)
(* one tag, and the others are as they were.                                 *)

LEMMA OneTagOnce ==
  ASSUME OnceInv, Typed, NEW t \in Tags, NEW r, rq' = [rq EXCEPT ![t] = r],
         \A u \in Tags \ {t} : OwnerSame(u),
         HandedOn, OnceAt(t)'
  PROVE  OnceInv'
  <1> SUFFICES ASSUME NEW u \in Tags, u # t PROVE OnceAt(u)'
    BY DEF OnceInv, OnceAt
  <1>1. rq'[u] = rq[u]
    BY DEF Typed, TypeOK
  <1>2. OnceAt(u) /\ Same(u) /\ OwnerSame(u)
    BY <1>1 DEF OnceInv, OnceAt, Same
  <1>3. NoNewMention(u)
    BY <1>1, MentionsKept
  <1> QED BY <1>2, <1>3, TagKept

LEMMA EndedFields ==
  ASSUME NEW r \in Requests, NEW x
  PROVE  LET q == Ended(r, x)
         IN q.st = "idle" /\ q.claimed /\ q.ends = r.ends + 1
            /\ q.unsent = r.unsent
  BY DEF Ended, Requests

\* A request is ended by its owner, or by nobody's leave when it is unclaimed.
LEMMA EndsOnce ==
  ASSUME OnceInv, Typed, NEW t \in Tags, NEW x,
         rq' = [rq EXCEPT ![t] = Ended(@, x)],
         rq[t].ends = 0, Unowned(t)', Owner(t)', HandedOn,
         \A u \in Tags \ {t} : OwnerSame(u)
  PROVE  OnceInv'
  <1>1. rq \in [Tags -> Requests] /\ OnceAt(t)
    BY DEF OnceInv, OnceAt, Typed, TypeOK
  <1>2. rq'[t] = Ended(rq[t], x)
    BY <1>1
  <1>3. /\ rq'[t].st = "idle" /\ rq'[t].claimed /\ rq'[t].ends = 1
        /\ rq'[t].unsent = rq[t].unsent
    BY <1>1, <1>2, EndedFields
  <1>4. Claims(t)'
    BY <1>3 DEF Claims
  <1>6. Begun(t)'
    BY <1>3 DEF Begun
  <1>7. OnceAt(t)'
    BY <1>4, <1>6 DEF OnceAt
  <1>8. rq' = [rq EXCEPT ![t] = Ended(rq[t], x)]
    OBVIOUS
  <1> QED BY <1>7, <1>8, OneTagOnce

LEMMA SoftirqOnce ==
  ASSUME Typed, OnceInv, NEW t \in Tags, Softirq(t) PROVE OnceInv'
  <1>1. OnceAt(t)
    BY DEF OnceInv, OnceAt
  <1>2. /\ rq' = [rq EXCEPT ![t] = Ended(@, FinishStatus(t))]
        /\ softirq' = softirq \ {t} /\ t \in softirq
        /\ UNCHANGED <<exec, cq, isr>>
    BY DEF Softirq, FinishRequest, mediaVars
  <1>3. rq[t].ends = 0
    BY <1>1, <1>2 DEF OnceAt, Claims, Unowned
  <1>4. Unowned(t)' /\ Owner(t)'
    BY <1>1, <1>2 DEF OnceAt, Owner, Unowned
  <1>5. \A u \in Tags \ {t} : OwnerSame(u)
    BY <1>2 DEF OwnerSame
  <1> QED BY <1>2, <1>3, <1>4, <1>5, HandedOnStays, EndsOnce

LEMMA IsrEndOnce ==
  ASSUME Typed, OnceInv, NEW m \in Members, IsrEnd(m) PROVE OnceInv'
  <1>1. rq \in [Tags -> Requests] /\ isr \in [Members -> Handlers]
    BY TypedParts DEF Actors, IsrOK
  <1>2. UNCHANGED <<exec, cq, softirq>>
    BY DEF IsrEnd, mediaVars
  <1>3. CASE isr' = [isr EXCEPT ![m].pc = "out"] /\ UNCHANGED rq
    <2>1. \A n \in Members : /\ isr'[n].done = isr[n].done
                             /\ isr'[n].pc \in AtWork =>
                                  isr[n].pc \in AtWork /\ isr'[n].t = isr[n].t
      BY <1>3, IsrGoesOn DEF AtWork
    <2>2. HandedOn
      BY <1>2, <2>1 DEF HandedOn
    <2> QED BY <1>2, <1>3, <2>1, <2>2, RequestsSame, QuietOnce DEF Quiet
  <1>4. ASSUME NEW t \in isr[m].done, FinishRequest(t),
               isr' = [isr EXCEPT ![m].done = @ \ {t}]
        PROVE  OnceInv'
    <2>1. t \in Tags
      BY <1>1 DEF Handlers
    <2>2. OnceAt(t)
      BY <2>1 DEF OnceInv, OnceAt
    <2>3. rq' = [rq EXCEPT ![t] = Ended(@, FinishStatus(t))]
      BY <1>4 DEF FinishRequest
    <2>4. /\ isr'[m].done = isr[m].done \ {t}
          /\ \A n \in Members \ {m} : isr'[n].done = isr[n].done
          /\ \A n \in Members : isr'[n].pc = isr[n].pc /\ isr'[n].t = isr[n].t
      BY <1>1, <1>4 DEF Handlers
    <2>5. rq[t].ends = 0
      BY <2>2 DEF OnceAt, Claims, Unowned
    <2>6. Unowned(t)' /\ Owner(t)'
      BY <1>2, <2>2, <2>4 DEF OnceAt, Owner, Unowned
    <2>7. \A u \in Tags \ {t} : OwnerSame(u)
      BY <1>2, <2>4 DEF OwnerSame
    <2>8. HandedOn
      BY <1>2, <2>4 DEF HandedOn
    <2> QED BY <2>1, <2>3, <2>5, <2>6, <2>7, <2>8, EndsOnce
  <1> QED BY <1>3, <1>4 DEF IsrEnd

LEMMA TimeoutEndsOnce == ASSUME Typed, OnceInv, TimeoutEnds PROVE OnceInv'
  <1>1. PICK t \in Tags : t = timer.t
    BY TypedParts DEF Actors, TimerOK, TimeoutEnds
  <1>2. UNCHANGED <<exec, cq, isr, softirq>>
    BY DEF TimeoutEnds, mediaVars
  <1>3. CASE UNCHANGED rq
    BY <1>2, <1>3, RequestsSame, HandedOnStays, QuietOnce DEF Quiet
  <1>4. CASE ~rq[t].claimed /\ rq' = [rq EXCEPT ![t] = Ended(@, "err")]
    <2>1. OnceAt(t)
      BY DEF OnceInv, OnceAt
    <2>2. rq[t].ends = 0 /\ Unowned(t)
      BY <1>4, <2>1 DEF OnceAt, Claims
    <2>3. Unowned(t)' /\ Owner(t)'
      BY <1>2, <2>1, <2>2 DEF OnceAt, Owner, Unowned
    <2>4. \A u \in Tags \ {t} : OwnerSame(u)
      BY <1>2 DEF OwnerSame
    <2> QED BY <1>2, <1>4, <2>2, <2>3, <2>4, HandedOnStays, EndsOnce
  <1> QED BY <1>1, <1>3, <1>4 DEF TimeoutEnds, CanClaim

LEMMA ClaimOnce ==
  ASSUME OnceInv, Typed, NEW t \in Tags, ~rq[t].claimed,
         HandedOn, Owner(t)',
         \/ /\ Mentioned(t)
            /\ rq' = [rq EXCEPT ![t].claimed = TRUE]
         \/ rq' = [rq EXCEPT ![t].claimed = TRUE, ![t].st = "complete"],
         \A u \in Tags \ {t} : OwnerSame(u)
  PROVE  OnceInv'
  <1>1. rq \in [Tags -> Requests] /\ OnceAt(t)
    BY DEF OnceInv, OnceAt, Typed, TypeOK
  <1>2. /\ rq[t].ends = 0
        /\ Mentioned(t) => rq[t].st # "idle"
    BY <1>1 DEF OnceAt, Claims, Begun
  <1>3. PICK r : /\ rq' = [rq EXCEPT ![t] = r]
                 /\ r.claimed /\ r.ends = rq[t].ends
                 /\ r.st # "idle"
    <2> DEFINE a == [rq[t] EXCEPT !.claimed = TRUE]
               b == [rq[t] EXCEPT !.claimed = TRUE, !.st = "complete"]
    <2>1. /\ a.claimed /\ a.ends = rq[t].ends
          /\ a.st = rq[t].st
      BY <1>1 DEF Requests
    <2>2. /\ b.claimed /\ b.ends = rq[t].ends
          /\ b.st = "complete"
      BY <1>1 DEF Requests
    <2>3. \/ Mentioned(t) /\ rq' = [rq EXCEPT ![t] = a]
          \/ rq' = [rq EXCEPT ![t] = b]
      OBVIOUS
    <2> HIDE DEF a, b
    <2> QED BY <1>2, <2>1, <2>2, <2>3
  <1>4. rq'[t] = r
    BY <1>1, <1>3
  <1>5. Claims(t)' /\ Begun(t)'
    BY <1>2, <1>3, <1>4 DEF Claims, Begun
  <1>6. OnceAt(t)'
    BY <1>5 DEF OnceAt
  <1> QED BY <1>3, <1>6, OneTagOnce

LEMMA IsrClaimOnce ==
  ASSUME Typed, OnceInv, NEW m \in Members, IsrClaim(m) PROVE OnceInv'
  <1>1. rq \in [Tags -> Requests] /\ isr \in [Members -> Handlers]
    BY TypedParts DEF Actors, IsrOK
  <1>2. PICK t \in Tags : t = isr[m].t
    BY TypedParts DEF Actors, IsrOK, IsrClaim, AtWork
  <1>3. UNCHANGED <<exec, cq>>
    BY DEF IsrClaim, mediaVars
  <1>4. /\ \A n \in Members \ {m} : isr'[n] = isr[n]
        /\ isr'[m].pc = "walk"
        /\ isr'[m].done = isr[m].done \/ isr'[m].done = isr[m].done \cup {t}
    BY <1>1, <1>2 DEF IsrClaim, Handlers
  <1>5. HandedOn
    BY <1>3, <1>4 DEF HandedOn, AtWork
  <1>6. Mentioned(t) /\ OnceAt(t)
    BY <1>2 DEF IsrClaim, Mentioned, AtWork, OnceInv, OnceAt
  <1>7. CASE ~rq[t].claimed
    <2>1. Unowned(t)
      BY <1>6, <1>7 DEF OnceAt, Claims
    <2>2. CASE /\ rq' = [rq EXCEPT ![t].claimed = TRUE] /\ UNCHANGED softirq
      <3>1. Owner(t)'
        BY <1>4, <2>1, <2>2 DEF Owner, Unowned
      <3>2. \A u \in Tags \ {t} : OwnerSame(u)
        BY <1>4, <2>2 DEF OwnerSame
      <3> QED BY <1>5, <1>6, <1>7, <2>2, <3>1, <3>2, ClaimOnce
    <2>3. CASE /\ rq' = [rq EXCEPT ![t].claimed = TRUE, ![t].st = "complete"]
               /\ softirq' = softirq \cup {t}
               /\ isr' = [isr EXCEPT ![m].pc = "walk"]
      <3>1. isr'[m].done = isr[m].done
        BY <1>1, <2>3 DEF Handlers
      <3>2. Owner(t)'
        BY <1>4, <2>1, <2>3, <3>1 DEF Owner, Unowned
      <3>3. \A u \in Tags \ {t} : OwnerSame(u)
        BY <1>4, <2>3, <3>1 DEF OwnerSame
      <3> QED BY <1>5, <1>6, <1>7, <2>3, <3>2, <3>3, ClaimOnce
    <2> QED BY <1>2, <1>7, <2>2, <2>3 DEF IsrClaim, CanClaim
  <1>8. CASE rq[t].claimed
    <2>1. UNCHANGED <<rq, softirq>> /\ isr' = [isr EXCEPT ![m].pc = "walk"]
      BY <1>2, <1>8 DEF IsrClaim, CanClaim
    <2>2. \A n \in Members : isr'[n].done = isr[n].done
      BY <2>1, IsrGoesOn DEF AtWork
    <2> QED BY <1>5, <2>1, <2>2, RequestsSame, QuietOnce DEF Quiet
  <1> QED BY <1>7, <1>8

LEMMA DrainClaimOnce ==
  ASSUME Typed, OnceInv, NEW d \in Callers, DrainClaim(d) PROVE OnceInv'
  <1>1. rq \in [Tags -> Requests]
    BY TypedParts
  <1>2. PICK t \in Tags : t = drain[d].t
    BY TypedParts DEF Actors, DrainOK, DrainClaim
  <1>3. UNCHANGED <<exec, cq, isr>>
    BY DEF DrainClaim, mediaVars
  <1>4. CASE UNCHANGED <<rq, softirq>>
    BY <1>3, <1>4, RequestsSame, HandedOnStays, QuietOnce DEF Quiet
  <1>5. CASE /\ ~rq[t].claimed
             /\ rq' = [rq EXCEPT ![t].claimed = TRUE, ![t].st = "complete"]
             /\ softirq' = softirq \cup {t}
    <2>1. OnceAt(t) /\ Unowned(t)
      BY <1>5 DEF OnceInv, OnceAt, Claims
    <2>2. Owner(t)'
      BY <1>3, <1>5, <2>1 DEF Owner, Unowned
    <2>3. \A u \in Tags \ {t} : OwnerSame(u)
      BY <1>3, <1>5 DEF OwnerSame
    <2> QED BY <1>3, <1>5, <2>2, <2>3, HandedOnStays, ClaimOnce
  <1> QED BY <1>2, <1>4, <1>5 DEF DrainClaim, CanClaim

\* Start and dispatch: nobody owns a request that is idle or unclaimed.
LEMMA StartOnce == ASSUME Typed, OnceInv, NEW t \in Tags, Start(t) PROVE OnceInv'
  <1>1. rq \in [Tags -> Requests] /\ OnceAt(t)
    BY TypedParts DEF OnceInv, OnceAt
  <1> DEFINE r == [rq[t] EXCEPT !.st = "started", !.unsent = rq[t].mask]
  <1>2. /\ r.st = "started" /\ r.claimed = rq[t].claimed /\ r.ends = rq[t].ends
    BY <1>1 DEF Requests
  <1>3. rq' = [rq EXCEPT ![t] = r] /\ rq[t].st = "prep"
        /\ UNCHANGED <<exec, cq, isr, softirq>>
    BY DEF Start, mediaVars
  <1> HIDE DEF r
  <1>4. rq'[t] = r
    BY <1>1, <1>3
  <1>5. Claims(t)' /\ Begun(t)' /\ Owner(t)'
    BY <1>1, <1>2, <1>3, <1>4 DEF OnceAt, Claims, Begun, Owner, Unowned
  <1>6. \A u \in Tags \ {t} : OwnerSame(u)
    BY <1>3 DEF OwnerSame
  <1> QED BY <1>3, <1>5, <1>6, HandedOnStays, OneTagOnce DEF OnceAt

LEMMA DispatchOnce ==
  ASSUME Typed, OnceInv, NEW t \in Tags, NEW op \in {"read", "write"},
         Dispatch(t, op)
  PROVE  OnceInv'
  <1>1. rq \in [Tags -> Requests] /\ OnceAt(t)
    BY TypedParts DEF OnceInv, OnceAt
  <1>2. UNCHANGED <<exec, cq, isr, softirq>> /\ rq[t].st = "idle"
    BY DEF Dispatch, mediaVars
  <1>3. Unowned(t) /\ Unowned(t)'
    BY <1>1, <1>2 DEF OnceAt, Claims, Unowned
  <1>4. PICK q : /\ rq' = [rq EXCEPT ![t] = q]
                 /\ \/ q.st = "prep" /\ ~q.claimed /\ q.ends = 0
                    \/ q.st = "idle" /\ q.claimed /\ q.ends = 1
    <2>1. PICK mask :
            LET r == [st |-> "prep", use |-> rq[t].use + 1, op |-> op,
                      mask |-> mask, unsent |-> {}, acked |-> {}, err |-> {},
                      sc |-> FALSE, pending |-> Cardinality(mask),
                      claimed |-> FALSE, rearm |-> 0, result |-> "none",
                      ends |-> 0, wrote |-> {}]
            IN rq' = [rq EXCEPT ![t] = IF mask = {} THEN Ended(r, "err") ELSE r]
      BY DEF Dispatch
    <2> DEFINE r == [st |-> "prep", use |-> rq[t].use + 1, op |-> op,
                     mask |-> mask, unsent |-> {}, acked |-> {}, err |-> {},
                     sc |-> FALSE, pending |-> Cardinality(mask),
                     claimed |-> FALSE, rearm |-> 0, result |-> "none",
                     ends |-> 0, wrote |-> {}]
    <2>2. CASE mask = {}
      <3> DEFINE q == Ended(r, "err")
      <3>1. q.st = "idle" /\ q.claimed /\ q.ends = 1
        BY DEF Ended
      <3>2. rq' = [rq EXCEPT ![t] = q]
        BY <2>1, <2>2
      <3> HIDE DEF q
      <3> QED BY <3>1, <3>2
    <2>3. CASE mask # {}
      <3>1. r.st = "prep" /\ ~r.claimed /\ r.ends = 0
        OBVIOUS
      <3>2. rq' = [rq EXCEPT ![t] = r]
        BY <2>1, <2>3
      <3> HIDE DEF r
      <3> QED BY <3>1, <3>2
    <2> QED BY <2>2, <2>3
  <1>5. rq'[t] = q
    BY <1>1, <1>4
  <1>6. Claims(t)' /\ Begun(t)'
    BY <1>3, <1>4, <1>5 DEF Claims, Begun
  <1>7. Owner(t)'
    BY <1>3 DEF Owner, Unowned
  <1>8. \A u \in Tags \ {t} : OwnerSame(u)
    BY <1>2 DEF OwnerSame
  <1> QED BY <1>2, <1>4, <1>6, <1>7, <1>8, HandedOnStays, OneTagOnce DEF OnceAt

LEMMA StutterOnce == ASSUME OnceInv, UNCHANGED vars PROVE OnceInv'
  <1>1. UNCHANGED <<rq, exec, cq, isr, softirq>>
    BY DEF vars, mediaVars
  <1> QED BY <1>1, RequestsSame, HandedOnStays, QuietOnce DEF Quiet

\* However interrupt handlers, softirq, drains and timeout interleave, whoever
\* owns a request is the only one who may end it.
LEMMA StepOnce == Typed /\ OnceInv /\ [Next]_vars => OnceInv'
  <1> SUFFICES ASSUME Typed, OnceInv, [Next]_vars PROVE OnceInv'
    OBVIOUS
  <1>1. ASSUME NEW t \in Tags, NEW op \in {"read", "write"}, Dispatch(t, op)
        PROVE  OnceInv'
    BY <1>1, DispatchOnce
  <1>2. ASSUME NEW t \in Tags, Start(t) \/ Submit(t) PROVE OnceInv'
    BY <1>2, StartOnce, SubmitOnce
  <1>3. ASSUME NEW t \in Tags, Softirq(t) PROVE OnceInv'
    BY <1>3, SoftirqOnce
  <1>4. ASSUME NEW t \in Tags, TimeoutFires(t) PROVE OnceInv'
    BY <1>4, TimerQuietOnce
  <1>5. ASSUME NEW c \in exec, NEW ok \in BOOLEAN, Execute(c, ok) PROVE OnceInv'
    BY <1>5, ExecuteOnce
  <1>6. ASSUME NEW m \in Members, Die(m) PROVE OnceInv'
    BY <1>6, DieOnce
  <1>7. ASSUME NEW m \in Members, IsrStep(m) PROVE OnceInv'
    BY <1>7, IsrQuietOnce, IsrTakeOnce, IsrClaimOnce, IsrEndOnce DEF IsrStep
  <1>8. ASSUME NEW d \in Callers, DrainStep(d) PROVE OnceInv'
    BY <1>8, DrainQuietOnce, DrainClaimOnce DEF DrainStep
  <1>9. CASE Degrade
    BY <1>9, TimerQuietOnce
  <1>10. CASE TimeoutStep
    BY <1>10, TimerQuietOnce, TimeoutEndsOnce DEF TimeoutStep
  <1>11. CASE UNCHANGED vars
    BY <1>11, StutterOnce
  <1> QED BY <1>1, <1>2, <1>3, <1>4, <1>5, <1>6, <1>7, <1>8, <1>9, <1>10, <1>11
          DEF Next

\* Exactly one caller ends a request: "Exactly one caller per request lifetime"
\* of rc_volume_claim_completion, for any members, tags and batch size, and even
\* if completions linger past the reuse of their tag.
THEOREM EndedExactlyOnce == Spec => []EndedOnce
  <1>1. OnceInv => EndedOnce
    BY DEF OnceInv, Claims, EndedOnce
  <1> QED BY InitTyped, InitOnce, StepTyped, StepOnce, <1>1, PTL DEF Spec

-----------------------------------------------------------------------------
(* Nothing is owed to a request that ends.                                  *)

\* Every member of the request has answered.
AllIn(t) == rq[t].mask \subseteq rq[t].acked

\* A command is in one place: not yet submitted, executing, or answered.  One of
\* a hung controller may have been answered by the drain.
ExecAt(c) == /\ c.use = rq[c.t].use /\ c.m \in rq[c.t].mask
             /\ c.m \notin rq[c.t].unsent /\ hw[c.m] \in {"running", "hung"}
             /\ hw[c.m] = "running" =>
                  rq[c.t].st # "idle" /\ c.m \notin rq[c.t].acked
PostAt(m, e) == /\ m \in rq[e.t].mask /\ m \notin rq[e.t].unsent
                /\ \A c \in exec : c.t = e.t => c.m # m
                /\ e.ok => m \in rq[e.t].wrote
HandAt(m) == /\ m \in rq[isr[m].t].mask /\ m \notin rq[isr[m].t].unsent
             /\ \A c \in exec : c.t = isr[m].t => c.m # m
             /\ m \in rq[isr[m].t].wrote \/ m \in rq[isr[m].t].err
Commanded ==
  /\ \A c \in exec : ExecAt(c)
  /\ \A m \in Members, e \in Entries : e \in cq[m] => PostAt(m, e)
  /\ \A m \in Members : isr[m].pc = "consume" => HandAt(m)

\* What a request knows of its members.
Knows(t) ==
  /\ rq[t].unsent \subseteq rq[t].mask
  /\ \A m \in rq[t].acked \cap rq[t].unsent : hw[m] # "running"
  /\ \A m \in rq[t].acked : m \in rq[t].err \/ m \in rq[t].wrote
  /\ rq[t].err # {} => rq[t].sc
  /\ rq[t].st # "idle" => rq[t].mask # {}
  /\ rq[t].claimed => AllIn(t)

\* Nothing has been said of a request that is being prepared.
Prepared(t) ==
  rq[t].st = "prep" =>
    /\ rq[t].unsent = {} /\ rq[t].acked = {}
    /\ \A c \in exec : c.t # t
    /\ \A m \in Members : /\ \A e \in cq[m] : e.t # t
                          /\ ~ (isr[m].pc = "consume" /\ isr[m].t = t)
Told == \A t \in Tags : Knows(t) /\ Prepared(t)

InUse(u) == rq[u].st \in {"started", "complete"} \/ rq[u].claimed

\* A drain visits requests of members that were told to stop.
DrainAt(d) ==
  /\ drain[d].pc \in {"iter", "ack", "dec", "claim"} =>
       \A m \in drain[d].mask : hw[m] # "running"
  /\ drain[d].pc \in {"ack", "dec", "claim"} =>
       /\ drain[d].left \subseteq rq[drain[d].t].mask \cap drain[d].mask
       /\ rq[drain[d].t].st # "prep" /\ InUse(drain[d].t)
  /\ drain[d].last => drain[d].pc \in {"ack", "dec", "claim"} /\ AllIn(drain[d].t)
  /\ drain[d].pc = "claim" => drain[d].left = {}
Drained ==
  /\ \A m \in Members : isr[m].pc = "claim" => AllIn(isr[m].t)
  /\ \A d \in Callers : DrainAt(d)

\* The members the timeout handler's request waits for.
Waiting == rq[timer.t].mask \ rq[timer.t].acked

\* They will be drained before its last drain returns.
ToDrain ==
  LET d == drain["timeout"] IN
  \/ Waiting = {}
  \/ d.pc = "begin" /\ Waiting \subseteq dead
  \/ d.pc = "disable" /\ Waiting \subseteq d.mask
  \/ /\ d.pc \in {"iter", "ack", "dec", "claim"} /\ Waiting \subseteq d.mask
     /\ \/ timer.t \in d.todo
        \/ d.pc \in {"ack", "dec"} /\ d.t = timer.t /\ Waiting \subseteq d.left
Pursued ==
  /\ timer.pc # "none" => InUse(timer.t)
  /\ timer.pc \in {"none", "check", "abort", "judge", "net"} => Returned
  /\ timer.pc = "net" => AllIn(timer.t)
  /\ timer.pc = "final" \/ (timer.pc = "drained" /\ timer.redone) => ToDrain

OweInv == Commanded /\ Told /\ Drained /\ Pursued /\ PendingExact /\ OkIsDurable

-----------------------------------------------------------------------------
(* What the steps write, field by field.                                    *)

\* The fields that only the dispatch and the end of a request write ...
Stands(u) == /\ rq'[u].st = rq[u].st /\ rq'[u].use = rq[u].use /\ rq'[u].op = rq[u].op
             /\ rq'[u].claimed = rq[u].claimed /\ rq'[u].result = rq[u].result
             /\ rq'[u].mask = rq[u].mask
\* ... those that count its members ...
Counts(u) == /\ rq'[u].mask = rq[u].mask /\ rq'[u].acked = rq[u].acked
             /\ rq'[u].pending = rq[u].pending
\* ... and what they reported.
Reports(u) == rq'[u].err = rq[u].err /\ rq'[u].sc = rq[u].sc
Alike(u) == /\ Stands(u) /\ Counts(u) /\ Reports(u)
            /\ rq'[u].unsent = rq[u].unsent /\ rq'[u].wrote = rq[u].wrote
Others(t) == \A u \in Tags : u # t => Alike(u)
OtherHandlers(m) == \A n \in Members : n # m => isr'[n] = isr[n]
OtherDrains(d) == \A e \in Callers : e # d => drain'[e] = drain[e]

\* A request that is left alone by everybody is like before.
LEMMA AllAlike == ASSUME UNCHANGED rq PROVE \A u \in Tags : Alike(u)
  BY DEF Alike, Stands, Counts, Reports

\* One request is written.
LEMMA OneWritten ==
  ASSUME Typed, NEW t \in Tags, NEW r, rq' = [rq EXCEPT ![t] = r]
  PROVE  rq'[t] = r /\ Others(t)
  BY DEF Typed, TypeOK, Others, Alike, Stands, Counts, Reports

\* A command is sent to one member.
Sends(t, m) ==
  /\ Others(t) /\ Stands(t) /\ Counts(t) /\ Reports(t)
  /\ rq'[t].wrote = rq[t].wrote /\ rq'[t].unsent = rq[t].unsent \ {m}
  /\ \/ /\ hw[m] \in {"running", "hung"}
        /\ exec' = exec \cup {[t |-> t, use |-> rq[t].use, m |-> m]}
     \/ hw[m] # "running" /\ UNCHANGED exec
  /\ UNCHANGED <<live, dead, hw, cq, softirq, isr, drain, timer>>

\* Submit sends a command.
LEMMA SubmitEffect ==
  ASSUME Typed, NEW t \in Tags, Submit(t)
  PROVE  \E m \in rq[t].unsent : Sends(t, m)
  <1>1. PICK m \in rq[t].unsent :
          /\ rq' = [rq EXCEPT ![t].unsent = @ \ {m}]
          /\ \/ /\ hw[m] \in {"running", "hung"}
                /\ exec' = exec \cup {[t |-> t, use |-> rq[t].use, m |-> m]}
             \/ hw[m] # "running" /\ UNCHANGED exec
          /\ UNCHANGED <<live, dead, hw, cq, softirq, isr, drain, timer>>
    BY DEF Submit
  <1>2. rq' = [rq EXCEPT ![t] = [rq[t] EXCEPT !.unsent = rq[t].unsent \ {m}]]
    BY <1>1
  <1>3. rq'[t] = [rq[t] EXCEPT !.unsent = rq[t].unsent \ {m}] /\ Others(t)
    BY <1>2, OneWritten
  <1>4. rq[t] \in Requests
    BY DEF Typed, TypeOK
  <1>5. /\ Stands(t) /\ Counts(t) /\ Reports(t)
        /\ rq'[t].wrote = rq[t].wrote /\ rq'[t].unsent = rq[t].unsent \ {m}
    BY <1>3, <1>4 DEF Requests, Stands, Counts, Reports
  <1> QED BY <1>1, <1>3, <1>5 DEF Sends

\* A command has been executed, or has failed.
Performs(c, ok) ==
  /\ c.t \in Tags /\ c.m \in Members
  /\ Others(c.t) /\ Stands(c.t) /\ Counts(c.t) /\ Reports(c.t)
  /\ rq'[c.t].unsent = rq[c.t].unsent
  /\ rq[c.t].wrote \subseteq rq'[c.t].wrote
  /\ ok /\ rq[c.t].use = c.use => c.m \in rq'[c.t].wrote
  /\ exec' = exec \ {c}
  /\ \A n \in Members : n # c.m => cq'[n] = cq[n]
  /\ cq'[c.m] = cq[c.m] \cup {[t |-> c.t, use |-> c.use, ok |-> ok]}
  /\ UNCHANGED <<live, dead, hw, softirq, isr, drain, timer>>

\* Execute answers one.
LEMMA ExecuteEffect ==
  ASSUME Typed, NEW c \in exec, NEW ok \in BOOLEAN, Execute(c, ok)
  PROVE  Performs(c, ok)
  <1>1. c.t \in Tags /\ c.m \in Members
    BY DEF Typed, TypeOK, Commands
  <1>2. /\ exec' = exec \ {c} /\ UNCHANGED <<live, dead, hw, softirq, isr, drain, timer>>
        /\ \A n \in Members : n # c.m => cq'[n] = cq[n]
        /\ cq'[c.m] = cq[c.m] \cup {[t |-> c.t, use |-> c.use, ok |-> ok]}
    BY <1>1 DEF Execute, Typed, TypeOK
  <1>3. rq[c.t] \in Requests
    BY <1>1 DEF Typed, TypeOK
  <1>4. CASE ok /\ rq[c.t].use = c.use
    <2>1. rq' = [rq EXCEPT ![c.t] = [rq[c.t] EXCEPT !.wrote = rq[c.t].wrote \cup {c.m}]]
      BY <1>4 DEF Execute
    <2>2. /\ rq'[c.t] = [rq[c.t] EXCEPT !.wrote = rq[c.t].wrote \cup {c.m}]
          /\ Others(c.t)
      BY <1>1, <2>1, OneWritten
    <2>3. /\ Stands(c.t) /\ Counts(c.t) /\ Reports(c.t)
          /\ rq'[c.t].unsent = rq[c.t].unsent
          /\ rq'[c.t].wrote = rq[c.t].wrote \cup {c.m}
      BY <1>3, <2>2 DEF Requests, Stands, Counts, Reports
    <2> QED BY <1>1, <1>2, <2>2, <2>3 DEF Performs
  <1>5. CASE ~(ok /\ rq[c.t].use = c.use)
    <2>1. UNCHANGED rq
      BY <1>5 DEF Execute
    <2>2. \A u \in Tags : Alike(u)
      BY <2>1, AllAlike
    <2> QED BY <1>1, <1>2, <1>5, <2>2 DEF Alike, Others, Performs
  <1> QED BY <1>4, <1>5 DEF Performs

\* An entry is taken: what it reports is written to the request of its tag.
Takes(m, e) ==
  /\ e.t \in Tags
  /\ Others(e.t) /\ Stands(e.t) /\ Counts(e.t)
  /\ rq'[e.t].unsent = rq[e.t].unsent /\ rq'[e.t].wrote = rq[e.t].wrote
  /\ rq'[e.t].sc = (rq[e.t].sc \/ ~e.ok)
  /\ rq'[e.t].err = IF e.ok THEN rq[e.t].err ELSE rq[e.t].err \cup {m}
  /\ cq'[m] = cq[m] \ {e} /\ \A n \in Members : n # m => cq'[n] = cq[n]
  /\ isr[m].pc = "walk" /\ OtherHandlers(m)
  /\ isr'[m].pc = "consume" /\ isr'[m].t = e.t
  /\ isr'[m].done = isr[m].done
  /\ UNCHANGED <<live, dead, hw, exec, softirq, drain, timer>>

\* The handler takes an entry.
LEMMA IsrTakeEffect ==
  ASSUME Typed, NEW m \in Members, IsrTake(m)
  PROVE  \E e \in cq[m] : Takes(m, e)
  <1>1. PICK e \in cq[m] :
          /\ cq' = [cq EXCEPT ![m] = @ \ {e}]
          /\ isr' = [isr EXCEPT ![m].pc = "consume", ![m].t = e.t, ![m].use = e.use]
          /\ rq' = IF e.ok THEN rq
                   ELSE [rq EXCEPT ![e.t].sc = TRUE, ![e.t].err = @ \cup {m}]
          /\ isr[m].pc = "walk"
          /\ UNCHANGED <<live, dead, hw, exec, softirq, drain, timer>>
    BY Zenon DEF IsrTake
  <1>2. e.t \in Tags /\ e.ok \in BOOLEAN
    BY DEF Typed, TypeOK, Entries
  <1>3. /\ cq'[m] = cq[m] \ {e} /\ \A n \in Members : n # m => cq'[n] = cq[n]
        /\ OtherHandlers(m)
    BY <1>1 DEF Typed, TypeOK, OtherHandlers
  <1>4. isr'[m].pc = "consume" /\ isr'[m].t = e.t /\ isr'[m].done = isr[m].done
    BY <1>1 DEF Typed, TypeOK, Handlers
  <1>5. rq[e.t] \in Requests
    BY <1>2 DEF Typed, TypeOK
  <1>6. CASE e.ok
    <2>1. \A u \in Tags : Alike(u)
      BY <1>1, <1>6, AllAlike
    <2>2. rq[e.t].sc = (rq[e.t].sc \/ ~e.ok)
      BY <1>6, <1>5 DEF Requests
    <2>3. rq'[e.t].sc = (rq[e.t].sc \/ ~e.ok)
      BY <2>1, <2>2, <1>2 DEF Alike, Reports
    <2> QED BY <1>1, <1>2, <1>3, <1>4, <1>6, <2>1, <2>3 DEF Alike, Others, Reports, Takes
  <1>7. CASE ~e.ok
    <2> DEFINE r == [rq[e.t] EXCEPT !.sc = TRUE, !.err = rq[e.t].err \cup {m}]
    <2>1. rq' = [rq EXCEPT ![e.t] = r]
      BY <1>1, <1>7
    <2>2. rq'[e.t] = r /\ Others(e.t)
      <3> HIDE DEF r
      <3> QED BY <1>2, <2>1, OneWritten
    <2>3. /\ Stands(e.t) /\ Counts(e.t)
          /\ rq'[e.t].unsent = rq[e.t].unsent /\ rq'[e.t].wrote = rq[e.t].wrote
          /\ rq'[e.t].err = rq[e.t].err \cup {m}
      BY <1>5, <2>2 DEF Requests, Stands, Counts
    <2>4. rq'[e.t].sc = TRUE
      BY <1>5, <2>2 DEF Requests
    <2> QED BY <1>1, <1>2, <1>3, <1>4, <1>7, <2>2, <2>3, <2>4 DEF Takes
  <1> QED BY <1>2, <1>6, <1>7 DEF Takes

\* The handler marks its member as having answered.
Marks(m) ==
  LET t == isr[m].t IN
  /\ t \in Tags /\ isr[m].pc = "consume"
  /\ Others(t) /\ Stands(t) /\ Reports(t)
  /\ rq'[t].unsent = rq[t].unsent /\ rq'[t].wrote = rq[t].wrote
  /\ rq'[t].acked = rq[t].acked \cup {m} /\ rq'[t].pending = rq[t].pending
  /\ OtherHandlers(m) /\ isr'[m].t = t /\ isr'[m].done = isr[m].done
  /\ isr'[m].pc = IF m \in rq[t].acked THEN "walk" ELSE "dec"
  /\ UNCHANGED <<live, dead, hw, exec, cq, softirq, drain, timer>>

\* It marks its member.
LEMMA IsrConsumeEffect ==
  ASSUME Typed, NEW m \in Members, IsrConsume(m)
  PROVE  Marks(m)
  <1> DEFINE t == isr[m].t
             r == [rq[t] EXCEPT !.acked = rq[t].acked \cup {m}]
  <1>1. t \in Tags /\ isr[m].pc = "consume"
    BY DEF IsrConsume, Typed, Placed
  <1>2. rq' = [rq EXCEPT ![t] = r]
    BY DEF IsrConsume
  <1>3. rq'[t] = r /\ Others(t)
    <2> HIDE DEF r, t
    <2> QED BY <1>1, <1>2, OneWritten
  <1>4. rq[t] \in Requests
    BY <1>1 DEF Typed, TypeOK
  <1>5. /\ Stands(t) /\ Reports(t)
        /\ rq'[t].unsent = rq[t].unsent /\ rq'[t].wrote = rq[t].wrote
        /\ rq'[t].acked = rq[t].acked \cup {m} /\ rq'[t].pending = rq[t].pending
    BY <1>3, <1>4 DEF Requests, Stands, Reports
  <1>6. isr' = [isr EXCEPT ![m].pc = IF m \in rq[t].acked THEN "walk" ELSE "dec"]
    BY DEF IsrConsume
  <1>7. /\ OtherHandlers(m) /\ isr'[m].t = t /\ isr'[m].done = isr[m].done
        /\ isr'[m].pc = IF m \in rq[t].acked THEN "walk" ELSE "dec"
    BY <1>6 DEF Typed, TypeOK, Handlers, OtherHandlers
  <1>8. UNCHANGED <<live, dead, hw, exec, cq, softirq, drain, timer>>
    BY DEF IsrConsume, mediaVars
  <1> QED BY <1>1, <1>3, <1>5, <1>7, <1>8 DEF Marks

\* The handler counts it.
Tallies(m) ==
  LET t == isr[m].t IN
  /\ t \in Tags /\ isr[m].pc = "dec"
  /\ Others(t) /\ Stands(t) /\ Reports(t)
  /\ rq'[t].unsent = rq[t].unsent /\ rq'[t].wrote = rq[t].wrote
  /\ rq'[t].acked = rq[t].acked /\ rq'[t].pending = rq[t].pending - 1
  /\ OtherHandlers(m) /\ isr'[m].t = t /\ isr'[m].done = isr[m].done
  /\ isr'[m].pc = IF rq[t].pending = 1 THEN "claim" ELSE "walk"
  /\ UNCHANGED <<live, dead, hw, exec, cq, softirq, drain, timer>>

\* It counts.
LEMMA IsrDecEffect ==
  ASSUME Typed, NEW m \in Members, IsrDec(m)
  PROVE  Tallies(m)
  <1> DEFINE t == isr[m].t
             r == [rq[t] EXCEPT !.pending = rq[t].pending - 1]
  <1>1. t \in Tags /\ isr[m].pc = "dec"
    BY DEF IsrDec, Typed, Placed
  <1>2. rq' = [rq EXCEPT ![t] = r]
    BY DEF IsrDec
  <1>3. rq'[t] = r /\ Others(t)
    <2> HIDE DEF r, t
    <2> QED BY <1>1, <1>2, OneWritten
  <1>4. rq[t] \in Requests
    BY <1>1 DEF Typed, TypeOK
  <1>5. /\ Stands(t) /\ Reports(t)
        /\ rq'[t].unsent = rq[t].unsent /\ rq'[t].wrote = rq[t].wrote
        /\ rq'[t].acked = rq[t].acked /\ rq'[t].pending = rq[t].pending - 1
    BY <1>3, <1>4 DEF Requests, Stands, Reports
  <1>6. isr' = [isr EXCEPT ![m].pc = IF rq[t].pending = 1 THEN "claim" ELSE "walk"]
    BY DEF IsrDec
  <1>7. /\ OtherHandlers(m) /\ isr'[m].t = t /\ isr'[m].done = isr[m].done
        /\ isr'[m].pc = IF rq[t].pending = 1 THEN "claim" ELSE "walk"
    BY <1>6 DEF Typed, TypeOK, Handlers, OtherHandlers
  <1>8. UNCHANGED <<live, dead, hw, exec, cq, softirq, drain, timer>>
    BY DEF IsrDec, mediaVars
  <1> QED BY <1>1, <1>3, <1>5, <1>7, <1>8 DEF Tallies

\* A claim: the request is taken by somebody, its members being all in.
ClaimedAt(t) ==
  /\ Others(t) /\ Counts(t) /\ Reports(t)
  /\ rq'[t].use = rq[t].use /\ rq'[t].op = rq[t].op /\ rq'[t].result = rq[t].result
  /\ rq'[t].unsent = rq[t].unsent /\ rq'[t].wrote = rq[t].wrote
  /\ rq'[t].claimed /\ rq'[t].st \in {rq[t].st, "complete"}

\* Either way of claiming is a claim.
LEMMA ClaimFields ==
  ASSUME Typed, NEW t \in Tags,
         \/ rq' = [rq EXCEPT ![t].claimed = TRUE]
         \/ rq' = [rq EXCEPT ![t].claimed = TRUE, ![t].st = "complete"]
  PROVE  ClaimedAt(t)
  <1>1. rq[t] \in Requests
    BY DEF Typed, TypeOK
  <1>2. CASE rq' = [rq EXCEPT ![t].claimed = TRUE]
    <2>1. rq'[t] = [rq[t] EXCEPT !.claimed = TRUE] /\ Others(t)
      BY <1>2, OneWritten
    <2> QED BY <1>1, <2>1 DEF ClaimedAt, Counts, Reports, Requests
  <1>3. CASE rq' = [rq EXCEPT ![t].claimed = TRUE, ![t].st = "complete"]
    <2> DEFINE r == [rq[t] EXCEPT !.claimed = TRUE, !.st = "complete"]
    <2>1. rq' = [rq EXCEPT ![t] = r]
      BY <1>3
    <2>2. rq'[t] = r /\ Others(t)
      <3> HIDE DEF r
      <3> QED BY <2>1, OneWritten
    <2> QED BY <1>1, <2>2 DEF ClaimedAt, Counts, Reports, Requests
  <1> QED BY <1>2, <1>3

Wins(m) ==
  LET t == isr[m].t IN
  /\ t \in Tags /\ isr[m].pc = "claim"
  /\ (ClaimedAt(t) /\ ~rq[t].claimed) \/ \A u \in Tags : Alike(u)
  /\ OtherHandlers(m) /\ isr'[m].pc = "walk"
  /\ UNCHANGED <<live, dead, hw, exec, cq, drain, timer>>

\* The handler claims, or does not get it.
LEMMA IsrClaimEffect ==
  ASSUME Typed, NEW m \in Members, IsrClaim(m)
  PROVE  Wins(m)
  <1> DEFINE t == isr[m].t
  <1>1. t \in Tags /\ isr[m].pc = "claim"
    BY DEF IsrClaim, Typed, Placed
  <1>2. \/ /\ \/ rq' = [rq EXCEPT ![t].claimed = TRUE]
              \/ rq' = [rq EXCEPT ![t].claimed = TRUE, ![t].st = "complete"]
           /\ ~rq[t].claimed
        \/ UNCHANGED rq
    BY DEF IsrClaim, CanClaim
  <1>3. (ClaimedAt(t) /\ ~rq[t].claimed) \/ \A u \in Tags : Alike(u)
    BY <1>1, <1>2, ClaimFields, AllAlike
  <1>4. \/ isr' = [isr EXCEPT ![m].pc = "walk", ![m].done = @ \cup {t}]
        \/ isr' = [isr EXCEPT ![m].pc = "walk"]
    BY DEF IsrClaim
  <1>5. OtherHandlers(m) /\ isr'[m].pc = "walk"
    BY <1>4 DEF Typed, TypeOK, Handlers, OtherHandlers
  <1>6. UNCHANGED <<live, dead, hw, exec, cq, drain, timer>>
    BY DEF IsrClaim, mediaVars
  <1> QED BY <1>1, <1>3, <1>5, <1>6 DEF Wins

\* A request is ended.
EndedAt(t, result) ==
  /\ Others(t) /\ Counts(t) /\ Reports(t)
  /\ rq'[t].use = rq[t].use /\ rq'[t].op = rq[t].op
  /\ rq'[t].unsent = rq[t].unsent /\ rq'[t].wrote = rq[t].wrote
  /\ rq'[t].claimed /\ rq'[t].st = "idle" /\ rq'[t].result = result

\* Ending writes these fields.
LEMMA EndFields ==
  ASSUME Typed, NEW t \in Tags, NEW result,
         rq' = [rq EXCEPT ![t] = Ended(rq[t], result)]
  PROVE  EndedAt(t, result)
  <1> DEFINE r == Ended(rq[t], result)
  <1>1. rq[t] \in Requests
    BY DEF Typed, TypeOK
  <1>2. DOMAIN rq[t] = {"st", "use", "op", "mask", "unsent", "acked", "err", "sc",
                       "pending", "claimed", "rearm", "result", "ends", "wrote"}
    BY <1>1 DEF Requests
  <1>7. rq' = [rq EXCEPT ![t] = r]
    OBVIOUS
  <1>3. rq'[t] = r /\ Others(t)
    <2> HIDE DEF r
    <2> QED BY <1>7, OneWritten
  <1>4. r.claimed /\ r.st = "idle" /\ r.result = result
    BY <1>2 DEF Ended
  <1>5. /\ r.mask = rq[t].mask /\ r.acked = rq[t].acked /\ r.pending = rq[t].pending
        /\ r.err = rq[t].err /\ r.sc = rq[t].sc /\ r.use = rq[t].use
    BY <1>2 DEF Ended
  <1>6. r.op = rq[t].op /\ r.unsent = rq[t].unsent /\ r.wrote = rq[t].wrote
    BY <1>2 DEF Ended
  <1> HIDE DEF r
  <1> QED BY <1>3, <1>4, <1>5, <1>6 DEF EndedAt, Counts, Reports

\* It is finished, and the members that erred are failed.
FinishedAt(t) ==
  /\ EndedAt(t, FinishStatus(t))
  /\ live' = live \ (IF rq[t].sc THEN rq[t].err ELSE {})

\* So does finishing.
LEMMA FinishFields ==
  ASSUME Typed, NEW t \in Tags, FinishRequest(t) PROVE FinishedAt(t)
  <1>1. rq' = [rq EXCEPT ![t] = Ended(rq[t], FinishStatus(t))]
    BY DEF FinishRequest
  <1>2. EndedAt(t, FinishStatus(t))
    BY <1>1, EndFields
  <1> QED BY <1>2 DEF FinishedAt, FinishRequest, MarkFailed

Completes(t) ==
  /\ FinishedAt(t) /\ t \in softirq
  /\ UNCHANGED <<dead, hw, exec, cq, isr, drain, timer>>

\* The softirq finishes.
LEMMA SoftirqEffect ==
  ASSUME Typed, NEW t \in Tags, Softirq(t)
  PROVE  Completes(t)
  BY FinishFields DEF Softirq, mediaVars, Completes

Flushes(m) ==
  /\ \/ UNCHANGED <<live, rq>>
     \/ \E t \in isr[m].done : t \in Tags /\ FinishedAt(t)
  /\ OtherHandlers(m) /\ isr[m].pc = "end" /\ isr'[m].pc \in {"out", "end"}
  /\ UNCHANGED <<dead, hw, exec, cq, drain, timer>>

\* The handler ends its batch.
LEMMA IsrEndEffect ==
  ASSUME Typed, NEW m \in Members, IsrEnd(m)
  PROVE  Flushes(m)
  <1>1. /\ isr[m].pc = "end" /\ isr[m] \in Handlers
        /\ UNCHANGED <<dead, hw, exec, cq, drain, timer>>
    BY DEF IsrEnd, mediaVars, Typed, TypeOK
  <1>2. CASE isr' = [isr EXCEPT ![m].pc = "out"] /\ UNCHANGED <<live, rq>>
    BY <1>1, <1>2 DEF Typed, TypeOK, Handlers, OtherHandlers, Flushes
  <1>3. ASSUME NEW t \in isr[m].done, FinishRequest(t),
               isr' = [isr EXCEPT ![m].done = @ \ {t}]
        PROVE  /\ \E u \in isr[m].done : u \in Tags /\ FinishedAt(u)
               /\ OtherHandlers(m) /\ isr'[m].pc = "end"
    <2>1. t \in Tags
      BY <1>1 DEF Handlers
    <2>2. FinishedAt(t)
      BY <1>3, <2>1, FinishFields
    <2>3. OtherHandlers(m) /\ isr'[m].pc = "end"
      BY <1>1, <1>3 DEF Typed, TypeOK, Handlers, OtherHandlers
    <2> QED BY <2>1, <2>2, <2>3
  <1> QED BY <1>1, <1>2, <1>3 DEF IsrEnd, Flushes

GivesUp ==
  /\ timer.t \in Tags /\ timer' = Idle
  /\ timer.pc = "net" \/ (timer.pc = "final" /\ Returned)
  /\ EndedAt(timer.t, "err") \/ UNCHANGED rq
  /\ UNCHANGED <<live, dead, hw, exec, cq, softirq, isr, drain>>

\* The timeout handler ends what nobody has.
LEMMA TimeoutEndsEffect ==
  ASSUME Typed, TimeoutEnds
  PROVE  GivesUp
  <1>1. timer.t \in Tags
    BY DEF TimeoutEnds, Typed, Placed
  <1>2. rq' = [rq EXCEPT ![timer.t] = Ended(rq[timer.t], "err")] \/ UNCHANGED rq
    BY DEF TimeoutEnds
  <1>3. EndedAt(timer.t, "err") \/ UNCHANGED rq
    BY <1>1, <1>2, EndFields
  <1> QED BY <1>1, <1>3 DEF TimeoutEnds, mediaVars, GivesUp

\* The drain chooses the next request.
Looks(d) ==
  /\ drain[d].pc = "iter" /\ OtherDrains(d)
  /\ drain'[d].mask = drain[d].mask /\ drain'[d].last = drain[d].last
  /\ \/ /\ drain[d].todo = {} /\ drain'[d].pc = "none"
     \/ \E t \in drain[d].todo :
          LET involved == rq[t].mask \cap drain[d].mask
              visited  == rq[t].st \in {"started", "complete"} /\ involved # {}
          IN /\ t \in Tags /\ drain'[d].todo = drain[d].todo \ {t}
             /\ drain'[d].pc = IF visited THEN "ack" ELSE "iter"
             /\ visited => drain'[d].t = t /\ drain'[d].left = involved
  /\ UNCHANGED <<live, dead, hw, exec, cq, rq, softirq, isr, timer>>

\* A drain looks at a request.
LEMMA DrainVisitEffect ==
  ASSUME Typed, NEW d \in Callers, DrainVisit(d)
  PROVE  Looks(d)
  <1>1. drain[d] \in Drains
    BY DEF Typed, TypeOK
  <1>0. /\ drain[d].pc = "iter"
        /\ UNCHANGED <<live, dead, hw, exec, cq, rq, softirq, isr, timer>>
    BY Zenon DEF DrainVisit, mediaVars
  <1>2. CASE drain[d].todo = {} /\ drain' = [drain EXCEPT ![d].pc = "none"]
    BY <1>0, <1>1, <1>2 DEF Typed, TypeOK, Drains, OtherDrains, Looks
  <1>4. CASE \E t \in drain[d].todo :
               LET involved == rq[t].mask \cap drain[d].mask
                   visited  == rq[t].st \in {"started", "complete"} /\ involved # {}
               IN drain' = [drain EXCEPT
                    ![d].todo = @ \ {t},
                    ![d].pc   = IF visited THEN "ack" ELSE "iter",
                    ![d].t    = IF visited THEN t ELSE None,
                    ![d].left = IF visited THEN involved ELSE {}]
    <2> DEFINE involved(t) == rq[t].mask \cap drain[d].mask
               visited(t)  == /\ rq[t].st \in {"started", "complete"}
                              /\ involved(t) # {}
    <2>1. PICK t \in drain[d].todo :
            drain' = [drain EXCEPT
                    ![d].todo = @ \ {t},
                    ![d].pc   = IF visited(t) THEN "ack" ELSE "iter",
                    ![d].t    = IF visited(t) THEN t ELSE None,
                    ![d].left = IF visited(t) THEN involved(t) ELSE {}]
      BY <1>4, Zenon
    <2> HIDE DEF visited, involved
    <2>2. /\ t \in Tags /\ OtherDrains(d) /\ drain'[d].mask = drain[d].mask
          /\ drain'[d].last = drain[d].last
          /\ drain'[d].todo = drain[d].todo \ {t}
          /\ drain'[d].pc = (IF visited(t) THEN "ack" ELSE "iter")
          /\ drain'[d].t = (IF visited(t) THEN t ELSE None)
          /\ drain'[d].left = (IF visited(t) THEN involved(t) ELSE {})
      <3> DEFINE pc == IF visited(t) THEN "ack" ELSE "iter"
                 s == IF visited(t) THEN t ELSE None
                 left == IF visited(t) THEN involved(t) ELSE {}
      <3>1. drain' = [drain EXCEPT ![d].todo = @ \ {t}, ![d].pc = pc,
                                   ![d].t = s, ![d].left = left]
        BY <2>1, Zenon
      <3> HIDE DEF pc, s, left
      <3>2. /\ t \in Tags /\ OtherDrains(d) /\ drain'[d].mask = drain[d].mask
            /\ drain'[d].last = drain[d].last
            /\ drain'[d].todo = drain[d].todo \ {t}
            /\ drain'[d].pc = pc /\ drain'[d].t = s /\ drain'[d].left = left
        BY <1>1, <3>1 DEF Typed, TypeOK, Drains, OtherDrains
      <3> QED BY <3>2 DEF pc, s, left
    <2>3. /\ visited(t) => drain'[d].t = t /\ drain'[d].left = involved(t)
          /\ drain'[d].pc = IF visited(t) THEN "ack" ELSE "iter"
      BY <2>2
    <2> USE DEF visited, involved
    <2> QED BY <1>0, <2>2, <2>3 DEF Looks
  <1> QED BY <1>2, <1>4 DEF DrainVisit, Looks

\* It makes up the completion of a member that has not answered.
MakesUp(d) ==
  LET t == drain[d].t IN
  /\ t \in Tags /\ drain[d].pc = "ack" /\ OtherDrains(d)
  /\ drain'[d].mask = drain[d].mask /\ drain'[d].last = drain[d].last
  /\ drain'[d].t = t /\ drain'[d].todo = drain[d].todo
  /\ \/ /\ drain[d].left = {} /\ drain'[d].left = {}
        /\ drain'[d].pc = "claim" /\ UNCHANGED rq
     \/ \E m \in drain[d].left :
          /\ m \in rq[t].acked /\ drain'[d].left = drain[d].left \ {m}
          /\ drain'[d].pc = "ack" /\ UNCHANGED rq
     \/ \E m \in drain[d].left :
          /\ m \in Members /\ m \notin rq[t].acked
          /\ drain'[d].left = drain[d].left \ {m} /\ drain'[d].pc = "dec"
          /\ Others(t) /\ Stands(t)
          /\ rq'[t].unsent = rq[t].unsent /\ rq'[t].wrote = rq[t].wrote
          /\ rq'[t].acked = rq[t].acked \cup {m}
          /\ rq'[t].pending = rq[t].pending
          /\ rq'[t].err = rq[t].err \cup {m} /\ rq'[t].sc
  /\ UNCHANGED <<live, dead, hw, exec, cq, softirq, isr, timer>>

\* A drain makes up an answer.
LEMMA DrainAckEffect ==
  ASSUME Typed, NEW d \in Callers, DrainAck(d)
  PROVE  MakesUp(d)
  <1> DEFINE t == drain[d].t
  <1>0. /\ drain[d].pc = "ack"
        /\ UNCHANGED <<live, dead, hw, exec, cq, softirq, isr, timer>>
    BY Zenon DEF DrainAck, mediaVars
  <1>1. /\ drain[d] \in Drains /\ drain[d].pc = "ack" /\ t \in Tags
        /\ rq[t] \in Requests
        /\ UNCHANGED <<live, dead, hw, exec, cq, softirq, isr, timer>>
    BY <1>0 DEF Typed, TypeOK, Placed
  <1>2. CASE /\ drain[d].left = {} /\ UNCHANGED rq
             /\ drain' = [drain EXCEPT ![d].pc = "claim"]
    BY <1>1, <1>2 DEF Typed, TypeOK, Drains, OtherDrains, MakesUp
  <1>3. ASSUME NEW m \in drain[d].left, m \in rq[t].acked, UNCHANGED rq,
               drain' = [drain EXCEPT ![d].left = @ \ {m}]
        PROVE  /\ OtherDrains(d)
               /\ drain'[d].mask = drain[d].mask /\ drain'[d].last = drain[d].last
               /\ drain'[d].t = t /\ drain'[d].todo = drain[d].todo
               /\ drain'[d].left = drain[d].left \ {m} /\ drain'[d].pc = "ack"
    BY <1>1, <1>3 DEF Typed, TypeOK, Drains, OtherDrains
  <1>4. ASSUME NEW m \in drain[d].left, m \notin rq[t].acked,
               drain' = [drain EXCEPT ![d].left = @ \ {m}, ![d].pc = "dec"],
               rq' = [rq EXCEPT ![t].acked = @ \cup {m},
                                ![t].err = @ \cup {m}, ![t].sc = TRUE]
        PROVE  /\ OtherDrains(d)
               /\ drain'[d].mask = drain[d].mask /\ drain'[d].last = drain[d].last
               /\ drain'[d].t = t /\ drain'[d].todo = drain[d].todo
               /\ drain'[d].left = drain[d].left \ {m} /\ drain'[d].pc = "dec"
               /\ m \in Members /\ Others(t) /\ Stands(t)
               /\ rq'[t].unsent = rq[t].unsent /\ rq'[t].wrote = rq[t].wrote
               /\ rq'[t].acked = rq[t].acked \cup {m}
               /\ rq'[t].pending = rq[t].pending
               /\ rq'[t].err = rq[t].err \cup {m} /\ rq'[t].sc
    <2>1. /\ OtherDrains(d)
          /\ drain'[d].mask = drain[d].mask /\ drain'[d].last = drain[d].last
          /\ drain'[d].t = t /\ drain'[d].todo = drain[d].todo
          /\ drain'[d].left = drain[d].left \ {m} /\ drain'[d].pc = "dec"
      BY <1>1, <1>4 DEF Typed, TypeOK, Drains, OtherDrains
    <2> DEFINE r == [rq[t] EXCEPT !.acked = rq[t].acked \cup {m},
                                  !.err = rq[t].err \cup {m}, !.sc = TRUE]
    <2>6. rq' = [rq EXCEPT ![t] = r]
      BY <1>4
    <2>2. rq'[t] = r /\ Others(t)
      <3> HIDE DEF r, t
      <3> QED BY <1>1, <2>6, OneWritten
    <2>3. /\ Stands(t)
          /\ rq'[t].unsent = rq[t].unsent /\ rq'[t].wrote = rq[t].wrote
          /\ rq'[t].acked = rq[t].acked \cup {m}
          /\ rq'[t].pending = rq[t].pending
          /\ rq'[t].err = rq[t].err \cup {m}
      BY <1>1, <2>2 DEF Stands, Requests
    <2>4. rq'[t].sc
      BY <1>1, <2>2 DEF Requests
    <2>5. m \in Members
      BY <1>1 DEF Drains
    <2> QED BY <2>1, <2>2, <2>3, <2>4, <2>5
  <1> QED BY <1>1, <1>2, <1>3, <1>4 DEF DrainAck, MakesUp

\* It counts the made-up completion.
DrainTallies(d) ==
  LET t == drain[d].t IN
  /\ t \in Tags /\ drain[d].pc = "dec" /\ OtherDrains(d)
  /\ drain'[d].mask = drain[d].mask /\ drain'[d].left = drain[d].left
  /\ drain'[d].t = t /\ drain'[d].todo = drain[d].todo
  /\ drain'[d].pc = "ack"
  /\ drain'[d].last = (drain[d].last \/ rq[t].pending = 1)
  /\ Others(t) /\ Stands(t) /\ Reports(t)
  /\ rq'[t].unsent = rq[t].unsent /\ rq'[t].wrote = rq[t].wrote
  /\ rq'[t].acked = rq[t].acked /\ rq'[t].pending = rq[t].pending - 1
  /\ UNCHANGED <<live, dead, hw, exec, cq, softirq, isr, timer>>

\* A drain counts.
LEMMA DrainDecEffect ==
  ASSUME Typed, NEW d \in Callers, DrainDec(d)
  PROVE  DrainTallies(d)
  <1> DEFINE t == drain[d].t
             r == [rq[t] EXCEPT !.pending = rq[t].pending - 1]
  <1>1. /\ drain[d] \in Drains /\ drain[d].pc = "dec" /\ t \in Tags
        /\ rq[t] \in Requests
        /\ UNCHANGED <<live, dead, hw, exec, cq, softirq, isr, timer>>
    BY DEF DrainDec, Typed, TypeOK, Placed, mediaVars
  <1>2. rq' = [rq EXCEPT ![t] = r]
    BY DEF DrainDec
  <1>3. rq'[t] = r /\ Others(t)
    <2> HIDE DEF r, t
    <2> QED BY <1>1, <1>2, OneWritten
  <1>4. /\ Stands(t) /\ Reports(t)
        /\ rq'[t].unsent = rq[t].unsent /\ rq'[t].wrote = rq[t].wrote
        /\ rq'[t].acked = rq[t].acked /\ rq'[t].pending = rq[t].pending - 1
    BY <1>1, <1>3 DEF Requests, Stands, Reports
  <1>5. drain' = [drain EXCEPT ![d].pc = "ack",
                               ![d].last = @ \/ rq[t].pending = 1]
    BY DEF DrainDec
  <1>6. /\ OtherDrains(d)
        /\ drain'[d].mask = drain[d].mask /\ drain'[d].left = drain[d].left
        /\ drain'[d].t = t /\ drain'[d].todo = drain[d].todo
        /\ drain'[d].pc = "ack"
    BY <1>1, <1>5 DEF Typed, TypeOK, Drains, OtherDrains
  <1>7. drain'[d].last = (drain[d].last \/ rq[t].pending = 1)
    <2> DEFINE x == drain[d].last \/ rq[t].pending = 1
    <2>1. drain' = [drain EXCEPT ![d].pc = "ack", ![d].last = x]
      BY <1>5
    <2> HIDE DEF x
    <2>2. drain'[d].last = x
      BY <1>1, <2>1 DEF Typed, TypeOK, Drains
    <2> QED BY <2>2 DEF x
  <1> QED BY <1>1, <1>3, <1>4, <1>6, <1>7 DEF DrainTallies

\* It claims the request, if it counted its last member.
DrainWins(d) ==
  LET t == drain[d].t IN
  /\ t \in Tags /\ drain[d].pc = "claim" /\ OtherDrains(d)
  /\ drain'[d].mask = drain[d].mask /\ drain'[d].todo = drain[d].todo
  /\ drain'[d].pc = "iter" /\ ~drain'[d].last
  /\ (ClaimedAt(t) /\ drain[d].last /\ ~rq[t].claimed) \/ UNCHANGED rq
  /\ UNCHANGED <<live, dead, hw, exec, cq, isr, timer>>

\* A drain claims, or does not get it.
LEMMA DrainClaimEffect ==
  ASSUME Typed, NEW d \in Callers, DrainClaim(d)
  PROVE  DrainWins(d)
  <1> DEFINE t == drain[d].t
  <1>1. /\ drain[d] \in Drains /\ drain[d].pc = "claim" /\ t \in Tags
        /\ UNCHANGED <<live, dead, hw, exec, cq, isr, timer>>
    BY DEF DrainClaim, Typed, TypeOK, Placed, mediaVars
  <1>2. drain' = [drain EXCEPT ![d].pc = "iter", ![d].t = None, ![d].last = FALSE]
    BY DEF DrainClaim
  <1>3. /\ OtherDrains(d)
        /\ drain'[d].mask = drain[d].mask /\ drain'[d].todo = drain[d].todo
        /\ drain'[d].pc = "iter"
    BY <1>1, <1>2 DEF Typed, TypeOK, Drains, OtherDrains
  <1>4. ~drain'[d].last
    BY <1>1, <1>2 DEF Typed, TypeOK, Drains
  <1>5. \/ /\ rq' = [rq EXCEPT ![t].claimed = TRUE, ![t].st = "complete"]
           /\ drain[d].last /\ ~rq[t].claimed
        \/ UNCHANGED rq
    BY DEF DrainClaim, CanClaim
  <1>6. (ClaimedAt(t) /\ drain[d].last /\ ~rq[t].claimed) \/ UNCHANGED rq
    BY <1>1, <1>5, ClaimFields
  <1> QED BY <1>1, <1>3, <1>4, <1>6 DEF DrainWins

\* The timeout handler calls the drain.
LEMMA CallEffect ==
  ASSUME Typed, NEW pc, NEW redone, CallDrain(pc, redone)
  PROVE  /\ timer'.pc = pc /\ timer'.t = timer.t /\ timer'.redone = redone
         /\ OtherDrains("timeout") /\ drain'["timeout"].pc = "begin"
         /\ drain'["timeout"].last = drain["timeout"].last
  <1>1. /\ timer' = [timer EXCEPT !.pc = pc, !.redone = redone]
        /\ drain' = [drain EXCEPT !["timeout"].pc = "begin"]
    BY DEF CallDrain
  <1>2. timer'.pc = pc /\ timer'.t = timer.t /\ timer'.redone = redone
    BY <1>1 DEF Typed, TypeOK, Timers
  <1>3. "timeout" \in Callers /\ drain["timeout"] \in Drains
    BY DEF Typed, TypeOK, Callers
  <1>4. /\ OtherDrains("timeout") /\ drain'["timeout"].pc = "begin"
        /\ drain'["timeout"].last = drain["timeout"].last
    BY <1>1, <1>3 DEF Typed, TypeOK, Drains, OtherDrains
  <1> QED BY <1>2, <1>4

\* The request's timer is given back.
LEMMA RearmFields ==
  ASSUME Typed, NEW t \in Tags, rq' = [rq EXCEPT ![t].rearm = @ + 1]
  PROVE  \A u \in Tags : Alike(u)
  <1>1. rq[t] \in Requests
    BY DEF Typed, TypeOK
  <1>2. rq'[t] = [rq[t] EXCEPT !.rearm = rq[t].rearm + 1] /\ Others(t)
    BY OneWritten
  <1>3. Alike(t)
    BY <1>1, <1>2 DEF Alike, Stands, Counts, Reports, Requests
  <1> QED BY <1>2, <1>3 DEF Others

\* Whether it has been drained or not, the request keeps all but its timer.
LEMMA TimeoutDrainedEffect ==
  ASSUME Typed, TimeoutDrained
  PROVE  /\ \A u \in Tags : Alike(u)
         /\ UNCHANGED <<live, hw, exec, cq, softirq, isr>>
  <1>1. timer.t \in Tags
    BY DEF TimeoutDrained, Typed, Placed
  <1>2. UNCHANGED rq \/ rq' = [rq EXCEPT ![timer.t].rearm = @ + 1]
    BY DEF TimeoutDrained
  <1>3. \A u \in Tags : Alike(u)
    BY <1>1, <1>2, AllAlike, RearmFields
  <1> QED BY <1>3 DEF TimeoutDrained, mediaVars

\* The inductive invariant.
Owes == Late = {} /\ Typed /\ OnceInv /\ OweInv

\* Where tags and members are found.
Places ==
  /\ \A c \in exec : c.t \in Tags /\ c.m \in Members /\ c.use \in 0 .. MaxUses
  /\ \A m \in Members : \A e \in cq[m] : e \in Entries /\ e.t \in Tags
  /\ \A m \in Members : isr[m].pc \in AtWork => isr[m].t \in Tags
  /\ \A d \in Callers : drain[d].pc \in {"ack", "dec", "claim"} => drain[d].t \in Tags
  /\ timer.pc # "none" => timer.t \in Tags

\* They follow from the types.
LEMMA PlacesTyped == Typed => Places
  BY DEF Typed, TypeOK, Placed, Places, Commands, Entries, AtWork

\* What OkIsDurable says of one request.
DurableAt(t) == rq[t].op = "write" /\ rq[t].result = "ok" =>
                  rq[t].wrote # {} /\ live \cap rq[t].mask \subseteq rq[t].wrote

-----------------------------------------------------------------------------
(* A request in use goes on: its members stay, more of them have answered,   *)
(* and it neither goes back to being prepared nor is forgotten.              *)

Onward(u) == /\ rq'[u].mask = rq[u].mask /\ rq[u].acked \subseteq rq'[u].acked
             /\ rq'[u].st = "prep" => rq[u].st = "prep"
             /\ InUse(u) => InUse(u)'

\* A request that is left alone goes on.
LEMMA AlikeOnward == ASSUME NEW u, Alike(u) PROVE Onward(u)
  BY DEF Alike, Stands, Counts, Onward, InUse

\* A step that writes one request sends it onward if it sends that one onward.
LEMMA OneOnward ==
  ASSUME NEW t \in Tags, Others(t), Onward(t) PROVE \A u \in Tags : Onward(u)
  BY AlikeOnward DEF Others

\* So does one that is claimed ...
LEMMA ClaimOnward ==
  ASSUME NEW t \in Tags, ClaimedAt(t) PROVE \A u \in Tags : Onward(u)
  <1>1. Others(t) /\ Onward(t)
    BY DEF ClaimedAt, Counts, Onward, InUse
  <1> QED BY <1>1, OneOnward

\* ... and one that is ended.
LEMMA EndOnward ==
  ASSUME NEW t \in Tags, NEW result, EndedAt(t, result)
  PROVE  \A u \in Tags : Onward(u)
  <1>1. Others(t) /\ Onward(t)
    BY DEF EndedAt, Counts, Onward, InUse
  <1> QED BY <1>1, OneOnward

\* What the drain does to the requests.
Raised(d) ==
  /\ \A u \in Tags : /\ Stands(u) /\ rq'[u].unsent = rq[u].unsent
                     /\ rq'[u].wrote = rq[u].wrote
                     /\ rq[u].acked \subseteq rq'[u].acked
                     /\ rq[u].err \subseteq rq'[u].err
                     /\ rq'[u].err # {} => rq[u].err # {} \/ rq'[u].sc
                     /\ rq[u].sc => rq'[u].sc
  /\ \A u \in Tags : u # drain[d].t => Alike(u)
  /\ \A m \in rq'[drain[d].t].acked :
       m \in rq[drain[d].t].acked \/ (m \in drain[d].left /\ m \in rq'[drain[d].t].err)

\* What the drain makes up is more than there was.
LEMMA RaisedRequests ==
  ASSUME Typed, NEW d \in Callers, MakesUp(d) PROVE Raised(d)
  <1> DEFINE t == drain[d].t
  <1>1. CASE UNCHANGED rq
    <2>1. \A u \in Tags : Alike(u)
      BY <1>1, AllAlike
    <2>2. \A m \in rq'[t].acked : m \in rq[t].acked
      BY <1>1
    <2> QED BY <2>1, <2>2 DEF Raised, Alike, Counts, Reports
  <1>2. ASSUME NEW m \in drain[d].left,
               Others(t), Stands(t), rq'[t].unsent = rq[t].unsent,
               rq'[t].wrote = rq[t].wrote, rq'[t].acked = rq[t].acked \cup {m},
               rq'[t].err = rq[t].err \cup {m}, rq'[t].sc
        PROVE  Raised(d)
    <2>1. \A u \in Tags : u # t => Alike(u)
      BY <1>2 DEF Others
    <2>2. \A n \in rq'[t].acked : n \in rq[t].acked \/ (n \in drain[d].left /\ n \in rq'[t].err)
      BY <1>2
    <2> HIDE DEF t
    <2>3. ASSUME NEW u \in Tags, u # t
          PROVE  /\ Stands(u) /\ rq'[u].unsent = rq[u].unsent
                 /\ rq'[u].wrote = rq[u].wrote
                 /\ rq[u].acked \subseteq rq'[u].acked
                 /\ rq[u].err \subseteq rq'[u].err
                 /\ rq'[u].err # {} => rq[u].err # {} \/ rq'[u].sc
                 /\ rq[u].sc => rq'[u].sc
      BY <2>1, <2>3 DEF Alike, Counts, Reports
    <2>4. /\ rq[t].acked \subseteq rq'[t].acked
          /\ rq[t].err \subseteq rq'[t].err
      BY <1>2
    <2> QED BY <1>2, <2>1, <2>2, <2>3, <2>4 DEF Raised, t
  <1>3. UNCHANGED rq \/ \E m \in drain[d].left :
          /\ Others(t) /\ Stands(t) /\ rq'[t].unsent = rq[t].unsent
          /\ rq'[t].wrote = rq[t].wrote /\ rq'[t].acked = rq[t].acked \cup {m}
          /\ rq'[t].err = rq[t].err \cup {m} /\ rq'[t].sc
    BY Zenon DEF MakesUp
  <1> HIDE DEF t
  <1> QED BY <1>1, <1>2, <1>3

\* Every step but a dispatch sends the requests onward.
LEMMA StepsOnward ==
  ASSUME Typed, Next
  PROVE  \/ \E t \in Tags, op \in {"read", "write"} : Dispatch(t, op)
         \/ \A u \in Tags : Onward(u)
  <1> DEFINE On == \A u \in Tags : Onward(u)
  <1>1. UNCHANGED rq => On
    BY AllAlike, AlikeOnward
  <1>2. ASSUME NEW t \in Tags, Start(t) PROVE On
    <2>1. rq[t] \in Requests
      BY DEF Typed, TypeOK
    <2>2. rq' = [rq EXCEPT ![t] = [rq[t] EXCEPT !.st = "started", !.unsent = rq[t].mask]]
      BY <1>2 DEF Start
    <2>3. /\ rq'[t] = [rq[t] EXCEPT !.st = "started", !.unsent = rq[t].mask]
          /\ Others(t)
      BY <2>2, OneWritten
    <2>4. /\ rq'[t].mask = rq[t].mask /\ rq'[t].acked = rq[t].acked
          /\ rq'[t].st = "started"
      BY <2>1, <2>3 DEF Requests
    <2>5. Onward(t)
      BY <2>4 DEF Onward, InUse
    <2> QED BY <2>3, <2>5, OneOnward
  <1>3. ASSUME NEW t \in Tags, Submit(t) PROVE On
    <2>1. PICK m \in rq[t].unsent : Sends(t, m)
      BY <1>3, SubmitEffect
    <2>2. Others(t) /\ Onward(t)
      BY <2>1 DEF Sends, Stands, Counts, Onward, InUse
    <2> QED BY <2>2, OneOnward
  <1>4. ASSUME NEW t \in Tags, Softirq(t) PROVE On
    BY <1>4, SoftirqEffect, EndOnward DEF Completes, FinishedAt
  <1>5. ASSUME NEW c \in exec, NEW ok \in BOOLEAN, Execute(c, ok) PROVE On
    <2>1. Performs(c, ok)
      BY <1>5, ExecuteEffect
    <2>2. c.t \in Tags /\ Others(c.t) /\ Onward(c.t)
      BY <2>1 DEF Performs, Stands, Counts, Onward, InUse
    <2> QED BY <2>2, OneOnward
  <1>6. ASSUME NEW m \in Members, IsrTake(m) PROVE On
    <2>1. PICK e \in cq[m] : Takes(m, e)
      BY <1>6, IsrTakeEffect
    <2>2. e.t \in Tags /\ Others(e.t) /\ Onward(e.t)
      BY <2>1 DEF Takes, Stands, Counts, Onward, InUse
    <2> QED BY <2>2, OneOnward
  <1>7. ASSUME NEW m \in Members, IsrConsume(m) PROVE On
    <2>1. Marks(m)
      BY <1>7, IsrConsumeEffect
    <2>2. isr[m].t \in Tags /\ Others(isr[m].t) /\ Onward(isr[m].t)
      BY <2>1 DEF Marks, Stands, Onward, InUse
    <2> QED BY <2>2, OneOnward
  <1>8. ASSUME NEW m \in Members, IsrDec(m) PROVE On
    <2>1. Tallies(m)
      BY <1>8, IsrDecEffect
    <2>2. isr[m].t \in Tags /\ Others(isr[m].t) /\ Onward(isr[m].t)
      BY <2>1 DEF Tallies, Stands, Onward, InUse
    <2> QED BY <2>2, OneOnward
  <1>9. ASSUME NEW m \in Members, IsrClaim(m) PROVE On
    BY <1>9, IsrClaimEffect, ClaimOnward, AlikeOnward DEF Wins
  <1>10. ASSUME NEW m \in Members, IsrEnd(m) PROVE On
    BY <1>1, <1>10, IsrEndEffect, EndOnward DEF Flushes, FinishedAt
  <1>11. ASSUME NEW d \in Callers, DrainAck(d) PROVE On
    <2>1. Raised(d)
      BY <1>11, DrainAckEffect, RaisedRequests
    <2> QED BY <2>1 DEF Raised, Stands, Onward, InUse
  <1>12. ASSUME NEW d \in Callers, DrainDec(d) PROVE On
    <2>1. DrainTallies(d)
      BY <1>12, DrainDecEffect
    <2>2. drain[d].t \in Tags /\ Others(drain[d].t) /\ Onward(drain[d].t)
      BY <2>1 DEF DrainTallies, Stands, Onward, InUse
    <2> QED BY <2>2, OneOnward
  <1>13. ASSUME NEW d \in Callers, DrainClaim(d) PROVE On
    BY <1>1, <1>13, DrainClaimEffect, ClaimOnward DEF DrainWins
  <1>14. CASE TimeoutDrained
    BY <1>14, TimeoutDrainedEffect, AlikeOnward
  <1>15. CASE TimeoutEnds
    BY <1>1, <1>15, TimeoutEndsEffect, EndOnward DEF GivesUp
  <1>16. ASSUME NEW m \in Members, Die(m) PROVE On
    BY <1>1, <1>16 DEF Die
  <1>17. ASSUME NEW m \in Members, IsrSeesFatal(m) PROVE On
    BY <1>1, <1>17 DEF IsrSeesFatal
  <1>18. ASSUME NEW m \in Members, IsrEnter(m) PROVE On
    BY <1>1, <1>18 DEF IsrEnter
  <1>19. ASSUME NEW m \in Members, IsrLeave(m) PROVE On
    BY <1>1, <1>19 DEF IsrLeave
  <1>20. ASSUME NEW d \in Callers, DrainBegin(d) PROVE On
    BY <1>1, <1>20 DEF DrainBegin
  <1>21. ASSUME NEW d \in Callers, DrainDisable(d) PROVE On
    BY <1>1, <1>21 DEF DrainDisable
  <1>22. ASSUME NEW d \in Callers, DrainVisit(d) PROVE On
    BY <1>1, <1>22, Zenon DEF DrainVisit
  <1>23. ASSUME NEW t \in Tags, TimeoutFires(t) PROVE On
    BY <1>1, <1>23 DEF TimeoutFires
  <1>24. CASE Degrade
    BY <1>1, <1>24 DEF Degrade
  <1>25. CASE TimeoutCheck
    BY <1>1, <1>25 DEF TimeoutCheck
  <1>26. CASE TimeoutAbort
    BY <1>1, <1>26 DEF TimeoutAbort
  <1>27. CASE TimeoutJudge
    BY <1>1, <1>27 DEF TimeoutJudge
  <1> HIDE DEF On
  <1>28. ASSUME NEW m \in Members, IsrStep(m) PROVE On
    BY <1>6, <1>7, <1>8, <1>9, <1>10, <1>17, <1>18, <1>19, <1>28 DEF IsrStep
  <1>29. ASSUME NEW d \in Callers, DrainStep(d) PROVE On
    BY <1>11, <1>12, <1>13, <1>20, <1>21, <1>22, <1>29 DEF DrainStep
  <1>30. CASE TimeoutStep
    BY <1>14, <1>15, <1>25, <1>26, <1>27, <1>30 DEF TimeoutStep
  <1>31. ASSUME NEW t \in Tags, Start(t) \/ Submit(t) \/ Softirq(t) \/ TimeoutFires(t)
         PROVE  On
    BY <1>2, <1>3, <1>4, <1>23, <1>31
  <1>32. (\E t \in Tags, op \in {"read", "write"} : Dispatch(t, op)) \/ On
    <2>1. CASE \E t \in Tags : \/ \E op \in {"read", "write"} : Dispatch(t, op)
                              \/ Start(t) \/ Submit(t) \/ Softirq(t) \/ TimeoutFires(t)
      BY <1>31, <2>1, Zenon
    <2>2. CASE \E c \in exec, ok \in BOOLEAN : Execute(c, ok)
      BY <1>5, <2>2, Zenon
    <2>3. CASE \E m \in Members : Die(m) \/ IsrStep(m)
      BY <1>16, <1>28, <2>3, Zenon
    <2>4. CASE \E d \in Callers : DrainStep(d)
      BY <1>29, <2>4, Zenon
    <2>5. CASE Degrade \/ TimeoutStep
      BY <1>24, <1>30, <2>5 DEF On
    <2> QED
      BY <2>1, <2>2, <2>3, <2>4, <2>5, Zenon DEF Next
  <1> QED BY <1>32 DEF On

\* The part of it that the properties of the requests need.
Raises(d) ==
  /\ Raised(d) /\ drain[d].t \in Tags /\ drain[d].pc = "ack"
  /\ UNCHANGED <<live, dead, hw, exec, cq, softirq, isr, timer>>

\* A step of the drain's walk in these terms.
LEMMA DrainAckRaises ==
  ASSUME Typed, NEW d \in Callers, DrainAck(d) PROVE Raises(d)
  <1>1. MakesUp(d)
    BY DrainAckEffect
  <1>2. Raised(d)
    BY <1>1, RaisedRequests
  <1> QED BY <1>1, <1>2 DEF MakesUp, Raises

-----------------------------------------------------------------------------
(* The drains.                                                              *)

\* The answers of a request that are being counted.
Tallying(t) == {m \in Members : isr[m].pc = "dec" /\ isr[m].t = t}
Draining(t) == {d \in Callers : drain[d].pc = "dec" /\ drain[d].t = t}

\* The sets that the count is about are finite.
LEMMA CountsFinite ==
  ASSUME Typed, NEW t \in Tags
  PROVE  /\ IsFiniteSet(Tallying(t)) /\ Cardinality(Tallying(t)) \in Nat
         /\ IsFiniteSet(Draining(t)) /\ Cardinality(Draining(t)) \in Nat
         /\ IsFiniteSet(rq[t].mask \ rq[t].acked)
         /\ Cardinality(rq[t].mask \ rq[t].acked) \in Nat
         /\ Counting(t) = Cardinality(Tallying(t)) + Cardinality(Draining(t))
         /\ rq[t].pending \in Int
  <1>1. IsFiniteSet(Members)
    BY ConstantsOK
  <1>2. IsFiniteSet(Callers)
    <2>1. Callers = ({} \cup {"degrade"}) \cup {"timeout"}
      BY DEF Callers
    <2>2. IsFiniteSet({} \cup {"degrade"})
      BY FS_EmptySet, FS_AddElement
    <2> QED BY <2>1, <2>2, FS_AddElement
  <1>3. rq[t].mask \ rq[t].acked \subseteq Members /\ rq[t].pending \in Int
    BY DEF Typed, TypeOK, Requests
  <1>4. Tallying(t) \subseteq Members /\ Draining(t) \subseteq Callers
    BY DEF Tallying, Draining
  <1>5. /\ IsFiniteSet(Tallying(t)) /\ IsFiniteSet(Draining(t))
        /\ IsFiniteSet(rq[t].mask \ rq[t].acked)
    BY <1>1, <1>2, <1>3, <1>4, FS_Subset
  <1> QED BY <1>3, <1>5, FS_CardinalityType DEF Counting, Tallying, Draining

\* The answer that takes the count to zero is the last one.
LEMMA LastAnswer ==
  ASSUME Typed, PendingExact, NEW t \in Tags, rq[t].pending = 1,
         Tallying(t) # {} \/ Draining(t) # {}
  PROVE  AllIn(t)
  <1>1. Cardinality(Tallying(t)) # 0 \/ Cardinality(Draining(t)) # 0
    BY CountsFinite, FS_EmptySet
  <1>2. Cardinality(rq[t].mask \ rq[t].acked) = 0
    <2>1. rq[t].pending = Cardinality(rq[t].mask \ rq[t].acked) + Counting(t)
      BY DEF PendingExact
    <2>2. /\ Cardinality(Tallying(t)) \in Nat /\ Cardinality(Draining(t)) \in Nat
          /\ Cardinality(rq[t].mask \ rq[t].acked) \in Nat
          /\ Counting(t) = Cardinality(Tallying(t)) + Cardinality(Draining(t))
      BY CountsFinite
    <2> QED BY <1>1, <2>1, <2>2
  <1>3. rq[t].mask \ rq[t].acked = {}
    BY <1>2, CountsFinite, FS_EmptySet
  <1> QED BY <1>3 DEF AllIn

\* A drain that does not move keeps what it knows while its request goes on.
OffStays == \A m \in Members : hw[m] # "running" => hw'[m] # "running"

\* Once all members are in they stay in.
LEMMA AllInOnward == ASSUME NEW u, AllIn(u), Onward(u) PROVE AllIn(u)'
  BY DEF AllIn, Onward

\* A drain that does not move keeps what it knows.
LEMMA DrainStays ==
  ASSUME Typed, NEW z \in Callers, DrainAt(z), drain'[z] = drain[z], OffStays,
         drain[z].pc \in {"ack", "dec", "claim"} => Onward(drain[z].t)
  PROVE  DrainAt(z)'
  <1>1. drain[z].mask \subseteq Members
    BY DEF Typed, TypeOK, Drains
  <1>2. drain'[z].pc \in {"iter", "ack", "dec", "claim"} =>
          \A m \in drain'[z].mask : hw'[m] # "running"
    BY <1>1 DEF DrainAt, OffStays
  <1>3. drain'[z].pc \in {"ack", "dec", "claim"} =>
          /\ drain'[z].left \subseteq rq'[drain'[z].t].mask \cap drain'[z].mask
          /\ rq'[drain'[z].t].st # "prep" /\ InUse(drain[z].t)'
    BY DEF DrainAt, Onward, InUse
  <1>4. drain'[z].last => drain'[z].pc \in {"ack", "dec", "claim"} /\ AllIn(drain[z].t)'
    BY DEF DrainAt, AllIn, Onward
  <1>5. drain'[z].pc = "claim" => drain'[z].left = {}
    BY DEF DrainAt
  <1> QED BY <1>2, <1>3, <1>4, <1>5 DEF DrainAt

\* No handler comes to a claim, or the last one does.
ClaimersSame ==
  \A n \in Members : isr'[n].pc = "claim" => isr[n].pc = "claim" /\ isr'[n].t = isr[n].t

\* No drain moves and no handler comes to a claim.
LEMMA DrainedStays ==
  ASSUME Typed, Drained, UNCHANGED drain, OffStays, ClaimersSame,
         \A u \in Tags : Onward(u)
  PROVE  Drained'
  <1>1. ASSUME NEW n \in Members, isr'[n].pc = "claim" PROVE AllIn(isr[n].t)'
    <2>1. isr[n].pc = "claim" /\ isr'[n].t = isr[n].t /\ isr[n].t \in Tags
      BY <1>1 DEF ClaimersSame, Typed, Placed
    <2>2. AllIn(isr[n].t)
      BY <2>1 DEF Drained
    <2>3. AllIn(isr[n].t)'
      BY <2>1, <2>2 DEF AllIn, Onward
    <2> QED BY <2>1, <2>3 DEF AllIn
  <1>2. ASSUME NEW z \in Callers PROVE DrainAt(z)'
    BY DrainStays DEF Drained, Typed, Placed
  <1> QED BY <1>1, <1>2 DEF Drained, AllIn

\* One drain moves.
LEMMA DrainedOne ==
  ASSUME Typed, Drained, NEW d \in Callers, OtherDrains(d), DrainAt(d)', UNCHANGED isr,
         OffStays, \A u \in Tags : Onward(u)
  PROVE  Drained'
  <1>1. ASSUME NEW n \in Members, isr'[n].pc = "claim" PROVE AllIn(isr[n].t)'
    <2>1. isr[n].pc = "claim" /\ isr'[n].t = isr[n].t /\ isr[n].t \in Tags
      BY <1>1 DEF Typed, Placed
    <2>2. AllIn(isr[n].t)
      BY <2>1 DEF Drained
    <2>3. AllIn(isr[n].t)'
      BY <2>1, <2>2 DEF AllIn, Onward
    <2> QED BY <2>1, <2>3 DEF AllIn
  <1>2. ASSUME NEW z \in Callers PROVE DrainAt(z)'
    <2>1. CASE z = d
      BY <2>1
    <2>2. CASE z # d
      <3>1. drain'[z] = drain[z]
        BY <2>2 DEF OtherDrains
      <3> QED BY <3>1, DrainStays DEF Drained, Typed, Placed
    <2> QED BY <2>1, <2>2
  <1> QED BY <1>1, <1>2 DEF Drained, AllIn

\* A drain is called: it has not counted anything yet.
LEMMA CalledAt ==
  ASSUME NEW d \in Callers, DrainAt(d), drain[d].pc \notin {"ack", "dec", "claim"},
         drain'[d].pc \in {"none", "begin", "disable"}, drain'[d].last = drain[d].last
  PROVE  DrainAt(d)'
  BY DEF DrainAt

\* A tag that a drain or a claim is about is not dispatched.
LEMMA DrainedDispatch ==
  ASSUME Owes, NEW t \in Tags, NEW op \in {"read", "write"}, Dispatch(t, op)
  PROVE  Drained'
  <1>t. Typed /\ Drained /\ Late = {}
    BY DEF Owes, OweInv
  <1>1. UNCHANGED <<hw, isr, drain>>
    BY DEF Dispatch, mediaVars
  <1>2. \E r : rq' = [rq EXCEPT ![t] = r]
    BY DEF Dispatch
  <1>3. \A u \in Tags : u # t => Onward(u)
    BY <1>t, <1>2, OneWritten, AlikeOnward DEF Others
  <1>4. /\ \A d \in Callers : drain[d].t # t
        /\ \A n \in Members : isr[n].pc = "claim" => isr[n].t # t
    BY <1>t DEF Dispatch, Held, Lingers
  <1>5. ASSUME NEW n \in Members, isr'[n].pc = "claim" PROVE AllIn(isr[n].t)'
    <2>1. isr[n].pc = "claim" /\ isr[n].t \in Tags /\ isr'[n].t = isr[n].t
      BY <1>t, <1>1, <1>5 DEF Typed, Placed
    <2>2. AllIn(isr[n].t) /\ Onward(isr[n].t)
      BY <1>t, <1>3, <1>4, <2>1 DEF Drained
    <2>3. AllIn(isr[n].t)'
      BY <1>1, <2>2 DEF AllIn, Onward
    <2> QED BY <2>1, <2>3 DEF AllIn
  <1>6. ASSUME NEW z \in Callers PROVE DrainAt(z)'
    <2>1. drain'[z] = drain[z] /\ OffStays
      BY <1>1 DEF OffStays
    <2>2. DrainAt(z) /\ (drain[z].pc \in {"ack", "dec", "claim"} => drain[z].t \in Tags)
      BY <1>t DEF Drained, Typed, Placed
    <2> QED BY <1>t, <1>3, <1>4, <2>1, <2>2, DrainStays
  <1> QED BY <1>5, <1>6 DEF Drained, AllIn

\* The steps of a drain.
LEMMA DrainedDrain ==
  ASSUME Owes, NEW d \in Callers, DrainStep(d), \A u \in Tags : Onward(u)
  PROVE  Drained'
  <1>t. Typed /\ Drained /\ PendingExact /\ DrainAt(d) /\ drain[d] \in Drains
    BY DEF Owes, OweInv, Drained, Typed, TypeOK
  <1>1. CASE DrainBegin(d)
    <2>1. /\ drain[d].pc = "begin" /\ UNCHANGED <<hw, isr>>
          /\ drain' = [drain EXCEPT ![d].pc = IF dead = {} THEN "none" ELSE "disable",
                                    ![d].mask = dead]
      BY <1>1 DEF DrainBegin, mediaVars
    <2>2. OtherDrains(d) /\ drain'[d].pc \in {"none", "disable"} /\ drain'[d].last = drain[d].last
      BY <1>t, <2>1 DEF Typed, TypeOK, Drains, OtherDrains
    <2>3. DrainAt(d)'
      BY <1>t, <2>1, <2>2, CalledAt
    <2> QED BY <1>t, <2>1, <2>2, <2>3, DrainedOne DEF OffStays
  <1>2. CASE DrainDisable(d)
    <2>1. /\ drain[d].pc = "disable" /\ UNCHANGED isr
          /\ \A m \in Members :
               hw'[m] # "running" <=> m \in drain[d].mask \/ hw[m] # "running"
          /\ drain' = [drain EXCEPT ![d].pc = "iter", ![d].todo = Tags]
      BY <1>2 DEF DrainDisable
    <2>2. /\ OtherDrains(d) /\ drain'[d].pc = "iter" /\ drain'[d].last = drain[d].last
          /\ drain'[d].mask = drain[d].mask /\ drain[d].mask \subseteq Members
      BY <1>t, <2>1 DEF Typed, TypeOK, Drains, OtherDrains
    <2>3. DrainAt(d)'
      BY <1>t, <2>1, <2>2 DEF DrainAt
    <2>4. OffStays
      BY <2>1 DEF OffStays
    <2> QED BY <1>t, <2>1, <2>2, <2>3, <2>4, DrainedOne
  <1>3. CASE DrainVisit(d)
    <2>1. Looks(d)
      BY <1>t, <1>3, DrainVisitEffect
    <2>2. UNCHANGED <<hw, isr, rq>> /\ OtherDrains(d)
      BY <2>1 DEF Looks
    <2>3. ASSUME drain'[d].pc = "ack" PROVE
            /\ rq[drain'[d].t].st \in {"started", "complete"}
            /\ drain'[d].left = rq[drain'[d].t].mask \cap drain[d].mask
      BY <2>1, <2>3 DEF Looks
    <2>4. /\ drain'[d].mask = drain[d].mask /\ ~drain'[d].last
          /\ drain'[d].pc \in {"none", "iter", "ack"} /\ drain[d].pc = "iter"
      BY <1>t, <2>1 DEF Looks, DrainAt
    <2>5. DrainAt(d)'
      BY <1>t, <2>2, <2>3, <2>4 DEF DrainAt, InUse
    <2> QED BY <1>t, <2>2, <2>5, DrainedOne DEF OffStays
  <1>4. CASE DrainAck(d)
    <2>1. MakesUp(d)
      BY <1>t, <1>4, DrainAckEffect
    <2>2. UNCHANGED <<hw, isr>> /\ OtherDrains(d) /\ drain[d].t \in Tags
      BY <2>1 DEF MakesUp
    <2>3. Onward(drain[d].t)
      BY <2>2
    <2>4. /\ drain'[d].mask = drain[d].mask /\ drain'[d].last = drain[d].last
          /\ drain'[d].t = drain[d].t /\ drain[d].pc = "ack"
      BY <2>1 DEF MakesUp
    <2>5. /\ drain'[d].left \subseteq drain[d].left
          /\ drain'[d].pc \in {"ack", "dec", "claim"}
          /\ drain'[d].pc = "claim" => drain'[d].left = {}
      BY <2>1 DEF MakesUp
    <2>6. DrainAt(d)'
      BY <1>t, <2>2, <2>3, <2>4, <2>5 DEF DrainAt, Onward, InUse, AllIn
    <2> QED BY <1>t, <2>2, <2>6, DrainedOne DEF OffStays
  <1>5. CASE DrainDec(d)
    <2>1. DrainTallies(d)
      BY <1>t, <1>5, DrainDecEffect
    <2>2. UNCHANGED <<hw, isr>> /\ OtherDrains(d) /\ drain[d].t \in Tags
      BY <2>1 DEF DrainTallies
    <2>3. Onward(drain[d].t)
      BY <2>2
    <2>4. /\ drain'[d].mask = drain[d].mask /\ drain'[d].left = drain[d].left
          /\ drain'[d].t = drain[d].t /\ drain[d].pc = "dec" /\ drain'[d].pc = "ack"
          /\ drain'[d].last = (drain[d].last \/ rq[drain[d].t].pending = 1)
      BY <2>1 DEF DrainTallies
    <2>5. d \in Draining(drain[d].t)
      BY <2>4 DEF Draining
    <2>6. drain'[d].last => AllIn(drain[d].t)
      BY <1>t, <2>2, <2>4, <2>5, LastAnswer DEF DrainAt
    <2>7. DrainAt(d)'
      BY <1>t, <2>2, <2>3, <2>4, <2>6 DEF DrainAt, Onward, InUse, AllIn
    <2> QED BY <1>t, <2>2, <2>7, DrainedOne DEF OffStays
  <1>6. CASE DrainClaim(d)
    <2>1. DrainWins(d)
      BY <1>t, <1>6, DrainClaimEffect
    <2>2. /\ UNCHANGED <<hw, isr>> /\ OtherDrains(d) /\ drain'[d].mask = drain[d].mask
          /\ drain[d].pc = "claim" /\ drain'[d].pc = "iter" /\ ~drain'[d].last
      BY <2>1 DEF DrainWins
    <2>3. DrainAt(d)'
      BY <1>t, <2>2 DEF DrainAt
    <2> QED BY <1>t, <2>2, <2>3, DrainedOne DEF OffStays
  <1> QED BY <1>1, <1>2, <1>3, <1>4, <1>5, <1>6 DEF DrainStep

\* The steps of a handler.
LEMMA DrainedIsr ==
  ASSUME Owes, NEW m \in Members, IsrStep(m), \A u \in Tags : Onward(u)
  PROVE  Drained'
  <1>t. Typed /\ Drained /\ PendingExact
    BY DEF Owes, OweInv
  <1>1. UNCHANGED <<drain, hw>>
    <2>1. CASE IsrSeesFatal(m)
      BY <2>1 DEF IsrSeesFatal, mediaVars
    <2>2. CASE IsrEnter(m)
      BY <2>2 DEF IsrEnter, mediaVars
    <2>3. CASE IsrTake(m)
      BY <2>3 DEF IsrTake, mediaVars
    <2>4. CASE IsrConsume(m)
      BY <2>4 DEF IsrConsume, mediaVars
    <2>5. CASE IsrDec(m)
      BY <2>5 DEF IsrDec, mediaVars
    <2>6. CASE IsrClaim(m)
      BY <2>6 DEF IsrClaim, mediaVars
    <2>7. CASE IsrLeave(m)
      BY <2>7 DEF IsrLeave, mediaVars
    <2>8. CASE IsrEnd(m)
      BY <2>8 DEF IsrEnd, mediaVars
    <2> QED BY <2>1, <2>2, <2>3, <2>4, <2>5, <2>6, <2>7, <2>8 DEF IsrStep
  <1>2. CASE IsrDec(m)
    <2>1. Tallies(m)
      BY <1>t, <1>2, IsrDecEffect
    <2>2. ASSUME NEW n \in Members, isr'[n].pc = "claim" PROVE AllIn(isr[n].t)'
      <3>1. CASE n = m
        <4>1. /\ isr[m].t \in Tags /\ isr[m].pc = "dec" /\ isr'[m].t = isr[m].t
              /\ rq[isr[m].t].pending = 1
          BY <2>1, <2>2, <3>1 DEF Tallies
        <4>2. m \in Tallying(isr[m].t)
          BY <4>1 DEF Tallying
        <4>3. AllIn(isr[m].t)
          BY <1>t, <4>1, <4>2, LastAnswer
        <4>4. AllIn(isr[m].t)'
          BY <2>1, <4>1, <4>3 DEF Tallies, Stands, AllIn
        <4> QED BY <3>1, <4>1, <4>4 DEF AllIn
      <3>2. CASE n # m
        <4>1. isr'[n] = isr[n] /\ isr[n].pc = "claim" /\ isr[n].t \in Tags
          BY <1>t, <2>1, <2>2, <3>2 DEF Tallies, OtherHandlers, Typed, Placed
        <4>2. AllIn(isr[n].t)
          BY <1>t, <4>1 DEF Drained
        <4> QED BY <4>1, <4>2 DEF AllIn, Onward
      <3> QED BY <3>1, <3>2
    <2>3. ASSUME NEW z \in Callers PROVE DrainAt(z)'
      <3>1. DrainAt(z) /\ drain'[z] = drain[z] /\ OffStays
        BY <1>t, <1>1 DEF Drained, OffStays
      <3> QED BY <1>t, <3>1, DrainStays DEF Typed, Placed
    <2> QED BY <2>2, <2>3 DEF Drained, AllIn
  <1>3. CASE ~IsrDec(m)
    <2>1. isr \in [Members -> Handlers]
      BY <1>t DEF Typed, TypeOK
    <2>2. \/ UNCHANGED isr
          \/ OtherHandlers(m) /\ isr'[m].pc # "claim"
      <3>1. CASE IsrSeesFatal(m)
        BY <3>1 DEF IsrSeesFatal
      <3>2. CASE IsrEnter(m)
        BY <2>1, <3>2 DEF IsrEnter, OtherHandlers, Handlers
      <3>3. CASE IsrTake(m)
        BY <1>t, <3>3, IsrTakeEffect DEF Takes
      <3>4. CASE IsrConsume(m)
        BY <1>t, <3>4, IsrConsumeEffect DEF Marks
      <3>5. CASE IsrClaim(m)
        BY <1>t, <3>5, IsrClaimEffect DEF Wins
      <3>6. CASE IsrLeave(m)
        BY <2>1, <3>6 DEF IsrLeave, OtherHandlers, Handlers
      <3>7. CASE IsrEnd(m)
        BY <1>t, <3>7, IsrEndEffect DEF Flushes
      <3> QED BY <1>3, <3>1, <3>2, <3>3, <3>4, <3>5, <3>6, <3>7 DEF IsrStep
    <2>3. ClaimersSame
      BY <2>2 DEF ClaimersSame, OtherHandlers
    <2> QED BY <1>t, <1>1, <2>3, DrainedStays DEF OffStays
  <1> QED BY <1>2, <1>3

\* Drains visit requests in use, of members told to stop.
LEMMA DrainedNext == Owes /\ Next => Drained'
  <1> SUFFICES ASSUME Owes, Next PROVE Drained'
    OBVIOUS
  <1>t. Typed /\ Drained /\ Pursued
    BY DEF Owes, OweInv
  <1>1. CASE \E t \in Tags, op \in {"read", "write"} : Dispatch(t, op)
    BY <1>1, DrainedDispatch
  <1>2. CASE \A u \in Tags : Onward(u)
    <2>1. ASSUME UNCHANGED <<drain, isr>>, OffStays PROVE Drained'
      BY <1>t, <1>2, <2>1, DrainedStays DEF ClaimersSame
    <2>2. ASSUME NEW t \in Tags, Start(t) \/ Submit(t) \/ Softirq(t) \/ TimeoutFires(t)
          PROVE  Drained'
      <3>1. UNCHANGED <<drain, isr, hw>>
        BY <2>2 DEF Start, Submit, Softirq, TimeoutFires, mediaVars
      <3> QED BY <2>1, <3>1 DEF OffStays
    <2>3. ASSUME NEW c \in exec, NEW ok \in BOOLEAN, Execute(c, ok) PROVE Drained'
      <3>1. UNCHANGED <<drain, isr, hw>>
        BY <2>3 DEF Execute
      <3> QED BY <2>1, <3>1 DEF OffStays
    <2>4. ASSUME NEW m \in Members, Die(m) PROVE Drained'
      <3>1. UNCHANGED <<drain, isr>> /\ OffStays
        BY <1>t, <2>4 DEF Die, OffStays, Typed, TypeOK
      <3> QED BY <2>1, <3>1
    <2>5. CASE Degrade
      <3>1. /\ drain["degrade"].pc = "none" /\ UNCHANGED <<isr, hw>>
            /\ drain' = [drain EXCEPT !["degrade"].pc = "begin"]
        BY <2>5 DEF Degrade, mediaVars
      <3>2. "degrade" \in Callers /\ drain["degrade"] \in Drains
        BY <1>t DEF Callers, Typed, TypeOK
      <3>3. /\ OtherDrains("degrade") /\ drain'["degrade"].pc = "begin"
            /\ drain'["degrade"].last = drain["degrade"].last
        BY <1>t, <3>1, <3>2 DEF Typed, TypeOK, Drains, OtherDrains
      <3>4. DrainAt("degrade")'
        BY <1>t, <3>1, <3>2, <3>3, CalledAt DEF Drained
      <3> QED BY <1>t, <1>2, <3>1, <3>2, <3>3, <3>4, DrainedOne DEF OffStays
    <2>6. ASSUME NEW pc, NEW redone, CallDrain(pc, redone), Returned, UNCHANGED <<isr, hw>>
          PROVE  Drained'
      <3>1. /\ OtherDrains("timeout") /\ drain'["timeout"].pc = "begin"
            /\ drain'["timeout"].last = drain["timeout"].last
        BY <1>t, <2>6, CallEffect
      <3>2. "timeout" \in Callers
        BY DEF Callers
      <3>3. DrainAt("timeout")'
        BY <1>t, <2>6, <3>1, <3>2, CalledAt DEF Drained, Returned
      <3> QED BY <1>t, <1>2, <2>6, <3>1, <3>2, <3>3, DrainedOne DEF OffStays
    <2>7. CASE TimeoutStep
      <3>1. UNCHANGED <<isr, hw>>
        BY <2>7
           DEF TimeoutStep, TimeoutCheck, TimeoutDrained, TimeoutAbort, TimeoutJudge,
                    TimeoutEnds, mediaVars
      <3>2. \/ UNCHANGED drain
            \/ \E pc \in {"drained", "final"}, redone \in BOOLEAN :
                 CallDrain(pc, redone) /\ Returned
        <4>1. CASE TimeoutCheck
          BY <1>t, <4>1 DEF TimeoutCheck, Pursued
        <4>2. CASE TimeoutDrained
          BY <4>2 DEF TimeoutDrained
        <4>3. CASE TimeoutAbort \/ TimeoutEnds
          BY <4>3 DEF TimeoutAbort, TimeoutEnds
        <4>4. CASE TimeoutJudge
          BY <1>t, <4>4 DEF TimeoutJudge, Pursued
        <4> QED BY <2>7, <4>1, <4>2, <4>3, <4>4 DEF TimeoutStep
      <3> QED BY <2>1, <2>6, <3>1, <3>2 DEF OffStays
    <2>8. ASSUME NEW m \in Members, IsrStep(m) PROVE Drained'
      BY <1>2, <2>8, DrainedIsr
    <2>9. ASSUME NEW d \in Callers, DrainStep(d) PROVE Drained'
      BY <1>2, <2>9, DrainedDrain
    <2>10. CASE \E t \in Tags : \/ \E op \in {"read", "write"} : Dispatch(t, op)
                               \/ Start(t) \/ Submit(t) \/ Softirq(t) \/ TimeoutFires(t)
      BY <1>1, <2>2, <2>10, Zenon
    <2>11. CASE \E c \in exec, ok \in BOOLEAN : Execute(c, ok)
      BY <2>3, <2>11, Zenon
    <2>12. CASE \E m \in Members : Die(m) \/ IsrStep(m)
      BY <2>4, <2>8, <2>12, Zenon
    <2>13. CASE \E d \in Callers : DrainStep(d)
      BY <2>9, <2>13, Zenon
    <2> QED BY <2>5, <2>7, <2>10, <2>11, <2>12, <2>13, Zenon DEF Next
  <1> QED BY <1>t, <1>1, <1>2, StepsOnward

-----------------------------------------------------------------------------
(* The timeout handler.                                                     *)

\* A request waits for fewer and fewer members.
LEMMA WaitingShrinks ==
  ASSUME timer'.t = timer.t, Onward(timer.t)
  PROVE  Waiting' \subseteq Waiting
  BY DEF Waiting, Onward

\* What is still to be drained stays so while the drain stands still.
LEMMA ToDrainStays ==
  ASSUME ToDrain, Waiting' \subseteq Waiting, timer'.t = timer.t,
         drain'["timeout"] = drain["timeout"], dead \subseteq dead'
  PROVE  ToDrain'
  BY DEF ToDrain

\* The handler stands still, and so does its drain.
LEMMA PursuedStays ==
  ASSUME Typed, Pursued, UNCHANGED timer, timer.pc # "none" => Onward(timer.t),
         drain'["timeout"] = drain["timeout"], dead \subseteq dead'
  PROVE  Pursued'
  <1>1. timer'.pc # "none" => InUse(timer.t)'
    BY DEF Pursued, Onward
  <1>2. timer'.pc \in {"none", "check", "abort", "judge", "net"} => Returned'
    BY DEF Pursued, Returned
  <1>3. timer'.pc = "net" => AllIn(timer.t)'
    BY DEF Pursued, AllIn, Onward
  <1>4. timer'.pc = "final" \/ (timer'.pc = "drained" /\ timer'.redone) => ToDrain'
    BY WaitingShrinks, ToDrainStays DEF Pursued
  <1> QED BY <1>1, <1>2, <1>3, <1>4 DEF Pursued, InUse

\* A step of a drain leaves the timer alone, and the drain has not returned.
LEMMA DrainMoves ==
  ASSUME NEW d \in Callers, DrainStep(d)
  PROVE  /\ UNCHANGED <<timer, dead>>
         /\ drain[d].pc \in {"begin", "disable", "iter", "ack", "dec", "claim"}
  <1>1. CASE DrainBegin(d)
    BY <1>1 DEF DrainBegin
  <1>2. CASE DrainDisable(d)
    BY <1>2 DEF DrainDisable
  <1>3. CASE DrainVisit(d)
    <2>1. drain[d].pc = "iter" /\ UNCHANGED <<timer, dead>>
      BY <1>3, Zenon DEF DrainVisit
    <2> QED BY <2>1
  <1>4. CASE DrainAck(d)
    <2>1. drain[d].pc = "ack" /\ UNCHANGED <<timer, dead>>
      BY <1>4, Zenon DEF DrainAck
    <2> QED BY <2>1
  <1>5. CASE DrainDec(d)
    BY <1>5 DEF DrainDec
  <1>6. CASE DrainClaim(d)
    BY <1>6 DEF DrainClaim
  <1> QED BY <1>1, <1>2, <1>3, <1>4, <1>5, <1>6 DEF DrainStep

\* Its drain moves on, and has not returned unless it has seen the request.
LEMMA PursuedDrain ==
  ASSUME Owes, NEW d \in Callers, DrainStep(d), \A u \in Tags : Onward(u)
  PROVE  Pursued'
  <1>t. Typed /\ Pursued /\ (\A u \in Tags : Knows(u)) /\ drain[d] \in Drains
    BY DEF Owes, OweInv, Told, Typed, TypeOK
  <1>h. UNCHANGED <<timer, dead>>
    BY DrainMoves
  <1>1. CASE d # "timeout"
    <2>1. OtherDrains(d)
      <3>1. CASE DrainBegin(d) \/ DrainDisable(d)
        BY <1>t, <3>1 DEF DrainBegin, DrainDisable, Typed, TypeOK, OtherDrains
      <3>2. CASE DrainVisit(d)
        BY <1>t, <3>2, DrainVisitEffect DEF Looks
      <3>3. CASE DrainAck(d)
        BY <1>t, <3>3, DrainAckEffect DEF MakesUp
      <3>4. CASE DrainDec(d)
        BY <1>t, <3>4, DrainDecEffect DEF DrainTallies
      <3>5. CASE DrainClaim(d)
        BY <1>t, <3>5, DrainClaimEffect DEF DrainWins
      <3> QED BY <3>1, <3>2, <3>3, <3>4, <3>5 DEF DrainStep
    <2>2. drain'["timeout"] = drain["timeout"]
      BY <1>1, <2>1 DEF OtherDrains, Callers
    <2> QED BY <1>t, <1>h, <2>2, PursuedStays DEF Typed, Placed
  <1>2. CASE d = "timeout"
    <2>1. /\ drain[d].pc \in {"begin", "disable", "iter", "ack", "dec", "claim"}
          /\ ~Returned
      BY <1>2, DrainMoves DEF Returned
    <2>2. timer.pc \in {"drained", "final"} /\ timer.t \in Tags
      BY <1>t, <2>1 DEF Pursued, Typed, TypeOK, Placed, Timers
    <2>3. InUse(timer.t)'
      BY <1>t, <1>h, <2>2 DEF Pursued, Onward, InUse
    <2>4. Waiting' \subseteq Waiting
      BY <1>h, <2>2, WaitingShrinks
    <2>5. ASSUME ToDrain PROVE ToDrain'
      <3> USE DEF ToDrain
      <3>1. CASE Waiting = {}
        BY <2>4, <3>1
      <3>2. CASE DrainBegin(d)
        <4>1. /\ drain[d].pc = "begin"
              /\ drain'[d].pc = IF dead = {} THEN "none" ELSE "disable"
              /\ drain'[d].mask = dead
          BY <1>t, <3>2 DEF DrainBegin, Typed, TypeOK, Drains
        <4> QED BY <1>2, <2>4, <2>5, <4>1
      <3>3. CASE DrainDisable(d)
        <4>1. /\ drain[d].pc = "disable" /\ drain'[d].pc = "iter"
              /\ drain'[d].todo = Tags /\ drain'[d].mask = drain[d].mask
          BY <1>t, <3>3 DEF DrainDisable, Typed, TypeOK, Drains
        <4> QED BY <1>2, <1>h, <2>2, <2>4, <2>5, <4>1
      <3>4. CASE DrainVisit(d) /\ Waiting # {}
        <4>1. Looks(d)
          BY <1>t, <3>4, DrainVisitEffect
        <4>2. /\ drain[d].pc = "iter" /\ drain'[d].mask = drain[d].mask
              /\ Waiting \subseteq drain[d].mask /\ timer.t \in drain[d].todo
          BY <1>2, <2>5, <3>4, <4>1 DEF Looks
        <4>3. rq[timer.t].st \in {"started", "complete"}
          BY <1>t, <2>2, <3>4 DEF Pursued, InUse, Knows, AllIn, Waiting
        <4>4. rq[timer.t].mask \cap drain[d].mask # {} /\ Waiting \subseteq rq[timer.t].mask
          BY <3>4, <4>2 DEF Waiting
        <4>5. PICK t \in drain[d].todo :
                LET involved == rq[t].mask \cap drain[d].mask
                    visited  == rq[t].st \in {"started", "complete"} /\ involved # {}
                IN /\ drain'[d].todo = drain[d].todo \ {t}
                   /\ drain'[d].pc = IF visited THEN "ack" ELSE "iter"
                   /\ visited => drain'[d].t = t /\ drain'[d].left = involved
          BY <4>1, <4>2 DEF Looks
        <4>6. CASE t = timer.t
          <5>1. /\ drain'[d].pc = "ack" /\ drain'[d].t = timer.t
                /\ Waiting \subseteq drain'[d].left
            BY <4>2, <4>3, <4>4, <4>5, <4>6
          <5> QED BY <1>2, <1>h, <2>4, <4>2, <5>1
        <4>7. CASE t # timer.t
          <5>1. drain'[d].pc \in {"ack", "iter"} /\ timer.t \in drain'[d].todo
            BY <4>2, <4>5, <4>7
          <5> QED BY <1>2, <1>h, <2>4, <4>2, <5>1
        <4> QED BY <4>6, <4>7
      <3>5. CASE DrainAck(d) /\ Waiting # {}
        <4>1. MakesUp(d)
          BY <1>t, <3>5, DrainAckEffect
        <4>2. /\ drain[d].pc = "ack" /\ drain'[d].mask = drain[d].mask
              /\ drain'[d].t = drain[d].t /\ drain'[d].todo = drain[d].todo
              /\ drain'[d].pc \in {"ack", "dec", "claim"}
          BY <4>1 DEF MakesUp
        <4>3. /\ Waiting \subseteq drain[d].mask
              /\ timer.t \in drain[d].todo
                   \/ (drain[d].t = timer.t /\ Waiting \subseteq drain[d].left)
          BY <1>2, <2>5, <3>5, <4>2
        <4>4. CASE timer.t \in drain[d].todo
          BY <1>2, <1>h, <2>4, <4>2, <4>3, <4>4
        <4>5. CASE drain[d].t = timer.t /\ Waiting \subseteq drain[d].left
          <5>1. drain[d].left # {}
            BY <3>5, <4>5
          <5>2. PICK m \in drain[d].left :
                  /\ drain'[d].left = drain[d].left \ {m}
                  /\ drain'[d].pc \in {"ack", "dec"}
                  /\ m \in rq'[drain[d].t].acked
            BY <4>1, <5>1 DEF MakesUp
          <5>3. Waiting' \subseteq drain'[d].left
            BY <1>h, <2>4, <4>5, <5>2 DEF Waiting
          <5> QED BY <1>2, <1>h, <2>4, <4>2, <4>3, <4>5, <5>2, <5>3
        <4> QED BY <4>3, <4>4, <4>5
      <3>6. CASE DrainDec(d) /\ Waiting # {}
        <4>1. DrainTallies(d)
          BY <1>t, <3>6, DrainDecEffect
        <4>2. /\ drain[d].pc = "dec" /\ drain'[d].mask = drain[d].mask
              /\ drain'[d].t = drain[d].t /\ drain'[d].todo = drain[d].todo
              /\ drain'[d].pc = "ack" /\ drain'[d].left = drain[d].left
          BY <4>1 DEF DrainTallies
        <4> QED BY <1>2, <1>h, <2>4, <2>5, <3>6, <4>2
      <3>7. CASE DrainClaim(d) /\ Waiting # {}
        <4>1. DrainWins(d)
          BY <1>t, <3>7, DrainClaimEffect
        <4>2. /\ drain[d].pc = "claim" /\ drain'[d].mask = drain[d].mask
              /\ drain'[d].pc = "iter" /\ drain'[d].todo = drain[d].todo
          BY <4>1 DEF DrainWins
        <4> QED BY <1>2, <1>h, <2>4, <2>5, <3>7, <4>2
      <3> QED BY <3>1, <3>2, <3>3, <3>4, <3>5, <3>6, <3>7 DEF DrainStep
    <2> QED BY <1>t, <1>h, <2>2, <2>3, <2>5 DEF Pursued, InUse
  <1> QED BY <1>1, <1>2

\* The steps of the handler itself.
LEMMA PursuedTimer ==
  ASSUME Owes, TimeoutStep, \A u \in Tags : Onward(u)
  PROVE  Pursued'
  <1>t. Typed /\ Pursued
    BY DEF Owes, OweInv
  <1>i. timer' = Idle => timer'.pc = "none"
    BY DEF Idle
  <1>m. ASSUME UNCHANGED drain, timer.pc \in {"check", "abort", "judge", "net"} \/ Returned,
               timer'.pc = "none"
        PROVE  Pursued'
    BY <1>t, <1>m DEF Pursued, Returned
  <1>n. timer.pc # "none" /\ timer.t \in Tags
    BY <1>t DEF TimeoutStep, TimeoutCheck, TimeoutDrained, TimeoutAbort, TimeoutJudge,
                TimeoutEnds, Typed, Placed
  <1>o. timer'.t = timer.t => InUse(timer.t)'
    BY <1>t, <1>n DEF Pursued, Onward, InUse
  <1>c. ASSUME NEW pc \in {"drained", "final"}, NEW redone \in BOOLEAN,
               CallDrain(pc, redone),
               (pc = "drained" /\ ~redone) \/ Waiting \subseteq dead'
        PROVE  Pursued'
    <2>1. /\ timer'.pc = pc /\ timer'.t = timer.t /\ timer'.redone = redone
          /\ drain'["timeout"].pc = "begin"
      BY <1>t, <1>c, CallEffect
    <2>2. Waiting' \subseteq Waiting
      BY <1>n, <2>1, WaitingShrinks
    <2>3. pc = "final" \/ redone => ToDrain'
      BY <1>c, <2>1, <2>2 DEF ToDrain
    <2> QED BY <1>o, <2>1, <2>3 DEF Pursued, InUse
  <1>1. CASE TimeoutCheck
    <2>1. CASE timer' = Idle /\ UNCHANGED drain
      BY <1>1, <1>i, <1>m, <2>1 DEF TimeoutCheck
    <2>2. CASE CallDrain("drained", FALSE)
      BY <1>c, <2>2
    <2>3. CASE timer' = [timer EXCEPT !.pc = "abort"] /\ UNCHANGED drain
      <3>1. timer'.pc = "abort" /\ timer'.t = timer.t
        BY <1>t, <2>3 DEF Typed, TypeOK, Timers
      <3> QED BY <1>1, <1>t, <1>o, <2>3, <3>1 DEF TimeoutCheck, Pursued, Returned, InUse
    <2> QED BY <1>1, <2>1, <2>2, <2>3 DEF TimeoutCheck
  <1>2. CASE TimeoutDrained
    <2>r. Returned /\ timer.pc = "drained"
      BY <1>2 DEF TimeoutDrained
    <2>1. CASE timer' = Idle /\ UNCHANGED drain
      BY <1>i, <1>m, <2>r, <2>1
    <2>2. CASE /\ timer' = [timer EXCEPT !.pc = "net"] /\ UNCHANGED drain
               /\ Waiting = {} \/ timer.redone
      <3>1. timer'.pc = "net" /\ timer'.t = timer.t
        BY <1>t, <2>2 DEF Typed, TypeOK, Timers
      <3>2. Waiting = {}
        BY <1>t, <2>2, <2>r DEF Pursued, ToDrain, Returned
      <3>3. AllIn(timer.t)'
        BY <1>n, <3>1, <3>2 DEF Waiting, AllIn, Onward
      <3> QED BY <1>o, <2>2, <2>r, <3>1, <3>3 DEF Pursued, Returned, InUse, AllIn
    <2>3. CASE CallDrain("drained", TRUE) /\ Waiting \subseteq dead'
      BY <1>c, <2>3
    <2> QED BY <1>2, <2>1, <2>2, <2>3 DEF TimeoutDrained, Waiting
  <1>3. CASE TimeoutAbort
    <2>1. timer'.pc = "judge" /\ timer'.t = timer.t /\ UNCHANGED drain /\ timer.pc = "abort"
      BY <1>3, <1>t DEF TimeoutAbort, Typed, TypeOK, Timers
    <2> QED BY <1>t, <1>o, <2>1 DEF Pursued, Returned, InUse
  <1>4. CASE TimeoutJudge
    <2>1. CASE timer' = Idle /\ UNCHANGED drain
      BY <1>4, <1>i, <1>m, <2>1 DEF TimeoutJudge
    <2>2. CASE CallDrain("final", FALSE) /\ dead' = dead \cup Stuck(timer.t)
      <3>1. Waiting \subseteq dead'
        BY <2>2 DEF Waiting, Stuck
      <3> QED BY <1>c, <2>2, <3>1
    <2> QED BY <1>4, <2>1, <2>2 DEF TimeoutJudge
  <1>5. CASE TimeoutEnds
    <2>1. timer' = Idle /\ UNCHANGED drain /\ (timer.pc = "net" \/ Returned)
      BY <1>5 DEF TimeoutEnds
    <2> QED BY <1>i, <1>m, <2>1
  <1> QED BY <1>1, <1>2, <1>3, <1>4, <1>5 DEF TimeoutStep

\* The timeout handler never gives up a request that waits for a member.
LEMMA PursuedNext == Owes /\ Next => Pursued'
  <1> SUFFICES ASSUME Owes, Next PROVE Pursued'
    OBVIOUS
  <1>t. Typed /\ Pursued /\ (timer.pc # "none" => timer.t \in Tags)
    BY DEF Owes, OweInv, Typed, Placed
  <1>1. ASSUME NEW t \in Tags, NEW op \in {"read", "write"}, Dispatch(t, op) PROVE Pursued'
    <2>1. UNCHANGED <<drain, timer, dead>>
      BY <1>1 DEF Dispatch
    <2>2. \E r : rq' = [rq EXCEPT ![t] = r]
      BY <1>1 DEF Dispatch
    <2>3. timer.pc # "none" => timer.t # t
      BY <1>1 DEF Dispatch, Held
    <2>4. timer.pc # "none" => Onward(timer.t)
      BY <1>t, <2>2, <2>3, OneWritten, AlikeOnward DEF Others
    <2> QED BY <1>t, <2>1, <2>4, PursuedStays
  <1>2. CASE \A u \in Tags : Onward(u)
    <2>1. ASSUME UNCHANGED <<drain, timer>>, dead \subseteq dead' PROVE Pursued'
      BY <1>t, <1>2, <2>1, PursuedStays
    <2>2. ASSUME NEW t \in Tags, Start(t) \/ Submit(t) \/ Softirq(t) PROVE Pursued'
      <3>1. UNCHANGED <<drain, timer, dead>>
        BY <2>2 DEF Start, Submit, Softirq
      <3> QED BY <2>1, <3>1
    <2>3. ASSUME NEW t \in Tags, TimeoutFires(t) PROVE Pursued'
      <3>1. /\ timer.pc = "none" /\ rq[t].st = "started" /\ UNCHANGED <<rq, drain>>
            /\ timer'.pc = "check" /\ timer'.t = t
        BY <2>3 DEF TimeoutFires, Idle
      <3> QED BY <1>t, <3>1 DEF Pursued, Returned, InUse
    <2>4. ASSUME NEW c \in exec, NEW ok \in BOOLEAN, Execute(c, ok) PROVE Pursued'
      <3>1. UNCHANGED <<drain, timer, dead>>
        BY <2>4 DEF Execute
      <3> QED BY <2>1, <3>1
    <2>5. ASSUME NEW m \in Members, Die(m) PROVE Pursued'
      <3>1. UNCHANGED <<drain, timer, dead>>
        BY <2>5 DEF Die
      <3> QED BY <2>1, <3>1
    <2>6. ASSUME NEW m \in Members, IsrStep(m) PROVE Pursued'
      <3>1. UNCHANGED <<drain, timer>> /\ dead \subseteq dead'
        <4>1. CASE IsrSeesFatal(m)
          BY <4>1 DEF IsrSeesFatal
        <4>2. CASE IsrEnter(m)
          BY <4>2 DEF IsrEnter
        <4>3. CASE IsrTake(m)
          BY <4>3 DEF IsrTake
        <4>4. CASE IsrConsume(m)
          BY <4>4 DEF IsrConsume
        <4>5. CASE IsrDec(m)
          BY <4>5 DEF IsrDec
        <4>6. CASE IsrClaim(m)
          BY <4>6 DEF IsrClaim
        <4>7. CASE IsrLeave(m)
          BY <4>7 DEF IsrLeave
        <4>8. CASE IsrEnd(m)
          BY <4>8 DEF IsrEnd
        <4> QED BY <2>6, <4>1, <4>2, <4>3, <4>4, <4>5, <4>6, <4>7, <4>8 DEF IsrStep
      <3> QED BY <2>1, <3>1
    <2>7. CASE Degrade
      <3>1. UNCHANGED <<timer, dead>> /\ drain'["timeout"] = drain["timeout"]
        BY <1>t, <2>7 DEF Degrade, Typed, TypeOK, Callers
      <3> QED BY <1>t, <1>2, <3>1, PursuedStays
    <2>8. ASSUME NEW d \in Callers, DrainStep(d) PROVE Pursued'
      BY <1>2, <2>8, PursuedDrain
    <2>9. CASE TimeoutStep
      BY <1>2, <2>9, PursuedTimer
    <2>10. CASE \E t \in Tags : \/ \E op \in {"read", "write"} : Dispatch(t, op)
                               \/ Start(t) \/ Submit(t) \/ Softirq(t) \/ TimeoutFires(t)
      BY <1>1, <2>2, <2>3, <2>10, Zenon
    <2>11. CASE \E c \in exec, ok \in BOOLEAN : Execute(c, ok)
      BY <2>4, <2>11, Zenon
    <2>12. CASE \E m \in Members : Die(m) \/ IsrStep(m)
      BY <2>5, <2>6, <2>12, Zenon
    <2>13. CASE \E d \in Callers : DrainStep(d)
      BY <2>8, <2>13, Zenon
    <2> QED BY <2>7, <2>9, <2>10, <2>11, <2>12, <2>13, Zenon DEF Next
  <1> QED BY <1>t, <1>1, <1>2, StepsOnward

-----------------------------------------------------------------------------
(* The count.                                                               *)

PendingAt(u) == rq[u].pending = Cardinality(rq[u].mask \ rq[u].acked) + Counting(u)

SameTally(u) == \A n \in Members :
  isr'[n].pc = "dec" /\ isr'[n].t = u <=> isr[n].pc = "dec" /\ isr[n].t = u
SameDrain(u) == \A z \in Callers :
  drain'[z].pc = "dec" /\ drain'[z].t = u <=> drain[z].pc = "dec" /\ drain[z].t = u

\* A request whose members and counters a step does not touch.
LEMMA PendingKept ==
  ASSUME NEW u \in Tags, PendingAt(u), Counts(u), SameTally(u), SameDrain(u)
  PROVE  PendingAt(u)'
  <1>1. /\ {m \in Members : isr'[m].pc = "dec" /\ isr'[m].t = u}
             = {m \in Members : isr[m].pc = "dec" /\ isr[m].t = u}
        /\ {d \in Callers : drain'[d].pc = "dec" /\ drain'[d].t = u}
             = {d \in Callers : drain[d].pc = "dec" /\ drain[d].t = u}
    BY DEF SameTally, SameDrain
  <1>2. Counting(u)' = Counting(u)
    BY <1>1 DEF Counting
  <1>3. /\ rq'[u].mask = rq[u].mask /\ rq'[u].acked = rq[u].acked
        /\ rq'[u].pending = rq[u].pending
    BY DEF Counts
  <1>4. rq[u].pending = Cardinality(rq[u].mask \ rq[u].acked) + Counting(u)
    BY DEF PendingAt
  <1>5. rq'[u].pending = Cardinality(rq'[u].mask \ rq'[u].acked) + Counting(u)'
    BY <1>2, <1>3, <1>4
  <1> QED BY <1>5 DEF PendingAt

\* A step that touches no members and no counters keeps the count exact.
LEMMA PendingSame ==
  ASSUME PendingExact, \A u \in Tags : Counts(u) /\ SameTally(u) /\ SameDrain(u)
  PROVE  PendingExact'
  <1>1. ASSUME NEW u \in Tags PROVE PendingAt(u)'
    <2>1. PendingAt(u)
      BY DEF PendingExact, PendingAt
    <2> QED BY <2>1, PendingKept
  <1> QED BY <1>1 DEF PendingExact, PendingAt

\* What a step does to one request, given that it leaves the others alone.
LEMMA PendingOne ==
  ASSUME PendingExact, NEW t \in Tags, PendingAt(t)',
         \A u \in Tags : u # t => Counts(u) /\ SameTally(u) /\ SameDrain(u)
  PROVE  PendingExact'
  <1>1. ASSUME NEW u \in Tags PROVE PendingAt(u)'
    <2>1. PendingAt(u)
      BY DEF PendingExact, PendingAt
    <2>2. CASE u = t
      BY <2>2
    <2>3. CASE u # t
      BY <2>1, <2>3, PendingKept
    <2> QED BY <2>2, <2>3
  <1> QED BY <1>1 DEF PendingExact, PendingAt

\* The members to answer and the counters, before and after a step.
LEMMA CountingThen ==
  ASSUME NEW t
  PROVE  Counting(t)' = Cardinality(Tallying(t)') + Cardinality(Draining(t)')
  BY DEF Counting, Tallying, Draining

\* A dispatched request has all its members to answer and nobody counting.
LEMMA PendingDispatch ==
  ASSUME Owes, NEW t \in Tags, NEW op \in {"read", "write"}, Dispatch(t, op)
  PROVE  PendingExact'
  <1>t. Typed /\ PendingExact /\ Late = {}
    BY DEF Owes, OweInv
  <1>1. UNCHANGED <<isr, drain>>
    BY DEF Dispatch
  <1>2. \A u \in Tags : SameTally(u) /\ SameDrain(u)
    BY <1>1 DEF SameTally, SameDrain
  <1>3. PICK mask \in SUBSET Members :
          LET r == [st |-> "prep", use |-> rq[t].use + 1, op |-> op,
                    mask |-> mask, unsent |-> {}, acked |-> {}, err |-> {},
                    sc |-> FALSE, pending |-> Cardinality(mask),
                    claimed |-> FALSE, rearm |-> 0, result |-> "none",
                    ends |-> 0, wrote |-> {}]
          IN rq' = [rq EXCEPT ![t] = IF mask = {} THEN Ended(r, "err") ELSE r]
    <2>1. live' \in SUBSET Members
      BY <1>t DEF Dispatch, MarkFailed, Typed, TypeOK
    <2>2. (IF op = "write" \/ live' = {} THEN {live'} ELSE {{m} : m \in live'})
            \subseteq SUBSET Members
      BY <2>1
    <2> QED BY <2>2 DEF Dispatch
  <1> DEFINE r == [st |-> "prep", use |-> rq[t].use + 1, op |-> op,
                   mask |-> mask, unsent |-> {}, acked |-> {}, err |-> {},
                   sc |-> FALSE, pending |-> Cardinality(mask),
                   claimed |-> FALSE, rearm |-> 0, result |-> "none",
                   ends |-> 0, wrote |-> {}]
             q == IF mask = {} THEN Ended(r, "err") ELSE r
  <1>4. rq' = [rq EXCEPT ![t] = q]
    BY <1>3
  <1>5. q.mask = mask /\ q.acked = {} /\ q.pending = Cardinality(mask)
    BY DEF Ended
  <1>6. rq'[t] = q /\ Others(t)
    <2> HIDE DEF q
    <2> QED BY <1>t, <1>4, OneWritten
  <1> HIDE DEF q, r
  <1>7. Tallying(t)' = {} /\ Draining(t)' = {}
    BY <1>t, <1>1 DEF Dispatch, Held, Lingers, Tallying, Draining
  <1>8. Counting(t)' = 0 + 0
    BY <1>7, CountingThen, FS_EmptySet
  <1>9. rq'[t].mask \ rq'[t].acked = mask
    BY <1>5, <1>6
  <1>10. Cardinality(mask) \in Nat
    BY ConstantsOK, FS_Subset, FS_CardinalityType
  <1>11. PendingAt(t)'
    BY <1>5, <1>6, <1>8, <1>9, <1>10 DEF PendingAt
  <1> QED BY <1>t, <1>2, <1>6, <1>11, PendingOne DEF Others, Alike

\* A member is noted as having answered, and the answer is about to be counted.
LEMMA PendingIsrConsume ==
  ASSUME Owes, NEW m \in Members, IsrConsume(m)
  PROVE  PendingExact'
  <1>t. Typed /\ PendingExact /\ (isr[m].pc = "consume" => HandAt(m))
    BY DEF Owes, OweInv, Commanded
  <1>1. Marks(m)
    BY <1>t, IsrConsumeEffect
  <1>0. PICK t \in Tags : t = isr[m].t
    BY <1>1 DEF Marks
  <1>2. /\ t \in Tags /\ isr[m].t = t /\ isr[m].pc = "consume" /\ UNCHANGED drain
        /\ Others(t) /\ Stands(t)
        /\ rq'[t].acked = rq[t].acked \cup {m} /\ rq'[t].pending = rq[t].pending
        /\ OtherHandlers(m) /\ isr'[m].t = t
        /\ isr'[m].pc = IF m \in rq[t].acked THEN "walk" ELSE "dec"
    BY <1>0, <1>1 DEF Marks
  <1>3. \A u \in Tags : u # t => Counts(u) /\ SameTally(u) /\ SameDrain(u)
    BY <1>2 DEF Others, Alike, SameTally, SameDrain, OtherHandlers
  <1>4. CASE m \in rq[t].acked
    <2>1. rq'[t].acked = rq[t].acked
      BY <1>2, <1>4
    <2>2. Counts(t) /\ SameTally(t) /\ SameDrain(t)
      BY <1>2, <1>4, <2>1 DEF Counts, Stands, SameTally, SameDrain, OtherHandlers
    <2> QED BY <1>t, <1>3, <2>2, PendingSame
  <1>5. CASE m \notin rq[t].acked
    <2>1. /\ Tallying(t)' = Tallying(t) \cup {m} /\ m \notin Tallying(t)
          /\ Draining(t)' = Draining(t)
      BY <1>2, <1>5 DEF Tallying, Draining, OtherHandlers
    <2>2. m \in rq[t].mask \ rq[t].acked
      BY <1>0, <1>t, <1>2, <1>5 DEF HandAt
    <2>3. rq'[t].mask \ rq'[t].acked = (rq[t].mask \ rq[t].acked) \ {m}
      BY <1>2 DEF Stands
    <2>4. Cardinality(Tallying(t)') = Cardinality(Tallying(t)) + 1
      BY <1>t, <1>2, <2>1, CountsFinite, FS_AddElement
    <2>5. Cardinality(rq'[t].mask \ rq'[t].acked)
            = Cardinality(rq[t].mask \ rq[t].acked) - 1
      <3> DEFINE M == rq[t].mask \ rq[t].acked
      <3>1. IsFiniteSet(M) /\ m \in M
        BY <1>t, <1>2, <2>2, CountsFinite
      <3>2. Cardinality(M \ {m}) = Cardinality(M) - 1
        <4> HIDE DEF M
        <4> QED BY <3>1, FS_RemoveElement
      <3>3. rq'[t].mask \ rq'[t].acked = M \ {m}
        BY <2>3
      <3> HIDE DEF M
      <3>4. Cardinality(rq'[t].mask \ rq'[t].acked) = Cardinality(M) - 1
        BY <3>2, <3>3
      <3> QED BY <3>4 DEF M
    <2>6. rq[t].pending = Cardinality(rq[t].mask \ rq[t].acked) + Counting(t)
      BY <1>t, <1>2 DEF PendingExact
    <2>7. Counting(t)' = Cardinality(Tallying(t)) + 1 + Cardinality(Draining(t))
      BY <2>1, <2>4, CountingThen
    <2>8. /\ Cardinality(Tallying(t)) \in Nat /\ Cardinality(Draining(t)) \in Nat
          /\ Cardinality(rq[t].mask \ rq[t].acked) \in Nat
          /\ Counting(t) = Cardinality(Tallying(t)) + Cardinality(Draining(t))
      BY <1>t, <1>2, CountsFinite
    <2>9. rq'[t].pending = Cardinality(rq'[t].mask \ rq'[t].acked) + Counting(t)'
      BY <1>2, <2>5, <2>6, <2>7, <2>8
    <2>10. PendingAt(t)'
      BY <2>9 DEF PendingAt
    <2> QED BY <1>t, <1>2, <1>3, <2>10, PendingOne
  <1> QED BY <1>4, <1>5

\* The answer is counted.
LEMMA PendingIsrDec ==
  ASSUME Owes, NEW m \in Members, IsrDec(m)
  PROVE  PendingExact'
  <1>t. Typed /\ PendingExact
    BY DEF Owes, OweInv
  <1>1. Tallies(m)
    BY <1>t, IsrDecEffect
  <1>0. PICK t \in Tags : t = isr[m].t
    BY <1>1 DEF Tallies
  <1>2. /\ t \in Tags /\ isr[m].t = t /\ isr[m].pc = "dec" /\ UNCHANGED drain
        /\ Others(t) /\ Stands(t)
        /\ rq'[t].acked = rq[t].acked /\ rq'[t].pending = rq[t].pending - 1
        /\ OtherHandlers(m) /\ isr'[m].t = t /\ isr'[m].pc \in {"claim", "walk"}
    BY <1>0, <1>1 DEF Tallies
  <1>3. \A u \in Tags : u # t => Counts(u) /\ SameTally(u) /\ SameDrain(u)
    BY <1>2 DEF Others, Alike, SameTally, SameDrain, OtherHandlers
  <1>4. /\ Tallying(t)' = Tallying(t) \ {m} /\ m \in Tallying(t)
        /\ Draining(t)' = Draining(t)
    BY <1>2 DEF Tallying, Draining, OtherHandlers
  <1>5. rq'[t].mask \ rq'[t].acked = rq[t].mask \ rq[t].acked
    BY <1>2 DEF Stands
  <1>6. Cardinality(Tallying(t)') = Cardinality(Tallying(t)) - 1
    BY <1>t, <1>2, <1>4, CountsFinite, FS_RemoveElement
  <1>7. rq[t].pending = Cardinality(rq[t].mask \ rq[t].acked) + Counting(t)
    BY <1>t, <1>2 DEF PendingExact
  <1>8. Counting(t)' = Cardinality(Tallying(t)) - 1 + Cardinality(Draining(t))
    BY <1>4, <1>6, CountingThen
  <1>9. /\ Cardinality(Tallying(t)) \in Nat /\ Cardinality(Draining(t)) \in Nat
        /\ Cardinality(rq[t].mask \ rq[t].acked) \in Nat
        /\ Counting(t) = Cardinality(Tallying(t)) + Cardinality(Draining(t))
    BY <1>t, <1>2, CountsFinite
  <1>10. rq'[t].pending = Cardinality(rq'[t].mask \ rq'[t].acked) + Counting(t)'
    <2>1. Cardinality(rq'[t].mask \ rq'[t].acked) = Cardinality(rq[t].mask \ rq[t].acked)
      BY <1>5
    <2> QED BY <1>2, <1>7, <1>8, <1>9, <2>1
  <1>11. PendingAt(t)'
    BY <1>10 DEF PendingAt
  <1> QED BY <1>t, <1>2, <1>3, <1>11, PendingOne

\* The drain makes up an answer ...
LEMMA PendingDrainAck ==
  ASSUME Owes, NEW d \in Callers, DrainAck(d)
  PROVE  PendingExact'
  <1>t. Typed /\ PendingExact /\ DrainAt(d)
    BY DEF Owes, OweInv, Drained
  <1>1. MakesUp(d)
    BY <1>t, DrainAckEffect
  <1>0. PICK t \in Tags : t = drain[d].t
    BY <1>1 DEF MakesUp
  <1>2. /\ t \in Tags /\ drain[d].t = t /\ drain[d].pc = "ack" /\ UNCHANGED isr
        /\ OtherDrains(d) /\ drain'[d].t = t
    BY <1>0, <1>1 DEF MakesUp
  <1>3. CASE UNCHANGED rq /\ drain'[d].pc # "dec"
    <2>1. \A u \in Tags : Counts(u) /\ SameTally(u) /\ SameDrain(u)
      BY <1>2, <1>3 DEF Counts, SameTally, SameDrain, OtherDrains
    <2> QED BY <1>t, <2>1, PendingSame
  <1>4. ASSUME NEW m \in drain[d].left, m \notin rq[t].acked,
               drain'[d].pc = "dec", Others(t), Stands(t),
               rq'[t].acked = rq[t].acked \cup {m}, rq'[t].pending = rq[t].pending
        PROVE  PendingExact'
    <2>1. /\ Draining(t)' = Draining(t) \cup {d} /\ d \notin Draining(t)
          /\ Tallying(t)' = Tallying(t)
      BY <1>2, <1>4 DEF Tallying, Draining, OtherDrains
    <2>2. m \in rq[t].mask \ rq[t].acked
      BY <1>0, <1>t, <1>2, <1>4 DEF DrainAt
    <2>3. rq'[t].mask \ rq'[t].acked = (rq[t].mask \ rq[t].acked) \ {m}
      BY <1>4 DEF Stands
    <2>a. \A u \in Tags : u # t => Counts(u) /\ SameTally(u) /\ SameDrain(u)
      BY <1>2, <1>4 DEF Others, Alike, SameTally, SameDrain, OtherDrains
    <2>4. Cardinality(Draining(t)') = Cardinality(Draining(t)) + 1
      BY <1>t, <1>2, <2>1, CountsFinite, FS_AddElement
    <2>5. Cardinality(rq'[t].mask \ rq'[t].acked)
            = Cardinality(rq[t].mask \ rq[t].acked) - 1
      <3> DEFINE M == rq[t].mask \ rq[t].acked
      <3>1. IsFiniteSet(M) /\ m \in M
        BY <1>t, <1>2, <2>2, CountsFinite
      <3>2. Cardinality(M \ {m}) = Cardinality(M) - 1
        <4> HIDE DEF M
        <4> QED BY <3>1, FS_RemoveElement
      <3>3. rq'[t].mask \ rq'[t].acked = M \ {m}
        BY <2>3
      <3> HIDE DEF M
      <3>4. Cardinality(rq'[t].mask \ rq'[t].acked) = Cardinality(M) - 1
        BY <3>2, <3>3
      <3> QED BY <3>4 DEF M
    <2>6. rq[t].pending = Cardinality(rq[t].mask \ rq[t].acked) + Counting(t)
      BY <1>t, <1>2 DEF PendingExact
    <2>7. Counting(t)' = Cardinality(Tallying(t)) + (Cardinality(Draining(t)) + 1)
      BY <2>1, <2>4, CountingThen
    <2>8. /\ Cardinality(Tallying(t)) \in Nat /\ Cardinality(Draining(t)) \in Nat
          /\ Cardinality(rq[t].mask \ rq[t].acked) \in Nat
          /\ Counting(t) = Cardinality(Tallying(t)) + Cardinality(Draining(t))
      BY <1>t, <1>2, CountsFinite
    <2>9. rq'[t].pending = Cardinality(rq'[t].mask \ rq'[t].acked) + Counting(t)'
      BY <1>4, <2>5, <2>6, <2>7, <2>8
    <2>10. PendingAt(t)'
      BY <2>9 DEF PendingAt
    <2> QED BY <1>t, <1>2, <2>a, <2>10, PendingOne
  <1>5. \/ UNCHANGED rq /\ drain'[d].pc # "dec"
        \/ \E m \in drain[d].left :
             /\ m \notin rq[t].acked /\ drain'[d].pc = "dec" /\ Others(t) /\ Stands(t)
             /\ rq'[t].acked = rq[t].acked \cup {m} /\ rq'[t].pending = rq[t].pending
    BY <1>0, <1>1 DEF MakesUp
  <1> QED BY <1>3, <1>4, <1>5

\* ... and counts it.
LEMMA PendingDrainDec ==
  ASSUME Owes, NEW d \in Callers, DrainDec(d)
  PROVE  PendingExact'
  <1>t. Typed /\ PendingExact
    BY DEF Owes, OweInv
  <1>1. DrainTallies(d)
    BY <1>t, DrainDecEffect
  <1>0. PICK t \in Tags : t = drain[d].t
    BY <1>1 DEF DrainTallies
  <1>2. /\ t \in Tags /\ drain[d].t = t /\ drain[d].pc = "dec" /\ UNCHANGED isr
        /\ Others(t) /\ Stands(t)
        /\ rq'[t].acked = rq[t].acked /\ rq'[t].pending = rq[t].pending - 1
        /\ OtherDrains(d) /\ drain'[d].t = t /\ drain'[d].pc = "ack"
    BY <1>0, <1>1 DEF DrainTallies
  <1>3. \A u \in Tags : u # t => Counts(u) /\ SameTally(u) /\ SameDrain(u)
    BY <1>2 DEF Others, Alike, SameTally, SameDrain, OtherDrains
  <1>4. /\ Draining(t)' = Draining(t) \ {d} /\ d \in Draining(t)
        /\ Tallying(t)' = Tallying(t)
    BY <1>2 DEF Tallying, Draining, OtherDrains
  <1>5. rq'[t].mask \ rq'[t].acked = rq[t].mask \ rq[t].acked
    BY <1>2 DEF Stands
  <1>6. Cardinality(Draining(t)') = Cardinality(Draining(t)) - 1
    BY <1>t, <1>2, <1>4, CountsFinite, FS_RemoveElement
  <1>7. rq[t].pending = Cardinality(rq[t].mask \ rq[t].acked) + Counting(t)
    BY <1>t, <1>2 DEF PendingExact
  <1>8. Counting(t)' = Cardinality(Tallying(t)) + (Cardinality(Draining(t)) - 1)
    BY <1>4, <1>6, CountingThen
  <1>9. /\ Cardinality(Tallying(t)) \in Nat /\ Cardinality(Draining(t)) \in Nat
        /\ Cardinality(rq[t].mask \ rq[t].acked) \in Nat
        /\ Counting(t) = Cardinality(Tallying(t)) + Cardinality(Draining(t))
    BY <1>t, <1>2, CountsFinite
  <1>10. rq'[t].pending = Cardinality(rq'[t].mask \ rq'[t].acked) + Counting(t)'
    <2>1. Cardinality(rq'[t].mask \ rq'[t].acked) = Cardinality(rq[t].mask \ rq[t].acked)
      BY <1>5
    <2> QED BY <1>2, <1>7, <1>8, <1>9, <2>1
  <1>11. PendingAt(t)'
    BY <1>10 DEF PendingAt
  <1> QED BY <1>t, <1>2, <1>3, <1>11, PendingOne

\* Every other step leaves members and counters alone.
LEMMA AllCounted == ASSUME NEW t \in Tags, Others(t), Counts(t) PROVE \A u \in Tags : Counts(u)
  BY DEF Others, Alike

\* No handler comes to count or is done counting.
LEMMA TallySame ==
  ASSUME \/ UNCHANGED isr
         \/ \E m \in Members : OtherHandlers(m) /\ isr[m].pc # "dec" /\ isr'[m].pc # "dec"
  PROVE  \A u \in Tags : SameTally(u)
  BY DEF OtherHandlers, SameTally

\* No drain comes to count or is done counting.
LEMMA DrainSame ==
  ASSUME \/ UNCHANGED drain
         \/ \E d \in Callers : OtherDrains(d) /\ drain[d].pc # "dec" /\ drain'[d].pc # "dec"
  PROVE  \A u \in Tags : SameDrain(u)
  BY DEF OtherDrains, SameDrain

\* The count stays exact.
LEMMA PendingNext == Owes /\ Next => PendingExact'
  <1> SUFFICES ASSUME Owes, Next PROVE PendingExact'
    OBVIOUS
  <1>t. Typed /\ PendingExact
    BY DEF Owes, OweInv
  <1>i. isr \in [Members -> Handlers] /\ drain \in [Callers -> Drains]
    BY <1>t DEF Typed, TypeOK
  <1> DEFINE Cs == \A u \in Tags : Counts(u)
             Ts == \A u \in Tags : SameTally(u)
             Ds == \A u \in Tags : SameDrain(u)
  <1>q. ASSUME Cs, Ts, Ds PROVE PendingExact'
    BY <1>t, <1>q, PendingSame
  <1>r. UNCHANGED rq => Cs
    BY AllAlike DEF Alike
  <1>s. UNCHANGED isr => Ts
    BY TallySame
  <1>d. UNCHANGED drain => Ds
    BY DrainSame
  <1> HIDE DEF Cs, Ts, Ds
  <1>1. ASSUME NEW t \in Tags, NEW op \in {"read", "write"}, Dispatch(t, op) PROVE PendingExact'
    BY <1>1, PendingDispatch
  <1>2. ASSUME NEW t \in Tags, Start(t) PROVE PendingExact'
    <2>1. rq[t] \in Requests
      BY <1>t DEF Typed, TypeOK
    <2>2. rq' = [rq EXCEPT ![t] = [rq[t] EXCEPT !.st = "started", !.unsent = rq[t].mask]]
      BY <1>2 DEF Start
    <2>3. /\ rq'[t] = [rq[t] EXCEPT !.st = "started", !.unsent = rq[t].mask]
          /\ Others(t)
      BY <1>t, <2>2, OneWritten
    <2>4. Counts(t)
      BY <2>1, <2>3 DEF Requests, Counts
    <2>5. Cs /\ UNCHANGED <<isr, drain>>
      BY <1>2, <2>3, <2>4, AllCounted DEF Start, Cs
    <2> QED BY <1>q, <1>s, <1>d, <2>5
  <1>3. ASSUME NEW t \in Tags, Submit(t) PROVE PendingExact'
    <2>1. Cs /\ UNCHANGED <<isr, drain>>
      BY <1>t, <1>3, SubmitEffect, AllCounted DEF Sends, Cs
    <2> QED BY <1>q, <1>s, <1>d, <2>1
  <1>4. ASSUME NEW t \in Tags, Softirq(t) PROVE PendingExact'
    <2>1. Cs /\ UNCHANGED <<isr, drain>>
      BY <1>t, <1>4, SoftirqEffect, AllCounted DEF Completes, FinishedAt, EndedAt, Cs
    <2> QED BY <1>q, <1>s, <1>d, <2>1
  <1>5. ASSUME NEW t \in Tags, TimeoutFires(t) PROVE PendingExact'
    <2>1. UNCHANGED <<rq, isr, drain>>
      BY <1>5 DEF TimeoutFires
    <2> QED BY <1>q, <1>r, <1>s, <1>d, <2>1
  <1>6. ASSUME NEW c \in exec, NEW ok \in BOOLEAN, Execute(c, ok) PROVE PendingExact'
    <2>1. Cs /\ UNCHANGED <<isr, drain>>
      BY <1>t, <1>6, ExecuteEffect, AllCounted DEF Performs, Cs
    <2> QED BY <1>q, <1>s, <1>d, <2>1
  <1>7. ASSUME NEW m \in Members, Die(m) PROVE PendingExact'
    <2>1. UNCHANGED <<rq, isr, drain>>
      BY <1>7 DEF Die
    <2> QED BY <1>q, <1>r, <1>s, <1>d, <2>1
  <1>8. ASSUME NEW m \in Members, IsrStep(m) PROVE PendingExact'
    <2>1. CASE IsrSeesFatal(m)
      <3>1. UNCHANGED <<rq, isr, drain>>
        BY <2>1 DEF IsrSeesFatal
      <3> QED BY <1>q, <1>r, <1>s, <1>d, <3>1
    <2>2. CASE IsrEnter(m) \/ IsrLeave(m)
      <3>1. UNCHANGED <<rq, drain>>
        BY <2>2 DEF IsrEnter, IsrLeave
      <3>2. OtherHandlers(m) /\ isr[m].pc # "dec" /\ isr'[m].pc # "dec"
        BY <1>i, <2>2 DEF IsrEnter, IsrLeave, Handlers, OtherHandlers
      <3>3. Ts
        BY <3>2, TallySame DEF Ts
      <3> QED BY <1>q, <1>r, <1>d, <3>1, <3>3
    <2>3. CASE IsrTake(m)
      <3>1. PICK e \in cq[m] : Takes(m, e)
        BY <1>t, <2>3, IsrTakeEffect
      <3>2. Cs /\ UNCHANGED drain
        BY <3>1, AllCounted DEF Takes, Cs
      <3>3. Ts
        BY <3>1, TallySame DEF Takes, Ts
      <3> QED BY <1>q, <1>d, <3>2, <3>3
    <2>4. CASE IsrConsume(m)
      BY <2>4, PendingIsrConsume
    <2>5. CASE IsrDec(m)
      BY <2>5, PendingIsrDec
    <2>6. CASE IsrClaim(m)
      <3>1. Wins(m)
        BY <1>t, <2>6, IsrClaimEffect
      <3>2. Cs /\ UNCHANGED drain
        BY <3>1, AllCounted DEF Wins, ClaimedAt, Alike, Cs
      <3>3. Ts
        BY <3>1, TallySame DEF Wins, Ts
      <3> QED BY <1>q, <1>d, <3>2, <3>3
    <2>7. CASE IsrEnd(m)
      <3>1. Flushes(m)
        BY <1>t, <2>7, IsrEndEffect
      <3>2. Cs /\ UNCHANGED drain
        BY <1>r, <3>1, AllCounted DEF Flushes, FinishedAt, EndedAt, Cs
      <3>3. Ts
        BY <3>1, TallySame DEF Flushes, Ts
      <3> QED BY <1>q, <1>d, <3>2, <3>3
    <2> QED BY <1>8, <2>1, <2>2, <2>3, <2>4, <2>5, <2>6, <2>7 DEF IsrStep
  <1>9. ASSUME NEW d \in Callers, DrainStep(d) PROVE PendingExact'
    <2>1. CASE DrainBegin(d) \/ DrainDisable(d)
      <3>1. UNCHANGED <<rq, isr>>
        BY <2>1 DEF DrainBegin, DrainDisable
      <3>2. OtherDrains(d) /\ drain[d].pc # "dec" /\ drain'[d].pc # "dec"
        BY <1>i, <2>1 DEF DrainBegin, DrainDisable, Drains, OtherDrains
      <3>3. Ds
        BY <3>2, DrainSame DEF Ds
      <3> QED BY <1>q, <1>r, <1>s, <3>1, <3>3
    <2>2. CASE DrainVisit(d)
      <3>1. Looks(d)
        BY <1>t, <2>2, DrainVisitEffect
      <3>2. /\ UNCHANGED <<rq, isr>> /\ OtherDrains(d)
            /\ drain[d].pc # "dec" /\ drain'[d].pc # "dec"
        BY <3>1 DEF Looks
      <3>3. Ds
        BY <3>2, DrainSame DEF Ds
      <3> QED BY <1>q, <1>r, <1>s, <3>2, <3>3
    <2>3. CASE DrainAck(d)
      BY <2>3, PendingDrainAck
    <2>4. CASE DrainDec(d)
      BY <2>4, PendingDrainDec
    <2>5. CASE DrainClaim(d)
      <3>1. DrainWins(d)
        BY <1>t, <2>5, DrainClaimEffect
      <3>2. Cs /\ UNCHANGED isr
        BY <1>r, <3>1, AllCounted DEF DrainWins, ClaimedAt, Cs
      <3>3. Ds
        BY <3>1, DrainSame DEF DrainWins, Ds
      <3> QED BY <1>q, <1>s, <3>2, <3>3
    <2> QED BY <1>9, <2>1, <2>2, <2>3, <2>4, <2>5 DEF DrainStep
  <1>10. CASE Degrade
    <2>1. UNCHANGED <<rq, isr>> /\ drain["degrade"].pc = "none"
      BY <1>10 DEF Degrade
    <2>2. "degrade" \in Callers /\ OtherDrains("degrade") /\ drain'["degrade"].pc # "dec"
      BY <1>i, <1>10 DEF Degrade, Callers, Drains, OtherDrains
    <2>3. Ds
      BY <2>1, <2>2, DrainSame DEF Ds
    <2> QED BY <1>q, <1>r, <1>s, <2>1, <2>3
  <1>11. CASE TimeoutStep
    <2>c. ASSUME NEW pc, NEW redone, CallDrain(pc, redone), Returned PROVE Ds
      <3>1. OtherDrains("timeout") /\ drain'["timeout"].pc # "dec"
        BY <1>t, <2>c, CallEffect
      <3>2. "timeout" \in Callers /\ drain["timeout"].pc # "dec"
        BY <2>c DEF Returned, Callers
      <3> QED BY <3>1, <3>2, DrainSame DEF Ds
    <2>p. timer.pc \in {"check", "judge"} => Returned
      BY DEF Owes, OweInv, Pursued
    <2>1. CASE TimeoutCheck
      <3>1. UNCHANGED <<rq, isr>>
        BY <2>1 DEF TimeoutCheck
      <3>2. Ds
        BY <1>d, <2>1, <2>c, <2>p DEF TimeoutCheck
      <3> QED BY <1>q, <1>r, <1>s, <3>1, <3>2
    <2>2. CASE TimeoutDrained
      <3>1. Cs /\ UNCHANGED isr
        BY <1>t, <2>2, TimeoutDrainedEffect DEF Cs, Alike
      <3>2. Ds
        BY <1>d, <2>2, <2>c DEF TimeoutDrained
      <3> QED BY <1>q, <1>s, <3>1, <3>2
    <2>3. CASE TimeoutAbort
      <3>1. UNCHANGED <<rq, isr, drain>>
        BY <2>3 DEF TimeoutAbort
      <3> QED BY <1>q, <1>r, <1>s, <1>d, <3>1
    <2>4. CASE TimeoutJudge
      <3>1. UNCHANGED <<rq, isr>>
        BY <2>4 DEF TimeoutJudge
      <3>2. Ds
        BY <1>d, <2>4, <2>c, <2>p DEF TimeoutJudge
      <3> QED BY <1>q, <1>r, <1>s, <3>1, <3>2
    <2>5. CASE TimeoutEnds
      <3>1. GivesUp
        BY <1>t, <2>5, TimeoutEndsEffect
      <3>2. Cs /\ UNCHANGED <<isr, drain>>
        BY <1>r, <3>1, AllCounted DEF GivesUp, EndedAt, Cs
      <3> QED BY <1>q, <1>s, <1>d, <3>2
    <2> QED BY <1>11, <2>1, <2>2, <2>3, <2>4, <2>5 DEF TimeoutStep
  <1>12. CASE \E t \in Tags : \/ \E op \in {"read", "write"} : Dispatch(t, op)
                             \/ Start(t) \/ Submit(t) \/ Softirq(t) \/ TimeoutFires(t)
    BY <1>1, <1>2, <1>3, <1>4, <1>5, <1>12, Zenon
  <1>13. CASE \E c \in exec, ok \in BOOLEAN : Execute(c, ok)
    BY <1>6, <1>13, Zenon
  <1>14. CASE \E m \in Members : Die(m) \/ IsrStep(m)
    BY <1>7, <1>8, <1>14, Zenon
  <1>15. CASE \E d \in Callers : DrainStep(d)
    BY <1>9, <1>15, Zenon
  <1> QED BY <1>10, <1>11, <1>12, <1>13, <1>14, <1>15, Zenon DEF Next

\* Commands stay where the requests say they are.
LEMMA CommandedNext == Owes /\ Next => Commanded'
<1> SUFFICES ASSUME Owes, Next PROVE Commanded'
  OBVIOUS
<1>t. Typed
  BY DEF Owes
<1>x. Places
  BY PlacesTyped DEF Owes
<1>e. \A c \in exec : ExecAt(c)
  BY DEF Owes, OweInv, Commanded
<1>u. \A c, f \in exec : c.t = f.t /\ c.m = f.m => c = f
  BY <1>e, <1>t DEF ExecAt, Typed, TypeOK, Commands
<1>p. \A m \in Members, e \in Entries : e \in cq[m] => PostAt(m, e)
  BY DEF Owes, OweInv, Commanded
<1>h. \A m \in Members : isr[m].pc = "consume" => HandAt(m)
  BY DEF Owes, OweInv, Commanded
<1>k. \A t \in Tags : Knows(t)
  BY DEF Owes, OweInv, Told
<1>r. \A t \in Tags : Prepared(t)
  BY DEF Owes, OweInv, Told
<1>w. \A t \in Tags : t \in softirq \/ (\E m \in Members : t \in isr[m].done) => AllIn(t) /\ rq[t].mask # {}
  BY <1>k DEF Owes, OnceInv, Claims, Unowned, Knows
<1>d. \A d \in Callers : DrainAt(d)
  BY DEF Owes, OweInv, Drained
<1>v. Pursued
  BY DEF Owes, OweInv
<1>b. \A t \in Tags : rq[t].unsent # {} => rq[t].st # "idle" \/ AllIn(t)
  BY <1>k DEF Owes, OnceInv, Begun, Mentioned, Knows
<1>l. Late = {}
  BY DEF Owes
<1>g. timer.pc = "net" \/ (timer.pc = "final" /\ Returned) => AllIn(timer.t)
  BY DEF Owes, OweInv, Pursued, ToDrain, Waiting, AllIn, Returned
<1>1. ASSUME NEW t \in Tags, NEW op \in {"read", "write"}, Dispatch(t, op) PROVE Commanded'
  BY <1>t, <1>e, <1>p, <1>h, <1>r, <1>l, <1>1
     DEF Dispatch, MarkFailed, Ended, Held, Lingers, mediaVars, Commanded, Typed,
         TypeOK, Placed, Requests, Handlers, Drains, Timers, Commands, Entries, ExecAt,
         PostAt, HandAt, Prepared
<1>2. ASSUME NEW t \in Tags, Start(t) PROVE Commanded'
  BY <1>t, <1>e, <1>p, <1>h, <1>r, <1>2
     DEF Start, mediaVars, Commanded, Typed, TypeOK, Placed, Requests, Handlers,
         Drains, Timers, Commands, Entries, ExecAt, PostAt, HandAt, Prepared
<1>3. ASSUME NEW t \in Tags, Submit(t) PROVE Commanded'
  <2>1. PICK m \in rq[t].unsent : Sends(t, m)
    BY <1>t, <1>3, SubmitEffect
  <2>2. ASSUME NEW x \in exec' PROVE ExecAt(x)'
    BY <1>x, <1>e, <1>k, <1>b, <2>1
       DEF Sends, Others, Alike, Stands, Counts, Reports, Places, AtWork, ExecAt,
           Knows, AllIn
  <2>3. ASSUME NEW n \in Members, NEW f \in Entries, f \in cq'[n] PROVE PostAt(n, f)'
    BY <1>x, <1>p, <2>1, <2>3
       DEF Sends, Others, Alike, Stands, Counts, Reports, Places, AtWork, PostAt
  <2>4. ASSUME NEW n \in Members, isr'[n].pc = "consume" PROVE HandAt(n)'
    BY <1>x, <1>h, <2>1, <2>4
       DEF Sends, Others, Alike, Stands, Counts, Reports, Places, AtWork, HandAt
  <2> QED BY <2>2, <2>3, <2>4 DEF Commanded
<1>4. ASSUME NEW t \in Tags, Softirq(t) PROVE Commanded'
  <2>1. Completes(t)
    BY <1>t, <1>4, SoftirqEffect
  <2>2. ASSUME NEW x \in exec' PROVE ExecAt(x)'
    BY <1>x, <1>e, <1>w, <2>1
       DEF Completes, FinishedAt, EndedAt, Others, Alike, Stands, Counts, Reports,
           Places, AtWork, ExecAt, AllIn
  <2>3. ASSUME NEW n \in Members, NEW f \in Entries, f \in cq'[n] PROVE PostAt(n, f)'
    BY <1>x, <1>p, <2>1, <2>3
       DEF Completes, FinishedAt, EndedAt, Others, Alike, Stands, Counts, Reports,
           Places, AtWork, PostAt
  <2>4. ASSUME NEW n \in Members, isr'[n].pc = "consume" PROVE HandAt(n)'
    BY <1>x, <1>h, <2>1, <2>4
       DEF Completes, FinishedAt, EndedAt, Others, Alike, Stands, Counts, Reports,
           Places, AtWork, HandAt
  <2> QED BY <2>2, <2>3, <2>4 DEF Commanded
<1>5. ASSUME NEW t \in Tags, TimeoutFires(t) PROVE Commanded'
  BY <1>t, <1>e, <1>p, <1>h, <1>r, <1>5
     DEF TimeoutFires, mediaVars, Idle, Commanded, Typed, TypeOK, Placed, Requests,
         Handlers, Drains, Timers, Commands, Entries, ExecAt, PostAt, HandAt, Prepared
<1>6. ASSUME NEW c \in exec, NEW ok \in BOOLEAN, Execute(c, ok) PROVE Commanded'
  <2>1. Performs(c, ok)
    BY <1>t, <1>6, ExecuteEffect
  <2>2. ASSUME NEW x \in exec' PROVE ExecAt(x)'
    BY <1>x, <1>e, <2>1
       DEF Performs, Others, Alike, Stands, Counts, Reports, Places, AtWork, ExecAt
  <2>3. ASSUME NEW n \in Members, NEW f \in Entries, f \in cq'[n] PROVE PostAt(n, f)'
    BY <1>x, <1>e, <1>p, <1>u, <2>1, <2>3
       DEF Performs, Others, Alike, Stands, Counts, Reports, Entries, Places, AtWork,
           ExecAt, PostAt
  <2>4. ASSUME NEW n \in Members, isr'[n].pc = "consume" PROVE HandAt(n)'
    BY <1>x, <1>h, <1>u, <2>1, <2>4
       DEF Performs, Others, Alike, Stands, Counts, Reports, Places, AtWork, HandAt
  <2> QED BY <2>2, <2>3, <2>4 DEF Commanded
<1>7. ASSUME NEW m \in Members, Die(m) PROVE Commanded'
  BY <1>t, <1>e, <1>p, <1>h, <1>r, <1>7
     DEF Die, Commanded, Typed, TypeOK, Placed, Requests, Handlers, Drains, Timers,
         Commands, Entries, ExecAt, PostAt, HandAt, Prepared
<1>8. ASSUME NEW m \in Members, IsrSeesFatal(m) PROVE Commanded'
  BY <1>t, <1>e, <1>p, <1>h, <1>r, <1>8
     DEF IsrSeesFatal, mediaVars, Commanded, Typed, TypeOK, Placed, Requests, Handlers,
         Drains, Timers, Commands, Entries, ExecAt, PostAt, HandAt, Prepared
<1>9. ASSUME NEW m \in Members, IsrEnter(m) PROVE Commanded'
  BY <1>t, <1>e, <1>p, <1>h, <1>r, <1>9
     DEF IsrEnter, mediaVars, Commanded, Typed, TypeOK, Placed, Requests, Handlers,
         Drains, Timers, Commands, Entries, ExecAt, PostAt, HandAt, Prepared
<1>10. ASSUME NEW m \in Members, IsrTake(m) PROVE Commanded'
  <2>1. PICK e \in cq[m] : Takes(m, e)
    BY <1>t, <1>10, IsrTakeEffect
  <2>2. ASSUME NEW x \in exec' PROVE ExecAt(x)'
    BY <1>x, <1>e, <2>1
       DEF Takes, Others, Alike, Stands, Counts, Reports, OtherHandlers, Places,
           AtWork, ExecAt
  <2>3. ASSUME NEW n \in Members, NEW f \in Entries, f \in cq'[n] PROVE PostAt(n, f)'
    BY <1>x, <1>p, <2>1, <2>3
       DEF Takes, Others, Alike, Stands, Counts, Reports, OtherHandlers, Places,
           AtWork, PostAt
  <2>4. ASSUME NEW n \in Members, isr'[n].pc = "consume" PROVE HandAt(n)'
    BY <1>x, <1>p, <1>h, <2>1, <2>4
       DEF Takes, Others, Alike, Stands, Counts, Reports, OtherHandlers, Places,
           AtWork, PostAt, HandAt
  <2> QED BY <2>2, <2>3, <2>4 DEF Commanded
<1>11. ASSUME NEW m \in Members, IsrConsume(m) PROVE Commanded'
  <2>1. Marks(m)
    BY <1>t, <1>11, IsrConsumeEffect
  <2>2. ASSUME NEW x \in exec' PROVE ExecAt(x)'
    BY <1>x, <1>e, <1>h, <2>1
       DEF Marks, Others, Alike, Stands, Counts, Reports, OtherHandlers, Places,
           AtWork, ExecAt, HandAt
  <2>3. ASSUME NEW n \in Members, NEW f \in Entries, f \in cq'[n] PROVE PostAt(n, f)'
    BY <1>x, <1>p, <2>1, <2>3
       DEF Marks, Others, Alike, Stands, Counts, Reports, OtherHandlers, Places,
           AtWork, PostAt
  <2>4. ASSUME NEW n \in Members, isr'[n].pc = "consume" PROVE HandAt(n)'
    BY <1>x, <1>h, <2>1, <2>4
       DEF Marks, Others, Alike, Stands, Counts, Reports, OtherHandlers, Places,
           AtWork, HandAt
  <2> QED BY <2>2, <2>3, <2>4 DEF Commanded
<1>12. ASSUME NEW m \in Members, IsrDec(m) PROVE Commanded'
  <2>1. Tallies(m)
    BY <1>t, <1>12, IsrDecEffect
  <2>2. ASSUME NEW x \in exec' PROVE ExecAt(x)'
    BY <1>x, <1>e, <2>1
       DEF Tallies, Others, Alike, Stands, Counts, Reports, OtherHandlers, Places,
           AtWork, ExecAt
  <2>3. ASSUME NEW n \in Members, NEW f \in Entries, f \in cq'[n] PROVE PostAt(n, f)'
    BY <1>x, <1>p, <2>1, <2>3
       DEF Tallies, Others, Alike, Stands, Counts, Reports, OtherHandlers, Places,
           AtWork, PostAt
  <2>4. ASSUME NEW n \in Members, isr'[n].pc = "consume" PROVE HandAt(n)'
    BY <1>x, <1>h, <2>1, <2>4
       DEF Tallies, Others, Alike, Stands, Counts, Reports, OtherHandlers, Places,
           AtWork, HandAt
  <2> QED BY <2>2, <2>3, <2>4 DEF Commanded
<1>13. ASSUME NEW m \in Members, IsrClaim(m) PROVE Commanded'
  <2>1. Wins(m)
    BY <1>t, <1>13, IsrClaimEffect
  <2>2. ASSUME NEW x \in exec' PROVE ExecAt(x)'
    BY <1>x, <1>e, <2>1
       DEF Wins, ClaimedAt, Others, Alike, Stands, Counts, Reports, OtherHandlers,
           Places, AtWork, ExecAt
  <2>3. ASSUME NEW n \in Members, NEW f \in Entries, f \in cq'[n] PROVE PostAt(n, f)'
    BY <1>x, <1>p, <2>1, <2>3
       DEF Wins, ClaimedAt, Others, Alike, Stands, Counts, Reports, OtherHandlers,
           Places, AtWork, PostAt
  <2>4. ASSUME NEW n \in Members, isr'[n].pc = "consume" PROVE HandAt(n)'
    BY <1>x, <1>h, <2>1, <2>4
       DEF Wins, ClaimedAt, Others, Alike, Stands, Counts, Reports, OtherHandlers,
           Places, AtWork, HandAt
  <2> QED BY <2>2, <2>3, <2>4 DEF Commanded
<1>14. ASSUME NEW m \in Members, IsrLeave(m) PROVE Commanded'
  BY <1>t, <1>e, <1>p, <1>h, <1>r, <1>14
     DEF IsrLeave, mediaVars, Commanded, Typed, TypeOK, Placed, Requests, Handlers,
         Drains, Timers, Commands, Entries, ExecAt, PostAt, HandAt, Prepared
<1>15. ASSUME NEW m \in Members, IsrEnd(m) PROVE Commanded'
  <2>1. Flushes(m)
    BY <1>t, <1>15, IsrEndEffect
  <2>2. ASSUME NEW x \in exec' PROVE ExecAt(x)'
    BY <1>x, <1>e, <1>w, <2>1
       DEF Flushes, FinishedAt, EndedAt, Others, Alike, Stands, Counts, Reports,
           OtherHandlers, Places, AtWork, ExecAt, AllIn
  <2>3. ASSUME NEW n \in Members, NEW f \in Entries, f \in cq'[n] PROVE PostAt(n, f)'
    BY <1>x, <1>p, <2>1, <2>3
       DEF Flushes, FinishedAt, EndedAt, Others, Alike, Stands, Counts, Reports,
           OtherHandlers, Places, AtWork, PostAt
  <2>4. ASSUME NEW n \in Members, isr'[n].pc = "consume" PROVE HandAt(n)'
    BY <1>x, <1>h, <2>1, <2>4
       DEF Flushes, FinishedAt, EndedAt, Others, Alike, Stands, Counts, Reports,
           OtherHandlers, Places, AtWork, HandAt
  <2> QED BY <2>2, <2>3, <2>4 DEF Commanded
<1>16. ASSUME NEW d \in Callers, DrainBegin(d) PROVE Commanded'
  BY <1>t, <1>e, <1>p, <1>h, <1>r, <1>16
     DEF DrainBegin, mediaVars, Commanded, Typed, TypeOK, Placed, Requests, Handlers,
         Drains, Timers, Commands, Entries, ExecAt, PostAt, HandAt, Prepared
<1>17. ASSUME NEW d \in Callers, DrainDisable(d) PROVE Commanded'
  BY <1>t, <1>e, <1>p, <1>h, <1>r, <1>17
     DEF DrainDisable, Commanded, Typed, TypeOK, Placed, Requests, Handlers, Drains,
         Timers, Commands, Entries, ExecAt, PostAt, HandAt, Prepared
<1>18. ASSUME NEW d \in Callers, DrainVisit(d) PROVE Commanded'
  <2>1. Looks(d)
    BY <1>t, <1>18, DrainVisitEffect
  <2>2. ASSUME NEW x \in exec' PROVE ExecAt(x)'
    BY <1>x, <1>e, <2>1 DEF Looks, OtherDrains, Places, AtWork, ExecAt
  <2>3. ASSUME NEW n \in Members, NEW f \in Entries, f \in cq'[n] PROVE PostAt(n, f)'
    BY <1>x, <1>p, <2>1, <2>3 DEF Looks, OtherDrains, Places, AtWork, PostAt
  <2>4. ASSUME NEW n \in Members, isr'[n].pc = "consume" PROVE HandAt(n)'
    BY <1>x, <1>h, <2>1, <2>4 DEF Looks, OtherDrains, Places, AtWork, HandAt
  <2> QED BY <2>2, <2>3, <2>4 DEF Commanded
<1>19. ASSUME NEW d \in Callers, DrainAck(d) PROVE Commanded'
  <2>1. Raises(d)
    BY <1>t, <1>19, DrainAckRaises
  <2>2. ASSUME NEW x \in exec' PROVE ExecAt(x)'
    BY <1>x, <1>e, <1>d, <2>1
       DEF Raises, Raised, Alike, Stands, Counts, Reports, Places, AtWork, ExecAt,
           DrainAt, InUse
  <2>3. ASSUME NEW n \in Members, NEW f \in Entries, f \in cq'[n] PROVE PostAt(n, f)'
    BY <1>x, <1>p, <2>1, <2>3
       DEF Raises, Raised, Alike, Stands, Counts, Reports, Places, AtWork, PostAt
  <2>4. ASSUME NEW n \in Members, isr'[n].pc = "consume" PROVE HandAt(n)'
    BY <1>x, <1>h, <2>1, <2>4
       DEF Raises, Raised, Alike, Stands, Counts, Reports, Places, AtWork, HandAt
  <2> QED BY <2>2, <2>3, <2>4 DEF Commanded
<1>20. ASSUME NEW d \in Callers, DrainDec(d) PROVE Commanded'
  <2>1. DrainTallies(d)
    BY <1>t, <1>20, DrainDecEffect
  <2>2. ASSUME NEW x \in exec' PROVE ExecAt(x)'
    BY <1>x, <1>e, <2>1
       DEF DrainTallies, Others, Alike, Stands, Counts, Reports, OtherDrains, Places,
           AtWork, ExecAt
  <2>3. ASSUME NEW n \in Members, NEW f \in Entries, f \in cq'[n] PROVE PostAt(n, f)'
    BY <1>x, <1>p, <2>1, <2>3
       DEF DrainTallies, Others, Alike, Stands, Counts, Reports, OtherDrains, Places,
           AtWork, PostAt
  <2>4. ASSUME NEW n \in Members, isr'[n].pc = "consume" PROVE HandAt(n)'
    BY <1>x, <1>h, <2>1, <2>4
       DEF DrainTallies, Others, Alike, Stands, Counts, Reports, OtherDrains, Places,
           AtWork, HandAt
  <2> QED BY <2>2, <2>3, <2>4 DEF Commanded
<1>21. ASSUME NEW d \in Callers, DrainClaim(d) PROVE Commanded'
  <2>1. DrainWins(d)
    BY <1>t, <1>21, DrainClaimEffect
  <2>2. ASSUME NEW x \in exec' PROVE ExecAt(x)'
    BY <1>x, <1>e, <2>1
       DEF DrainWins, ClaimedAt, Others, Alike, Stands, Counts, Reports, OtherDrains,
           Places, AtWork, ExecAt
  <2>3. ASSUME NEW n \in Members, NEW f \in Entries, f \in cq'[n] PROVE PostAt(n, f)'
    BY <1>x, <1>p, <2>1, <2>3
       DEF DrainWins, ClaimedAt, Others, Alike, Stands, Counts, Reports, OtherDrains,
           Places, AtWork, PostAt
  <2>4. ASSUME NEW n \in Members, isr'[n].pc = "consume" PROVE HandAt(n)'
    BY <1>x, <1>h, <2>1, <2>4
       DEF DrainWins, ClaimedAt, Others, Alike, Stands, Counts, Reports, OtherDrains,
           Places, AtWork, HandAt
  <2> QED BY <2>2, <2>3, <2>4 DEF Commanded
<1>22. CASE Degrade
  BY <1>t, <1>e, <1>p, <1>h, <1>r, <1>22
     DEF Degrade, mediaVars, Commanded, Typed, TypeOK, Placed, Requests, Handlers,
         Drains, Timers, Commands, Entries, ExecAt, PostAt, HandAt, Prepared
<1>23. CASE TimeoutCheck
  BY <1>t, <1>e, <1>p, <1>h, <1>r, <1>23
     DEF TimeoutCheck, mediaVars, CallDrain, Idle, Commanded, Typed, TypeOK, Placed,
         Requests, Handlers, Drains, Timers, Commands, Entries, ExecAt, PostAt, HandAt,
         Prepared
<1>24. CASE TimeoutDrained
  <2>1. (\A u \in Tags : Alike(u)) /\ UNCHANGED <<live, hw, exec, cq, softirq, isr>>
    BY <1>t, <1>24, TimeoutDrainedEffect
  <2>2. ASSUME NEW x \in exec' PROVE ExecAt(x)'
    BY <1>x, <1>e, <2>1 DEF Alike, Stands, Counts, Reports, Places, AtWork, ExecAt
  <2>3. ASSUME NEW n \in Members, NEW f \in Entries, f \in cq'[n] PROVE PostAt(n, f)'
    BY <1>x, <1>p, <2>1, <2>3
       DEF Alike, Stands, Counts, Reports, Places, AtWork, PostAt
  <2>4. ASSUME NEW n \in Members, isr'[n].pc = "consume" PROVE HandAt(n)'
    BY <1>x, <1>h, <2>1, <2>4
       DEF Alike, Stands, Counts, Reports, Places, AtWork, HandAt
  <2> QED BY <2>2, <2>3, <2>4 DEF Commanded
<1>25. CASE TimeoutAbort
  BY <1>t, <1>e, <1>p, <1>h, <1>r, <1>25
     DEF TimeoutAbort, mediaVars, Commanded, Typed, TypeOK, Placed, Requests, Handlers,
         Drains, Timers, Commands, Entries, ExecAt, PostAt, HandAt, Prepared
<1>26. CASE TimeoutJudge
  BY <1>t, <1>e, <1>p, <1>h, <1>r, <1>26
     DEF TimeoutJudge, mediaVars, CallDrain, Idle, Stuck, Commanded, Typed, TypeOK,
         Placed, Requests, Handlers, Drains, Timers, Commands, Entries, ExecAt, PostAt,
         HandAt, Prepared
<1>27. CASE TimeoutEnds
  <2>1. GivesUp
    BY <1>t, <1>27, TimeoutEndsEffect
  <2>2. ASSUME NEW x \in exec' PROVE ExecAt(x)'
    BY <1>x, <1>e, <1>g, <1>v, <2>1
       DEF GivesUp, EndedAt, Others, Alike, Stands, Counts, Reports, Places, AtWork,
           ExecAt, AllIn, Pursued, Returned
  <2>3. ASSUME NEW n \in Members, NEW f \in Entries, f \in cq'[n] PROVE PostAt(n, f)'
    BY <1>x, <1>p, <2>1, <2>3
       DEF GivesUp, EndedAt, Others, Alike, Stands, Counts, Reports, Places, AtWork,
           PostAt
  <2>4. ASSUME NEW n \in Members, isr'[n].pc = "consume" PROVE HandAt(n)'
    BY <1>x, <1>h, <2>1, <2>4
       DEF GivesUp, EndedAt, Others, Alike, Stands, Counts, Reports, Places, AtWork,
           HandAt
  <2> QED BY <2>2, <2>3, <2>4 DEF Commanded
<1> QED
  BY <1>1, <1>2, <1>3, <1>4, <1>5, <1>6, <1>7, <1>8, <1>9, <1>10, <1>11, <1>12, <1>13,
     <1>14, <1>15, <1>16, <1>17, <1>18, <1>19, <1>20, <1>21, <1>22, <1>23, <1>24,
     <1>25, <1>26, <1>27 DEF Next, IsrStep, DrainStep, TimeoutStep

\* The requests know of their members what happened to them.
LEMMA ToldNext == Owes /\ Next => Told'
<1> SUFFICES ASSUME Owes, Next PROVE Told'
  OBVIOUS
<1>t. Typed
  BY DEF Owes
<1>x. Places
  BY PlacesTyped DEF Owes
<1>e. \A c \in exec : ExecAt(c)
  BY DEF Owes, OweInv, Commanded
<1>h. \A m \in Members : isr[m].pc = "consume" => HandAt(m)
  BY DEF Owes, OweInv, Commanded
<1>k. \A t \in Tags : Knows(t)
  BY DEF Owes, OweInv, Told
<1>r. \A t \in Tags : Prepared(t)
  BY DEF Owes, OweInv, Told
<1>w. \A t \in Tags : t \in softirq \/ (\E m \in Members : t \in isr[m].done) => AllIn(t) /\ rq[t].mask # {}
  BY <1>k DEF Owes, OnceInv, Claims, Unowned, Knows
<1>i. \A m \in Members : isr[m].pc = "claim" => AllIn(isr[m].t)
  BY DEF Owes, OweInv, Drained
<1>d. \A d \in Callers : DrainAt(d)
  BY DEF Owes, OweInv, Drained
<1>l. Late = {}
  BY DEF Owes
<1>g. timer.pc = "net" \/ (timer.pc = "final" /\ Returned) => AllIn(timer.t)
  BY DEF Owes, OweInv, Pursued, ToDrain, Waiting, AllIn, Returned
<1>c. \A t \in Tags : Begun(t)
  BY DEF Owes, OnceInv
<1>1. ASSUME NEW t \in Tags, NEW op \in {"read", "write"}, Dispatch(t, op) PROVE Told'
  BY <1>t, <1>k, <1>r, <1>e, <1>l, <1>1
     DEF Dispatch, MarkFailed, Ended, Held, Lingers, mediaVars, Told, AllIn, Typed,
         TypeOK, Placed, Requests, Handlers, Drains, Timers, Commands, Entries, Knows,
         Prepared, ExecAt
<1>2. ASSUME NEW t \in Tags, Start(t) PROVE Told'
  BY <1>t, <1>k, <1>r, <1>e, <1>l, <1>2
     DEF Start, mediaVars, Told, AllIn, Typed, TypeOK, Placed, Requests, Handlers,
         Drains, Timers, Commands, Entries, Knows, Prepared, ExecAt
<1>3. ASSUME NEW t \in Tags, Submit(t) PROVE Told'
  <2>1. PICK m \in rq[t].unsent : Sends(t, m)
    BY <1>t, <1>3, SubmitEffect
  <2>2. ASSUME NEW u \in Tags PROVE Knows(u)'
    BY <1>x, <1>k, <2>1
       DEF Sends, Others, Alike, Stands, Counts, Reports, AllIn, Places, AtWork, Knows
  <2>3. ASSUME NEW u \in Tags PROVE Prepared(u)'
    BY <1>x, <1>r, <2>1
       DEF Sends, Others, Alike, Stands, Counts, Reports, Places, AtWork, Prepared
  <2> QED BY <2>2, <2>3 DEF Told
<1>4. ASSUME NEW t \in Tags, Softirq(t) PROVE Told'
  <2>1. Completes(t)
    BY <1>t, <1>4, SoftirqEffect
  <2>2. ASSUME NEW u \in Tags PROVE Knows(u)'
    BY <1>x, <1>k, <1>w, <2>1
       DEF Completes, FinishedAt, EndedAt, Others, Alike, Stands, Counts, Reports,
           Places, AtWork, Knows, AllIn
  <2>3. ASSUME NEW u \in Tags PROVE Prepared(u)'
    BY <1>x, <1>r, <2>1
       DEF Completes, FinishedAt, EndedAt, Others, Alike, Stands, Counts, Reports,
           Places, AtWork, Prepared
  <2> QED BY <2>2, <2>3 DEF Told
<1>5. ASSUME NEW t \in Tags, TimeoutFires(t) PROVE Told'
  BY <1>t, <1>k, <1>r, <1>e, <1>l, <1>5
     DEF TimeoutFires, mediaVars, Idle, Told, AllIn, Typed, TypeOK, Placed, Requests,
         Handlers, Drains, Timers, Commands, Entries, Knows, Prepared, ExecAt
<1>6. ASSUME NEW c \in exec, NEW ok \in BOOLEAN, Execute(c, ok) PROVE Told'
  <2>1. Performs(c, ok)
    BY <1>t, <1>6, ExecuteEffect
  <2>2. ASSUME NEW u \in Tags PROVE Knows(u)'
    BY <1>x, <1>k, <2>1
       DEF Performs, Others, Alike, Stands, Counts, Reports, AllIn, Places, AtWork,
           Knows
  <2>3. ASSUME NEW u \in Tags PROVE Prepared(u)'
    BY <1>x, <1>r, <2>1
       DEF Performs, Others, Alike, Stands, Counts, Reports, Places, AtWork, Prepared
  <2> QED BY <2>2, <2>3 DEF Told
<1>7. ASSUME NEW m \in Members, Die(m) PROVE Told'
  BY <1>t, <1>k, <1>r, <1>e, <1>l, <1>7
     DEF Die, Told, AllIn, Typed, TypeOK, Placed, Requests, Handlers, Drains, Timers,
         Commands, Entries, Knows, Prepared, ExecAt
<1>8. ASSUME NEW m \in Members, IsrSeesFatal(m) PROVE Told'
  BY <1>t, <1>k, <1>r, <1>e, <1>l, <1>8
     DEF IsrSeesFatal, mediaVars, Told, AllIn, Typed, TypeOK, Placed, Requests,
         Handlers, Drains, Timers, Commands, Entries, Knows, Prepared, ExecAt
<1>9. ASSUME NEW m \in Members, IsrEnter(m) PROVE Told'
  BY <1>t, <1>k, <1>r, <1>e, <1>l, <1>9
     DEF IsrEnter, mediaVars, Told, AllIn, Typed, TypeOK, Placed, Requests, Handlers,
         Drains, Timers, Commands, Entries, Knows, Prepared, ExecAt
<1>10. ASSUME NEW m \in Members, IsrTake(m) PROVE Told'
  <2>1. PICK e \in cq[m] : Takes(m, e)
    BY <1>t, <1>10, IsrTakeEffect
  <2>2. ASSUME NEW u \in Tags PROVE Knows(u)'
    <3>1. CASE u # e.t
      BY <1>k, <2>1, <2>2, <3>1
         DEF Takes, Others, Alike, Stands, Counts, Reports, Knows, AllIn
    <3>2. CASE u = e.t
      <4>1. /\ rq'[u].mask = rq[u].mask /\ rq'[u].unsent = rq[u].unsent
            /\ rq'[u].acked = rq[u].acked /\ rq'[u].wrote = rq[u].wrote
            /\ rq'[u].st = rq[u].st /\ rq'[u].claimed = rq[u].claimed
            /\ rq[u].err \subseteq rq'[u].err /\ hw' = hw
        BY <2>1, <3>2 DEF Takes, Stands, Counts
      <4>2. Knows(u)
        BY <1>k
      <4>3. rq'[u].err # {} => rq'[u].sc
        <5>1. CASE e.ok
          <6>1. rq'[u].err = rq[u].err /\ rq'[u].sc = (rq[u].sc \/ ~e.ok)
            BY <2>1, <3>2, <5>1 DEF Takes
          <6>2. rq[u].err # {} => rq[u].sc
            BY <4>2 DEF Knows
          <6> QED BY <6>1, <6>2
        <5>2. CASE ~e.ok
          BY <2>1, <3>2, <5>2 DEF Takes
        <5> QED BY <5>1, <5>2
      <4> QED BY <4>1, <4>2, <4>3 DEF Knows, AllIn
    <3> QED BY <3>1, <3>2
  <2>3. ASSUME NEW u \in Tags PROVE Prepared(u)'
    BY <1>x, <1>r, <2>1
       DEF Takes, Others, Alike, Stands, Counts, Reports, OtherHandlers, Places,
           AtWork, Prepared
  <2> QED BY <2>2, <2>3 DEF Told
<1>11. ASSUME NEW m \in Members, IsrConsume(m) PROVE Told'
  <2>1. Marks(m)
    BY <1>t, <1>11, IsrConsumeEffect
  <2>2. ASSUME NEW u \in Tags PROVE Knows(u)'
    BY <1>x, <1>k, <1>h, <2>1
       DEF Marks, Others, Alike, Stands, Counts, Reports, OtherHandlers, AllIn, Places,
           AtWork, Knows, HandAt
  <2>3. ASSUME NEW u \in Tags PROVE Prepared(u)'
    BY <1>x, <1>r, <2>1
       DEF Marks, Others, Alike, Stands, Counts, Reports, OtherHandlers, Places,
           AtWork, Prepared
  <2> QED BY <2>2, <2>3 DEF Told
<1>12. ASSUME NEW m \in Members, IsrDec(m) PROVE Told'
  <2>1. Tallies(m)
    BY <1>t, <1>12, IsrDecEffect
  <2>2. ASSUME NEW u \in Tags PROVE Knows(u)'
    BY <1>x, <1>k, <2>1
       DEF Tallies, Others, Alike, Stands, Counts, Reports, OtherHandlers, AllIn,
           Places, AtWork, Knows
  <2>3. ASSUME NEW u \in Tags PROVE Prepared(u)'
    BY <1>x, <1>r, <2>1
       DEF Tallies, Others, Alike, Stands, Counts, Reports, OtherHandlers, Places,
           AtWork, Prepared
  <2> QED BY <2>2, <2>3 DEF Told
<1>13. ASSUME NEW m \in Members, IsrClaim(m) PROVE Told'
  <2>1. Wins(m)
    BY <1>t, <1>13, IsrClaimEffect
  <2>2. ASSUME NEW u \in Tags PROVE Knows(u)'
    <3>1. CASE Alike(u)
      BY <1>k, <2>1, <3>1 DEF Wins, Alike, Stands, Counts, Reports, Knows, AllIn
    <3>2. CASE u = isr[m].t /\ ClaimedAt(u) /\ ~rq[u].claimed
      <4>1. AllIn(u)
        BY <1>i, <2>1, <3>2 DEF Wins
      <4>2. rq[u].mask # {}
        BY <1>c, <1>k, <2>1, <3>2 DEF Wins, Begun, Mentioned, AtWork, Knows
      <4>3. Knows(u) /\ hw' = hw
        BY <1>k, <2>1 DEF Wins
      <4>4. /\ rq'[u].unsent = rq[u].unsent /\ rq'[u].mask = rq[u].mask
            /\ rq'[u].acked = rq[u].acked /\ rq'[u].err = rq[u].err
            /\ rq'[u].wrote = rq[u].wrote /\ rq'[u].sc = rq[u].sc
        BY <3>2 DEF ClaimedAt, Counts, Reports
      <4> QED BY <4>1, <4>2, <4>3, <4>4 DEF Knows, AllIn
    <3> QED BY <2>1, <3>1, <3>2 DEF Wins, ClaimedAt, Others
  <2>3. ASSUME NEW u \in Tags PROVE Prepared(u)'
    BY <1>x, <1>r, <2>1
       DEF Wins, ClaimedAt, Others, Alike, Stands, Counts, Reports, OtherHandlers,
           Places, AtWork, Prepared
  <2> QED BY <2>2, <2>3 DEF Told
<1>14. ASSUME NEW m \in Members, IsrLeave(m) PROVE Told'
  BY <1>t, <1>k, <1>r, <1>e, <1>l, <1>14
     DEF IsrLeave, mediaVars, Told, AllIn, Typed, TypeOK, Placed, Requests, Handlers,
         Drains, Timers, Commands, Entries, Knows, Prepared, ExecAt
<1>15. ASSUME NEW m \in Members, IsrEnd(m) PROVE Told'
  <2>1. Flushes(m)
    BY <1>t, <1>15, IsrEndEffect
  <2>2. ASSUME NEW u \in Tags PROVE Knows(u)'
    BY <1>x, <1>k, <1>w, <2>1
       DEF Flushes, FinishedAt, EndedAt, Others, Alike, Stands, Counts, Reports,
           OtherHandlers, Places, AtWork, Knows, AllIn
  <2>3. ASSUME NEW u \in Tags PROVE Prepared(u)'
    BY <1>x, <1>r, <2>1
       DEF Flushes, FinishedAt, EndedAt, Others, Alike, Stands, Counts, Reports,
           OtherHandlers, Places, AtWork, Prepared
  <2> QED BY <2>2, <2>3 DEF Told
<1>16. ASSUME NEW d \in Callers, DrainBegin(d) PROVE Told'
  BY <1>t, <1>k, <1>r, <1>e, <1>l, <1>16
     DEF DrainBegin, mediaVars, Told, AllIn, Typed, TypeOK, Placed, Requests, Handlers,
         Drains, Timers, Commands, Entries, Knows, Prepared, ExecAt
<1>17. ASSUME NEW d \in Callers, DrainDisable(d) PROVE Told'
  BY <1>t, <1>k, <1>r, <1>e, <1>l, <1>17
     DEF DrainDisable, Told, AllIn, Typed, TypeOK, Placed, Requests, Handlers, Drains,
         Timers, Commands, Entries, Knows, Prepared, ExecAt
<1>18. ASSUME NEW d \in Callers, DrainVisit(d) PROVE Told'
  <2>1. Looks(d)
    BY <1>t, <1>18, DrainVisitEffect
  <2>2. ASSUME NEW u \in Tags PROVE Knows(u)'
    BY <1>x, <1>k, <2>1 DEF Looks, OtherDrains, AllIn, Places, AtWork, Knows
  <2>3. ASSUME NEW u \in Tags PROVE Prepared(u)'
    BY <1>x, <1>r, <2>1 DEF Looks, OtherDrains, Places, AtWork, Prepared
  <2> QED BY <2>2, <2>3 DEF Told
<1>19. ASSUME NEW d \in Callers, DrainAck(d) PROVE Told'
  <2>1. Raises(d)
    BY <1>t, <1>19, DrainAckRaises
  <2>2. ASSUME NEW u \in Tags PROVE Knows(u)'
    BY <1>x, <1>k, <1>d, <2>1
       DEF Raises, Raised, Alike, Stands, Counts, Reports, AllIn, Places, AtWork,
           Knows, DrainAt, InUse
  <2>3. ASSUME NEW u \in Tags PROVE Prepared(u)'
    BY <1>x, <1>r, <1>d, <2>1
       DEF Raises, Raised, Alike, Stands, Counts, Reports, Places, AtWork, Prepared,
           DrainAt, InUse
  <2> QED BY <2>2, <2>3 DEF Told
<1>20. ASSUME NEW d \in Callers, DrainDec(d) PROVE Told'
  <2>1. DrainTallies(d)
    BY <1>t, <1>20, DrainDecEffect
  <2>2. ASSUME NEW u \in Tags PROVE Knows(u)'
    BY <1>x, <1>k, <2>1
       DEF DrainTallies, Others, Alike, Stands, Counts, Reports, OtherDrains, AllIn,
           Places, AtWork, Knows
  <2>3. ASSUME NEW u \in Tags PROVE Prepared(u)'
    BY <1>x, <1>r, <2>1
       DEF DrainTallies, Others, Alike, Stands, Counts, Reports, OtherDrains, Places,
           AtWork, Prepared
  <2> QED BY <2>2, <2>3 DEF Told
<1>21. ASSUME NEW d \in Callers, DrainClaim(d) PROVE Told'
  <2>1. DrainWins(d)
    BY <1>t, <1>21, DrainClaimEffect
  <2>2. ASSUME NEW u \in Tags PROVE Knows(u)'
    <3>1. CASE UNCHANGED rq
      BY <1>k, <2>1, <3>1 DEF DrainWins, Knows, AllIn
    <3>2. CASE u # drain[d].t /\ Alike(u)
      BY <1>k, <2>1, <3>2 DEF DrainWins, Alike, Stands, Counts, Reports, Knows, AllIn
    <3>3. CASE u = drain[d].t /\ ClaimedAt(u) /\ drain[d].last /\ ~rq[u].claimed
      <4>1. AllIn(u) /\ InUse(u)
        BY <1>d, <2>1, <3>3 DEF DrainWins, DrainAt
      <4>2. rq[u].mask # {}
        BY <1>k, <3>3, <4>1 DEF InUse, Knows
      <4>3. Knows(u) /\ hw' = hw
        BY <1>k, <2>1 DEF DrainWins
      <4>4. /\ rq'[u].unsent = rq[u].unsent /\ rq'[u].mask = rq[u].mask
            /\ rq'[u].acked = rq[u].acked /\ rq'[u].err = rq[u].err
            /\ rq'[u].wrote = rq[u].wrote /\ rq'[u].sc = rq[u].sc
        BY <3>3 DEF ClaimedAt, Counts, Reports
      <4> QED BY <4>1, <4>2, <4>3, <4>4 DEF Knows, AllIn
    <3> QED BY <2>1, <3>1, <3>2, <3>3 DEF DrainWins, ClaimedAt, Others
  <2>3. ASSUME NEW u \in Tags PROVE Prepared(u)'
    BY <1>x, <1>r, <2>1
       DEF DrainWins, ClaimedAt, Others, Alike, Stands, Counts, Reports, OtherDrains,
           Places, AtWork, Prepared
  <2> QED BY <2>2, <2>3 DEF Told
<1>22. CASE Degrade
  BY <1>t, <1>k, <1>r, <1>e, <1>l, <1>22
     DEF Degrade, mediaVars, Told, AllIn, Typed, TypeOK, Placed, Requests, Handlers,
         Drains, Timers, Commands, Entries, Knows, Prepared, ExecAt
<1>23. CASE TimeoutCheck
  BY <1>t, <1>k, <1>r, <1>e, <1>l, <1>23
     DEF TimeoutCheck, mediaVars, CallDrain, Idle, Told, AllIn, Typed, TypeOK, Placed,
         Requests, Handlers, Drains, Timers, Commands, Entries, Knows, Prepared, ExecAt
<1>24. CASE TimeoutDrained
  <2>1. (\A u \in Tags : Alike(u)) /\ UNCHANGED <<live, hw, exec, cq, softirq, isr>>
    BY <1>t, <1>24, TimeoutDrainedEffect
  <2>2. ASSUME NEW u \in Tags PROVE Knows(u)'
    BY <1>x, <1>k, <2>1
       DEF Alike, Stands, Counts, Reports, AllIn, Places, AtWork, Knows
  <2>3. ASSUME NEW u \in Tags PROVE Prepared(u)'
    BY <1>x, <1>r, <2>1 DEF Alike, Stands, Counts, Reports, Places, AtWork, Prepared
  <2> QED BY <2>2, <2>3 DEF Told
<1>25. CASE TimeoutAbort
  BY <1>t, <1>k, <1>r, <1>e, <1>l, <1>25
     DEF TimeoutAbort, mediaVars, Told, AllIn, Typed, TypeOK, Placed, Requests,
         Handlers, Drains, Timers, Commands, Entries, Knows, Prepared, ExecAt
<1>26. CASE TimeoutJudge
  BY <1>t, <1>k, <1>r, <1>e, <1>l, <1>26
     DEF TimeoutJudge, mediaVars, CallDrain, Idle, Stuck, Told, AllIn, Typed, TypeOK,
         Placed, Requests, Handlers, Drains, Timers, Commands, Entries, Knows,
         Prepared, ExecAt
<1>27. CASE TimeoutEnds
  <2>1. GivesUp
    BY <1>t, <1>27, TimeoutEndsEffect
  <2>2. ASSUME NEW u \in Tags PROVE Knows(u)'
    BY <1>x, <1>k, <1>g, <2>1
       DEF GivesUp, EndedAt, Others, Alike, Stands, Counts, Reports, Places, AtWork,
           Knows, AllIn
  <2>3. ASSUME NEW u \in Tags PROVE Prepared(u)'
    BY <1>x, <1>r, <2>1
       DEF GivesUp, EndedAt, Others, Alike, Stands, Counts, Reports, Places, AtWork,
           Prepared
  <2> QED BY <2>2, <2>3 DEF Told
<1> QED
  BY <1>1, <1>2, <1>3, <1>4, <1>5, <1>6, <1>7, <1>8, <1>9, <1>10, <1>11, <1>12, <1>13,
     <1>14, <1>15, <1>16, <1>17, <1>18, <1>19, <1>20, <1>21, <1>22, <1>23, <1>24,
     <1>25, <1>26, <1>27 DEF Next, IsrStep, DrainStep, TimeoutStep

\* A finished request that ended OK was written by a member that stays live.
LEMMA FinishDurable ==
  ASSUME NEW t \in Tags, FinishedAt(t), AllIn(t), rq[t].mask # {},
         \A u \in Tags : Knows(u), \A u \in Tags : DurableAt(u),
         NEW u \in Tags
  PROVE  DurableAt(u)'
  <1>1. CASE u # t
    BY <1>1 DEF FinishedAt, EndedAt, Others, Alike, Stands, Counts, Reports, DurableAt
  <1>2. CASE u = t
    <2>1. Knows(t) /\ live' = live \ (IF rq[t].sc THEN rq[t].err ELSE {})
      BY DEF FinishedAt
    <2>2. /\ rq'[t].op = rq[t].op /\ rq'[t].mask = rq[t].mask
          /\ rq'[t].wrote = rq[t].wrote /\ rq'[t].result = FinishStatus(t)
      BY DEF FinishedAt, EndedAt, Counts
    <2>3. CASE ~rq[t].sc
      BY <1>2, <2>1, <2>2, <2>3 DEF Knows, AllIn, DurableAt
    <2>4. CASE rq[t].sc
      BY <1>2, <2>1, <2>2, <2>4 DEF Knows, AllIn, DurableAt, FinishStatus
    <2> QED BY <2>3, <2>4
  <1> QED BY <1>1, <1>2

\* OK stays durable: no member joins the live mask here, and an end fails those that
\* erred.
LEMMA DurableNext == Owes /\ Next => OkIsDurable'
<1> SUFFICES ASSUME Owes, Next PROVE OkIsDurable'
  OBVIOUS
<1>t. Typed
  BY DEF Owes
<1>x. Places
  BY PlacesTyped DEF Owes
<1>k. \A t \in Tags : Knows(t)
  BY DEF Owes, OweInv, Told
<1>w. \A t \in Tags : t \in softirq \/ (\E m \in Members : t \in isr[m].done) => AllIn(t) /\ rq[t].mask # {}
  BY <1>k DEF Owes, OnceInv, Claims, Unowned, Knows
<1>o. \A t \in Tags : DurableAt(t)
  BY DEF Owes, OweInv, OkIsDurable, DurableAt
<1>1. ASSUME NEW t \in Tags, NEW op \in {"read", "write"}, Dispatch(t, op) PROVE OkIsDurable'
  BY <1>t, <1>o, <1>1
     DEF Dispatch, MarkFailed, Ended, Held, Lingers, mediaVars, OkIsDurable, Typed,
         TypeOK, Placed, Requests, Handlers, Drains, Timers, Commands, Entries,
         DurableAt
<1>2. ASSUME NEW t \in Tags, Start(t) PROVE OkIsDurable'
  BY <1>t, <1>o, <1>2
     DEF Start, mediaVars, OkIsDurable, Typed, TypeOK, Placed, Requests, Handlers,
         Drains, Timers, Commands, Entries, DurableAt
<1>3. ASSUME NEW t \in Tags, Submit(t) PROVE OkIsDurable'
  <2>1. PICK m \in rq[t].unsent : Sends(t, m)
    BY <1>t, <1>3, SubmitEffect
  <2>2. ASSUME NEW u \in Tags PROVE DurableAt(u)'
    BY <1>x, <1>o, <2>1
       DEF Sends, Others, Alike, Stands, Counts, Reports, Places, AtWork, DurableAt
  <2> QED BY <2>2 DEF OkIsDurable, DurableAt
<1>4. ASSUME NEW t \in Tags, Softirq(t) PROVE OkIsDurable'
  <2>1. Completes(t)
    BY <1>t, <1>4, SoftirqEffect
  <2>2. ASSUME NEW u \in Tags PROVE DurableAt(u)'
    <3>1. FinishedAt(t) /\ AllIn(t) /\ rq[t].mask # {}
      BY <1>w, <2>1 DEF Completes
    <3> QED BY <1>o, <1>k, <3>1, FinishDurable
  <2> QED BY <2>2 DEF OkIsDurable, DurableAt
<1>5. ASSUME NEW t \in Tags, TimeoutFires(t) PROVE OkIsDurable'
  BY <1>t, <1>o, <1>5
     DEF TimeoutFires, mediaVars, Idle, OkIsDurable, Typed, TypeOK, Placed, Requests,
         Handlers, Drains, Timers, Commands, Entries, DurableAt
<1>6. ASSUME NEW c \in exec, NEW ok \in BOOLEAN, Execute(c, ok) PROVE OkIsDurable'
  <2>1. Performs(c, ok)
    BY <1>t, <1>6, ExecuteEffect
  <2>2. ASSUME NEW u \in Tags PROVE DurableAt(u)'
    BY <1>x, <1>o, <2>1
       DEF Performs, Others, Alike, Stands, Counts, Reports, Places, AtWork, DurableAt
  <2> QED BY <2>2 DEF OkIsDurable, DurableAt
<1>7. ASSUME NEW m \in Members, Die(m) PROVE OkIsDurable'
  BY <1>t, <1>o, <1>7
     DEF Die, OkIsDurable, Typed, TypeOK, Placed, Requests, Handlers, Drains, Timers,
         Commands, Entries, DurableAt
<1>8. ASSUME NEW m \in Members, IsrSeesFatal(m) PROVE OkIsDurable'
  BY <1>t, <1>o, <1>8
     DEF IsrSeesFatal, mediaVars, OkIsDurable, Typed, TypeOK, Placed, Requests,
         Handlers, Drains, Timers, Commands, Entries, DurableAt
<1>9. ASSUME NEW m \in Members, IsrEnter(m) PROVE OkIsDurable'
  BY <1>t, <1>o, <1>9
     DEF IsrEnter, mediaVars, OkIsDurable, Typed, TypeOK, Placed, Requests, Handlers,
         Drains, Timers, Commands, Entries, DurableAt
<1>10. ASSUME NEW m \in Members, IsrTake(m) PROVE OkIsDurable'
  <2>1. PICK e \in cq[m] : Takes(m, e)
    BY <1>t, <1>10, IsrTakeEffect
  <2>2. ASSUME NEW u \in Tags PROVE DurableAt(u)'
    BY <1>x, <1>o, <2>1
       DEF Takes, Others, Alike, Stands, Counts, Reports, OtherHandlers, Places,
           AtWork, DurableAt
  <2> QED BY <2>2 DEF OkIsDurable, DurableAt
<1>11. ASSUME NEW m \in Members, IsrConsume(m) PROVE OkIsDurable'
  <2>1. Marks(m)
    BY <1>t, <1>11, IsrConsumeEffect
  <2>2. ASSUME NEW u \in Tags PROVE DurableAt(u)'
    BY <1>x, <1>o, <2>1
       DEF Marks, Others, Alike, Stands, Counts, Reports, OtherHandlers, Places,
           AtWork, DurableAt
  <2> QED BY <2>2 DEF OkIsDurable, DurableAt
<1>12. ASSUME NEW m \in Members, IsrDec(m) PROVE OkIsDurable'
  <2>1. Tallies(m)
    BY <1>t, <1>12, IsrDecEffect
  <2>2. ASSUME NEW u \in Tags PROVE DurableAt(u)'
    BY <1>x, <1>o, <2>1
       DEF Tallies, Others, Alike, Stands, Counts, Reports, OtherHandlers, Places,
           AtWork, DurableAt
  <2> QED BY <2>2 DEF OkIsDurable, DurableAt
<1>13. ASSUME NEW m \in Members, IsrClaim(m) PROVE OkIsDurable'
  <2>1. Wins(m)
    BY <1>t, <1>13, IsrClaimEffect
  <2>2. ASSUME NEW u \in Tags PROVE DurableAt(u)'
    BY <1>x, <1>o, <2>1
       DEF Wins, ClaimedAt, Others, Alike, Stands, Counts, Reports, OtherHandlers,
           Places, AtWork, DurableAt
  <2> QED BY <2>2 DEF OkIsDurable, DurableAt
<1>14. ASSUME NEW m \in Members, IsrLeave(m) PROVE OkIsDurable'
  BY <1>t, <1>o, <1>14
     DEF IsrLeave, mediaVars, OkIsDurable, Typed, TypeOK, Placed, Requests, Handlers,
         Drains, Timers, Commands, Entries, DurableAt
<1>15. ASSUME NEW m \in Members, IsrEnd(m) PROVE OkIsDurable'
  <2>1. Flushes(m)
    BY <1>t, <1>15, IsrEndEffect
  <2>2. ASSUME NEW u \in Tags PROVE DurableAt(u)'
    <3>1. CASE UNCHANGED <<live, rq>>
      BY <1>o, <3>1 DEF DurableAt
    <3>2. CASE \E t \in isr[m].done : t \in Tags /\ FinishedAt(t)
      <4>1. PICK t \in Tags : FinishedAt(t) /\ AllIn(t) /\ rq[t].mask # {}
        BY <1>w, <3>2
      <4> QED BY <1>o, <1>k, <4>1, FinishDurable
    <3> QED BY <2>1, <3>1, <3>2 DEF Flushes
  <2> QED BY <2>2 DEF OkIsDurable, DurableAt
<1>16. ASSUME NEW d \in Callers, DrainBegin(d) PROVE OkIsDurable'
  BY <1>t, <1>o, <1>16
     DEF DrainBegin, mediaVars, OkIsDurable, Typed, TypeOK, Placed, Requests, Handlers,
         Drains, Timers, Commands, Entries, DurableAt
<1>17. ASSUME NEW d \in Callers, DrainDisable(d) PROVE OkIsDurable'
  BY <1>t, <1>o, <1>17
     DEF DrainDisable, OkIsDurable, Typed, TypeOK, Placed, Requests, Handlers, Drains,
         Timers, Commands, Entries, DurableAt
<1>18. ASSUME NEW d \in Callers, DrainVisit(d) PROVE OkIsDurable'
  <2>1. Looks(d)
    BY <1>t, <1>18, DrainVisitEffect
  <2>2. ASSUME NEW u \in Tags PROVE DurableAt(u)'
    BY <1>x, <1>o, <2>1 DEF Looks, OtherDrains, Places, AtWork, DurableAt
  <2> QED BY <2>2 DEF OkIsDurable, DurableAt
<1>19. ASSUME NEW d \in Callers, DrainAck(d) PROVE OkIsDurable'
  <2>1. Raises(d)
    BY <1>t, <1>19, DrainAckRaises
  <2>2. ASSUME NEW u \in Tags PROVE DurableAt(u)'
    BY <1>x, <1>o, <2>1
       DEF Raises, Raised, Alike, Stands, Counts, Reports, Places, AtWork, DurableAt
  <2> QED BY <2>2 DEF OkIsDurable, DurableAt
<1>20. ASSUME NEW d \in Callers, DrainDec(d) PROVE OkIsDurable'
  <2>1. DrainTallies(d)
    BY <1>t, <1>20, DrainDecEffect
  <2>2. ASSUME NEW u \in Tags PROVE DurableAt(u)'
    BY <1>x, <1>o, <2>1
       DEF DrainTallies, Others, Alike, Stands, Counts, Reports, OtherDrains, Places,
           AtWork, DurableAt
  <2> QED BY <2>2 DEF OkIsDurable, DurableAt
<1>21. ASSUME NEW d \in Callers, DrainClaim(d) PROVE OkIsDurable'
  <2>1. DrainWins(d)
    BY <1>t, <1>21, DrainClaimEffect
  <2>2. ASSUME NEW u \in Tags PROVE DurableAt(u)'
    BY <1>x, <1>o, <2>1
       DEF DrainWins, ClaimedAt, Others, Alike, Stands, Counts, Reports, OtherDrains,
           Places, AtWork, DurableAt
  <2> QED BY <2>2 DEF OkIsDurable, DurableAt
<1>22. CASE Degrade
  BY <1>t, <1>o, <1>22
     DEF Degrade, mediaVars, OkIsDurable, Typed, TypeOK, Placed, Requests, Handlers,
         Drains, Timers, Commands, Entries, DurableAt
<1>23. CASE TimeoutCheck
  BY <1>t, <1>o, <1>23
     DEF TimeoutCheck, mediaVars, CallDrain, Idle, OkIsDurable, Typed, TypeOK, Placed,
         Requests, Handlers, Drains, Timers, Commands, Entries, DurableAt
<1>24. CASE TimeoutDrained
  <2>1. (\A u \in Tags : Alike(u)) /\ UNCHANGED <<live, hw, exec, cq, softirq, isr>>
    BY <1>t, <1>24, TimeoutDrainedEffect
  <2>2. ASSUME NEW u \in Tags PROVE DurableAt(u)'
    BY <1>x, <1>o, <2>1 DEF Alike, Stands, Counts, Reports, Places, AtWork, DurableAt
  <2> QED BY <2>2 DEF OkIsDurable, DurableAt
<1>25. CASE TimeoutAbort
  BY <1>t, <1>o, <1>25
     DEF TimeoutAbort, mediaVars, OkIsDurable, Typed, TypeOK, Placed, Requests,
         Handlers, Drains, Timers, Commands, Entries, DurableAt
<1>26. CASE TimeoutJudge
  BY <1>t, <1>o, <1>26
     DEF TimeoutJudge, mediaVars, CallDrain, Idle, Stuck, OkIsDurable, Typed, TypeOK,
         Placed, Requests, Handlers, Drains, Timers, Commands, Entries, DurableAt
<1>27. CASE TimeoutEnds
  <2>1. GivesUp
    BY <1>t, <1>27, TimeoutEndsEffect
  <2>2. ASSUME NEW u \in Tags PROVE DurableAt(u)'
    BY <1>x, <1>o, <2>1
       DEF GivesUp, EndedAt, Others, Alike, Stands, Counts, Reports, Places, AtWork,
           DurableAt
  <2> QED BY <2>2 DEF OkIsDurable, DurableAt
<1> QED
  BY <1>1, <1>2, <1>3, <1>4, <1>5, <1>6, <1>7, <1>8, <1>9, <1>10, <1>11, <1>12, <1>13,
     <1>14, <1>15, <1>16, <1>17, <1>18, <1>19, <1>20, <1>21, <1>22, <1>23, <1>24,
     <1>25, <1>26, <1>27 DEF Next, IsrStep, DrainStep, TimeoutStep

-----------------------------------------------------------------------------
(* Nothing is owed, and OK is durable.                                      *)

\* At first there is no request.
LEMMA OweInit == Init => OweInv
  <1> SUFFICES ASSUME Init PROVE OweInv
    OBVIOUS
  <1>1. Commanded
    BY DEF Init, Commanded
  <1>2. /\ \A t \in Tags : /\ rq[t].st = "idle" /\ rq[t].mask = {} /\ rq[t].unsent = {}
                           /\ rq[t].acked = {} /\ rq[t].err = {} /\ rq[t].pending = 0
                           /\ ~rq[t].claimed /\ rq[t].result = "none"
        /\ \A m \in Members : isr[m].pc = "out"
        /\ \A d \in Callers : drain[d].pc = "none" /\ ~drain[d].last
        /\ timer.pc = "none"
    BY DEF Init
  <1>3. Told
    BY <1>2 DEF Told, Knows, Prepared
  <1>4. Drained
    BY <1>2 DEF Drained, DrainAt
  <1>5. Pursued
    BY <1>2 DEF Pursued, Returned, Callers
  <1>6. PendingExact
    <2>1. ASSUME NEW t \in Tags
          PROVE  rq[t].pending = Cardinality(rq[t].mask \ rq[t].acked) + Counting(t)
      <3>1. /\ rq[t].mask \ rq[t].acked = {}
            /\ {m \in Members : isr[m].pc = "dec" /\ isr[m].t = t} = {}
            /\ {d \in Callers : drain[d].pc = "dec" /\ drain[d].t = t} = {}
        BY <1>2
      <3>2. Counting(t) = 0 + 0
        BY <3>1, FS_EmptySet DEF Counting
      <3>3. Cardinality(rq[t].mask \ rq[t].acked) = 0
        BY <3>1, FS_EmptySet
      <3> QED BY <1>2, <3>2, <3>3
    <2> QED BY <2>1 DEF PendingExact
  <1>7. OkIsDurable
    BY <1>2 DEF OkIsDurable
  <1> QED BY <1>1, <1>3, <1>4, <1>5, <1>6, <1>7 DEF OweInv

\* Stuttering.
LEMMA OweStutter == ASSUME OweInv, UNCHANGED vars PROVE OweInv'
  <1>1. UNCHANGED <<live, dead, hw, rq, exec, cq, isr, drain, timer>>
    BY DEF vars, mediaVars
  <1>2. Commanded'
    BY <1>1 DEF OweInv, Commanded, ExecAt, PostAt, HandAt
  <1>3. Told'
    BY <1>1 DEF OweInv, Told, Knows, Prepared, AllIn
  <1>4. Drained'
    BY <1>1 DEF OweInv, Drained, DrainAt, InUse, AllIn
  <1>5. Pursued'
    BY <1>1 DEF OweInv, Pursued, Returned, InUse, AllIn, ToDrain, Waiting
  <1>6. PendingExact'
    BY <1>1 DEF OweInv, PendingExact, Counting
  <1>7. OkIsDurable'
    BY <1>1 DEF OweInv, OkIsDurable
  <1> QED BY <1>2, <1>3, <1>4, <1>5, <1>6, <1>7 DEF OweInv

\* The invariant holds throughout.
LEMMA OwesInductive == ASSUME Late = {} PROVE Spec => []Owes
  <1>1. Init => Owes
    BY InitTyped, InitOnce, OweInit DEF Owes
  <1>2. Owes /\ [Next]_vars => Owes'
    <2> SUFFICES ASSUME Owes, [Next]_vars PROVE Owes'
      OBVIOUS
    <2>1. Typed' /\ OnceInv'
      BY StepTyped, StepOnce DEF Owes
    <2>2. CASE Next
      <3>1. OweInv'
        BY <2>2, CommandedNext, ToldNext, DrainedNext, PursuedNext, PendingNext,
           DurableNext
           DEF OweInv
      <3> QED BY <2>1, <3>1 DEF Owes
    <2>3. CASE UNCHANGED vars
      <3>1. OweInv'
        BY <2>3, OweStutter DEF Owes
      <3> QED BY <2>1, <3>1 DEF Owes
    <2> QED BY <2>2, <2>3
  <1> QED BY <1>1, <1>2, PTL DEF Spec

\* rc_volume_member_ack and the drain between them count every member of a request
\* once, and nothing a controller still executes belongs to a request that has
\* ended, unless the controller did not stop within the 3 seconds of
\* rc_nvme_disable_dead_controller; if of a tag no command is executing and no
\* completion left when it is used again.
THEOREM NothingEverOwed == ASSUME Late = {} PROVE Spec => []NothingOwed
  <1>1. Owes => NothingOwed
    <2> SUFFICES ASSUME Owes PROVE NothingOwed
      OBVIOUS
    <2>1. PendingExact /\ \A c \in exec : ExecAt(c)
      BY DEF Owes, OweInv, Commanded
    <2> QED BY <2>1 DEF NothingOwed, NoDmaAfterEnd, ExecAt
  <1> QED BY <1>1, OwesInductive, PTL

\* A write that rc_volume_finish_status calls OK has been carried out by a member,
\* and every member of its mask that is still live has carried it out.
THEOREM AlwaysDurable == ASSUME Late = {} PROVE Spec => []OkIsDurable
  <1>1. Owes => OkIsDurable
    BY DEF Owes, OweInv
  <1> QED BY <1>1, OwesInductive, PTL

=============================================================================
