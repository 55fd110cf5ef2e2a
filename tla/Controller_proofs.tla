-------------------------- MODULE Controller_proofs --------------------------
(***************************************************************************)
(* Proofs about Controller, for any number of queues, faults, resets,       *)
(* suspends and removals, and any requests: at most two automatic resets in *)
(* a row come to nothing, and a controller that sleeps is quiet.            *)
(*                                                                          *)
(* What the paths of the code are the invariant says by a number.  The      *)
(* steps a driver (the auto-reset work, a sysfs reset, a suspend with its   *)
(* resume) has still to take are the end of one list, DriverPath, so that   *)
(* the number of steps left determines the step it is at, and says which    *)
(* steps are ahead of it and which it has taken.  Of the other paths it is  *)
(* enough to know which steps they may have (DrainSteps, LifePath).         *)
(*                                                                          *)
(* Struct says that all paths are of these forms and may go on together;    *)
(* Thrash counts the automatic resets; Alone, that two drivers are past     *)
(* their dead flag at once only if overlapped remembers it; and Sleepy,     *)
(* what a suspend holds still.                                              *)
(***************************************************************************)
EXTENDS Controller, FiniteSetTheorems, WellFoundedInduction, TLAPS

-----------------------------------------------------------------------------
(* Where a path stands.                                                     *)

\* The threads that reset the controller, and the queues a reset creates.
Drivers == {"work", "sysfs", "pm"}
Width   == Cardinality(io)

\* What a suspend and a reset do before the queues are created, last step first.
Back == <<"set_num", "wait1", "on", "wait0", "seize", "end_all", "disable", "mask",
          "quiesce", "dead", "sleep", "unlock", "wait0", "off", "dead", "lock",
          "cancel", "freeze_wait", "freeze">>

\* The step of a reset of n queues that is d steps before its rejoin; z is the one
\* after it.
ResetStep(n, d, z) ==
  IF d = -1 THEN <<z, 0>>
  ELSE IF d = 0 THEN <<"rejoin", 0>>
  ELSE IF d = 1 THEN <<"unlock", 0>>
  ELSE IF d = 2 THEN <<"live", 0>>
  ELSE IF d <= 2 * n + 2
       THEN <<IF (d - 3) % 2 = 0 THEN "csq" ELSE "ccq", n - ((d - 3) \div 2)>>
       ELSE <<Back[d - 2 * n - 2], 0>>

\* What the path of a driver is when l steps are left; how far its next step is
\* from the rejoin, and from the last of the queues.
After(t) == IF t = "sysfs" THEN 0 ELSE 1
Final(t) == IF t = "work" THEN "latch" ELSE "unfreeze"
First(t) == IF t = "pm" THEN 21 ELSE 12
DriverPath(t, n, l) == [i \in 1 .. l |-> ResetStep(n, l - i - After(t), Final(t))]
Left(t)      == Len(path[t]) - After(t) - 1
Before(t, n) == Left(t) - 2 * n
DriverForm(t, n) ==
  /\ Before(t, n) <= First(t)
  /\ path[t] = DriverPath(t, n, Len(path[t]))

DriverNames == {"latch", "unfreeze", "rejoin", "unlock", "live", "csq", "ccq", "set_num",
  "wait1", "on", "wait0", "seize", "end_all", "disable", "mask", "quiesce", "dead", "sleep",
  "off", "lock", "cancel", "freeze_wait", "freeze"}

\* The names of the steps of the other paths.
OtherNames == {"abort", "stuck", "end_reset", "end_one", "wait0_any", "free_admin", "leave",
  "destroy", "settle", "disable_dead", "flush", "alloc", "identify", "ask_num", "queues",
  "register", "new", "irq", "dsq", "dcq", "free_sq", "free_cq"}

Step == (DriverNames \cup OtherNames) \X (Nat \cup Reqs)

\* The steps of a driver by their distance from the rejoin (d) and from the
\* queues (b).
Places(s, d, b, z) ==
  /\ s \in DriverNames
  /\ s = "latch" <=> d = -1 /\ z = "latch"
  /\ s = "unfreeze" <=> d = -1 /\ z = "unfreeze"
  /\ s = "rejoin" <=> d = 0
  /\ s = "unlock" <=> d = 1 \/ b = 14
  /\ s = "live" <=> d = 2
  /\ s \in {"ccq", "csq"} <=> 3 <= d /\ b <= 2
  /\ s = "set_num" <=> b = 3
  /\ s = "wait1" <=> b = 4
  /\ s = "on" <=> b = 5
  /\ s = "wait0" <=> b \in {6, 15}
  /\ s = "seize" <=> b = 7
  /\ s = "end_all" <=> b = 8
  /\ s = "disable" <=> b = 9
  /\ s = "mask" <=> b = 10
  /\ s = "quiesce" <=> b = 11
  /\ s = "dead" <=> b \in {12, 17}
  /\ s = "sleep" <=> b = 13
  /\ s = "off" <=> b = 16
  /\ s = "lock" <=> b = 18
  /\ s = "cancel" <=> b = 19
  /\ s = "freeze_wait" <=> b = 20
  /\ s = "freeze" <=> b = 21

\* The name of a step says how far it is.
LEMMA NameOf ==
  ASSUME NEW n \in Nat, NEW d \in Int, -1 <= d, d <= 2 * n + 21, NEW z \in {"latch", "unfreeze"}
  PROVE  Places(ResetStep(n, d, z)[1], d, d - 2 * n, z)
<1>1. CASE d <= 2
  BY <1>1 DEF ResetStep, DriverNames, Places
<1>2. CASE 3 <= d /\ d <= 2 * n + 2
  BY <1>2 DEF ResetStep, DriverNames, Places
<1>3. CASE 2 * n + 2 < d
  <2>1. ResetStep(n, d, z)[1] = Back[d - 2 * n - 2]
    BY <1>3 DEF ResetStep
  <2>2. d - 2 * n - 2 \in 1 .. 19
    BY <1>3
  <2> QED
    BY <2>1, <2>2, <1>3 DEF Back, DriverNames, Places
<1> QED
  BY <1>1, <1>2, <1>3

\* The first step of what is left.
LEMMA HeadOf ==
  ASSUME NEW t \in Drivers, NEW n \in Nat, path[t] \in Seq(Step), DriverForm(t, n), path[t] # <<>>
  PROVE  /\ Left(t) \in Int /\ -1 <= Left(t) /\ Left(t) <= 2 * n + 21
         /\ t = "sysfs" => 0 <= Left(t)
         /\ t # "pm" => Before(t, n) <= 12
         /\ Final(t) \in {"latch", "unfreeze"}
         /\ Head(path[t]) = ResetStep(n, Left(t), Final(t))
<1>1. Len(path[t]) \in Nat /\ Len(path[t]) >= 1
  OBVIOUS
<1>2. Head(path[t]) = path[t][1]
  OBVIOUS
<1>3. DriverPath(t, n, Len(path[t]))[1] = ResetStep(n, Len(path[t]) - 1 - After(t), Final(t))
  BY <1>1 DEF DriverPath
<1>4. /\ After(t) \in {0, 1} /\ (t = "sysfs" => After(t) = 0)
      /\ First(t) \in {12, 21} /\ (t # "pm" => First(t) = 12)
      /\ Final(t) \in {"latch", "unfreeze"}
  BY DEF After, First, Final, Drivers
<1>5. /\ Left(t) = Len(path[t]) - 1 - After(t) /\ Before(t, n) = Left(t) - 2 * n
      /\ Before(t, n) <= First(t)
  BY <1>1, <1>4 DEF DriverForm, Left, Before
<1>6. Head(path[t]) = ResetStep(n, Left(t), Final(t))
  BY <1>2, <1>3, <1>5 DEF DriverForm
<1>7. Left(t) \in Int
  BY <1>1, <1>4, <1>5
<1> QED
  BY <1>1, <1>4, <1>5, <1>6, <1>7

\* The step a driver takes next says how far it is.
LEMMA AtDriver ==
  ASSUME NEW t \in Drivers, NEW n \in Nat, path[t] \in Seq(Step), DriverForm(t, n), path[t] # <<>>
  PROVE  Places(Head(path[t])[1], Left(t), Before(t, n), Final(t))
<1>1. /\ Left(t) \in Int /\ -1 <= Left(t) /\ Left(t) <= 2 * n + 21
      /\ Final(t) \in {"latch", "unfreeze"}
      /\ Head(path[t]) = ResetStep(n, Left(t), Final(t))
  BY HeadOf
<1>2. Places(ResetStep(n, Left(t), Final(t))[1], Left(t), Left(t) - 2 * n, Final(t))
  BY <1>1, NameOf
<1> QED
  BY <1>1, <1>2 DEF Before

\* The steps ahead of a driver.
LEMMA HasDriver ==
  ASSUME NEW t \in Drivers, NEW n \in Nat, path[t] \in Seq(Step), DriverForm(t, n)
  PROVE  /\ Has(t, "latch") <=> Left(t) >= -1 /\ t = "work"
         /\ Has(t, "dead") <=> Left(t) >= 0 /\ Before(t, n) >= 12
         /\ Has(t, "live") <=> Left(t) >= 2
         /\ Has(t, "cancel") <=> Left(t) >= 0 /\ Before(t, n) >= 19
<1>1. /\ Len(path[t]) \in Nat /\ DOMAIN path[t] = 1 .. Len(path[t])
      /\ After(t) \in {0, 1} /\ Final(t) \in {"latch", "unfreeze"} /\ First(t) \in {12, 21}
      /\ t = "work" <=> Final(t) = "latch"
      /\ t = "sysfs" <=> After(t) = 0
  BY DEF After, Final, Drivers, First
<1>2. /\ Left(t) = Len(path[t]) - After(t) - 1 /\ Before(t, n) = Left(t) - 2 * n
      /\ Before(t, n) <= 21
  BY <1>1 DEF Left, Before, DriverForm
<1> DEFINE Name(d) == ResetStep(n, d, Final(t))[1]
<1>3. ASSUME NEW i \in DOMAIN path[t]
      PROVE  path[t][i][1] = Name(Len(path[t]) - i - After(t))
  BY <1>1 DEF DriverForm, DriverPath
<1>4. ASSUME NEW nm, NEW d \in (-After(t)) .. Left(t), Name(d) = nm
      PROVE  Has(t, nm)
  <2>1. /\ Len(path[t]) - d - After(t) \in DOMAIN path[t]
        /\ Len(path[t]) - (Len(path[t]) - d - After(t)) - After(t) = d
    <3>1. d \in Int /\ -After(t) <= d /\ d <= Left(t)
      BY <1>1, <1>2, <1>4
    <3>2. Len(path[t]) - d - After(t) \in 1 .. Len(path[t])
      <4>1. Len(path[t]) \in Nat /\ After(t) \in {0, 1} /\ d \in Int /\ Left(t) \in Int
        BY <1>1, <1>2, <3>1
      <4>2. d <= Len(path[t]) - After(t) - 1 /\ d >= -After(t)
        BY <1>2, <3>1
      <4> QED
        BY <4>1, <4>2
    <3>3. Len(path[t]) - (Len(path[t]) - d - After(t)) - After(t) = d
      BY <1>1, <3>1
    <3> QED
      BY <1>1, <3>2, <3>3
  <2> HIDE DEF Name
  <2>2. path[t][Len(path[t]) - d - After(t)][1] = nm
    BY <1>3, <1>4, <2>1
  <2> QED
    BY <2>1, <2>2 DEF Has
<1>5. ASSUME NEW d \in (-After(t)) .. Left(t)
      PROVE  /\ d \in Int /\ -1 <= d /\ d <= 2 * n + 21 /\ d <= Left(t)
             /\ d >= -After(t)
  BY <1>1, <1>2
<1>6. ASSUME NEW d \in Int, -1 <= d, d <= 2 * n + 21
      PROVE  /\ Name(d) \in DriverNames
             /\ Name(d) = "latch" <=> d = -1 /\ t = "work"
             /\ Name(d) = "live" <=> d = 2
             /\ Name(d) = "cancel" <=> d = 2 * n + 19
             /\ Name(d) = "dead" <=> d \in {2 * n + 12, 2 * n + 17}
  <2>1. Places(Name(d), d, d - 2 * n, Final(t))
    BY <1>1, <1>6, NameOf
  <2> HIDE DEF Name
  <2>2. d - 2 * n \in Int /\ (Final(t) = "latch" <=> t = "work")
    BY <1>1
  <2>3. /\ Name(d) \in DriverNames
        /\ Name(d) = "latch" <=> d = -1 /\ Final(t) = "latch"
        /\ Name(d) = "live" <=> d = 2
        /\ Name(d) = "cancel" <=> d - 2 * n = 19
        /\ Name(d) = "dead" <=> d - 2 * n \in {12, 17}
    BY <2>1, Zenon DEF Places
  <2> QED
    BY <2>2, <2>3
<1>7. ASSUME NEW nm, Has(t, nm)
      PROVE  \E d \in (-After(t)) .. Left(t) : Name(d) = nm
  <2>1. PICK i \in DOMAIN path[t] : path[t][i][1] = nm
    BY <1>7 DEF Has
  <2>2. Len(path[t]) - i - After(t) \in (-After(t)) .. Left(t)
    BY <1>1, <1>2
  <2> QED
    BY <1>3, <2>1, <2>2
<1> HIDE DEF Name
<1>8. Has(t, "latch") <=> Left(t) >= -1 /\ t = "work"
  <2>1. Left(t) >= -1 /\ t = "work" => -1 \in (-After(t)) .. Left(t)
    BY <1>1, <1>2
  <2>2. Left(t) >= -1 /\ t = "work" => Name(-1) = "latch"
    BY <1>1, <1>2, <1>6
  <2>3. Left(t) >= -1 /\ t = "work" => Has(t, "latch")
    BY <1>4, <2>1, <2>2
  <2>4. Has(t, "latch") => Left(t) >= -1 /\ t = "work"
    BY <1>1, <1>2, <1>5, <1>6, <1>7
  <2> QED
    BY <2>3, <2>4
<1>11. Has(t, "live") <=> Left(t) >= 2
  <2>1. Left(t) >= 2 => 2 \in (-After(t)) .. Left(t)
    BY <1>1, <1>2
  <2>2. Left(t) >= 2 => Name(2) = "live"
    BY <1>1, <1>2, <1>6
  <2>3. Left(t) >= 2 => Has(t, "live")
    BY <1>4, <2>1, <2>2
  <2>4. Has(t, "live") => Left(t) >= 2
    BY <1>1, <1>2, <1>5, <1>6, <1>7
  <2> QED
    BY <2>3, <2>4
<1>16. Has(t, "cancel") <=> Left(t) >= 0 /\ Before(t, n) >= 19
  <2>1. Left(t) >= 0 /\ Before(t, n) >= 19 => 2 * n + 19 \in (-After(t)) .. Left(t)
    BY <1>1, <1>2
  <2>2. Left(t) >= 0 /\ Before(t, n) >= 19 => Name(2 * n + 19) = "cancel"
    BY <1>1, <1>2, <1>6
  <2>3. Left(t) >= 0 /\ Before(t, n) >= 19 => Has(t, "cancel")
    BY <1>4, <2>1, <2>2
  <2>4. Has(t, "cancel") => Left(t) >= 0 /\ Before(t, n) >= 19
    BY <1>1, <1>2, <1>5, <1>6, <1>7
  <2> QED
    BY <2>3, <2>4
<1>18. Has(t, "dead") <=> Left(t) >= 0 /\ Before(t, n) >= 12
  <2>1. Left(t) >= 0 /\ Before(t, n) >= 12 => 2 * n + 12 \in (-After(t)) .. Left(t)
    BY <1>1, <1>2
  <2>2. Left(t) >= 0 /\ Before(t, n) >= 12 => Name(2 * n + 12) = "dead"
    BY <1>1, <1>2, <1>6
  <2>3. Left(t) >= 0 /\ Before(t, n) >= 12 => Has(t, "dead")
    BY <1>4, <2>1, <2>2
  <2>4. Has(t, "dead") => Left(t) >= 0 /\ Before(t, n) >= 12
    BY <1>1, <1>2, <1>5, <1>6, <1>7
  <2> QED
    BY <2>3, <2>4
<1> QED
  BY <1>8, <1>11, <1>16, <1>18

\* What is left of a path is a path with fewer steps.
LEMMA Suffix ==
  ASSUME NEW t \in Drivers, NEW n \in Nat, path[t] \in Seq(Step), DriverForm(t, n),
         NEW k \in 1 .. Len(path[t]) + 1
  PROVE  LET s == SubSeq(path[t], k, Len(path[t])) IN
         /\ s \in Seq(Step) /\ Len(s) = Len(path[t]) - k + 1
         /\ s = DriverPath(t, n, Len(path[t]) - k + 1)
<1> DEFINE s == SubSeq(path[t], k, Len(path[t]))
<1>1. Len(path[t]) \in Nat
  OBVIOUS
<1>2. s \in Seq(Step) /\ Len(s) = Len(path[t]) - k + 1
  BY <1>1
<1>3. \A i \in 1 .. Len(s) : s[i] = path[t][k + i - 1]
  BY <1>1, <1>2
<1>4. \A i \in 1 .. Len(s) : s[i] = ResetStep(n, Len(s) - i - After(t), Final(t))
  <2> SUFFICES ASSUME NEW i \in 1 .. Len(s)
               PROVE  s[i] = ResetStep(n, Len(s) - i - After(t), Final(t))
    OBVIOUS
  <2>1. k + i - 1 \in 1 .. Len(path[t])
    BY <1>1, <1>2
  <2>2. path[t][k + i - 1] = ResetStep(n, Len(path[t]) - (k + i - 1) - After(t), Final(t))
    BY <2>1 DEF DriverForm, DriverPath
  <2>3. After(t) \in {0, 1}
    BY DEF After
  <2>4. Len(path[t]) - (k + i - 1) - After(t) = Len(s) - i - After(t)
    BY <1>1, <1>2, <2>3
  <2> QED
    BY <1>3, <2>2, <2>4
<1>5. s = [i \in 1 .. Len(s) |-> s[i]]
  BY <1>2
<1> QED
  BY <1>2, <1>4, <1>5 DEF DriverPath

\* One list after the other.
LEMMA Concat ==
  ASSUME NEW a \in Seq(Step), NEW b \in Seq(Step)
  PROVE  /\ a \o b \in Seq(Step) /\ Len(a \o b) = Len(a) + Len(b)
         /\ Len(a) \in Nat /\ Len(b) \in Nat
         /\ \A i \in 1 .. Len(a) : (a \o b)[i] = a[i]
         /\ \A i \in 1 .. Len(b) : (a \o b)[Len(a) + i] = b[i]
OBVIOUS

\* The step of a queue says which.
LEMMA QueueOf ==
  ASSUME NEW n \in Nat, NEW d \in Int, 3 <= d, d <= 2 * n + 2, NEW z
  PROVE  LET s == ResetStep(n, d, z) IN
         /\ s[2] \in 1 .. n
         /\ s[1] = "csq" <=> d = 3 + 2 * (n - s[2])
         /\ s[1] = "ccq" <=> d = 4 + 2 * (n - s[2])
<1>1. ResetStep(n, d, z) = <<IF (d - 3) % 2 = 0 THEN "csq" ELSE "ccq", n - ((d - 3) \div 2)>>
  BY DEF ResetStep
<1>2. /\ (d - 3) \div 2 \in 0 .. n - 1
      /\ (d - 3) % 2 = 0 <=> d - 3 = 2 * ((d - 3) \div 2)
      /\ (d - 3) % 2 # 0 <=> d - 3 = 2 * ((d - 3) \div 2) + 1
  OBVIOUS
<1> QED
  BY <1>1, <1>2

\* The steps that create the queues.
LEMMA CreateSteps ==
  ASSUME NEW n \in Nat
  PROVE  LET p == PerQueue(<<"ccq", "csq">>, n) IN
         /\ p \in Seq(Step) /\ Len(p) = 2 * n
         /\ \A i \in 1 .. 2 * n : \A z : p[i] = ResetStep(n, 2 * n - i + 3, z)
<1> DEFINE names == <<"ccq", "csq">>
           p == PerQueue(names, n)
<1>1. Len(names) = 2 /\ names[1] = "ccq" /\ names[2] = "csq"
  OBVIOUS
<1>2. p = [i \in 1 .. 2 * n |-> <<names[((i - 1) % 2) + 1], ((i - 1) \div 2) + 1>>]
  BY <1>1 DEF PerQueue
<1> HIDE DEF names
<1>3. ASSUME NEW i \in 1 .. 2 * n
      PROVE  /\ ((i - 1) % 2) + 1 \in {1, 2}
             /\ ((i - 1) \div 2) + 1 \in Nat
             /\ ((i - 1) \div 2) + 1 = n - ((2 * n - i + 3 - 3) \div 2)
             /\ ((i - 1) % 2) + 1 = 2 <=> (2 * n - i + 3 - 3) % 2 = 0
  OBVIOUS
<1>4. ASSUME NEW i \in 1 .. 2 * n
      PROVE  p[i] \in Step /\ \A z : p[i] = ResetStep(n, 2 * n - i + 3, z)
  <2>1. p[i] = <<names[((i - 1) % 2) + 1], ((i - 1) \div 2) + 1>>
    BY <1>2
  <2>2. names[((i - 1) % 2) + 1] = IF (2 * n - i + 3 - 3) % 2 = 0 THEN "csq" ELSE "ccq"
    BY <1>1, <1>3
  <2>3. ASSUME NEW z
        PROVE  ResetStep(n, 2 * n - i + 3, z)
               = <<IF (2 * n - i + 3 - 3) % 2 = 0 THEN "csq" ELSE "ccq",
                   n - ((2 * n - i + 3 - 3) \div 2)>>
    BY DEF ResetStep
  <2> QED
    <3>1. p[i] = <<IF (2 * n - i + 3 - 3) % 2 = 0 THEN "csq" ELSE "ccq",
                   n - ((2 * n - i + 3 - 3) \div 2)>>
      BY <1>3, <2>1, <2>2
    <3>2. n - ((2 * n - i + 3 - 3) \div 2) \in Nat
      BY <1>3
    <3>3. p[i] \in Step
      BY <3>1, <3>2 DEF Step, DriverNames
    <3> QED
      BY <2>3, <3>1, <3>3
<1>5. p \in [1 .. 2 * n -> Step]
  BY <1>2, <1>4
<1>6. p \in Seq(Step) /\ Len(p) = 2 * n
  BY <1>5
<1> HIDE DEF p
<1>7. \A i \in 1 .. 2 * n : \A z : p[i] = ResetStep(n, 2 * n - i + 3, z)
  BY <1>4
<1> QED
  BY <1>6, <1>7 DEF p, names

\* The lists of names in a reset and in a suspend.
LEMMA Literals ==
  /\ Steps(<<"dead", "quiesce">>) \o Drain
       \o Steps(<<"seize", "wait0", "on", "wait1", "set_num">>)
     = <<<<"dead", 0>>, <<"quiesce", 0>>, <<"mask", 0>>, <<"disable", 0>>, <<"end_all", 0>>,
         <<"seize", 0>>, <<"wait0", 0>>, <<"on", 0>>, <<"wait1", 0>>, <<"set_num", 0>>>>
  /\ Steps(<<"live", "unlock", "rejoin">>) = <<<<"live", 0>>, <<"unlock", 0>>, <<"rejoin", 0>>>>
  /\ Steps(<<"latch">>) = <<<<"latch", 0>>>>
  /\ Steps(<<"unfreeze">>) = <<<<"unfreeze", 0>>>>
  /\ Steps(<<"freeze", "freeze_wait", "cancel", "lock", "dead", "off", "wait0", "unlock", "sleep">>)
     = <<<<"freeze", 0>>, <<"freeze_wait", 0>>, <<"cancel", 0>>, <<"lock", 0>>, <<"dead", 0>>,
         <<"off", 0>>, <<"wait0", 0>>, <<"unlock", 0>>, <<"sleep", 0>>>>
<1>1. Steps(<<"dead", "quiesce">>) \o Steps(<<"mask", "disable", "end_all">>)
        \o Steps(<<"seize", "wait0", "on", "wait1", "set_num">>)
      = Steps(<<"dead", "quiesce", "mask", "disable", "end_all", "seize", "wait0", "on", "wait1",
                "set_num">>)
  BY DEF Steps
<1>2. Steps(<<"dead", "quiesce", "mask", "disable", "end_all", "seize", "wait0", "on", "wait1",
              "set_num">>)
      = <<<<"dead", 0>>, <<"quiesce", 0>>, <<"mask", 0>>, <<"disable", 0>>, <<"end_all", 0>>,
          <<"seize", 0>>, <<"wait0", 0>>, <<"on", 0>>, <<"wait1", 0>>, <<"set_num", 0>>>>
  BY DEF Steps
<1>3. Drain = Steps(<<"mask", "disable", "end_all">>)
  BY DEF Drain
<1>4. Steps(<<"live", "unlock", "rejoin">>) = <<<<"live", 0>>, <<"unlock", 0>>, <<"rejoin", 0>>>>
  BY DEF Steps
<1>5. Steps(<<"latch">>) = <<<<"latch", 0>>>> /\ Steps(<<"unfreeze">>) = <<<<"unfreeze", 0>>>>
  BY DEF Steps
<1>6. Steps(<<"freeze", "freeze_wait", "cancel", "lock", "dead", "off", "wait0", "unlock", "sleep">>)
      = <<<<"freeze", 0>>, <<"freeze_wait", 0>>, <<"cancel", 0>>, <<"lock", 0>>, <<"dead", 0>>,
         <<"off", 0>>, <<"wait0", 0>>, <<"unlock", 0>>, <<"sleep", 0>>>>
  BY DEF Steps
<1> QED
  BY <1>1, <1>2, <1>3, <1>4, <1>5, <1>6, Zenon

\* They are lists of steps.
LEMMA LiteralSteps ==
  /\ <<<<"dead", 0>>, <<"quiesce", 0>>, <<"mask", 0>>, <<"disable", 0>>, <<"end_all", 0>>,
       <<"seize", 0>>, <<"wait0", 0>>, <<"on", 0>>, <<"wait1", 0>>, <<"set_num", 0>>>> \in Seq(Step)
  /\ <<<<"live", 0>>, <<"unlock", 0>>, <<"rejoin", 0>>>> \in Seq(Step)
  /\ <<<<"latch", 0>>>> \in Seq(Step)
  /\ <<<<"unfreeze", 0>>>> \in Seq(Step)
  /\ <<<<"freeze", 0>>, <<"freeze_wait", 0>>, <<"cancel", 0>>, <<"lock", 0>>, <<"dead", 0>>,
       <<"off", 0>>, <<"wait0", 0>>, <<"unlock", 0>>, <<"sleep", 0>>>> \in Seq(Step)
<1>1. \A nm \in DriverNames : <<nm, 0>> \in Step
  BY DEF Step
<1> HIDE DEF Step
<1> QED
  BY <1>1 DEF DriverNames

\* The list of a reset.
LEMMA ResetIs ==
  ASSUME Width \in Nat
  PROVE  /\ Reset \in Seq(Step) /\ Len(Reset) = 2 * Width + 13
         /\ \A i \in 1 .. 2 * Width + 13 : \A z : Reset[i] = ResetStep(Width, 2 * Width + 13 - i, z)
<1> DEFINE f == Steps(<<"dead", "quiesce">>) \o Drain
                  \o Steps(<<"seize", "wait0", "on", "wait1", "set_num">>)
           p == PerQueue(<<"ccq", "csq">>, Width)
           e == Steps(<<"live", "unlock", "rejoin">>)
           g == f \o p
           r == g \o e
<1>1. Reset = r
  BY DEF Reset, Drain, Width
<1>2. f \in Seq(Step) /\ Len(f) = 10
  BY Literals, LiteralSteps
<1>3. /\ f[1] = <<"dead", 0>> /\ f[2] = <<"quiesce", 0>> /\ f[3] = <<"mask", 0>>
      /\ f[4] = <<"disable", 0>> /\ f[5] = <<"end_all", 0>> /\ f[6] = <<"seize", 0>>
      /\ f[7] = <<"wait0", 0>> /\ f[8] = <<"on", 0>> /\ f[9] = <<"wait1", 0>>
      /\ f[10] = <<"set_num", 0>>
  <2>1. f = <<<<"dead", 0>>, <<"quiesce", 0>>, <<"mask", 0>>, <<"disable", 0>>, <<"end_all", 0>>,
             <<"seize", 0>>, <<"wait0", 0>>, <<"on", 0>>, <<"wait1", 0>>, <<"set_num", 0>>>>
    BY Literals
  <2> HIDE DEF f
  <2> QED
    BY <2>1
<1>4. /\ e \in Seq(Step) /\ Len(e) = 3
      /\ e[1] = <<"live", 0>> /\ e[2] = <<"unlock", 0>> /\ e[3] = <<"rejoin", 0>>
  <2>1. e = <<<<"live", 0>>, <<"unlock", 0>>, <<"rejoin", 0>>>>
    BY Literals
  <2> HIDE DEF e
  <2>2. e \in Seq(Step)
    BY <2>1, LiteralSteps
  <2> QED
    BY <2>1, <2>2
<1>5. /\ p \in Seq(Step) /\ Len(p) = 2 * Width
      /\ \A i \in 1 .. 2 * Width : \A z : p[i] = ResetStep(Width, 2 * Width - i + 3, z)
  BY CreateSteps
<1> HIDE DEF f, e, p
<1>6. /\ g \in Seq(Step) /\ Len(g) = Len(f) + Len(p)
      /\ \A i \in 1 .. Len(f) : g[i] = f[i]
      /\ \A i \in 1 .. Len(p) : g[Len(f) + i] = p[i]
  <2>1. f \in Seq(Step) /\ p \in Seq(Step)
    BY <1>2, <1>5
  <2> QED
    BY <2>1, Concat
<1> HIDE DEF g
<1>7. /\ r \in Seq(Step) /\ Len(r) = Len(g) + Len(e)
      /\ \A i \in 1 .. Len(g) : r[i] = g[i]
      /\ \A i \in 1 .. Len(e) : r[Len(g) + i] = e[i]
  <2>1. g \in Seq(Step) /\ e \in Seq(Step)
    BY <1>4, <1>6
  <2> QED
    BY <2>1, Concat
<1> HIDE DEF r
<1>8. /\ Len(g) = 2 * Width + 10 /\ Len(r) = 2 * Width + 13
      /\ \A i \in 1 .. 10 : r[i] = f[i]
      /\ \A i \in 11 .. 2 * Width + 10 : r[i] = p[i - 10]
      /\ \A i \in 2 * Width + 11 .. 2 * Width + 13 : r[i] = e[i - 2 * Width - 10]
  <2>1. Len(g) = 2 * Width + 10 /\ Len(r) = 2 * Width + 13
    <3>1. Len(f) = 10 /\ Len(e) = 3 /\ Len(p) = 2 * Width
      BY <1>2, <1>4, <1>5
    <3>2. Len(g) = Len(f) + Len(p) /\ Len(r) = Len(g) + Len(e)
      BY <1>6, <1>7
    <3> QED
      BY <3>1, <3>2
  <2>2. /\ \A i \in 1 .. 10 : g[i] = f[i]
        /\ \A i \in 1 .. 2 * Width : g[10 + i] = p[i]
        /\ \A i \in 1 .. 2 * Width + 10 : r[i] = g[i]
        /\ \A i \in 1 .. 3 : r[2 * Width + 10 + i] = e[i]
    BY <1>2, <1>4, <1>5, <1>6, <1>7, <2>1
  <2>3. ASSUME NEW i \in 11 .. 2 * Width + 10
        PROVE  r[i] = p[i - 10]
    <3>1. i - 10 \in 1 .. 2 * Width /\ 10 + (i - 10) = i /\ i \in 1 .. 2 * Width + 10
      OBVIOUS
    <3> QED
      BY <2>2, <3>1
  <2>4. ASSUME NEW i \in 2 * Width + 11 .. 2 * Width + 13
        PROVE  r[i] = e[i - 2 * Width - 10]
    <3>1. i - 2 * Width - 10 \in 1 .. 3 /\ 2 * Width + 10 + (i - 2 * Width - 10) = i
      OBVIOUS
    <3> QED
      BY <2>2, <3>1
  <2> QED
    BY <2>1, <2>2, <2>3, <2>4
<1>9. \A i \in 1 .. 10 : \A z : f[i] = ResetStep(Width, 2 * Width + 13 - i, z)
  <2>1. \A j \in 1 .. 10 : \A z : ResetStep(Width, 2 * Width + 13 - j, z) = <<Back[11 - j], 0>>
    <3>1. ASSUME NEW j \in 1 .. 10
          PROVE  /\ 2 * Width + 13 - j > 2 * Width + 2
                 /\ 2 * Width + 13 - j - 2 * Width - 2 = 11 - j
                 /\ 2 * Width + 13 - j > 2
      OBVIOUS
    <3> QED
      BY <3>1 DEF ResetStep
  <2>2. \A j \in 1 .. 10 : f[j] = <<Back[11 - j], 0>>
    BY <1>3 DEF Back
  <2> QED
    BY <2>1, <2>2
<1>10. \A i \in 1 .. 3 : \A z : e[i] = ResetStep(Width, 3 - i, z)
  BY <1>4 DEF ResetStep
<1>11. ASSUME NEW i \in 1 .. 2 * Width + 13, NEW z
       PROVE  r[i] = ResetStep(Width, 2 * Width + 13 - i, z)
  <2>1. CASE i \in 1 .. 10
    BY <1>8, <1>9, <2>1
  <2>2. CASE i \in 11 .. 2 * Width + 10
    <3>1. i - 10 \in 1 .. 2 * Width /\ 2 * Width - (i - 10) + 3 = 2 * Width + 13 - i
      BY <2>2
    <3> QED
      BY <1>5, <1>8, <2>2, <3>1
  <2>3. CASE i \in 2 * Width + 11 .. 2 * Width + 13
    <3>1. i - 2 * Width - 10 \in 1 .. 3 /\ 3 - (i - 2 * Width - 10) = 2 * Width + 13 - i
      BY <2>3
    <3> QED
      BY <1>8, <1>10, <2>3, <3>1
  <2> QED
    BY <2>1, <2>2, <2>3
<1> QED
  BY <1>1, <1>7, <1>8, <1>11

\* The lists of the three drivers.
LEMMA DriverStarts ==
  ASSUME Width \in Nat
  PROVE  /\ Reset \in Seq(Step) /\ Reset = DriverPath("sysfs", Width, 2 * Width + 13)
         /\ Reset \o Steps(<<"latch">>) \in Seq(Step)
         /\ Reset \o Steps(<<"latch">>) = DriverPath("work", Width, 2 * Width + 14)
         /\ SuspendResume \in Seq(Step) /\ SuspendResume = DriverPath("pm", Width, 2 * Width + 23)
<1>1. /\ Reset \in Seq(Step) /\ Len(Reset) = 2 * Width + 13
      /\ \A i \in 1 .. 2 * Width + 13 : \A z : Reset[i] = ResetStep(Width, 2 * Width + 13 - i, z)
  BY ResetIs
<1>2. After("sysfs") = 0 /\ After("work") = 1 /\ After("pm") = 1
      /\ Final("work") = "latch" /\ Final("pm") = "unfreeze"
  BY DEF After, Final
<1>3. ASSUME NEW s \in Seq(Step), NEW n \in Nat, Len(s) = n, NEW t, NEW k, After(t) = k, NEW z, Final(t) = z,
             \A i \in 1 .. n : s[i] = ResetStep(Width, n - i - k, z)
      PROVE  s = DriverPath(t, Width, n)
  <2>1. s = [i \in 1 .. n |-> s[i]]
    BY <1>3
  <2> QED
    BY <1>3, <2>1 DEF DriverPath
<1>4. Reset = DriverPath("sysfs", Width, 2 * Width + 13)
  <2>1. \A i \in 1 .. 2 * Width + 13 : 2 * Width + 13 - i - 0 = 2 * Width + 13 - i
    OBVIOUS
  <2>2. \A i \in 1 .. 2 * Width + 13 : Reset[i] = ResetStep(Width, 2 * Width + 13 - i - 0, Final("sysfs"))
    BY <1>1, <2>1
  <2>3. 2 * Width + 13 \in Nat
    OBVIOUS
  <2> QED
    BY <1>1, <1>2, <1>3, <2>2, <2>3
<1>5. /\ Reset \o Steps(<<"latch">>) \in Seq(Step)
      /\ Reset \o Steps(<<"latch">>) = DriverPath("work", Width, 2 * Width + 14)
  <2> DEFINE z == Steps(<<"latch">>)
             s == Reset \o z
  <2>1. z \in Seq(Step) /\ Len(z) = 1 /\ z[1] = <<"latch", 0>>
    <3>1. z = <<<<"latch", 0>>>>
      BY Literals
    <3> HIDE DEF z
    <3>2. z \in Seq(Step)
      BY <3>1, LiteralSteps
    <3> QED
      BY <3>1, <3>2
  <2> HIDE DEF z
  <2>2. /\ s \in Seq(Step) /\ Len(s) = Len(Reset) + Len(z)
        /\ \A i \in 1 .. Len(Reset) : s[i] = Reset[i]
        /\ \A i \in 1 .. Len(z) : s[Len(Reset) + i] = z[i]
    <3>1. Reset \in Seq(Step) /\ z \in Seq(Step)
      BY <1>1, <2>1
    <3> QED
      BY <3>1, Concat
  <2> HIDE DEF s
  <2>3. Len(s) = 2 * Width + 14 /\ s[2 * Width + 14] = <<"latch", 0>>
        /\ \A i \in 1 .. 2 * Width + 13 : s[i] = Reset[i]
    BY <1>1, <2>1, <2>2
  <2>4. \A i \in 1 .. 2 * Width + 14 : s[i] = ResetStep(Width, 2 * Width + 14 - i - 1, "latch")
    <3>1. s[2 * Width + 14] = ResetStep(Width, -1, "latch")
      BY <2>3 DEF ResetStep
    <3>2. ASSUME NEW i \in 1 .. 2 * Width + 13
          PROVE  s[i] = ResetStep(Width, 2 * Width + 14 - i - 1, "latch")
      <4>1. 2 * Width + 14 - i - 1 = 2 * Width + 13 - i
        OBVIOUS
      <4> QED
        BY <1>1, <2>3, <4>1
    <3>3. 2 * Width + 14 - (2 * Width + 14) - 1 = -1
      OBVIOUS
    <3> QED
      BY <3>1, <3>2, <3>3
  <2>5. 2 * Width + 14 \in Nat
    OBVIOUS
  <2>6. s = DriverPath("work", Width, 2 * Width + 14)
    BY <1>2, <1>3, <2>2, <2>3, <2>4, <2>5
  <2> QED
    BY <2>2, <2>6 DEF s, z
<1>6. SuspendResume \in Seq(Step) /\ SuspendResume = DriverPath("pm", Width, 2 * Width + 23)
  <2> DEFINE a == Steps(<<"freeze", "freeze_wait", "cancel", "lock", "dead", "off", "wait0",
                          "unlock", "sleep">>)
             z == Steps(<<"unfreeze">>)
             ar == a \o Reset
             s == ar \o z
  <2>1. SuspendResume = s
    BY DEF SuspendResume
  <2>2. /\ a \in Seq(Step) /\ Len(a) = 9
        /\ \A i \in 1 .. 9 : a[i] = <<Back[20 - i], 0>>
    <3>1. a = <<<<"freeze", 0>>, <<"freeze_wait", 0>>, <<"cancel", 0>>, <<"lock", 0>>, <<"dead", 0>>,
         <<"off", 0>>, <<"wait0", 0>>, <<"unlock", 0>>, <<"sleep", 0>>>>
      BY Literals
    <3> HIDE DEF a
    <3>2. a \in Seq(Step)
      BY <3>1, LiteralSteps
    <3>3. Len(a) = 9
      BY <3>1
    <3>4. \A i \in 1 .. 9 : a[i] = <<Back[20 - i], 0>>
      BY <3>1 DEF Back
    <3> QED
      BY <3>2, <3>3, <3>4
  <2>3. z \in Seq(Step) /\ Len(z) = 1 /\ z[1] = <<"unfreeze", 0>>
    <3>1. z = <<<<"unfreeze", 0>>>>
      BY Literals
    <3> HIDE DEF z
    <3>2. z \in Seq(Step)
      BY <3>1, LiteralSteps
    <3> QED
      BY <3>1, <3>2
  <2> HIDE DEF a, z
  <2>4. /\ ar \in Seq(Step) /\ Len(ar) = Len(a) + Len(Reset)
        /\ \A i \in 1 .. Len(a) : ar[i] = a[i]
        /\ \A i \in 1 .. Len(Reset) : ar[Len(a) + i] = Reset[i]
    <3>1. Reset \in Seq(Step) /\ a \in Seq(Step)
      BY <1>1, <2>2
    <3> QED
      BY <3>1, Concat
  <2> HIDE DEF ar
  <2>5. /\ s \in Seq(Step) /\ Len(s) = Len(ar) + Len(z)
        /\ \A i \in 1 .. Len(ar) : s[i] = ar[i]
        /\ \A i \in 1 .. Len(z) : s[Len(ar) + i] = z[i]
    <3>1. ar \in Seq(Step) /\ z \in Seq(Step)
      BY <2>3, <2>4
    <3> QED
      BY <3>1, Concat
  <2> HIDE DEF s
  <2>6. /\ Len(ar) = 2 * Width + 22 /\ Len(s) = 2 * Width + 23
        /\ s[2 * Width + 23] = <<"unfreeze", 0>>
        /\ \A i \in 1 .. 9 : ar[i] = a[i]
        /\ \A i \in 1 .. 2 * Width + 13 : ar[9 + i] = Reset[i]
        /\ \A i \in 1 .. 2 * Width + 22 : s[i] = ar[i]
    BY <1>1, <2>2, <2>3, <2>4, <2>5
  <2>7. \A i \in 1 .. 2 * Width + 23 : s[i] = ResetStep(Width, 2 * Width + 23 - i - 1, "unfreeze")
    <3>1. s[2 * Width + 23] = ResetStep(Width, -1, "unfreeze")
      BY <2>6 DEF ResetStep
    <3>2. ASSUME NEW i \in 10 .. 2 * Width + 22
          PROVE  s[i] = ResetStep(Width, 2 * Width + 23 - i - 1, "unfreeze")
      <4>1. /\ 2 * Width + 23 - i - 1 = 2 * Width + 13 - (i - 9) /\ i - 9 \in 1 .. 2 * Width + 13
            /\ 9 + (i - 9) = i /\ i \in 1 .. 2 * Width + 22
        OBVIOUS
      <4>2. s[i] = Reset[i - 9]
        BY <2>6, <4>1
      <4> QED
        BY <1>1, <4>1, <4>2
    <3>3. ASSUME NEW i \in 1 .. 9
          PROVE  s[i] = ResetStep(Width, 2 * Width + 23 - i - 1, "unfreeze")
      <4>1. /\ 2 * Width + 23 - i - 1 > 2 * Width + 2 /\ 2 * Width + 23 - i - 1 > 2
            /\ 2 * Width + 23 - i - 1 - 2 * Width - 2 = 20 - i /\ i \in 1 .. 2 * Width + 22
        OBVIOUS
      <4>2. ResetStep(Width, 2 * Width + 23 - i - 1, "unfreeze") = <<Back[20 - i], 0>>
        BY <4>1 DEF ResetStep
      <4> QED
        BY <2>2, <2>6, <4>1, <4>2
    <3>4. 2 * Width + 23 - (2 * Width + 23) - 1 = -1
      OBVIOUS
    <3> QED
      BY <3>1, <3>2, <3>3, <3>4
  <2>8. 2 * Width + 23 \in Nat
    OBVIOUS
  <2>9. s = DriverPath("pm", Width, 2 * Width + 23)
    <3>1. s \in Seq(Step) /\ Len(s) = 2 * Width + 23
      BY <2>5, <2>6
    <3> QED
      BY <1>2, <1>3, <2>7, <2>8, <3>1
  <2> QED
    BY <2>1, <2>5, <2>9
<1> QED
  BY <1>1, <1>4, <1>5, <1>6

-----------------------------------------------------------------------------
(* Types and forms.                                                         *)

Command == [op : Fatal \cup Ignored, q : Nat \cup Reqs, own : BOOLEAN]
Entry   == [own : BOOLEAN, ok : BOOLEAN, n : 0 .. Queues]

Controllers == [en : BOOLEAN, rdy : BOOLEAN, health : {"ok", "fatal", "gone"},
                granted : 0 .. Queues, known : SUBSET ({"sq", "cq"} \X (Nat \cup Reqs)),
                reqs : SUBSET Reqs, cmds : SUBSET Command, lapse : BOOLEAN]

Typed ==
  /\ hw \in Controllers
  /\ cq \in Seq(Entry)
  /\ cmd \in Threads \cup {None} /\ holder \in Threads \cup {None}
  /\ dead \in BOOLEAN /\ latch \in BOOLEAN /\ workq \in BOOLEAN
  /\ nr \in 0 .. Queues /\ IsFiniteSet(io)
  /\ stage \in {"probe", "member", "orphan", "leaving", "gone"}
  /\ path \in [Threads -> Seq(Step)] /\ failed \in SUBSET Threads
  /\ quiesced \in Int /\ frozen \in BOOLEAN /\ memberDown \in BOOLEAN /\ degradeq \in BOOLEAN
  /\ req \in [Reqs -> {"none", "queued", "sent"}]
  /\ events \in Nat /\ overlapped \in BOOLEAN /\ tries \in Nat

-----------------------------------------------------------------------------
(* The steps of the drivers.                                                *)

\* How far the i-th step of n is from the rejoin.
LEMMA Distance ==
  ASSUME NEW w \in Int, NEW n \in Nat, NEW a \in {0, 1}, NEW l, l = n - a - 1,
         NEW b, b = l - w, l - w <= 21, NEW i \in 1 .. n, NEW d, d = l - i + 1
  PROVE  d \in Int /\ -1 <= d /\ d <= w + 21 /\ d - w = b - i + 1
OBVIOUS

\* A driver that has some steps left is somewhere in its list.
LEMMA StepAt ==
  ASSUME NEW t \in Drivers, NEW n \in Nat, path[t] \in Seq(Step), DriverForm(t, n),
         NEW i \in 1 .. Len(path[t])
  PROVE  /\ path[t][i] = ResetStep(n, Left(t) - i + 1, Final(t))
         /\ Places(path[t][i][1], Left(t) - i + 1, Before(t, n) - i + 1, Final(t))
<1>1. /\ Len(path[t]) \in Nat
      /\ After(t) \in {0, 1} /\ Final(t) \in {"latch", "unfreeze"} /\ First(t) \in {12, 21}
  BY DEF After, Final, Drivers, First
<1>2. /\ Left(t) = Len(path[t]) - After(t) - 1 /\ Before(t, n) = Left(t) - 2 * n
      /\ Before(t, n) <= 21
  BY <1>1 DEF Left, Before, DriverForm
<1>3. path[t][i] = ResetStep(n, Len(path[t]) - i - After(t), Final(t))
  BY DEF DriverForm, DriverPath
<1>4. Len(path[t]) - i - After(t) = Left(t) - i + 1
  BY <1>1, <1>2
<1> DEFINE d == Left(t) - i + 1
<1>5. d \in Int /\ -1 <= d /\ d <= 2 * n + 21 /\ d - 2 * n = Before(t, n) - i + 1
  <2> DEFINE w == 2 * n
             l == Left(t)
  <2>1. w \in Int /\ l = Len(path[t]) - After(t) - 1 /\ Before(t, n) = l - w /\ l - w <= 21
    BY <1>2
  <2>2. d = l - i + 1
    OBVIOUS
  <2> HIDE DEF d, l, w
  <2>3. /\ d \in Int /\ -1 <= d /\ d <= w + 21
        /\ d - w = Before(t, n) - i + 1
    <3>1. Len(path[t]) \in Nat /\ After(t) \in {0, 1}
      BY <1>1
    <3>2. l \in Int /\ i \in Int /\ 1 <= i /\ i <= Len(path[t]) /\ Before(t, n) \in Int
      BY <2>1, <3>1
    <3>3. l >= Len(path[t]) - 2
      BY <2>1, <3>1
    <3>4. d \in Int
      BY <2>2, <3>2
    <3>5. -1 <= d
      BY <2>2, <3>1, <3>2, <3>3
    <3>6. d <= w + 21
      BY <2>1, <2>2, <3>2
    <3>7. d - w = Before(t, n) - i + 1
      BY <2>1, <2>2, <3>2
    <3> QED
      BY <3>4, <3>5, <3>6, <3>7
  <2> QED
    BY <2>3 DEF w
<1>6. path[t][i] = ResetStep(n, d, Final(t))
  BY <1>3, <1>4
<1> HIDE DEF d
<1>7. Places(ResetStep(n, d, Final(t))[1], d, d - 2 * n, Final(t))
  BY <1>1, <1>5, NameOf
<1> QED
  BY <1>5, <1>6, <1>7 DEF d

\* A driver that skips steps.
LEMMA DriverJump ==
  ASSUME NEW t \in Drivers, path \in [Threads -> Seq(Step)], NEW n \in Nat, DriverForm(t, n),
         NEW k \in 1 .. Len(path[t]) + 1, Jump(t, SubSeq(path[t], k, Len(path[t])))
  PROVE  /\ DriverForm(t, n)' /\ Left(t)' = Left(t) - k + 1 /\ Before(t, n)' = Before(t, n) - k + 1
         /\ path' \in [Threads -> Seq(Step)]
         /\ \A u \in Threads \ {t} : path'[u] = path[u]
         /\ Len(path'[t]) = Len(path[t]) - k + 1
<1> DEFINE s == SubSeq(path[t], k, Len(path[t]))
<1>1. t \in Threads /\ path[t] \in Seq(Step) /\ Len(path[t]) \in Nat
  BY DEF Drivers, Threads
<1>2. s \in Seq(Step) /\ Len(s) = Len(path[t]) - k + 1 /\ s = DriverPath(t, n, Len(s))
  BY <1>1, Suffix
<1> HIDE DEF s
<1>3. path' = [path EXCEPT ![t] = s]
  BY DEF Jump, s
<1>4. path'[t] = s /\ path' \in [Threads -> Seq(Step)] /\ \A u \in Threads \ {t} : path'[u] = path[u]
  BY <1>1, <1>2, <1>3
<1>6. Left(t)' = Left(t) - k + 1
  <2>1. Left(t)' = Len(path'[t]) - After(t) - 1 /\ Left(t) = Len(path[t]) - After(t) - 1
    BY DEF Left, After
  <2>2. After(t) \in {0, 1}
    BY DEF After
  <2> QED
    BY <1>1, <1>2, <1>4, <2>1, <2>2
<1>7. /\ Left(t) = Len(path[t]) - After(t) - 1 /\ After(t) \in {0, 1} /\ First(t) \in {12, 21}
      /\ Before(t, n) = Left(t) - 2 * n /\ Before(t, n) <= First(t)
      /\ Before(t, n)' = Left(t)' - 2 * n
  BY DEF Left, After, First, Before, DriverForm
<1>8. Before(t, n)' = Before(t, n) - k + 1 /\ Before(t, n)' <= First(t)
  BY <1>1, <1>6, <1>7
<1>9. DriverForm(t, n)'
  BY <1>2, <1>4, <1>8 DEF DriverForm, DriverPath, First, Final, After, ResetStep, Back
<1> QED
  BY <1>2, <1>4, <1>6, <1>8, <1>9

\* A driver that takes a step.
LEMMA DriverGo ==
  ASSUME NEW t \in Drivers, path \in [Threads -> Seq(Step)], NEW n \in Nat, DriverForm(t, n),
         path[t] # <<>>, Go(t)
  PROVE  /\ DriverForm(t, n)' /\ Left(t)' = Left(t) - 1 /\ Before(t, n)' = Before(t, n) - 1
         /\ path' \in [Threads -> Seq(Step)]
         /\ \A u \in Threads \ {t} : path'[u] = path[u]
         /\ Len(path'[t]) = Len(path[t]) - 1
<1>1. t \in Threads /\ path[t] \in Seq(Step) /\ Len(path[t]) \in Nat /\ Len(path[t]) >= 1
  BY DEF Drivers, Threads
<1>2. Tail(path[t]) = SubSeq(path[t], 2, Len(path[t]))
  BY <1>1
<1>3. Jump(t, SubSeq(path[t], 2, Len(path[t])))
  BY <1>1, <1>2 DEF Go, Jump
<1>4. Left(t) \in Int /\ Before(t, n) \in Int
  BY <1>1 DEF Left, Before, After
<1>5. 2 \in 1 .. Len(path[t]) + 1
  BY <1>1
<1>6. /\ DriverForm(t, n)' /\ Left(t)' = Left(t) - 2 + 1 /\ Before(t, n)' = Before(t, n) - 2 + 1
      /\ path' \in [Threads -> Seq(Step)]
      /\ \A u \in Threads \ {t} : path'[u] = path[u]
      /\ Len(path'[t]) = Len(path[t]) - 2 + 1
  BY <1>3, <1>5, DriverJump
<1> QED
  BY <1>1, <1>4, <1>6

\* Where the unlock and the rejoin ahead of a driver are.
LEMMA FromStepIs ==
  ASSUME NEW s \in Seq(Step), NEW nm, NEW k \in 1 .. Len(s), s[k][1] = nm,
         \A j \in 1 .. k - 1 : s[j][1] # nm
  PROVE  FromStep(s, nm) = SubSeq(s, k, Len(s))
<1> DEFINE P(i) == s[i][1] = nm /\ \A j \in 1 .. i - 1 : s[j][1] # nm
           c == CHOOSE i \in DOMAIN s : P(i)
<1>1. k \in DOMAIN s /\ DOMAIN s = 1 .. Len(s) /\ Len(s) \in Nat
  OBVIOUS
<1>2. P(k)
  OBVIOUS
<1>3. c \in DOMAIN s /\ P(c)
  BY <1>1, <1>2
<1> HIDE DEF c
<1>4. c = k
  BY <1>1, <1>2, <1>3
<1> QED
  BY <1>4 DEF FromStep, c

\* A driver that fails goes on at its unlock, or at that of the suspend; one that
\* has brought the controller back goes on at the rejoin.
LEMMA DriverFails ==
  ASSUME NEW t \in Drivers, path \in [Threads -> Seq(Step)], NEW n \in Nat, DriverForm(t, n),
         1 <= Left(t)
  PROVE  \E k \in 1 .. Len(path[t]) :
            /\ FromStep(path[t], "unlock") = SubSeq(path[t], k, Len(path[t]))
            /\ Left(t) - k + 1 = IF Before(t, n) >= 14 THEN 2 * n + 14 ELSE 1
<1>1. /\ t \in Threads /\ path[t] \in Seq(Step) /\ Len(path[t]) \in Nat
      /\ After(t) \in {0, 1} /\ First(t) \in {12, 21}
  BY DEF Drivers, Threads, After, First
<1>2. /\ Left(t) = Len(path[t]) - After(t) - 1 /\ Before(t, n) = Left(t) - 2 * n
      /\ Before(t, n) <= 21
  BY <1>1 DEF Left, Before, DriverForm
<1>3. ASSUME NEW i \in 1 .. Len(path[t])
      PROVE  path[t][i][1] = "unlock" <=> Left(t) - i + 1 = 1 \/ Before(t, n) - i + 1 = 14
  <2>1. Places(path[t][i][1], Left(t) - i + 1, Before(t, n) - i + 1, Final(t))
    BY <1>1, StepAt
  <2> QED
    BY <2>1 DEF Places
<1>4. PICK k \in 1 .. Len(path[t]) :
         /\ Left(t) - k + 1 = IF Before(t, n) >= 14 THEN 2 * n + 14 ELSE 1
         /\ Left(t) - k + 1 = 1 \/ Before(t, n) - k + 1 = 14
         /\ \A j \in 1 .. k - 1 : ~(Left(t) - j + 1 = 1 \/ Before(t, n) - j + 1 = 14)
  <2>1. CASE Before(t, n) >= 14
    <3>1. Before(t, n) - 13 \in 1 .. Len(path[t])
      <4>1. Before(t, n) \in Int /\ Before(t, n) <= Len(path[t]) /\ Before(t, n) >= 14
        <5>1. After(t) \in {0, 1} /\ Len(path[t]) \in Nat
          BY <1>1
        <5>2. Left(t) = Len(path[t]) - After(t) - 1 /\ Before(t, n) = Left(t) - 2 * n
          BY <1>2
        <5> QED
          BY <2>1, <5>1, <5>2
      <4> QED
        BY <1>1, <4>1
    <3>2. /\ Left(t) - (Before(t, n) - 13) + 1 = 2 * n + 14
          /\ Before(t, n) - (Before(t, n) - 13) + 1 = 14
      <4>1. Left(t) \in Int /\ Before(t, n) \in Int /\ Left(t) = Before(t, n) + 2 * n
        BY <1>1, <1>2
      <4> QED
        BY <4>1
    <3>3. ASSUME NEW j \in 1 .. Before(t, n) - 13 - 1
          PROVE  Left(t) - j + 1 # 1 /\ Before(t, n) - j + 1 # 14
      <4>1. Left(t) \in Int /\ Before(t, n) \in Int /\ Left(t) >= Before(t, n)
        BY <1>1, <1>2
      <4> QED
        BY <2>1, <4>1
    <3> QED
      BY <2>1, <3>1, <3>2, <3>3
  <2>2. CASE ~(Before(t, n) >= 14)
    <3>1. Left(t) \in 1 .. Len(path[t]) /\ Left(t) - Left(t) + 1 = 1
      BY <1>1, <1>2, <2>2
    <3>2. ASSUME NEW j \in 1 .. Left(t) - 1
          PROVE  Left(t) - j + 1 # 1 /\ Before(t, n) - j + 1 # 14
      BY <1>1, <1>2, <2>2
    <3> QED
      BY <2>2, <3>1, <3>2
  <2> QED
    BY <2>1, <2>2
<1>5. path[t][k][1] = "unlock" /\ \A j \in 1 .. k - 1 : path[t][j][1] # "unlock"
  <2>1. \A j \in 1 .. k - 1 : j \in 1 .. Len(path[t])
    BY <1>1, <1>4
  <2> QED
    BY <1>3, <1>4, <2>1
<1>6. FromStep(path[t], "unlock") = SubSeq(path[t], k, Len(path[t]))
  BY <1>1, <1>4, <1>5, FromStepIs
<1> QED
  BY <1>4, <1>6

\* One that has brought the controller back goes on at the rejoin.
LEMMA DriverDone ==
  ASSUME NEW t \in Drivers, path \in [Threads -> Seq(Step)], NEW n \in Nat, DriverForm(t, n),
         Left(t) = 2
  PROVE  /\ 3 \in 1 .. Len(path[t])
         /\ FromStep(path[t], "rejoin") = SubSeq(path[t], 3, Len(path[t]))
<1>1. /\ t \in Threads /\ path[t] \in Seq(Step) /\ Len(path[t]) \in Nat
      /\ After(t) \in {0, 1}
  BY DEF Drivers, Threads, After
<1>2. Left(t) = Len(path[t]) - After(t) - 1 /\ 3 \in 1 .. Len(path[t])
  BY <1>1 DEF Left
<1>3. ASSUME NEW i \in 1 .. Len(path[t])
      PROVE  path[t][i][1] = "rejoin" <=> Left(t) - i + 1 = 0
  <2>1. Places(path[t][i][1], Left(t) - i + 1, Before(t, n) - i + 1, Final(t))
    BY <1>1, StepAt
  <2> QED
    BY <2>1 DEF Places
<1>4. path[t][3][1] = "rejoin" /\ \A j \in 1 .. 3 - 1 : path[t][j][1] # "rejoin"
  BY <1>1, <1>2, <1>3
<1> QED
  BY <1>1, <1>2, <1>4, FromStepIs

-----------------------------------------------------------------------------
(* Types.                                                                   *)

\* All but the paths.
Typed0 ==
  /\ hw \in Controllers
  /\ cq \in Seq(Entry)
  /\ cmd \in Threads \cup {None} /\ holder \in Threads \cup {None}
  /\ dead \in BOOLEAN /\ latch \in BOOLEAN /\ workq \in BOOLEAN
  /\ nr \in 0 .. Queues /\ IsFiniteSet(io)
  /\ stage \in {"probe", "member", "orphan", "leaving", "gone"}
  /\ failed \in SUBSET Threads
  /\ quiesced \in Int /\ frozen \in BOOLEAN /\ memberDown \in BOOLEAN /\ degradeq \in BOOLEAN
  /\ req \in [Reqs -> {"none", "queued", "sent"}]
  /\ events \in Nat /\ overlapped \in BOOLEAN /\ tries \in Nat

\* A change of some fields of the controller.
LEMMA HwTypes ==
  ASSUME hw \in Controllers
  PROVE  /\ hw.en \in BOOLEAN /\ hw.rdy \in BOOLEAN /\ hw.health \in {"ok", "fatal", "gone"}
         /\ hw.reqs \in SUBSET Reqs /\ hw.cmds \in SUBSET Command /\ hw.lapse \in BOOLEAN
         /\ hw.known \in SUBSET ({"sq", "cq"} \X (Nat \cup Reqs)) /\ hw.granted \in 0 .. Queues
         /\ Blank \in Controllers /\ Lost \in Controllers
         /\ [Blank EXCEPT !.lapse = hw.lapse] \in Controllers
<1>1. Queues \in Nat
  BY ControllerAssumption
<1>2. Blank \in Controllers
  BY <1>1 DEF Controllers, Blank
<1>3. hw.lapse \in BOOLEAN
  BY DEF Controllers
<1>4. [Blank EXCEPT !.lapse = hw.lapse] \in Controllers
  BY <1>2, <1>3 DEF Controllers
<1>5. Lost \in Controllers
  BY <1>2, <1>3 DEF Controllers, Lost
<1> QED
  BY <1>2, <1>4, <1>5 DEF Controllers

\* The events are counted.
LEMMA EventCounts ==
  ASSUME events \in Nat, Event \/ Events(2)
  PROVE  events' \in Nat
BY DEF Event, Events

\* The controller keeps its type.
LEMMA HardwareTyped ==
  ASSUME Typed0, HwUp \/ HwDown \/ HwFail \/ HwAdmin \/ IsrSeesDeath
  PROVE  Typed0'
<1>1. ASSUME HwUp PROVE Typed0'
  BY <1>1 DEF Typed0, HwUp, Controllers, admVars, flagVars, memVars, blkVars, histVars
<1>2. ASSUME HwDown PROVE Typed0'
  BY <1>2, HwTypes DEF Typed0, HwDown, admVars, flagVars, memVars, blkVars, histVars
<1>3. ASSUME HwFail PROVE Typed0'
  <2>1. hw' \in Controllers
    BY <1>3, HwTypes DEF Typed0, HwFail, Controllers
  <2>2. events' \in Nat
    BY <1>3 DEF Typed0, HwFail, Event, Events
  <2> QED
    BY <1>3, <2>1, <2>2 DEF Typed0, HwFail, admVars, flagVars, memVars, blkVars, histVars
<1>4. ASSUME HwAdmin PROVE Typed0'
  <2>1. PICK c \in hw.cmds :
       \/ /\ Accepts(c) /\ c.op \notin {"set_num", "ask_num"}
          /\ hw' = [hw EXCEPT !.cmds = @ \ {c}, !.known = Effect(c)]
          /\ Answer(c, TRUE, 0) /\ UNCHANGED events
       \/ /\ c.op \in {"set_num", "ask_num"}
          /\ \E n \in 1 .. Queues :
               /\ hw' = [hw EXCEPT !.cmds = @ \ {c}, !.granted = n]
               /\ Answer(c, TRUE, n)
               /\ IF n < Queues THEN Event ELSE UNCHANGED events
       \/ /\ IF Accepts(c) THEN Event ELSE UNCHANGED events
          /\ hw' = [hw EXCEPT !.cmds = @ \ {c},
                      !.lapse = @ \/ (Accepts(c) /\ c.op \in {"dsq", "dcq"})]
          /\ Answer(c, FALSE, 0)
    BY <1>4 DEF HwAdmin
  <2>2. hw \in Controllers /\ c \in Command /\ cq \in Seq(Entry) /\ events \in Nat /\ Queues \in Nat
    BY HwTypes, ControllerAssumption DEF Typed0
  <2>3. events' \in Nat
    <3>1. Event \/ UNCHANGED events
      BY <2>1
    <3> QED
      BY <2>2, <3>1, EventCounts
  <2>4. \A ok \in BOOLEAN : \A n \in 0 .. Queues : Answer(c, ok, n) => cq' \in Seq(Entry)
    <3> SUFFICES ASSUME NEW ok \in BOOLEAN, NEW n \in 0 .. Queues, Answer(c, ok, n)
                 PROVE  cq' \in Seq(Entry)
      OBVIOUS
    <3>1. [own |-> c.own, ok |-> ok, n |-> n] \in Entry
      BY <2>2 DEF Command, Entry
    <3> QED
      BY <2>2, <3>1 DEF Answer
  <2>5. cq' \in Seq(Entry)
    <3>1. 0 \in 0 .. Queues /\ \A n \in 1 .. Queues : n \in 0 .. Queues
      BY <2>2
    <3> QED
      BY <2>1, <2>4, <3>1
  <2>6. Names(c) \in {"sq", "cq"} \X (Nat \cup Reqs)
    BY <2>2 DEF Command, Names
  <2>7. Effect(c) \in SUBSET ({"sq", "cq"} \X (Nat \cup Reqs))
    BY <2>2, <2>6, HwTypes DEF Effect
  <2>8. hw' \in Controllers
    <3>1. CASE hw' = [hw EXCEPT !.cmds = @ \ {c}, !.known = Effect(c)]
      BY <2>2, <2>7, <3>1 DEF Controllers
    <3>2. CASE \E n \in 1 .. Queues : hw' = [hw EXCEPT !.cmds = @ \ {c}, !.granted = n]
      <4>1. PICK n \in 1 .. Queues : hw' = [hw EXCEPT !.cmds = @ \ {c}, !.granted = n]
        BY <3>2
      <4>2. n \in 0 .. Queues
        BY <2>2
      <4> QED
        BY <2>2, <4>1, <4>2 DEF Controllers
    <3>3. CASE hw' = [hw EXCEPT !.cmds = @ \ {c},
                      !.lapse = @ \/ (Accepts(c) /\ c.op \in {"dsq", "dcq"})]
      <4>1. (hw.lapse \/ (Accepts(c) /\ c.op \in {"dsq", "dcq"})) \in BOOLEAN
        OBVIOUS
      <4> QED
        BY <2>2, <3>3, <4>1 DEF Controllers
    <3> QED
      BY <2>1, <3>1, <3>2, <3>3
  <2> QED
    BY <1>4, <2>3, <2>5, <2>8 DEF Typed0, HwAdmin, flagVars, memVars, blkVars, histVars
<1>5. ASSUME IsrSeesDeath PROVE Typed0'
  BY <1>5 DEF Typed0, IsrSeesDeath, admVars, flagVars, memVars, blkVars, histVars
<1> QED
  BY <1>1, <1>2, <1>3, <1>4, <1>5

\* So do the requests.
LEMMA RequestsTyped ==
  ASSUME Typed0, NEW r \in Reqs, Enter(r) \/ Dispatch(r) \/ HwDone(r) \/ TimeOut(r)
  PROVE  Typed0'
<1>1. ASSUME Enter(r) PROVE Typed0'
  BY <1>1 DEF Typed0, Enter, admVars, flagVars, memVars, histVars
<1>2. ASSUME Dispatch(r) PROVE Typed0'
  <2>1. hw' \in Controllers
    BY <1>2 DEF Typed0, Dispatch, Controllers
  <2>2. req' \in [Reqs -> {"none", "queued", "sent"}] /\ memberDown' \in BOOLEAN /\ degradeq' \in BOOLEAN
    BY <1>2 DEF Typed0, Dispatch, MarkDown
  <2> QED
    BY <1>2, <2>1, <2>2 DEF Typed0, Dispatch, admVars, flagVars, memVars, histVars
<1>3. ASSUME HwDone(r) PROVE Typed0'
  <2>1. hw' \in Controllers
    BY <1>3 DEF Typed0, HwDone, Controllers
  <2>2. req' \in [Reqs -> {"none", "queued", "sent"}]
    BY <1>3 DEF Typed0, HwDone
  <2>3. memberDown' \in BOOLEAN /\ degradeq' \in BOOLEAN /\ events' \in Nat
    BY <1>3, EventCounts DEF Typed0, HwDone, MarkDown
  <2> QED
    BY <1>3, <2>1, <2>2, <2>3 DEF Typed0, HwDone, admVars, flagVars, memVars, histVars
<1>4. ASSUME TimeOut(r) PROVE Typed0'
  <2>1. dead' \in BOOLEAN /\ failed' \in SUBSET Threads /\ events' \in Nat
    BY <1>4 DEF Typed0, TimeOut, Start, Event, Events
  <2> QED
    BY <1>4, <2>1 DEF Typed0, TimeOut, admVars, memVars, blkVars, histVars
<1> QED
  BY <1>1, <1>2, <1>3, <1>4

\* And what starts a path.
LEMMA StartsTyped ==
  ASSUME Typed0, Degrade \/ AutoReset \/ ManualReset \/ Suspend \/ Unplug
  PROVE  Typed0'
<1>1. ASSUME NEW t, NEW s, Start(t, s) PROVE failed' \in SUBSET Threads
  BY <1>1 DEF Typed0, Start
<1>2. ASSUME Degrade PROVE Typed0'
  BY <1>1, <1>2 DEF Typed0, Degrade, admVars, flagVars, memVars, histVars
<1>3. ASSUME AutoReset PROVE Typed0'
  <2>1. tries' \in Nat /\ failed' \in SUBSET Threads
    BY <1>1, <1>3 DEF Typed0, AutoReset
  <2> QED
    BY <1>3, <2>1 DEF Typed0, AutoReset, admVars, memVars, blkVars
<1>4. ASSUME ManualReset PROVE Typed0'
  <2>1. events' \in Nat /\ failed' \in SUBSET Threads
    BY <1>1, <1>4 DEF Typed0, ManualReset, Events
  <2> QED
    BY <1>4, <2>1 DEF Typed0, ManualReset, admVars, flagVars, memVars, blkVars, histVars
<1>5. ASSUME Suspend PROVE Typed0'
  <2>1. events' \in Nat /\ failed' \in SUBSET Threads
    BY <1>1, <1>5 DEF Typed0, Suspend, Event, Events
  <2> QED
    BY <1>5, <2>1 DEF Typed0, Suspend, admVars, flagVars, memVars, blkVars, histVars
<1>6. ASSUME Unplug PROVE Typed0'
  <2>1. events' \in Nat /\ failed' \in SUBSET Threads /\ stage' = "leaving"
    BY <1>1, <1>6 DEF Typed0, Unplug, Events
  <2>2. hw' \in Controllers
    BY <1>6, HwTypes DEF Typed0, Unplug
  <2> QED
    BY <1>6, <2>1, <2>2 DEF Typed0, Unplug, admVars, flagVars, blkVars, histVars
<1> QED
  BY <1>2, <1>3, <1>4, <1>5, <1>6

\* What the wait for the controller's answer leaves.
LEMMA WaitTyped ==
  ASSUME Typed0, Settled \/ RunsOut(TRUE) \/ RunsOut(FALSE)
  PROVE  hw' \in Controllers /\ events' \in Nat
<1>1. hw \in Controllers /\ events \in Nat
  BY DEF Typed0
<1>2. hw' \in {hw, [hw EXCEPT !.lapse = TRUE]} /\ (Event \/ UNCHANGED events)
  BY DEF Settled, RunsOut
<1>3. [hw EXCEPT !.lapse = TRUE] \in Controllers
  BY <1>1 DEF Controllers
<1> QED
  BY <1>1, <1>2, <1>3, EventCounts

\* A failure, or a step, leaves a set of threads.
LEMMA FailTyped ==
  ASSUME Typed0, NEW t \in Threads, Fail(t) \/ UNCHANGED failed
  PROVE  failed' \in SUBSET Threads
BY DEF Typed0, Fail

\* The steps that drive the registers keep the types.
LEMMA RegistersTyped ==
  ASSUME Typed0, NEW t \in Threads,
         \/ SetDead(t) \/ Mask(t) \/ Disable(t) \/ DisableDead(t) \/ Settle(t) \/ Off(t)
         \/ On(t) \/ WaitReady(t, "wait0", FALSE) \/ WaitReady(t, "wait0_any", FALSE)
         \/ WaitReady(t, "wait1", TRUE) \/ EndAll(t)
  PROVE  Typed0'
<1> USE DEF admVars, flagVars, memVars, blkVars, histVars
<1>1. hw \in Controllers /\ events \in Nat /\ cq \in Seq(Entry)
  BY DEF Typed0
<1>2. [hw EXCEPT !.en = FALSE] \in Controllers /\ [hw EXCEPT !.en = TRUE] \in Controllers
  BY <1>1 DEF Controllers
<1>3. ASSUME SetDead(t) PROVE Typed0'
  BY <1>3 DEF Typed0, SetDead
<1>4. ASSUME Mask(t) PROVE Typed0'
  BY <1>4 DEF Typed0, Mask
<1>5. ASSUME Disable(t) PROVE Typed0'
  BY <1>2, <1>5 DEF Typed0, Disable
<1>6. ASSUME DisableDead(t) PROVE Typed0'
  <2>1. hw' \in Controllers
    BY <1>1, <1>2, <1>6 DEF DisableDead
  <2> QED
    BY <1>6, <2>1 DEF Typed0, DisableDead
<1>7. ASSUME Settle(t) PROVE Typed0'
  BY <1>7, WaitTyped DEF Typed0, Settle
<1>8. ASSUME Off(t) PROVE Typed0'
  BY <1>2, <1>8 DEF Typed0, Off
<1>9. ASSUME On(t) PROVE Typed0'
  <2>1. hw' \in Controllers
    BY <1>1, <1>2, <1>9 DEF On
  <2>2. events' \in Nat
    BY <1>1, <1>9, EventCounts DEF On
  <2>3. failed' \in SUBSET Threads
    BY <1>9, FailTyped DEF On
  <2>4. cq' \in Seq(Entry)
    BY <1>9 DEF On
  <2> QED
    BY <1>9, <2>1, <2>2, <2>3, <2>4 DEF Typed0, On
<1>10. ASSUME NEW name, NEW up \in BOOLEAN, WaitReady(t, name, up) PROVE Typed0'
  <2>1. hw' \in Controllers /\ events' \in Nat
    BY <1>1, <1>10, WaitTyped DEF WaitReady
  <2>2. failed' \in SUBSET Threads
    BY <1>10, FailTyped DEF WaitReady
  <2> QED
    BY <1>10, <2>1, <2>2 DEF Typed0, WaitReady
<1>11. ASSUME EndAll(t) PROVE Typed0'
  <2>1. hw' \in Controllers /\ events' \in Nat
    BY <1>11, WaitTyped DEF EndAll
  <2>2. req' \in [Reqs -> {"none", "queued", "sent"}]
    BY <1>11 DEF Typed0, EndAll
  <2>3. memberDown' \in BOOLEAN /\ degradeq' \in BOOLEAN /\ workq' \in BOOLEAN
    BY <1>11 DEF Typed0, EndAll, MarkDown
  <2> QED
    BY <1>11, <2>1, <2>2, <2>3 DEF Typed0, EndAll
<1> QED
  BY <1>3, <1>4, <1>5, <1>6, <1>7, <1>8, <1>9, <1>10, <1>11

\* So do the commands.
LEMMA CommandsTyped ==
  ASSUME Typed, NEW t \in Threads, Issue(t) \/ Consume(t) \/ GiveUp(t)
  PROVE  Typed0'
<1> USE DEF flagVars, memVars, blkVars, histVars
<1>1. /\ hw \in Controllers /\ events \in Nat /\ cq \in Seq(Entry) /\ Typed0
      /\ nr \in 0 .. Queues /\ Queues \in Nat \ {0} /\ path[t] \in Seq(Step)
  BY ControllerAssumption DEF Typed, Typed0
<1>2. ASSUME Issue(t) PROVE Typed0'
  <2>1. Head(path[t]) \in Step
    BY <1>1, <1>2 DEF Issue
  <2>2. [op |-> Head(path[t])[1], q |-> Arg(t), own |-> TRUE] \in Command
    BY <1>2, <2>1 DEF Issue, Command, Step, Arg
  <2>3. hw' \in Controllers
    BY <1>1, <1>2, <2>2 DEF Issue, Controllers
  <2> QED
    BY <1>1, <1>2, <2>3 DEF Issue, Typed0
<1>3. ASSUME NEW ok, NEW n \in 0 .. Queues, Return(t, ok, n)
      PROVE  cmd' = None /\ holder' \in Threads \cup {None} /\ nr' \in 0 .. Queues
             /\ failed' \in SUBSET Threads
  <2>1. holder' \in Threads \cup {None} /\ cmd' = None
    BY <1>3 DEF Return
  <2>2. nr' \in 0 .. Queues
    <3>1. nr' \in {n, nr, 1}
      BY <1>3 DEF Return
    <3> QED
      BY <1>1, <3>1
  <2>3. failed' \in SUBSET Threads
    BY <1>1, <1>3, FailTyped DEF Return
  <2> QED
    BY <2>1, <2>2, <2>3
<1>4. ASSUME Consume(t) PROVE Typed0'
  <2>1. Head(cq) \in Entry /\ Tail(cq) \in Seq(Entry)
    BY <1>1, <1>4 DEF Consume
  <2>2. Head(cq).n \in 0 .. Queues
    BY <2>1 DEF Entry
  <2>3. \/ Return(t, Head(cq).ok, Head(cq).n)
        \/ UNCHANGED <<cmd, holder, nr, path, failed>>
    BY <1>4 DEF Consume
  <2>4. cmd' \in Threads \cup {None} /\ holder' \in Threads \cup {None} /\ nr' \in 0 .. Queues
        /\ failed' \in SUBSET Threads
    BY <1>1, <1>3, <2>2, <2>3 DEF Typed0
  <2> QED
    BY <1>1, <1>4, <2>1, <2>4 DEF Consume, Typed0
<1>5. ASSUME GiveUp(t) PROVE Typed0'
  <2>1. 0 \in 0 .. Queues /\ Return(t, FALSE, 0)
    <3>1. 0 \in 0 .. Queues
      BY <1>1
    <3>2. Return(t, FALSE, 0)
      BY <1>5 DEF GiveUp
    <3> QED
      BY <3>1, <3>2
  <2>2. cmd' = None /\ holder' \in Threads \cup {None} /\ nr' \in 0 .. Queues
        /\ failed' \in SUBSET Threads
    BY <1>3, <2>1
  <2>3. events' \in Nat
    BY <1>1, <1>5, EventCounts DEF GiveUp
  <2>4. hw' \in Controllers
    <3>1. hw.cmds \in SUBSET Command
      BY <1>1, HwTypes
    <3>2. {[c EXCEPT !.own = FALSE] : c \in hw.cmds} \in SUBSET Command
      BY <3>1 DEF Command
    <3> DEFINE owned == {c \in hw.cmds : c.own}
    <3>3. CASE owned = {} \/ ~Serving
      <4>1. hw' = [hw EXCEPT !.cmds = @ \ owned]
        BY <1>5, <3>3 DEF GiveUp
      <4> HIDE DEF owned
      <4> QED
        BY <1>1, <3>1, <4>1 DEF Controllers
    <3>4. CASE ~(owned = {} \/ ~Serving)
      <4>1. hw' = [hw EXCEPT !.lapse = TRUE, !.cmds = {[c EXCEPT !.own = FALSE] : c \in @}]
        BY <1>5, <3>4, Zenon DEF GiveUp
      <4>2. hw' = [hw EXCEPT !.lapse = TRUE, !.cmds = {[c EXCEPT !.own = FALSE] : c \in hw.cmds}]
        BY <1>1, <4>1 DEF Controllers
      <4> DEFINE lost == {[c EXCEPT !.own = FALSE] : c \in hw.cmds}
      <4>3. lost \in SUBSET Command
        BY <3>2
      <4>4. hw' = [hw EXCEPT !.lapse = TRUE, !.cmds = lost]
        BY <4>2
      <4> HIDE DEF lost
      <4> QED
        BY <1>1, <4>3, <4>4 DEF Controllers
    <3> QED
      BY <3>3, <3>4
  <2> QED
    BY <1>1, <1>5, <2>2, <2>3, <2>4 DEF GiveUp, Typed0
<1> QED
  BY <1>2, <1>4, <1>5

\* And the rest.
LEMMA OthersTyped ==
  ASSUME Typed, NEW t \in Threads,
         \/ Lock(t) \/ Unlock(t) \/ Live(t) \/ Latch(t) \/ Stuck(t)
         \/ EndOne(t) \/ Quiesce(t) \/ Rejoin(t) \/ Freeze(t) \/ FreezeWait(t)
         \/ Cancel(t) \/ Sleep(t) \/ Alloc(t) \/ MakeQueues(t) \/ Irq(t) \/ Register(t)
         \/ Destroy(t) \/ Free(t) \/ Leave(t)
  PROVE  Typed0'
<1> USE DEF admVars, flagVars, memVars, blkVars, histVars
<1>1. /\ hw \in Controllers /\ events \in Nat /\ Typed0
      /\ [hw EXCEPT !.en = FALSE] \in Controllers
  BY DEF Typed, Typed0, Controllers
<1>2. ASSUME Lock(t) PROVE Typed0'
  <2>1. hw' \in Controllers
    BY <1>1, <1>2 DEF Lock
  <2> QED
    BY <1>1, <1>2, <2>1 DEF Lock, Typed0
<1>3. ASSUME Unlock(t) PROVE Typed0'
  BY <1>1, <1>3 DEF Unlock, Typed0
<1>4. ASSUME Live(t) PROVE Typed0'
  BY <1>1, <1>4 DEF Live, Typed0
<1>5. ASSUME Latch(t) PROVE Typed0'
  BY <1>1, <1>5 DEF Latch, Typed0
<1>6. ASSUME Stuck(t) PROVE Typed0'
  BY <1>1, <1>6 DEF Stuck, Typed0
<1>7. ASSUME EndOne(t) PROVE Typed0'
  <2>1. req' \in [Reqs -> {"none", "queued", "sent"}]
    BY <1>1, <1>7 DEF EndOne, Typed0
  <2> QED
    BY <1>1, <1>7, <2>1 DEF EndOne, Typed0
<1>8. ASSUME Quiesce(t) PROVE Typed0'
  BY <1>1, <1>8 DEF Quiesce, Typed0
<1>15. ASSUME Rejoin(t) PROVE Typed0'
  <2>1. failed' \in SUBSET Threads
    BY <1>1, <1>15 DEF Rejoin, Typed0
  <2>2. quiesced' \in Int /\ memberDown' \in BOOLEAN
    BY <1>1, <1>15 DEF Rejoin, Typed0
  <2> QED
    BY <1>1, <1>15, <2>1, <2>2 DEF Rejoin, Typed0
<1>9. ASSUME FreezeWait(t) PROVE Typed0'
  BY <1>1, <1>9 DEF FreezeWait, Typed0
<1>16. ASSUME Freeze(t) PROVE Typed0'
  BY <1>1, <1>16 DEF Freeze, Typed0
<1>17. ASSUME Cancel(t) PROVE Typed0'
  <2>1. workq' \in BOOLEAN
    BY <1>1, <1>17 DEF Cancel, Typed0
  <2> QED
    BY <1>1, <1>17, <2>1 DEF Cancel, Typed0
<1>18. ASSUME Sleep(t) PROVE Typed0'
  BY <1>1, <1>18 DEF Sleep, Typed0
<1>12. ASSUME Irq(t) PROVE Typed0'
  <2>1. events' \in Nat
    BY <1>1, <1>12, EventCounts DEF Irq
  <2>2. failed' \in SUBSET Threads
    BY <1>1, <1>12, FailTyped DEF Irq
  <2>3. IsFiniteSet(io')
    <3>1. IsFiniteSet(io)
      BY <1>1 DEF Typed0
    <3>2. IsFiniteSet(io \cup {Arg(t)})
      BY <3>1, FS_AddElement
    <3>3. io' = io \cup {Arg(t)} \/ io' = io
      BY <1>12 DEF Irq
    <3> QED
      BY <3>1, <3>2, <3>3
  <2> QED
    BY <1>1, <1>12, <2>1, <2>2, <2>3 DEF Irq, Typed0
<1>10. ASSUME Alloc(t) PROVE Typed0'
  <2>1. events' \in Nat
    BY <1>1, <1>10, EventCounts DEF Alloc
  <2>2. failed' \in SUBSET Threads
    BY <1>1, <1>10, FailTyped DEF Alloc
  <2> QED
    BY <1>1, <1>10, <2>1, <2>2 DEF Alloc, Typed0
<1>11. ASSUME MakeQueues(t) PROVE Typed0'
  BY <1>1, <1>11 DEF MakeQueues, Typed0
<1>19. ASSUME Free(t) PROVE Typed0'
  BY <1>1, <1>19 DEF Free, Typed0
<1>13. ASSUME Register(t) \/ Leave(t) PROVE Typed0'
  BY <1>1, <1>13 DEF Register, Leave, Typed0
<1>14. ASSUME Destroy(t) PROVE Typed0'
  <2>1. IsFiniteSet(io)
    BY <1>1 DEF Typed0
  <2>2. io' \subseteq io
    BY <1>14 DEF Destroy
  <2>3. IsFiniteSet(io')
    BY <2>1, <2>2, FS_Subset
  <2> QED
    BY <1>1, <1>14, <2>3 DEF Destroy, Typed0
<1> QED
  BY <1>2, <1>3, <1>4, <1>5, <1>6, <1>7, <1>8, <1>9, <1>10, <1>11, <1>12, <1>13, <1>14, <1>15,
     <1>16, <1>17, <1>18, <1>19

-----------------------------------------------------------------------------
(* What a step of a thread does.                                            *)

NoReq == \A r \in Reqs : req[r] = "none"

\* The steps whose failure is not ignored.
Failing == {"on", "wait0", "wait1", "set_num", "ccq", "csq", "alloc", "new", "irq"}

HeadIn(t, S) == path[t] # <<>> /\ Head(path[t])[1] \in S

\* The queue that is destroyed next.
Lowest == CHOOSE i \in io : \A j \in io : i <= j

\* What it does to the thread's path.
Shape(t) ==
  \/ UNCHANGED path
  \/ path[t] # <<>> /\ ~At(t, "live") /\ Go(t)
  \/ At(t, "mask") /\ Jump(t, SubSeq(path[t], 4, Len(path[t])))
  \/ At(t, "disable_dead") /\ Jump(t, Tail(Tail(path[t])))
  \/ At(t, "stuck") /\ Jump(t, <<>>)
  \/ HeadIn(t, Failing) /\ Fail(t)
  \/ At(t, "live") /\ Jump(t, FromStep(path[t], "rejoin"))
  \/ At(t, "queues") /\ Jump(t, PerQueue(<<"new", "ccq", "csq", "irq">>, nr) \o Tail(path[t]))
  \/ At(t, "destroy") /\ io # {} /\ Jump(t, DestroyOne(Lowest) \o path[t])

\* To the path, to the command waited for and to what the path goes through.
Moves(t) ==
  /\ cmd' = cmd \/ cmd' = None \/ (cmd' = t /\ path' = path /\ HeadIn(t, Fatal \cup Ignored))
  /\ cmd = t => path' = path \/ cmd' = None
  /\ io' \subseteq io \/ (At(t, "irq") /\ io' = io \cup {Arg(t)})
  /\ \/ stage' = stage
     \/ At(t, "register") /\ Go(t)
     \/ (At(t, "leave") /\ stage' = "gone")

\* To the flags of the resets.
Flags(t) ==
  /\ overlapped => overlapped'
  /\ At(t, "dead") => overlapped' \/ \A u \in Threads \ {t} : ~Driving(u)
  /\ \A u \in failed :
       u \in failed' \/ (u = t /\ (At(t, "dead") \/ At(t, "latch")
                                    \/ (At(t, "rejoin") /\ ~Has(t, "latch"))))
  /\ tries' # 0 => tries' = tries /\ (latch' <=> latch \/ (At(t, "latch") /\ t \in failed))
  /\ workq' => workq \/ ~latch
  /\ At(t, "live") => tries' = 0

\* To what a suspend holds still.
Stills(t) ==
  /\ frozen => frozen' \/ (At(t, "unfreeze") /\ Go(t))
  /\ At(t, "freeze") => frozen'
  /\ NoReq => NoReq'
  /\ At(t, "freeze_wait") => NoReq
  /\ hw'.en => hw.en \/ At(t, "on")
  /\ At(t, "off") => ~hw'.en
  /\ At(t, "cancel") => path["work"] = <<>>

\* Only a driver of the command's own step waits for it.
Waiting == cmd # None => HeadIn(cmd, Fatal \cup Ignored)

\* A thread moves along its path.
LEMMA ThreadShape ==
  ASSUME NEW t \in Threads, ThreadStep(t), Waiting
  PROVE  Shape(t)
<1> USE DEF admVars, flagVars, memVars, blkVars, histVars, MarkDown
<1>1. cmd = t => HeadIn(t, Fatal \cup Ignored)
  BY ControllerAssumption DEF Waiting
<1>2. CASE SetDead(t)
  BY <1>2 DEF SetDead, Shape, HeadIn, Failing, At, Fatal, Ignored
<1>3. CASE Mask(t)
  BY <1>3 DEF Mask, Shape, HeadIn, Failing, At, Fatal, Ignored
<1>4. CASE Disable(t)
  BY <1>4 DEF Disable, Shape, HeadIn, Failing, At, Fatal, Ignored
<1>5. CASE DisableDead(t)
  BY <1>5 DEF DisableDead, Shape, HeadIn, Failing, At, Fatal, Ignored
<1>6. CASE Settle(t)
  BY <1>6 DEF Settle, Shape, HeadIn, Failing, At, Fatal, Ignored
<1>7. CASE Off(t)
  BY <1>7 DEF Off, Shape, HeadIn, Failing, At, Fatal, Ignored
<1>8. CASE On(t)
  BY <1>8 DEF On, Shape, HeadIn, Failing, At, Fatal, Ignored
<1>9. CASE WaitReady(t, "wait0", FALSE)
  BY <1>9 DEF WaitReady, Shape, HeadIn, Failing, At, Fatal, Ignored
<1>10. CASE WaitReady(t, "wait0_any", FALSE)
  BY <1>10 DEF WaitReady, Shape, HeadIn, Failing, At, Fatal, Ignored
<1>11. CASE WaitReady(t, "wait1", TRUE)
  BY <1>11 DEF WaitReady, Shape, HeadIn, Failing, At, Fatal, Ignored
<1>12. CASE Issue(t)
  BY <1>12, <1>1 DEF Issue, Shape, HeadIn, Failing, At, Fatal, Ignored
<1>13. CASE Consume(t)
  <2>1. UNCHANGED path \/ (\E ok, n : Return(t, ok, n))
    BY <1>13 DEF Consume
  <2>2. HeadIn(t, Fatal \cup Ignored) /\ ~At(t, "live")
    BY <1>13, <1>1 DEF Consume, HeadIn, At, Fatal, Ignored
  <2>3. ASSUME NEW ok, NEW n, Return(t, ok, n)
        PROVE  Go(t) \/ (HeadIn(t, Failing) /\ Fail(t))
    <3>1. Go(t) \/ (Head(path[t])[1] \notin Ignored /\ Fail(t))
      BY <2>3 DEF Return
    <3> QED
      BY <2>2, <3>1 DEF HeadIn, Failing, Fatal
  <2> QED
    BY <2>1, <2>2, <2>3 DEF Shape, HeadIn
<1>14. CASE GiveUp(t)
  <2>1. \E ok, n : Return(t, ok, n)
    BY <1>14 DEF GiveUp
  <2>2. HeadIn(t, Fatal \cup Ignored) /\ ~At(t, "live")
    BY <1>14, <1>1 DEF GiveUp, HeadIn, At, Fatal, Ignored
  <2>3. ASSUME NEW ok, NEW n, Return(t, ok, n)
        PROVE  Go(t) \/ (HeadIn(t, Failing) /\ Fail(t))
    <3>1. Go(t) \/ (Head(path[t])[1] \notin Ignored /\ Fail(t))
      BY <2>3 DEF Return
    <3> QED
      BY <2>2, <3>1 DEF HeadIn, Failing, Fatal
  <2> QED
    BY <2>1, <2>2, <2>3 DEF Shape, HeadIn
<1>15. CASE Lock(t)
  BY <1>15 DEF Lock, Shape, HeadIn, Failing, At, Fatal, Ignored
<1>16. CASE Unlock(t)
  BY <1>16 DEF Unlock, Shape, HeadIn, Failing, At, Fatal, Ignored
<1>17. CASE Live(t)
  BY <1>17 DEF Live, Shape, HeadIn, Failing, At, Fatal, Ignored
<1>18. CASE Latch(t)
  BY <1>18 DEF Latch, Shape, HeadIn, Failing, At, Fatal, Ignored
<1>19. CASE Stuck(t)
  BY <1>19 DEF Stuck, Shape, HeadIn, Failing, At, Fatal, Ignored
<1>20. CASE EndAll(t)
  BY <1>20 DEF EndAll, Shape, HeadIn, Failing, At, Fatal, Ignored
<1>21. CASE EndOne(t)
  BY <1>21 DEF EndOne, Shape, HeadIn, Failing, At, Fatal, Ignored
<1>22. CASE Quiesce(t)
  BY <1>22 DEF Quiesce, Shape, HeadIn, Failing, At, Fatal, Ignored
<1>23. CASE Rejoin(t)
  BY <1>23 DEF Rejoin, Shape, HeadIn, Failing, At, Fatal, Ignored
<1>24. CASE Freeze(t)
  BY <1>24 DEF Freeze, Shape, HeadIn, Failing, At, Fatal, Ignored
<1>25. CASE FreezeWait(t)
  BY <1>25 DEF FreezeWait, Shape, HeadIn, Failing, At, Fatal, Ignored
<1>26. CASE Cancel(t)
  BY <1>26 DEF Cancel, Shape, HeadIn, Failing, At, Fatal, Ignored
<1>27. CASE Sleep(t)
  BY <1>27 DEF Sleep, Shape, HeadIn, Failing, At, Fatal, Ignored
<1>28. CASE Alloc(t)
  BY <1>28 DEF Alloc, Shape, HeadIn, Failing, At, Fatal, Ignored
<1>29. CASE MakeQueues(t)
  BY <1>29 DEF MakeQueues, Shape, HeadIn, Failing, At, Fatal, Ignored
<1>30. CASE Irq(t)
  BY <1>30 DEF Irq, Shape, HeadIn, Failing, At, Fatal, Ignored
<1>31. CASE Register(t)
  BY <1>31 DEF Register, Shape, HeadIn, Failing, At, Fatal, Ignored
<1>32. CASE Destroy(t)
  BY <1>32 DEF Destroy, Shape, HeadIn, At, Lowest
<1>33. CASE Free(t)
  BY <1>33 DEF Free, Shape, HeadIn, Failing, At, Fatal, Ignored
<1>34. CASE Leave(t)
  BY <1>34 DEF Leave, Shape, HeadIn, Failing, At, Fatal, Ignored
<1> QED
  BY <1>2, <1>3, <1>4, <1>5, <1>6, <1>7, <1>8, <1>9, <1>10, <1>11, <1>12,
     <1>13, <1>14, <1>15, <1>16, <1>17, <1>18, <1>19, <1>20, <1>21, <1>22, <1>23,
     <1>24, <1>25, <1>26, <1>27, <1>28, <1>29, <1>30, <1>31, <1>32, <1>33, <1>34 DEF ThreadStep

\* And what goes with it.
LEMMA ThreadMoves ==
  ASSUME NEW t \in Threads, ThreadStep(t), Waiting
  PROVE  Moves(t)
<1> USE DEF admVars, flagVars, memVars, blkVars, histVars, MarkDown
<1>1. cmd = t => HeadIn(t, Fatal \cup Ignored)
  BY ControllerAssumption DEF Waiting
<1>2. CASE SetDead(t)
  BY <1>2, <1>1 DEF SetDead, Moves, HeadIn, At, Fatal, Ignored
<1>3. CASE Mask(t)
  BY <1>3, <1>1 DEF Mask, Moves, HeadIn, At, Fatal, Ignored
<1>4. CASE Disable(t)
  BY <1>4, <1>1 DEF Disable, Moves, HeadIn, At, Fatal, Ignored
<1>5. CASE DisableDead(t)
  BY <1>5, <1>1 DEF DisableDead, Moves, HeadIn, At, Fatal, Ignored
<1>6. CASE Settle(t)
  BY <1>6, <1>1 DEF Settle, Moves, HeadIn, At, Fatal, Ignored
<1>7. CASE Off(t)
  BY <1>7, <1>1 DEF Off, Moves, HeadIn, At, Fatal, Ignored
<1>8. CASE On(t)
  BY <1>8, <1>1 DEF On, Moves, HeadIn, At, Fatal, Ignored
<1>9. CASE WaitReady(t, "wait0", FALSE)
  BY <1>9, <1>1 DEF WaitReady, Moves, HeadIn, At, Fatal, Ignored
<1>10. CASE WaitReady(t, "wait0_any", FALSE)
  BY <1>10, <1>1 DEF WaitReady, Moves, HeadIn, At, Fatal, Ignored
<1>11. CASE WaitReady(t, "wait1", TRUE)
  BY <1>11, <1>1 DEF WaitReady, Moves, HeadIn, At, Fatal, Ignored
<1>12. CASE Issue(t)
  BY <1>12, <1>1 DEF Issue, Moves, HeadIn, At, Fatal, Ignored
<1>13. CASE Consume(t)
  <2>1. cmd = t /\ (cmd' = None \/ (UNCHANGED path /\ cmd' = cmd))
    BY <1>13 DEF Consume, Return
  <2> QED
    BY <1>13, <2>1 DEF Consume, Moves
<1>14. CASE GiveUp(t)
  <2>1. cmd = t /\ cmd' = None
    BY <1>14 DEF GiveUp, Return
  <2> QED
    BY <1>14, <2>1 DEF GiveUp, Moves
<1>15. CASE Lock(t)
  BY <1>15, <1>1 DEF Lock, Moves, HeadIn, At, Fatal, Ignored
<1>16. CASE Unlock(t)
  BY <1>16, <1>1 DEF Unlock, Moves, HeadIn, At, Fatal, Ignored
<1>17. CASE Live(t)
  BY <1>17, <1>1 DEF Live, Moves, HeadIn, At, Fatal, Ignored
<1>18. CASE Latch(t)
  BY <1>18, <1>1 DEF Latch, Moves, HeadIn, At, Fatal, Ignored
<1>19. CASE Stuck(t)
  BY <1>19, <1>1 DEF Stuck, Moves, HeadIn, At, Fatal, Ignored
<1>20. CASE EndAll(t)
  BY <1>20, <1>1 DEF EndAll, Moves, HeadIn, At, Fatal, Ignored
<1>21. CASE EndOne(t)
  BY <1>21, <1>1 DEF EndOne, Moves, HeadIn, At, Fatal, Ignored
<1>22. CASE Quiesce(t)
  BY <1>22, <1>1 DEF Quiesce, Moves, HeadIn, At, Fatal, Ignored
<1>23. CASE Rejoin(t)
  BY <1>23, <1>1 DEF Rejoin, Moves, HeadIn, At, Fatal, Ignored
<1>24. CASE Freeze(t)
  BY <1>24, <1>1 DEF Freeze, Moves, HeadIn, At, Fatal, Ignored
<1>25. CASE FreezeWait(t)
  BY <1>25, <1>1 DEF FreezeWait, Moves, HeadIn, At, Fatal, Ignored
<1>26. CASE Cancel(t)
  BY <1>26, <1>1 DEF Cancel, Moves, HeadIn, At, Fatal, Ignored
<1>27. CASE Sleep(t)
  BY <1>27, <1>1 DEF Sleep, Moves, HeadIn, At, Fatal, Ignored
<1>28. CASE Alloc(t)
  BY <1>28, <1>1 DEF Alloc, Moves, HeadIn, At, Fatal, Ignored
<1>29. CASE MakeQueues(t)
  BY <1>29, <1>1 DEF MakeQueues, Moves, HeadIn, At, Fatal, Ignored
<1>30. CASE Irq(t)
  BY <1>30, <1>1 DEF Irq, Moves, HeadIn, At, Fatal, Ignored
<1>31. CASE Register(t)
  BY <1>31, <1>1 DEF Register, Moves, HeadIn, At, Fatal, Ignored
<1>32. CASE Destroy(t)
  BY <1>32, <1>1 DEF Destroy, Moves, HeadIn, At, Fatal, Ignored
<1>33. CASE Free(t)
  BY <1>33, <1>1 DEF Free, Moves, HeadIn, At, Fatal, Ignored
<1>34. CASE Leave(t)
  BY <1>34, <1>1 DEF Leave, Moves, HeadIn, At, Fatal, Ignored
<1> QED
  BY <1>2, <1>3, <1>4, <1>5, <1>6, <1>7, <1>8, <1>9, <1>10, <1>11, <1>12,
     <1>13, <1>14, <1>15, <1>16, <1>17, <1>18, <1>19, <1>20, <1>21, <1>22, <1>23,
     <1>24, <1>25, <1>26, <1>27, <1>28, <1>29, <1>30, <1>31, <1>32, <1>33, <1>34 DEF ThreadStep

\* A wait leaves CC.EN alone.
LEMMA WaitKeeps ==
  ASSUME Typed, Settled \/ RunsOut(TRUE) \/ RunsOut(FALSE)
  PROVE  hw'.en = hw.en
<1>1. hw \in Controllers /\ [hw EXCEPT !.lapse = TRUE].en = hw.en
  BY DEF Typed, Controllers
<1>2. hw' = hw \/ hw' = [hw EXCEPT !.lapse = TRUE]
  BY DEF Settled, RunsOut
<1> QED
  BY <1>1, <1>2

\* What it does to the flags.
LEMMA ThreadFlags ==
  ASSUME NEW t \in Threads, ThreadStep(t), Waiting, Typed
  PROVE  Flags(t)
<1> USE DEF admVars, flagVars, memVars, blkVars, histVars, MarkDown
<1>1. cmd = t => HeadIn(t, Fatal \cup Ignored)
  BY ControllerAssumption DEF Waiting
<1>2. /\ hw \in Controllers /\ overlapped \in BOOLEAN /\ latch \in BOOLEAN /\ workq \in BOOLEAN
      /\ frozen \in BOOLEAN /\ events \in Nat /\ hw.en \in BOOLEAN
  BY DEF Typed, Controllers
<1>3. CASE SetDead(t)
  <2>1. \A u \in failed : u \in failed' \/ u = t
    BY <1>3 DEF SetDead
  <2>2. overlapped => overlapped'
    BY <1>3, <1>2 DEF SetDead
  <2>3. overlapped' \/ \A u \in Threads \ {t} : ~Driving(u)
    BY <1>3, <1>2 DEF SetDead
  <2>4. At(t, "dead") /\ tries' = tries /\ latch' = latch /\ workq' = workq /\ ~At(t, "latch")
        /\ ~At(t, "live")
    BY <1>3 DEF SetDead, At
  <2> QED
    BY <1>2, <2>1, <2>2, <2>3, <2>4 DEF Flags
<1>4. CASE Mask(t)
  BY <1>4, <1>2 DEF Mask, Fail, Flags, At, HeadIn, Fatal, Ignored
<1>5. CASE Disable(t)
  BY <1>5, <1>2 DEF Disable, Fail, Flags, At, HeadIn, Fatal, Ignored
<1>6. CASE DisableDead(t)
  BY <1>6, <1>2 DEF DisableDead, Fail, Flags, At, HeadIn, Fatal, Ignored
<1>7. CASE Settle(t)
  BY <1>7, <1>2 DEF Settle, Fail, Flags, At, HeadIn, Fatal, Ignored
<1>8. CASE Off(t)
  BY <1>8, <1>2 DEF Off, Fail, Flags, At, HeadIn, Fatal, Ignored
<1>9. CASE On(t)
  BY <1>9, <1>2 DEF On, Fail, Flags, At, HeadIn, Fatal, Ignored
<1>10. CASE WaitReady(t, "wait0", FALSE)
  BY <1>10, <1>2 DEF WaitReady, Fail, Flags, At, HeadIn, Fatal, Ignored
<1>11. CASE WaitReady(t, "wait0_any", FALSE)
  BY <1>11, <1>2 DEF WaitReady, Fail, Flags, At, HeadIn, Fatal, Ignored
<1>12. CASE WaitReady(t, "wait1", TRUE)
  BY <1>12, <1>2 DEF WaitReady, Fail, Flags, At, HeadIn, Fatal, Ignored
<1>13. CASE Issue(t)
  BY <1>13, <1>1, <1>2 DEF Issue, Fail, Flags, At, HeadIn, Fatal, Ignored
<1>14. CASE Consume(t)
  <2>1. HeadIn(t, Fatal \cup Ignored)
    BY <1>14, <1>1 DEF Consume
  <2>2. ~At(t, "dead") /\ ~At(t, "latch") /\ ~At(t, "live")
    BY <2>1 DEF HeadIn, At, Fatal, Ignored
  <2>3. failed' = failed \/ failed' = failed \cup {t}
    BY <1>14 DEF Consume, Return, Fail
  <2> QED
    BY <1>14, <1>2, <2>2, <2>3 DEF Consume, Flags
<1>15. CASE GiveUp(t)
  <2>1. HeadIn(t, Fatal \cup Ignored)
    BY <1>15, <1>1 DEF GiveUp
  <2>2. ~At(t, "dead") /\ ~At(t, "latch") /\ ~At(t, "live")
    BY <2>1 DEF HeadIn, At, Fatal, Ignored
  <2>3. failed' = failed \/ failed' = failed \cup {t}
    BY <1>15 DEF GiveUp, Return, Fail
  <2> QED
    BY <1>15, <1>2, <2>2, <2>3 DEF GiveUp, Flags
<1>16. CASE Lock(t)
  BY <1>16, <1>2 DEF Lock, Fail, Flags, At, HeadIn, Fatal, Ignored
<1>17. CASE Unlock(t)
  BY <1>17, <1>2 DEF Unlock, Fail, Flags, At, HeadIn, Fatal, Ignored
<1>18. CASE Live(t)
  BY <1>18, <1>2 DEF Live, Fail, Flags, At, HeadIn, Fatal, Ignored
<1>19. CASE Latch(t)
  <2>1. \A u \in failed : u \in failed' \/ u = t
    BY <1>19 DEF Latch
  <2>2. latch' <=> latch \/ t \in failed
    BY <1>19, <1>2 DEF Latch
  <2>3. At(t, "latch") /\ tries' = tries /\ workq' = workq /\ ~At(t, "dead")
        /\ overlapped' = overlapped /\ ~At(t, "live")
    BY <1>19 DEF Latch, At
  <2> QED
    BY <1>2, <2>1, <2>2, <2>3 DEF Flags
<1>20. CASE Stuck(t)
  BY <1>20, <1>2 DEF Stuck, Fail, Flags, At, HeadIn, Fatal, Ignored
<1>21. CASE EndAll(t)
  <2>1. workq' => workq \/ ~latch
    BY <1>21, <1>2 DEF EndAll, MayReset
  <2> QED
    BY <1>21, <1>2, <2>1 DEF EndAll, Flags, At
<1>22. CASE EndOne(t)
  BY <1>22, <1>2 DEF EndOne, Fail, Flags, At, HeadIn, Fatal, Ignored
<1>23. CASE Quiesce(t)
  BY <1>23, <1>2 DEF Quiesce, Fail, Flags, At, HeadIn, Fatal, Ignored
<1>24. CASE Rejoin(t)
  BY <1>24, <1>2 DEF Rejoin, Fail, Flags, At, HeadIn, Fatal, Ignored
<1>25. CASE Freeze(t)
  BY <1>25, <1>2 DEF Freeze, Fail, Flags, At, HeadIn, Fatal, Ignored
<1>26. CASE FreezeWait(t)
  BY <1>26, <1>2 DEF FreezeWait, Fail, Flags, At, HeadIn, Fatal, Ignored
<1>27. CASE Cancel(t)
  BY <1>27, <1>2 DEF Cancel, Fail, Flags, At, HeadIn, Fatal, Ignored
<1>28. CASE Sleep(t)
  BY <1>28, <1>2 DEF Sleep, Fail, Flags, At, HeadIn, Fatal, Ignored
<1>29. CASE Alloc(t)
  BY <1>29, <1>2 DEF Alloc, Fail, Flags, At, HeadIn, Fatal, Ignored
<1>30. CASE MakeQueues(t)
  BY <1>30, <1>2 DEF MakeQueues, Fail, Flags, At, HeadIn, Fatal, Ignored
<1>31. CASE Irq(t)
  BY <1>31, <1>2 DEF Irq, Fail, Flags, At, HeadIn, Fatal, Ignored
<1>32. CASE Register(t)
  BY <1>32, <1>2 DEF Register, Fail, Flags, At, HeadIn, Fatal, Ignored
<1>33. CASE Destroy(t)
  BY <1>33, <1>2 DEF Destroy, Fail, Flags, At, HeadIn, Fatal, Ignored
<1>34. CASE Free(t)
  BY <1>34, <1>2 DEF Free, Fail, Flags, At, HeadIn, Fatal, Ignored
<1>35. CASE Leave(t)
  BY <1>35, <1>2 DEF Leave, Fail, Flags, At, HeadIn, Fatal, Ignored
<1> QED
  BY <1>3, <1>4, <1>5, <1>6, <1>7, <1>8, <1>9, <1>10, <1>11, <1>12, <1>13,
     <1>14, <1>15, <1>16, <1>17, <1>18, <1>19, <1>20, <1>21, <1>22, <1>23, <1>24,
     <1>25, <1>26, <1>27, <1>28, <1>29, <1>30, <1>31, <1>32, <1>33, <1>34, <1>35 DEF ThreadStep

\* What it does to what a suspend holds still.
LEMMA ThreadStills ==
  ASSUME NEW t \in Threads, ThreadStep(t), Waiting, Typed
  PROVE  Stills(t)
<1> USE DEF admVars, flagVars, memVars, blkVars, histVars, MarkDown
<1>1. cmd = t => HeadIn(t, Fatal \cup Ignored)
  BY ControllerAssumption DEF Waiting
<1>2. /\ hw \in Controllers /\ overlapped \in BOOLEAN /\ latch \in BOOLEAN /\ workq \in BOOLEAN
      /\ frozen \in BOOLEAN /\ events \in Nat /\ hw.en \in BOOLEAN
  BY DEF Typed, Controllers
<1>3. CASE SetDead(t)
  BY <1>3, <1>2 DEF SetDead, Controllers, Stills, NoReq, At, HeadIn, Fatal, Ignored
<1>4. CASE Mask(t)
  BY <1>4, <1>2 DEF Mask, Controllers, Stills, NoReq, At, HeadIn, Fatal, Ignored
<1>5. CASE Disable(t)
  BY <1>5, <1>2 DEF Disable, Controllers, Stills, NoReq, At, HeadIn, Fatal, Ignored
<1>6. CASE DisableDead(t)
  BY <1>6, <1>2 DEF DisableDead, Controllers, Stills, NoReq, At, HeadIn, Fatal, Ignored
<1>7. CASE Settle(t)
  BY <1>7, <1>2, WaitKeeps DEF Settle, Controllers, Stills, NoReq, At, HeadIn, Fatal, Ignored
<1>8. CASE Off(t)
  BY <1>8, <1>2 DEF Off, Controllers, Stills, NoReq, At, HeadIn, Fatal, Ignored
<1>9. CASE On(t)
  BY <1>9, <1>2 DEF On, Controllers, Stills, NoReq, At, HeadIn, Fatal, Ignored
<1>10. CASE WaitReady(t, "wait0", FALSE)
  BY <1>10, <1>2, WaitKeeps DEF WaitReady, Controllers, Stills, NoReq, At, HeadIn, Fatal, Ignored
<1>11. CASE WaitReady(t, "wait0_any", FALSE)
  BY <1>11, <1>2, WaitKeeps DEF WaitReady, Controllers, Stills, NoReq, At, HeadIn, Fatal, Ignored
<1>12. CASE WaitReady(t, "wait1", TRUE)
  BY <1>12, <1>2, WaitKeeps DEF WaitReady, Controllers, Stills, NoReq, At, HeadIn, Fatal, Ignored
<1>13. CASE Issue(t)
  BY <1>13, <1>1, <1>2 DEF Issue, Controllers, Stills, NoReq, At, HeadIn, Fatal, Ignored
<1>14. CASE Consume(t)
  <2>1. HeadIn(t, Fatal \cup Ignored)
    BY <1>14, <1>1 DEF Consume
  <2>2. /\ ~At(t, "freeze") /\ ~At(t, "freeze_wait") /\ ~At(t, "off") /\ ~At(t, "cancel")
    BY <2>1 DEF HeadIn, At, Fatal, Ignored
  <2>3. hw'.en = hw.en
    BY <1>14 DEF Consume
  <2> QED
    BY <1>14, <2>2, <2>3 DEF Consume, Stills, NoReq
<1>15. CASE GiveUp(t)
  <2>1. HeadIn(t, Fatal \cup Ignored)
    BY <1>15, <1>1 DEF GiveUp
  <2>2. /\ ~At(t, "freeze") /\ ~At(t, "freeze_wait") /\ ~At(t, "off") /\ ~At(t, "cancel")
    BY <2>1 DEF HeadIn, At, Fatal, Ignored
  <2>3. hw'.en = hw.en
    <3>1. CASE {c \in hw.cmds : c.own} = {} \/ ~Serving
      <4>1. hw' = [hw EXCEPT !.cmds = hw.cmds \ {c \in hw.cmds : c.own}]
        BY <1>15, <3>1 DEF GiveUp
      <4> QED
        BY <1>2, <4>1 DEF Controllers
    <3>2. CASE ~({c \in hw.cmds : c.own} = {} \/ ~Serving)
      <4>1. hw' = [hw EXCEPT !.lapse = TRUE, !.cmds = {[c EXCEPT !.own = FALSE] : c \in hw.cmds}]
        BY <1>15, <3>2, Zenon DEF GiveUp
      <4> QED
        BY <1>2, <4>1 DEF Controllers
    <3> QED
      BY <3>1, <3>2
  <2> QED
    BY <1>15, <2>2, <2>3 DEF GiveUp, Stills, NoReq
<1>16. CASE Lock(t)
  BY <1>16, <1>2 DEF Lock, Controllers, Stills, NoReq, At, HeadIn, Fatal, Ignored
<1>17. CASE Unlock(t)
  BY <1>17, <1>2 DEF Unlock, Controllers, Stills, NoReq, At, HeadIn, Fatal, Ignored
<1>18. CASE Live(t)
  BY <1>18, <1>2 DEF Live, Controllers, Stills, NoReq, At, HeadIn, Fatal, Ignored
<1>19. CASE Latch(t)
  BY <1>19, <1>2 DEF Latch, Controllers, Stills, NoReq, At, HeadIn, Fatal, Ignored
<1>20. CASE Stuck(t)
  BY <1>20, <1>2 DEF Stuck, Controllers, Stills, NoReq, At, HeadIn, Fatal, Ignored
<1>21. CASE EndAll(t)
  <2>1. NoReq => NoReq'
    BY <1>21 DEF EndAll, NoReq
  <2>2. hw'.en = hw.en
    BY <1>21, WaitKeeps DEF EndAll
  <2> QED
    BY <1>21, <2>1, <2>2 DEF EndAll, Stills, At
<1>22. CASE EndOne(t)
  BY <1>22, <1>2 DEF EndOne, Controllers, Stills, NoReq, At, HeadIn, Fatal, Ignored
<1>23. CASE Quiesce(t)
  BY <1>23, <1>2 DEF Quiesce, Controllers, Stills, NoReq, At, HeadIn, Fatal, Ignored
<1>24. CASE Rejoin(t)
  BY <1>24, <1>2 DEF Rejoin, Controllers, Stills, NoReq, At, HeadIn, Fatal, Ignored
<1>25. CASE Freeze(t)
  BY <1>25, <1>2 DEF Freeze, Controllers, Stills, NoReq, At, HeadIn, Fatal, Ignored
<1>26. CASE FreezeWait(t)
  BY <1>26, <1>2 DEF FreezeWait, Controllers, Stills, NoReq, At, HeadIn, Fatal, Ignored
<1>27. CASE Cancel(t)
  BY <1>27, <1>2 DEF Cancel, Controllers, Stills, NoReq, At, HeadIn, Fatal, Ignored
<1>28. CASE Sleep(t)
  BY <1>28, <1>2 DEF Sleep, Controllers, Stills, NoReq, At, HeadIn, Fatal, Ignored
<1>29. CASE Alloc(t)
  BY <1>29, <1>2 DEF Alloc, Controllers, Stills, NoReq, At, HeadIn, Fatal, Ignored
<1>30. CASE MakeQueues(t)
  BY <1>30, <1>2 DEF MakeQueues, Controllers, Stills, NoReq, At, HeadIn, Fatal, Ignored
<1>31. CASE Irq(t)
  BY <1>31, <1>2 DEF Irq, Controllers, Stills, NoReq, At, HeadIn, Fatal, Ignored
<1>32. CASE Register(t)
  BY <1>32, <1>2 DEF Register, Controllers, Stills, NoReq, At, HeadIn, Fatal, Ignored
<1>33. CASE Destroy(t)
  BY <1>33, <1>2 DEF Destroy, Controllers, Stills, NoReq, At, HeadIn, Fatal, Ignored
<1>34. CASE Free(t)
  BY <1>34, <1>2 DEF Free, Controllers, Stills, NoReq, At, HeadIn, Fatal, Ignored
<1>35. CASE Leave(t)
  BY <1>35, <1>2 DEF Leave, Controllers, Stills, NoReq, At, HeadIn, Fatal, Ignored
<1> QED
  BY <1>3, <1>4, <1>5, <1>6, <1>7, <1>8, <1>9, <1>10, <1>11, <1>12, <1>13,
     <1>14, <1>15, <1>16, <1>17, <1>18, <1>19, <1>20, <1>21, <1>22, <1>23, <1>24,
     <1>25, <1>26, <1>27, <1>28, <1>29, <1>30, <1>31, <1>32, <1>33, <1>34, <1>35 DEF ThreadStep

-----------------------------------------------------------------------------
(* The steps that may be in a path.                                         *)

DrainSteps == {"abort", "stuck", "mask", "disable", "end_reset", "end_one"} \X (Nat \cup Reqs)

\* Bring-up and tear-down; a registration is the last thing to do, and the disable of
\* a dead controller is not.
PlainNames == {"off", "wait0", "alloc", "on", "wait1", "identify", "ask_num", "queues", "new",
  "ccq", "csq", "irq", "dsq", "dcq", "free_sq", "free_cq", "free_admin", "destroy", "cancel",
  "settle", "wait0_any", "leave", "dead", "mask", "disable", "end_all",
  "freeze_wait", "flush"}
PlainSteps == PlainNames \X Nat
LifeSteps  == (PlainNames \cup {"register", "disable_dead"}) \X Nat
LifePath(s) ==
  /\ s \in Seq(LifeSteps)
  /\ \A i \in 1 .. Len(s) : s[i][1] = "register" => i = Len(s)
  /\ \A i \in 1 .. Len(s) : s[i][1] = "disable_dead" => i < Len(s)

\* One list of steps of some kind after the other.
LEMMA Join ==
  ASSUME NEW S, NEW a \in Seq(S), NEW b \in Seq(S)
  PROVE  /\ a \o b \in Seq(S) /\ Len(a \o b) = Len(a) + Len(b)
         /\ Len(a) \in Nat /\ Len(b) \in Nat
         /\ \A i \in 1 .. Len(a) : (a \o b)[i] = a[i]
         /\ \A i \in 1 .. Len(b) : (a \o b)[Len(a) + i] = b[i]
OBVIOUS

\* A list without steps.
LEMMA Empty ==
  ASSUME NEW S, NEW s \in Seq(S), Len(s) = 0
  PROVE  s = <<>>
OBVIOUS

\* The end of a list.
LEMMA Cut ==
  ASSUME NEW S, NEW p \in Seq(S), NEW k \in Nat \ {0}
  PROVE  LET s == SubSeq(p, k, Len(p)) IN
         /\ s \in Seq(S)
         /\ Len(s) = IF k <= Len(p) THEN Len(p) - k + 1 ELSE 0
         /\ \A i \in 1 .. Len(s) : k + i - 1 \in 1 .. Len(p) /\ s[i] = p[k + i - 1]
<1> DEFINE s == SubSeq(p, k, Len(p))
<1>1. Len(p) \in Nat
  OBVIOUS
<1>2. CASE k <= Len(p)
  <2>1. s \in Seq(S) /\ Len(s) = Len(p) - k + 1
    BY <1>1, <1>2
  <2>2. \A i \in 1 .. Len(s) : k + i - 1 \in 1 .. Len(p) /\ s[i] = p[k + i - 1]
    BY <1>1, <1>2, <2>1
  <2> QED
    BY <1>2, <2>1, <2>2
<1>3. CASE Len(p) < k
  <2>1. s = <<>>
    BY <1>1, <1>3
  <2> QED
    BY <1>1, <1>3, <2>1
<1> QED
  BY <1>1, <1>2, <1>3

\* The steps of one queue, or of none.
LEMMA StepsOfIs ==
  ASSUME NEW X, NEW names \in Seq(X), NEW A, NEW q \in A
  PROVE  StepsOf(names, q) \in Seq(X \X A)
<1>1. DOMAIN names = 1 .. Len(names) /\ Len(names) \in Nat
  OBVIOUS
<1>2. \A i \in 1 .. Len(names) : <<names[i], q>> \in X \X A
  OBVIOUS
<1> QED
  BY <1>1, <1>2 DEF StepsOf

\* The steps of the queues.
LEMMA PerQueueIs ==
  ASSUME NEW X, NEW names \in Seq(X), Len(names) > 0, NEW n \in Nat
  PROVE  PerQueue(names, n) \in Seq(X \X Nat)
<1> DEFINE k == Len(names)
<1>1. k \in Nat /\ k > 0 /\ n * k \in Nat
  OBVIOUS
<1>2. \A i \in 1 .. n * k : ((i - 1) % k) + 1 \in 1 .. k /\ ((i - 1) \div k) + 1 \in Nat
  BY <1>1
<1>3. \A i \in 1 .. n * k : <<names[((i - 1) % k) + 1], ((i - 1) \div k) + 1>> \in X \X Nat
  BY <1>2
<1>4. PerQueue(names, n) = [i \in 1 .. n * k |-> <<names[((i - 1) % k) + 1], ((i - 1) \div k) + 1>>]
  BY DEF PerQueue
<1> HIDE DEF k
<1> QED
  BY <1>1, <1>3, <1>4

\* The literal lists.
LEMMA StepsIs ==
  ASSUME NEW X, NEW names \in Seq(X)
  PROVE  Steps(names) \in Seq(X \X Nat) /\ Steps(names) \in Seq(X \X (Nat \cup Reqs))
<1>1. Steps(names) = StepsOf(names, 0)
  BY DEF Steps, StepsOf
<1>2. 0 \in Nat /\ 0 \in Nat \cup Reqs
  OBVIOUS
<1>3. StepsOf(names, 0) \in Seq(X \X Nat)
  BY <1>2, StepsOfIs
<1>4. StepsOf(names, 0) \in Seq(X \X (Nat \cup Reqs))
  BY <1>2, StepsOfIs
<1> QED
  BY <1>1, <1>3, <1>4

\* The lists of the timeout handler and of the degrade work.
LEMMA DrainStarts ==
  /\ DrainAndReset \in Seq(DrainSteps) /\ Tail(DrainAndReset) \in Seq(DrainSteps)
  /\ \A r \in Reqs : StepsOf(<<"abort", "stuck">>, r) \o DrainAndReset
                       \o StepsOf(<<"end_one">>, r) \in Seq(DrainSteps)
<1> DEFINE X == {"abort", "stuck", "mask", "disable", "end_reset", "end_one"}
<1>1. /\ <<"mask", "disable", "end_reset">> \in Seq(X) /\ <<"abort", "stuck">> \in Seq(X)
      /\ <<"end_one">> \in Seq(X)
  OBVIOUS
<1>2. DrainSteps = X \X (Nat \cup Reqs)
  BY DEF DrainSteps
<1> HIDE DEF X
<1>3. DrainAndReset \in Seq(DrainSteps)
  BY <1>1, <1>2, StepsIs DEF DrainAndReset
<1>4. Tail(DrainAndReset) \in Seq(DrainSteps)
  <2>1. DrainAndReset # <<>>
    BY DEF DrainAndReset, Steps
  <2> HIDE DEF DrainAndReset
  <2> QED
    BY <1>3, <2>1
<1>5. ASSUME NEW r \in Reqs
      PROVE  StepsOf(<<"abort", "stuck">>, r) \o DrainAndReset \o StepsOf(<<"end_one">>, r) \in Seq(DrainSteps)
  <2>1. /\ StepsOf(<<"abort", "stuck">>, r) \in Seq(DrainSteps)
        /\ StepsOf(<<"end_one">>, r) \in Seq(DrainSteps)
    BY <1>1, <1>2, StepsOfIs
  <2> QED
    BY <1>3, <2>1, Join
<1> QED
  BY <1>3, <1>4, <1>5

\* The end of a path of bring-up or tear-down is one.
LEMMA LifeCut ==
  ASSUME NEW p, LifePath(p), NEW k \in Nat \ {0}
  PROVE  LifePath(SubSeq(p, k, Len(p)))
<1> DEFINE s == SubSeq(p, k, Len(p))
<1>1. p \in Seq(LifeSteps) /\ Len(p) \in Nat
  BY DEF LifePath
<1>2. /\ s \in Seq(LifeSteps)
      /\ Len(s) = IF k <= Len(p) THEN Len(p) - k + 1 ELSE 0
      /\ \A i \in 1 .. Len(s) : k + i - 1 \in 1 .. Len(p) /\ s[i] = p[k + i - 1]
  BY <1>1, Cut
<1> HIDE DEF s
<1>3. ASSUME NEW i \in 1 .. Len(s), s[i][1] = "register"
      PROVE  i = Len(s)
  <2>1. k + i - 1 = Len(p)
    BY <1>2, <1>3 DEF LifePath
  <2> QED
    BY <1>1, <1>2, <1>3, <2>1
<1>5. ASSUME NEW i \in 1 .. Len(s), s[i][1] = "disable_dead"
      PROVE  i < Len(s)
  <2>1. k + i - 1 < Len(p)
    BY <1>2, <1>5 DEF LifePath
  <2> QED
    BY <1>1, <1>2, <1>5, <2>1
<1>4. LifePath(s)
  BY <1>2, <1>3, <1>5 DEF LifePath
<1> QED
  BY <1>4 DEF s

\* So is one that is preceded by plain steps, and plain steps alone.
LEMMA LifeJoin ==
  ASSUME NEW a \in Seq(PlainSteps), NEW p, LifePath(p)
  PROVE  LifePath(a \o p) /\ LifePath(a)
<1>1. a \in Seq(LifeSteps) /\ p \in Seq(LifeSteps) /\ Len(a) \in Nat /\ Len(p) \in Nat
  BY DEF LifePath, PlainSteps, LifeSteps
<1>2. \A i \in 1 .. Len(a) : a[i][1] # "register" /\ a[i][1] # "disable_dead"
  <2>1. \A i \in 1 .. Len(a) : a[i] \in PlainSteps
    OBVIOUS
  <2>2. \A x \in PlainSteps : x[1] # "register" /\ x[1] # "disable_dead"
    BY DEF PlainSteps, PlainNames
  <2> QED
    BY <2>1, <2>2
<1> DEFINE s == a \o p
<1>3. /\ s \in Seq(LifeSteps) /\ Len(s) = Len(a) + Len(p)
      /\ \A i \in 1 .. Len(a) : s[i] = a[i]
      /\ \A i \in 1 .. Len(p) : s[Len(a) + i] = p[i]
  BY <1>1, Join
<1> HIDE DEF s
<1>4. ASSUME NEW i \in 1 .. Len(s), s[i][1] = "register"
      PROVE  i = Len(s)
  <2>1. i > Len(a)
    BY <1>1, <1>2, <1>3, <1>4
  <2>2. i - Len(a) \in 1 .. Len(p) /\ Len(a) + (i - Len(a)) = i
    BY <1>1, <1>3, <2>1
  <2>3. s[i] = p[i - Len(a)]
    BY <1>3, <2>2
  <2>4. i - Len(a) = Len(p)
    BY <1>4, <2>2, <2>3 DEF LifePath
  <2> QED
    BY <1>1, <1>3, <2>2, <2>4
<1>7. ASSUME NEW i \in 1 .. Len(s), s[i][1] = "disable_dead"
      PROVE  i < Len(s)
  <2>1. i > Len(a)
    BY <1>1, <1>2, <1>3, <1>7
  <2>2. i - Len(a) \in 1 .. Len(p) /\ Len(a) + (i - Len(a)) = i
    BY <1>1, <1>3, <2>1
  <2>3. s[i] = p[i - Len(a)]
    BY <1>3, <2>2
  <2>4. i - Len(a) < Len(p)
    BY <1>7, <2>2, <2>3 DEF LifePath
  <2> QED
    BY <1>1, <1>3, <2>2, <2>4
<1>5. LifePath(s)
  BY <1>3, <1>4, <1>7 DEF LifePath
<1>6. LifePath(a)
  BY <1>1, <1>2 DEF LifePath
<1> QED
  BY <1>5, <1>6 DEF s

\* The lists of bring-up and tear-down.
LEMMA LifeStarts ==
  /\ LifePath(InitSteps) /\ LifePath(Cleanup) /\ LifePath(Removal)
  /\ \A q \in Nat : \A nm : LifePath(Unwind(nm, q))
  /\ \A q \in Nat : \A p : LifePath(p) => LifePath(DestroyOne(q) \o p)
  /\ \A n \in Nat : \A p : LifePath(p) =>
       LifePath(PerQueue(<<"new", "ccq", "csq", "irq">>, n) \o p)
<1>1. LifePath(InitSteps)
  <2>1. /\ InitSteps \in Seq(LifeSteps) /\ Len(InitSteps) = 9
        /\ \A i \in 1 .. 8 : InitSteps[i][1] # "register"
        /\ \A i \in 1 .. 9 : InitSteps[i][1] # "disable_dead"
    BY DEF InitSteps, Steps, LifeSteps, PlainNames
  <2> HIDE DEF InitSteps
  <2> QED
    BY <2>1 DEF LifePath
<1>4. LifePath(Cleanup)
  <2>1. /\ Cleanup \in Seq(LifeSteps) /\ Len(Cleanup) = 8
        /\ \A i \in 1 .. 8 : Cleanup[i][1] # "register" /\ (Cleanup[i][1] = "disable_dead" => i = 2)
    BY DEF Cleanup, Steps, LifeSteps, PlainNames
  <2> HIDE DEF Cleanup
  <2> QED
    BY <2>1 DEF LifePath
<1>5. LifePath(Removal)
  <2>1. /\ <<"dead">> \in Seq(PlainNames) /\ <<"mask", "disable", "end_all">> \in Seq(PlainNames)
        /\ <<"freeze_wait", "flush">> \in Seq(PlainNames)
    BY DEF PlainNames
  <2>2. /\ Steps(<<"dead">>) \in Seq(PlainSteps) /\ Drain \in Seq(PlainSteps)
        /\ Steps(<<"freeze_wait", "flush">>) \in Seq(PlainSteps)
    BY <2>1, StepsIs DEF Drain, PlainSteps
  <2>3. Steps(<<"dead">>) \o Drain \o Steps(<<"freeze_wait", "flush">>) \in Seq(PlainSteps)
    BY <2>2, Join
  <2> QED
    BY <1>4, <2>3, LifeJoin DEF Removal
<1>6. ASSUME NEW q \in Nat, NEW nm
      PROVE  LifePath(Unwind(nm, q))
  <2> DEFINE w == CASE nm \in {"on", "wait1"} -> <<"free_admin">>
            [] nm = "ccq" -> <<"free_cq", "free_sq">>
            [] nm = "csq" -> <<"dcq", "free_cq", "free_sq">>
            [] nm = "irq" -> <<"dsq", "dcq", "free_cq", "free_sq">>
            [] OTHER -> <<>>
  <2>1. w \in Seq(PlainNames)
    <3>1. CASE nm \in {"on", "wait1"}
      BY <3>1 DEF PlainNames
    <3>2. CASE nm = "ccq"
      BY <3>2 DEF PlainNames
    <3>3. CASE nm = "csq"
      BY <3>3 DEF PlainNames
    <3>4. CASE nm = "irq"
      BY <3>4 DEF PlainNames
    <3>5. CASE nm \notin {"on", "wait1", "ccq", "csq", "irq"}
      BY <3>5 DEF PlainNames
    <3> QED
      BY <3>1, <3>2, <3>3, <3>4, <3>5
  <2>2. Unwind(nm, q) = StepsOf(w, q) \o Steps(<<"destroy">>) \o Cleanup
    BY DEF Unwind
  <2> HIDE DEF w
  <2>3. StepsOf(w, q) \in Seq(PlainSteps)
    BY <2>1, StepsOfIs DEF PlainSteps
  <2>4. Steps(<<"destroy">>) \in Seq(PlainSteps)
    <3>1. <<"destroy">> \in Seq(PlainNames)
      BY DEF PlainNames
    <3> QED
      BY <3>1, StepsIs DEF PlainSteps
  <2>5. StepsOf(w, q) \o Steps(<<"destroy">>) \in Seq(PlainSteps)
    BY <2>3, <2>4, Join
  <2> QED
    BY <1>4, <2>2, <2>5, LifeJoin
<1>7. ASSUME NEW q \in Nat, NEW p, LifePath(p)
      PROVE  LifePath(DestroyOne(q) \o p)
  <2>1. /\ <<"dsq", "free_sq", "dcq", "free_cq">> \in Seq(PlainNames)
        /\ <<"free_sq", "free_cq">> \in Seq(PlainNames)
    BY DEF PlainNames
  <2>2. DestroyOne(q) \in Seq(PlainSteps)
    BY <2>1, StepsOfIs DEF DestroyOne, PlainSteps
  <2> QED
    BY <1>7, <2>2, LifeJoin
<1>8. ASSUME NEW n \in Nat, NEW p, LifePath(p)
      PROVE  LifePath(PerQueue(<<"new", "ccq", "csq", "irq">>, n) \o p)
  <2>1. <<"new", "ccq", "csq", "irq">> \in Seq(PlainNames)
    BY DEF PlainNames
  <2>2. PerQueue(<<"new", "ccq", "csq", "irq">>, n) \in Seq(PlainSteps)
    <3> DEFINE names == <<"new", "ccq", "csq", "irq">>
    <3>1. Len(names) > 0
      OBVIOUS
    <3> HIDE DEF names
    <3>2. names \in Seq(PlainNames)
      BY <2>1 DEF names
    <3>3. PerQueue(names, n) \in Seq(PlainNames \X Nat)
      BY <3>1, <3>2, PerQueueIs
    <3> QED
      BY <3>3 DEF names, PlainSteps
  <2> QED
    BY <1>8, <2>2, LifeJoin
<1> QED
  BY <1>1, <1>4, <1>5, <1>6, <1>7, <1>8

-----------------------------------------------------------------------------
(* The paths.                                                               *)

Paths ==
  /\ \A t \in Drivers : \E n \in Nat : DriverForm(t, n)
  /\ path["eh"] \in Seq(DrainSteps) /\ path["degrade"] \in Seq(DrainSteps)
  /\ LifePath(path["life"])
  /\ io \in SUBSET Nat

\* A member is reset or suspended, and bring-up and tear-down are not that.
Where ==
  /\ path["life"] # <<>> => stage \in {"probe", "leaving", "gone"}
  /\ path["sysfs"] # <<>> \/ path["pm"] # <<>> => stage \in {"member", "orphan"}
  /\ path["sysfs"] = <<>> \/ path["pm"] = <<>>

\* What a step does to the path of a driver.
DriverTo(t, n) ==
  \/ path' = path
  \/ path[t] # <<>> /\ ~At(t, "live") /\ Left(t)' = Left(t) - 1
  \/ At(t, "mask") /\ Left(t)' = Left(t) - 3
  \/ /\ HeadIn(t, {"on", "wait0", "wait1", "set_num", "ccq", "csq"}) /\ t \in failed'
     /\ Left(t)' = IF Before(t, n) >= 14 THEN 2 * n + 14 ELSE 1
  \/ At(t, "live") /\ Left(t)' = 0

\* Queues are numbered, so one of those there are is the lowest.
LEMMA LowestIn ==
  ASSUME io \in SUBSET Nat, io # {}
  PROVE  Lowest \in io
<1> DEFINE R == OpToRel(<, Nat)
<1>1. IsWellFoundedOn(R, Nat)
  BY NatLessThanWellFounded
<1>2. R = {s \in Nat \X Nat : s[1] < s[2]}
  BY DEF OpToRel
<1> HIDE DEF R
<1>3. PICK i \in io : \A j \in io : ~(<<j, i>> \in R)
  BY <1>1, WFMin
<1>4. \A j \in io : j \in Nat /\ i \in Nat
  OBVIOUS
<1>5. \A j \in io : ~(j < i)
  BY <1>2, <1>3, <1>4
<1>6. \E k \in io : \A j \in io : k <= j
  BY <1>4, <1>5
<1> QED
  BY <1>6 DEF Lowest

\* A step of a driver leaves it in its list.
LEMMA DriverMoves ==
  ASSUME NEW t \in Drivers, path \in [Threads -> Seq(Step)], NEW n \in Nat, DriverForm(t, n),
         Shape(t)
  PROVE  /\ DriverForm(t, n)' /\ path' \in [Threads -> Seq(Step)]
         /\ \A u \in Threads \ {t} : path'[u] = path[u]
         /\ DriverTo(t, n)
<1>1. /\ t \in Threads /\ t # "life" /\ path[t] \in Seq(Step) /\ Len(path[t]) \in Nat
      /\ After(t) \in {0, 1} /\ Left(t) = Len(path[t]) - After(t) - 1
      /\ Before(t, n) = Left(t) - 2 * n
  BY DEF Drivers, Threads, After, Left, Before
<1>2. path[t] # <<>> => Places(Head(path[t])[1], Left(t), Before(t, n), Final(t))
  BY <1>1, AtDriver
<1>3. \A s : At(t, s) => /\ path[t] # <<>> /\ Head(path[t])[1] = s
                         /\ Places(s, Left(t), Before(t, n), Final(t))
  BY <1>2 DEF At
<1>4. ~At(t, "stuck") /\ ~At(t, "disable_dead") /\ ~At(t, "queues") /\ ~At(t, "destroy")
  <2>1. \A s : At(t, s) => s \in DriverNames
    BY <1>3 DEF Places
  <2>2. {"stuck", "disable_dead", "queues", "destroy"} \cap DriverNames = {}
    BY DEF DriverNames
  <2> QED
    BY <2>1, <2>2
<1>5. CASE UNCHANGED path
  BY <1>5 DEF DriverTo, DriverForm, Before, Left, After, DriverPath, First, Final
<1>6. CASE path[t] # <<>> /\ ~At(t, "live") /\ Go(t)
  BY <1>6, DriverGo DEF DriverTo
<1>7. CASE At(t, "mask") /\ Jump(t, SubSeq(path[t], 4, Len(path[t])))
  <2>1. Before(t, n) = 10
    BY <1>3, <1>7 DEF Places
  <2>2. 4 \in 1 .. Len(path[t]) + 1 /\ Left(t) - 4 + 1 = Left(t) - 3
    BY <1>1, <2>1
  <2> QED
    BY <1>7, <2>2, DriverJump DEF DriverTo
<1>8. CASE HeadIn(t, Failing) /\ Fail(t)
  <2>1. HeadIn(t, {"on", "wait0", "wait1", "set_num", "ccq", "csq"})
    BY <1>2, <1>8 DEF HeadIn, Failing, Places, DriverNames
  <2>2. 1 <= Left(t)
    <3>1. Before(t, n) \in {5, 6, 15, 4, 3} \/ 3 <= Left(t)
      BY <1>2, <2>1 DEF HeadIn, Places
    <3> QED
      BY <1>1, <3>1
  <2>3. PICK k \in 1 .. Len(path[t]) :
            /\ FromStep(path[t], "unlock") = SubSeq(path[t], k, Len(path[t]))
            /\ Left(t) - k + 1 = IF Before(t, n) >= 14 THEN 2 * n + 14 ELSE 1
    BY <2>2, DriverFails
  <2>4. k \in 1 .. Len(path[t]) + 1
    BY <1>1
  <2>5. Jump(t, SubSeq(path[t], k, Len(path[t]))) /\ t \in failed'
    BY <1>1, <1>8, <2>3 DEF Fail
  <2>6. /\ DriverForm(t, n)' /\ Left(t)' = Left(t) - k + 1
        /\ path' \in [Threads -> Seq(Step)]
        /\ \A u \in Threads \ {t} : path'[u] = path[u]
    BY <2>4, <2>5, DriverJump
  <2> QED
    BY <2>1, <2>3, <2>5, <2>6 DEF DriverTo
<1>9. CASE At(t, "live") /\ Jump(t, FromStep(path[t], "rejoin"))
  <2>1. Left(t) = 2
    BY <1>3, <1>9 DEF Places
  <2>2. 3 \in 1 .. Len(path[t]) /\ FromStep(path[t], "rejoin") = SubSeq(path[t], 3, Len(path[t]))
    BY <2>1, DriverDone
  <2>3. 3 \in 1 .. Len(path[t]) + 1 /\ Left(t) - 3 + 1 = 0
    BY <1>1, <2>1
  <2>4. Jump(t, SubSeq(path[t], 3, Len(path[t])))
    BY <1>9, <2>2
  <2>5. /\ DriverForm(t, n)' /\ Left(t)' = Left(t) - 3 + 1
        /\ path' \in [Threads -> Seq(Step)]
        /\ \A u \in Threads \ {t} : path'[u] = path[u]
    BY <2>3, <2>4, DriverJump
  <2> QED
    BY <1>9, <2>3, <2>5 DEF DriverTo
<1> QED
  BY <1>4, <1>5, <1>6, <1>7, <1>8, <1>9 DEF Shape

\* The steps of a drain are steps.
LEMMA StepSets ==
  /\ DrainSteps \subseteq Step /\ LifeSteps \subseteq Step
  /\ \A s \in Seq(DrainSteps) : s \in Seq(Step)
  /\ \A s \in Seq(LifeSteps) : s \in Seq(Step)
<1>1. DrainSteps \subseteq Step /\ LifeSteps \subseteq Step
  BY DEF DrainSteps, LifeSteps, PlainNames, Step, DriverNames, OtherNames
<1> QED
  BY <1>1

\* A step of the timeout handler, or of the degrade work, is one of a drain.
LEMMA DrainMoves ==
  ASSUME NEW t \in {"eh", "degrade"}, path \in [Threads -> Seq(Step)], path[t] \in Seq(DrainSteps),
         Shape(t)
  PROVE  /\ path' \in [Threads -> Seq(Step)] /\ path'[t] \in Seq(DrainSteps)
         /\ \A u \in Threads \ {t} : path'[u] = path[u]
<1>1. t \in Threads
  BY DEF Threads
<1>2. path[t] # <<>> => Head(path[t])[1] \in
        {"abort", "stuck", "mask", "disable", "end_reset", "end_one"}
  BY DEF DrainSteps
<1>3. /\ ~At(t, "disable_dead") /\ ~At(t, "queues") /\ ~At(t, "destroy") /\ ~At(t, "live")
      /\ ~HeadIn(t, Failing)
  BY <1>2 DEF At, HeadIn, Failing
<1>4. ASSUME NEW s \in Seq(DrainSteps), Jump(t, s)
      PROVE  /\ path' \in [Threads -> Seq(Step)] /\ path'[t] \in Seq(DrainSteps)
             /\ \A u \in Threads \ {t} : path'[u] = path[u]
  <2>1. s \in Seq(Step)
    BY StepSets
  <2> QED
    BY <1>1, <1>4, <2>1 DEF Jump
<1>5. CASE UNCHANGED path
  BY <1>5
<1>6. CASE path[t] # <<>> /\ Go(t)
  <2>1. Jump(t, Tail(path[t]))
    BY <1>1, <1>6 DEF Go, Jump
  <2>2. Tail(path[t]) \in Seq(DrainSteps)
    BY <1>6
  <2> QED
    BY <1>4, <2>1, <2>2
<1>7. CASE Jump(t, SubSeq(path[t], 4, Len(path[t])))
  <2>1. SubSeq(path[t], 4, Len(path[t])) \in Seq(DrainSteps)
    BY Cut
  <2> QED
    BY <1>4, <1>7, <2>1
<1>8. CASE Jump(t, <<>>)
  <2>1. <<>> \in Seq(DrainSteps)
    OBVIOUS
  <2> QED
    BY <1>4, <1>8, <2>1
<1> QED
  BY <1>3, <1>5, <1>6, <1>7, <1>8 DEF Shape

\* A step of bring-up or tear-down leaves such a path; a registration ends it.
LEMMA LifeMoves ==
  ASSUME path \in [Threads -> Seq(Step)], LifePath(path["life"]), Shape("life"), nr \in Nat,
         io \in SUBSET Nat
  PROVE  /\ path' \in [Threads -> Seq(Step)] /\ LifePath(path'["life"])
         /\ \A u \in Threads \ {"life"} : path'[u] = path[u]
         /\ path["life"] = <<>> => path' = path
         /\ At("life", "register") /\ Go("life") => path'["life"] = <<>>
<1> DEFINE p == path["life"]
<1>1. "life" \in Threads /\ p \in Seq(LifeSteps) /\ Len(p) \in Nat
  BY DEF Threads, LifePath
<1>2. p # <<>> => Head(p)[1] \in PlainNames \cup {"register", "disable_dead"} /\ Head(p)[2] \in Nat
  <2>1. p # <<>> => Head(p) \in LifeSteps
    BY <1>1
  <2> QED
    BY <2>1 DEF LifeSteps
<1>3. ~At("life", "stuck") /\ ~At("life", "live")
  BY <1>2 DEF At, PlainNames
<1>4. ASSUME NEW s, LifePath(s), Jump("life", s)
      PROVE  /\ path' \in [Threads -> Seq(Step)] /\ LifePath(path'["life"])
             /\ \A u \in Threads \ {"life"} : path'[u] = path[u]
             /\ path'["life"] = s
  <2>1. s \in Seq(Step)
    BY <1>4, StepSets DEF LifePath
  <2>2. path' = [path EXCEPT !["life"] = s]
    BY <1>4 DEF Jump
  <2> QED
    BY <1>1, <1>4, <2>1, <2>2
<1>5. CASE UNCHANGED path
  <2>1. ~(At("life", "register") /\ Go("life"))
    <3>1. SUFFICES ASSUME At("life", "register"), Go("life")
                   PROVE  FALSE
      OBVIOUS
    <3>2. p # <<>>
      BY <3>1 DEF At
    <3>3. path'["life"] = Tail(p)
      BY <1>1, <3>1 DEF Go
    <3>4. p = Tail(p)
      BY <1>5, <3>3
    <3>5. Len(Tail(p)) = Len(p) - 1
      BY <1>1, <3>2
    <3> HIDE DEF p
    <3>6. Len(p) = Len(p) - 1
      BY <3>4, <3>5
    <3> QED
      BY <1>1, <3>6
  <2> QED
    BY <1>5, <2>1
<1>6. CASE path["life"] # <<>> /\ Go("life")
  <2>1. Jump("life", Tail(p)) /\ Tail(p) = SubSeq(p, 2, Len(p))
    BY <1>1, <1>6 DEF Go, Jump
  <2>2. LifePath(SubSeq(p, 2, Len(p)))
    BY LifeCut
  <2>3. At("life", "register") => Tail(p) = <<>>
    <3>1. SUFFICES ASSUME At("life", "register")
                   PROVE  Tail(p) = <<>>
      OBVIOUS
    <3>2. Len(p) >= 1 /\ p[1][1] = "register"
      BY <1>1, <1>6, <3>1 DEF At
    <3>3. 1 \in 1 .. Len(p)
      BY <1>1, <3>2
    <3>4. Len(p) = 1
      BY <3>2, <3>3 DEF LifePath
    <3>5. Tail(p) \in Seq(LifeSteps) /\ Len(Tail(p)) = 0
      BY <1>1, <1>6, <3>4
    <3> QED
      BY <3>5, Empty
  <2> QED
    BY <1>4, <1>6, <2>1, <2>2, <2>3
<1>7. CASE At("life", "mask") /\ Jump("life", SubSeq(path["life"], 4, Len(path["life"])))
  <2>1. LifePath(SubSeq(p, 4, Len(p)))
    BY LifeCut
  <2>2. path["life"] # <<>> /\ ~At("life", "register")
    BY <1>7 DEF At
  <2> QED
    BY <1>4, <1>7, <2>1, <2>2
<1>8. CASE At("life", "disable_dead") /\ Jump("life", Tail(Tail(path["life"])))
  <2>1. path["life"] # <<>> /\ ~At("life", "register")
    BY <1>8 DEF At
  <2>2. 1 < Len(p)
    <3>1. 1 \in 1 .. Len(p) /\ p[1][1] = "disable_dead"
      BY <1>1, <1>8, <2>1 DEF At
    <3> QED
      BY <3>1 DEF LifePath
  <2>3. Tail(Tail(p)) = SubSeq(p, 3, Len(p))
    BY <1>1, <2>2
  <2>4. LifePath(SubSeq(p, 3, Len(p)))
    BY LifeCut
  <2> QED
    BY <1>4, <1>8, <2>1, <2>3, <2>4
<1>9. CASE HeadIn("life", Failing) /\ Fail("life")
  <2>1. path["life"] # <<>> /\ ~At("life", "register")
    BY <1>9 DEF At, HeadIn, Failing
  <2>2. Jump("life", Unwind(Head(p)[1], Head(p)[2]))
    BY <1>9 DEF Fail, Arg
  <2>3. LifePath(Unwind(Head(p)[1], Head(p)[2]))
    BY <1>2, <2>1, LifeStarts
  <2> QED
    BY <1>4, <2>1, <2>2, <2>3
<1>10. CASE /\ At("life", "queues")
            /\ Jump("life", PerQueue(<<"new", "ccq", "csq", "irq">>, nr) \o Tail(path["life"]))
  <2>1. path["life"] # <<>> /\ ~At("life", "register")
    BY <1>10 DEF At
  <2>2. Tail(p) = SubSeq(p, 2, Len(p))
    BY <1>1, <2>1
  <2>3. LifePath(Tail(p))
    <3>1. LifePath(SubSeq(p, 2, Len(p)))
      BY LifeCut
    <3> QED
      BY <2>2, <3>1
  <2>4. LifePath(PerQueue(<<"new", "ccq", "csq", "irq">>, nr) \o Tail(p))
    BY <2>3, LifeStarts
  <2> QED
    BY <1>4, <1>10, <2>1, <2>4
<1>11. CASE At("life", "destroy") /\ io # {} /\ Jump("life", DestroyOne(Lowest) \o path["life"])
  <2>1. path["life"] # <<>> /\ ~At("life", "register")
    BY <1>11 DEF At
  <2>2. Lowest \in Nat
    BY <1>11, LowestIn
  <2>3. LifePath(DestroyOne(Lowest) \o p)
    BY <2>2, LifeStarts
  <2> QED
    BY <1>4, <1>11, <2>1, <2>3
<1> QED
  BY <1>3, <1>5, <1>6, <1>7, <1>8, <1>9, <1>10, <1>11 DEF Shape

-----------------------------------------------------------------------------
(* The paths are always of those forms.                                     *)

Struct == Typed /\ Paths /\ Where /\ Waiting

\* The path of a driver that is not touched.
LEMMA FormFrame ==
  ASSUME NEW u, NEW n, path'[u] = path[u]
  PROVE  /\ DriverForm(u, n)' <=> DriverForm(u, n)
         /\ Left(u)' = Left(u) /\ Before(u, n)' = Before(u, n)
         /\ \A nm : Has(u, nm)' <=> Has(u, nm)
         /\ \A S : HeadIn(u, S)' <=> HeadIn(u, S)
BY DEF DriverForm, Left, Before, After, First, Final, DriverPath, ResetStep, Has, HeadIn

\* A driver with nothing to do.
LEMMA Idle ==
  ASSUME NEW t, path[t] = <<>>
  PROVE  DriverForm(t, 0) /\ Left(t) < 0
<1>1. /\ Len(path[t]) = 0 /\ After(t) \in {0, 1} /\ First(t) \in {12, 21}
  BY DEF After, First
<1>2. Left(t) = 0 - After(t) - 1
  BY <1>1 DEF Left
<1>3. Before(t, 0) <= First(t) /\ Left(t) < 0
  BY <1>1, <1>2 DEF Before
<1>4. DriverPath(t, 0, 0) = <<>>
  BY DEF DriverPath
<1> QED
  BY <1>1, <1>3, <1>4 DEF DriverForm

\* What leaves the paths alone.
LEMMA StructStill ==
  ASSUME Struct, Typed0', UNCHANGED <<path, io, stage, cmd>>
  PROVE  Struct'
<1>1. Typed'
  BY DEF Struct, Typed, Typed0
<1>2. ASSUME NEW t \in Drivers
      PROVE  \E n \in Nat : DriverForm(t, n)'
  <2>1. PICK n \in Nat : DriverForm(t, n)
    BY DEF Struct, Paths
  <2>2. DriverForm(t, n)'
    BY <2>1, FormFrame
  <2> QED
    BY <2>2
<1>3. Paths'
  BY <1>2 DEF Struct, Paths, LifePath
<1>4. Where' /\ Waiting'
  BY DEF Struct, Where, Waiting, HeadIn
<1> QED
  BY <1>1, <1>3, <1>4 DEF Struct

\* The threads, by what they do.
LEMMA ThreadKinds ==
  /\ Threads = Drivers \cup {"eh", "degrade", "life"}
  /\ Drivers \cap {"eh", "degrade", "life"} = {}
BY DEF Threads, Drivers

\* The next step of each kind of thread.
LEMMA HeadNames ==
  ASSUME Struct
  PROVE  /\ \A t \in Drivers : \A S : HeadIn(t, S) => S \cap DriverNames # {}
         /\ \A t \in {"eh", "degrade"} : \A S : HeadIn(t, S) =>
              S \cap {"abort", "stuck", "mask", "disable", "end_reset", "end_one"} # {}
         /\ \A S : HeadIn("life", S) =>
              S \cap (PlainNames \cup {"register", "disable_dead"}) # {}
         /\ \A t : \A s : At(t, s) => HeadIn(t, {s})
         /\ path["life"] # <<>> => Arg("life") \in Nat
<1>1. ASSUME NEW t \in Drivers, NEW S, HeadIn(t, S)
      PROVE  S \cap DriverNames # {}
  <2>1. PICK n \in Nat : DriverForm(t, n)
    BY DEF Struct, Paths
  <2>2. path[t] \in Seq(Step) /\ path[t] # <<>>
    BY <1>1, ThreadKinds DEF Struct, Typed, HeadIn
  <2>3. Places(Head(path[t])[1], Left(t), Before(t, n), Final(t))
    BY <2>1, <2>2, AtDriver
  <2>4. Head(path[t])[1] \in DriverNames
    BY <2>3 DEF Places
  <2> QED
    BY <1>1, <2>4 DEF HeadIn
<1>2. ASSUME NEW t \in {"eh", "degrade"}, NEW S, HeadIn(t, S)
      PROVE  S \cap {"abort", "stuck", "mask", "disable", "end_reset", "end_one"} # {}
  <2>1. path[t] \in Seq(DrainSteps) /\ path[t] # <<>>
    BY <1>2 DEF Struct, Paths, HeadIn
  <2>2. Head(path[t]) \in DrainSteps
    BY <2>1
  <2>3. Head(path[t])[1] \in {"abort", "stuck", "mask", "disable", "end_reset", "end_one"}
    BY <2>2 DEF DrainSteps
  <2> QED
    BY <1>2, <2>3 DEF HeadIn
<1>3. path["life"] # <<>> => Head(path["life"]) \in LifeSteps
  BY DEF Struct, Paths, LifePath
<1>4. path["life"] # <<>> => /\ Head(path["life"])[1] \in PlainNames \cup {"register", "disable_dead"}
                             /\ Head(path["life"])[2] \in Nat
  BY <1>3 DEF LifeSteps
<1>5. \A S : HeadIn("life", S) => S \cap (PlainNames \cup {"register", "disable_dead"}) # {}
  BY <1>4 DEF HeadIn
<1>6. \A t : \A s : At(t, s) => HeadIn(t, {s})
  BY DEF At, HeadIn
<1> QED
  BY <1>1, <1>2, <1>4, <1>5, <1>6 DEF Arg

\* A thread keeps the types.
LEMMA ThreadTyped ==
  ASSUME Struct, NEW t \in Threads, ThreadStep(t)
  PROVE  Typed0'
<1>1. Typed /\ Typed0
  BY DEF Struct, Typed, Typed0
<1> QED
  BY <1>1, RegistersTyped, CommandsTyped, OthersTyped DEF ThreadStep

\* A thread keeps the forms.
LEMMA StructThread ==
  ASSUME Struct, NEW t \in Threads, ThreadStep(t)
  PROVE  /\ Struct'
         /\ \A u \in Threads \ {t} : path'[u] = path[u]
<1>1. /\ Typed /\ Paths /\ Where /\ Waiting /\ Typed0'
      /\ path \in [Threads -> Seq(Step)] /\ nr \in Nat
      /\ Shape(t) /\ Moves(t)
  BY ThreadTyped, ThreadShape, ThreadMoves, ControllerAssumption DEF Struct, Typed
<1>2. /\ path' \in [Threads -> Seq(Step)] /\ \A u \in Threads \ {t} : path'[u] = path[u]
      /\ \A u \in Drivers : \E n \in Nat : DriverForm(u, n)'
      /\ path'["eh"] \in Seq(DrainSteps) /\ path'["degrade"] \in Seq(DrainSteps)
      /\ LifePath(path'["life"])
  <2>1. ASSUME NEW u \in Drivers, u # t, path'[u] = path[u]
        PROVE  \E n \in Nat : DriverForm(u, n)'
    <3>1. PICK n \in Nat : DriverForm(u, n)
      BY <1>1 DEF Paths
    <3>2. DriverForm(u, n)'
      BY <2>1, <3>1, FormFrame
    <3> QED
      BY <3>2
  <2>2. CASE t \in Drivers
    <3>1. PICK n \in Nat : DriverForm(t, n)
      BY <1>1, <2>2 DEF Paths
    <3>2. /\ DriverForm(t, n)' /\ path' \in [Threads -> Seq(Step)]
          /\ \A u \in Threads \ {t} : path'[u] = path[u]
      BY <1>1, <2>2, <3>1, DriverMoves
    <3>3. /\ path'["eh"] = path["eh"] /\ path'["degrade"] = path["degrade"]
          /\ path'["life"] = path["life"]
      BY <2>2, <3>2, ThreadKinds
    <3>4. \A u \in Drivers \ {t} : path'[u] = path[u]
      BY <3>2, ThreadKinds
    <3> QED
      BY <1>1, <2>1, <3>2, <3>3, <3>4 DEF Paths
  <2>3. CASE t \in {"eh", "degrade"}
    <3>1. /\ path' \in [Threads -> Seq(Step)] /\ path'[t] \in Seq(DrainSteps)
          /\ \A u \in Threads \ {t} : path'[u] = path[u]
      BY <1>1, <2>3, DrainMoves DEF Paths
    <3>2. \A u \in {"eh", "degrade"} \ {t} : path'[u] = path[u]
      BY <3>1, ThreadKinds
    <3>3. path'["life"] = path["life"] /\ \A u \in Drivers : u # t /\ path'[u] = path[u]
      BY <2>3, <3>1, ThreadKinds
    <3> QED
      BY <1>1, <2>1, <2>3, <3>1, <3>2, <3>3 DEF Paths
  <2>4. CASE t = "life"
    <3>1. /\ path' \in [Threads -> Seq(Step)] /\ LifePath(path'["life"])
          /\ \A u \in Threads \ {"life"} : path'[u] = path[u]
      BY <1>1, <2>4, LifeMoves DEF Paths
    <3>2. /\ path'["eh"] = path["eh"] /\ path'["degrade"] = path["degrade"]
          /\ \A u \in Drivers : u # t /\ path'[u] = path[u]
      BY <2>4, <3>1, ThreadKinds
    <3> QED
      BY <1>1, <2>1, <2>4, <3>1, <3>2 DEF Paths
  <2> QED
    BY <2>2, <2>3, <2>4, ThreadKinds
<1>3. Typed'
  BY <1>1, <1>2 DEF Typed, Typed0
<1>4. io' \in SUBSET Nat
  <2>1. At(t, "irq") => t = "life" /\ path["life"] # <<>>
    <3>1. {"irq"} \cap DriverNames = {}
          /\ {"irq"} \cap {"abort", "stuck", "mask", "disable", "end_reset", "end_one"} = {}
      BY DEF DriverNames
    <3>2. At(t, "irq") => path[t] # <<>>
      BY DEF At
    <3> QED
      BY <3>1, <3>2, HeadNames, ThreadKinds
  <2>2. At(t, "irq") => Arg(t) \in Nat
    BY <2>1, HeadNames
  <2> QED
    BY <1>1, <2>2 DEF Moves, Paths
<1>5. Paths'
  BY <1>2, <1>4 DEF Paths, LifePath
<1>6. Where'
  <2>1. At(t, "register") \/ At(t, "leave") => t = "life" /\ path["life"] # <<>>
    <3>1. /\ {"register"} \cap DriverNames = {} /\ {"leave"} \cap DriverNames = {}
          /\ {"register"} \cap {"abort", "stuck", "mask", "disable", "end_reset", "end_one"} = {}
          /\ {"leave"} \cap {"abort", "stuck", "mask", "disable", "end_reset", "end_one"} = {}
      BY DEF DriverNames
    <3>2. At(t, "register") \/ At(t, "leave") => path[t] # <<>>
      BY DEF At
    <3> QED
      BY <3>1, <3>2, HeadNames, ThreadKinds
  <2>2. path[t] = <<>> => path' = path
    <3>1. t \in Drivers => (path[t] = <<>> => path' = path)
      BY <1>1 DEF Shape, At, HeadIn
    <3> QED
      BY <1>1 DEF Shape, At, HeadIn
  <2>3. CASE stage' = stage
    <3>1. \A u \in Threads : path[u] = <<>> => path'[u] = <<>>
      BY <1>2, <2>2
    <3>2. {"life", "sysfs", "pm"} \subseteq Threads
      BY DEF Threads
    <3> QED
      BY <1>1, <2>3, <3>1, <3>2 DEF Where
  <2>4. CASE At(t, "leave") /\ stage' = "gone"
    <3>1. path["sysfs"] = <<>> /\ path["pm"] = <<>>
      BY <1>1, <2>1, <2>4 DEF Where
    <3>2. path'["sysfs"] = <<>> /\ path'["pm"] = <<>>
      BY <1>2, <2>1, <2>4, <3>1, ThreadKinds DEF Drivers
    <3> QED
      BY <2>4, <3>2 DEF Where
  <2>5. CASE At(t, "register") /\ Go(t)
    <3>1. path["sysfs"] = <<>> /\ path["pm"] = <<>>
      BY <1>1, <2>1, <2>5 DEF Where
    <3>2. path'["sysfs"] = <<>> /\ path'["pm"] = <<>>
      BY <1>2, <2>1, <2>5, <3>1, ThreadKinds DEF Drivers
    <3>3. path'["life"] = <<>>
      BY <1>1, <2>1, <2>5, LifeMoves DEF Paths
    <3> QED
      BY <2>5, <3>2, <3>3 DEF Where
  <2> QED
    BY <1>1, <2>3, <2>4, <2>5 DEF Moves
<1>7. Waiting'
  <2>1. SUFFICES ASSUME cmd' # None
                 PROVE  HeadIn(cmd, Fatal \cup Ignored)'
    BY DEF Waiting, HeadIn, Fatal, Ignored
  <2>2. CASE cmd' = t /\ path' = path /\ HeadIn(t, Fatal \cup Ignored)
    BY <2>2 DEF HeadIn, Fatal, Ignored
  <2>3. CASE cmd' = cmd
    <3>1. path'[cmd] = path[cmd]
      <4>1. cmd \in Threads
        BY <1>1, <2>1, <2>3 DEF Typed
      <4> QED
        BY <1>1, <1>2, <2>1, <2>3, <4>1 DEF Moves
    <3>2. HeadIn(cmd, Fatal \cup Ignored)
      BY <1>1, <2>1, <2>3 DEF Waiting
    <3> QED
      BY <2>3, <3>1, <3>2 DEF HeadIn, Fatal, Ignored
  <2> QED
    BY <1>1, <2>1, <2>2, <2>3 DEF Moves
<1> QED
  BY <1>2, <1>3, <1>5, <1>6, <1>7 DEF Struct

-----------------------------------------------------------------------------
(* What starts a path.                                                      *)

Starts == Degrade \/ AutoReset \/ ManualReset \/ Suspend \/ Unplug

\* A driver that has just started.
Begun(u) ==
  \E n \in Nat : DriverForm(u, n) /\ (path[u] = <<>> \/ Before(u, n) = First(u))

\* A path that starts.
LEMMA Started ==
  ASSUME Struct, NEW u \in Threads, NEW s \in Seq(Step), path[u] = <<>>, Jump(u, s)
  PROVE  /\ path' \in [Threads -> Seq(Step)] /\ path'[u] = s
         /\ \A v \in Threads \ {u} : path'[v] = path[v]
         /\ \A v \in Drivers \ {u} : \E n \in Nat : DriverForm(v, n)'
         /\ cmd' = cmd => Waiting'
<1>1. /\ path \in [Threads -> Seq(Step)] /\ Paths /\ Waiting /\ cmd \in Threads \cup {None}
      /\ path' = [path EXCEPT ![u] = s]
  BY DEF Struct, Typed, Jump
<1>2. /\ path' \in [Threads -> Seq(Step)] /\ path'[u] = s
      /\ \A v \in Threads \ {u} : path'[v] = path[v]
  BY <1>1
<1>3. ASSUME NEW v \in Drivers \ {u}
      PROVE  \E n \in Nat : DriverForm(v, n)'
  <2>1. PICK n \in Nat : DriverForm(v, n)
    BY <1>1 DEF Paths
  <2>2. path'[v] = path[v]
    BY <1>2, ThreadKinds
  <2>3. DriverForm(v, n)'
    BY <2>1, <2>2, FormFrame
  <2> QED
    BY <2>3
<1>4. ASSUME cmd' = cmd PROVE Waiting'
  <2>1. SUFFICES ASSUME cmd' # None
                 PROVE  HeadIn(cmd, Fatal \cup Ignored)'
    BY DEF Waiting, HeadIn, Fatal, Ignored
  <2>2. HeadIn(cmd, Fatal \cup Ignored) /\ cmd \in Threads
    BY <1>1, <1>4, <2>1 DEF Waiting
  <2>3. cmd # u
    BY <2>2 DEF HeadIn
  <2>4. path'[cmd] = path[cmd]
    BY <1>2, <2>2, <2>3
  <2> QED
    BY <1>4, <2>2, <2>4 DEF HeadIn, Fatal, Ignored
<1> QED
  BY <1>2, <1>3, <1>4

\* A driver that starts is at the first step of its list.
LEMMA BegunIs ==
  ASSUME NEW u \in Drivers, NEW w \in Nat, NEW l \in Nat, path'[u] \in Seq(Step),
         path'[u] = DriverPath(u, w, l), l = 2 * w + First(u) + After(u) + 1
  PROVE  Begun(u)'
<1>1. /\ After(u) \in {0, 1} /\ After(u)' = After(u)
      /\ First(u) \in {12, 21} /\ First(u)' = First(u)
  BY DEF After, First
<1>2. Len(path'[u]) = l
  <2>1. DOMAIN path'[u] = 1 .. l
    BY DEF DriverPath
  <2>2. Len(path'[u]) \in Nat /\ DOMAIN path'[u] = 1 .. Len(path'[u])
    OBVIOUS
  <2> QED
    BY <2>1, <2>2
<1>3. Before(u, w)' = First(u)
  <2>1. Left(u)' = Len(path'[u]) - After(u) - 1 /\ Before(u, w)' = Left(u)' - 2 * w
    BY <1>1 DEF Left, Before
  <2> QED
    BY <1>1, <1>2, <2>1
<1>4. DriverForm(u, w)'
  <2>1. Before(u, w)' <= First(u)'
    BY <1>1, <1>3
  <2>2. DriverPath(u, w, Len(path[u]))' = DriverPath(u, w, Len(path'[u]))
    BY DEF DriverPath, After, Final, ResetStep, Back
  <2>3. path'[u] = DriverPath(u, w, Len(path[u]))'
    BY <1>2, <2>2
  <2> QED
    BY <2>1, <2>3 DEF DriverForm
<1> QED
  BY <1>1, <1>3, <1>4 DEF Begun

\* One with nothing to do has the form, too.
LEMMA BegunIdle ==
  ASSUME NEW u, path'[u] = <<>>
  PROVE  Begun(u)'
<1>1. DriverForm(u, 0)'
  <2>1. /\ Len(path'[u]) = 0 /\ After(u) \in {0, 1} /\ First(u) \in {12, 21}
    BY DEF After, First
  <2>2. DriverPath(u, 0, 0) = <<>>
    BY DEF DriverPath
  <2> QED
    BY <2>1, <2>2 DEF DriverForm, Left, Before, DriverPath, First, After, Final, ResetStep, Back
<1> QED
  BY <1>1 DEF Begun

\* The width of a reset.
LEMMA WidthNat ==
  ASSUME Struct
  PROVE  Width \in Nat
<1>1. IsFiniteSet(io)
  BY DEF Struct, Typed
<1> QED
  BY <1>1, FS_CardinalityType DEF Width

\* A timeout, or a start, keeps the forms.
LEMMA StructStarts ==
  ASSUME Struct, Starts \/ \E r \in Reqs : TimeOut(r)
  PROVE  /\ Struct'
         /\ \A u \in Drivers : path'[u] = path[u] \/ (path[u] = <<>> /\ Begun(u)')
<1>1. /\ Typed /\ Paths /\ Where /\ Waiting /\ Typed0
      /\ path \in [Threads -> Seq(Step)] /\ io \in SUBSET Nat
  BY DEF Struct, Typed, Typed0, Paths
<1>2. Typed0'
  BY <1>1, StartsTyped, RequestsTyped DEF Starts
<1>3. cmd' = cmd /\ io' = io
  BY DEF Starts, Degrade, AutoReset, ManualReset, Suspend, Unplug, TimeOut, admVars, memVars
<1>4. ASSUME path' \in [Threads -> Seq(Step)] PROVE Typed'
  BY <1>2, <1>4 DEF Typed, Typed0
<1>5. Width \in Nat
  BY WidthNat
<1>6. /\ {"eh", "degrade", "life"} \subseteq Threads /\ Drivers \subseteq Threads
      /\ "work" \in Drivers /\ "sysfs" \in Drivers /\ "pm" \in Drivers
      /\ Drivers \cap {"eh", "degrade", "life"} = {}
  BY ThreadKinds DEF Drivers
<1>7. <<>> \in Seq(Step) /\ <<>> \in Seq(DrainSteps)
  OBVIOUS
<1>8. ASSUME NEW u \in {"eh", "degrade"}, NEW s \in Seq(DrainSteps), Start(u, s), stage' = stage
      PROVE  Struct' /\ \A v \in Drivers : path'[v] = path[v]
  <2>1. s \in Seq(Step) /\ path[u] = <<>> /\ Jump(u, s)
    BY <1>8, StepSets DEF Start
  <2>2. /\ path' \in [Threads -> Seq(Step)] /\ path'[u] = s
        /\ \A v \in Threads \ {u} : path'[v] = path[v]
        /\ \A v \in Drivers \ {u} : \E n \in Nat : DriverForm(v, n)'
        /\ Waiting'
    BY <1>3, <1>6, <2>1, Started
  <2>3. /\ \A v \in Drivers : path'[v] = path[v] /\ v # u
        /\ path'["life"] = path["life"]
        /\ \A v \in {"eh", "degrade"} \ {u} : path'[v] = path[v]
    BY <1>6, <2>2
  <2>4. Paths'
    BY <1>1, <1>3, <2>2, <2>3 DEF Paths, LifePath
  <2>5. Where'
    BY <1>1, <1>6, <1>8, <2>3 DEF Where
  <2> QED
    BY <1>4, <2>2, <2>3, <2>4, <2>5 DEF Struct
<1>9. ASSUME NEW u \in Drivers, NEW s \in Seq(Step), path[u] = <<>>, Jump(u, s), stage' = stage,
             path'[u] = s => Begun(u)',
             u = "work" \/ (stage \in {"member", "orphan"} /\ path["pm"] = <<>> /\ path["sysfs"] = <<>>)
      PROVE  Struct' /\ \A v \in Drivers : path'[v] = path[v] \/ (path[v] = <<>> /\ Begun(v)')
  <2>1. /\ path' \in [Threads -> Seq(Step)] /\ path'[u] = s
        /\ \A v \in Threads \ {u} : path'[v] = path[v]
        /\ \A v \in Drivers \ {u} : \E n \in Nat : DriverForm(v, n)'
        /\ Waiting'
    BY <1>3, <1>6, <1>9, Started
  <2>2. \E n \in Nat : DriverForm(u, n)'
    BY <1>9, <2>1 DEF Begun
  <2>3. /\ \A v \in {"eh", "degrade", "life"} : path'[v] = path[v]
        /\ \A v \in Drivers \ {u} : path'[v] = path[v]
    BY <1>6, <2>1
  <2>4. Paths'
    BY <1>1, <1>3, <2>1, <2>2, <2>3 DEF Paths, LifePath
  <2>5. Where'
    <3>1. stage' = stage /\ path'["life"] = path["life"]
      BY <1>9, <2>3
    <3>2. CASE u = "work"
      BY <1>1, <1>6, <2>3, <3>1, <3>2 DEF Where
    <3>3. CASE u # "work"
      <4>1. stage \in {"member", "orphan"} /\ path["pm"] = <<>> /\ path["sysfs"] = <<>>
        BY <1>9, <3>3
      <4>2. path'["pm"] = <<>> \/ path'["sysfs"] = <<>>
        BY <1>6, <2>3, <4>1
      <4> QED
        BY <1>1, <3>1, <4>1, <4>2 DEF Where
    <3> QED
      BY <3>2, <3>3
  <2> QED
    BY <1>4, <1>9, <2>1, <2>3, <2>4, <2>5 DEF Struct
<1>10. ASSUME NEW r \in Reqs, TimeOut(r)
       PROVE  Struct' /\ \A v \in Drivers : path'[v] = path[v]
  <2>1. stage' = stage
    BY <1>10 DEF TimeOut, memVars
  <2>2. PICK s \in Seq(DrainSteps) : Start("eh", s)
    <3>1. \/ Start("eh", DrainAndReset)
          \/ Start("eh", StepsOf(<<"abort", "stuck">>, r) \o DrainAndReset \o StepsOf(<<"end_one">>, r))
      BY <1>10 DEF TimeOut
    <3> QED
      BY <3>1, DrainStarts
  <2> QED
    BY <1>8, <2>1, <2>2
<1>11. ASSUME Degrade
       PROVE  Struct' /\ \A v \in Drivers : path'[v] = path[v]
  <2>1. stage' = stage
    BY <1>11 DEF Degrade, memVars
  <2>2. PICK s \in Seq(DrainSteps) : Start("degrade", s)
    <3>1. Start("degrade", Tail(DrainAndReset)) \/ Start("degrade", <<>>)
      BY <1>11 DEF Degrade
    <3> QED
      BY <1>7, <3>1, DrainStarts
  <2> QED
    BY <1>8, <2>1, <2>2
<1>12. ASSUME AutoReset
       PROVE  Struct' /\ \A v \in Drivers : path'[v] = path[v] \/ (path[v] = <<>> /\ Begun(v)')
  <2>1. stage' = stage /\ path["work"] = <<>>
    BY <1>12 DEF AutoReset, memVars, Start
  <2>2. CASE Jump("work", <<>>)
    <3>1. path'["work"] = <<>> => Begun("work")'
      BY BegunIdle
    <3> QED
      BY <1>6, <1>7, <1>9, <2>1, <2>2, <3>1
  <2>3. CASE Jump("work", Reset \o Steps(<<"latch">>))
    <3> DEFINE s == Reset \o Steps(<<"latch">>)
    <3>1. s \in Seq(Step) /\ s = DriverPath("work", Width, 2 * Width + 14)
      BY <1>5, DriverStarts
    <3>2. 2 * Width + 14 \in Nat /\ 2 * Width + 14 = 2 * Width + First("work") + After("work") + 1
      BY <1>5 DEF First, After
    <3> HIDE DEF s
    <3>3. path'["work"] = s => Begun("work")'
      BY <1>5, <1>6, <3>1, <3>2, BegunIs
    <3>4. Jump("work", s)
      BY <2>3 DEF s
    <3> QED
      BY <1>6, <1>9, <2>1, <3>1, <3>3, <3>4
  <2> QED
    BY <1>12, <2>2, <2>3 DEF AutoReset, Start
<1>13. ASSUME ManualReset
       PROVE  Struct' /\ \A v \in Drivers : path'[v] = path[v] \/ (path[v] = <<>> /\ Begun(v)')
  <2>1. /\ stage' = stage /\ path["sysfs"] = <<>> /\ path["pm"] = <<>> /\ Jump("sysfs", Reset)
        /\ stage \in {"member", "orphan"}
    BY <1>13 DEF ManualReset, memVars, Start
  <2>2. Reset \in Seq(Step) /\ Reset = DriverPath("sysfs", Width, 2 * Width + 13)
    BY <1>5, DriverStarts
  <2>3. 2 * Width + 13 \in Nat /\ 2 * Width + 13 = 2 * Width + First("sysfs") + After("sysfs") + 1
    BY <1>5 DEF First, After
  <2>4. path'["sysfs"] = Reset => Begun("sysfs")'
    BY <1>5, <1>6, <2>2, <2>3, BegunIs
  <2> QED
    BY <1>6, <1>9, <2>1, <2>2, <2>4
<1>14. ASSUME Suspend
       PROVE  Struct' /\ \A v \in Drivers : path'[v] = path[v] \/ (path[v] = <<>> /\ Begun(v)')
  <2>1. /\ stage' = stage /\ path["sysfs"] = <<>> /\ path["pm"] = <<>> /\ Jump("pm", SuspendResume)
        /\ stage \in {"member", "orphan"}
    BY <1>14 DEF Suspend, memVars, Start
  <2>2. SuspendResume \in Seq(Step) /\ SuspendResume = DriverPath("pm", Width, 2 * Width + 23)
    BY <1>5, DriverStarts
  <2>3. 2 * Width + 23 \in Nat /\ 2 * Width + 23 = 2 * Width + First("pm") + After("pm") + 1
    BY <1>5 DEF First, After
  <2>4. path'["pm"] = SuspendResume => Begun("pm")'
    BY <1>5, <1>6, <2>2, <2>3, BegunIs
  <2> QED
    BY <1>6, <1>9, <2>1, <2>2, <2>4
<1>15. ASSUME Unplug
       PROVE  Struct' /\ \A v \in Drivers : path'[v] = path[v]
  <2>1. /\ stage' = "leaving" /\ path["life"] = <<>> /\ path["sysfs"] = <<>> /\ path["pm"] = <<>>
        /\ Jump("life", Removal) \/ Jump("life", Cleanup)
    BY <1>15 DEF Unplug, Start
  <2>2. PICK s : LifePath(s) /\ Jump("life", s)
    BY <2>1, LifeStarts
  <2>3. s \in Seq(Step)
    BY <2>2, StepSets DEF LifePath
  <2>4. /\ path' \in [Threads -> Seq(Step)] /\ path'["life"] = s
        /\ \A v \in Threads \ {"life"} : path'[v] = path[v]
        /\ \A v \in Drivers \ {"life"} : \E n \in Nat : DriverForm(v, n)'
        /\ Waiting'
    BY <1>3, <1>6, <2>1, <2>2, <2>3, Started
  <2>5. /\ \A v \in Drivers : path'[v] = path[v] /\ v # "life"
        /\ \A v \in {"eh", "degrade"} : path'[v] = path[v]
    BY <1>6, <2>4
  <2>6. Paths'
    BY <1>1, <1>3, <2>2, <2>4, <2>5 DEF Paths, LifePath
  <2>7. Where'
    BY <1>6, <2>1, <2>5 DEF Where
  <2> QED
    BY <1>4, <2>4, <2>5, <2>6, <2>7 DEF Struct
<1> QED
  BY <1>10, <1>11, <1>12, <1>13, <1>14, <1>15 DEF Starts

\* The first state.
LEMMA StructInit ==
  ASSUME Init
  PROVE  Struct
<1>1. /\ Queues \in Nat \ {0}
      /\ path = [t \in Threads |-> IF t = "life" THEN InitSteps ELSE <<>>]
      /\ stage = "probe" /\ cmd = None /\ io = {}
  BY ControllerAssumption DEF Init
<1>2. LifePath(InitSteps) /\ InitSteps \in Seq(Step)
  <2>1. LifePath(InitSteps)
    BY LifeStarts
  <2> QED
    BY <2>1, StepSets DEF LifePath
<1>3. /\ path \in [Threads -> Seq(Step)] /\ path["life"] = InitSteps
      /\ \A t \in Drivers \cup {"eh", "degrade"} : path[t] = <<>>
  BY <1>1, <1>2, ThreadKinds
<1>4. Paths
  <2>1. \A t \in Drivers : \E n \in Nat : DriverForm(t, n)
    BY <1>3, Idle
  <2>2. path["eh"] \in Seq(DrainSteps) /\ path["degrade"] \in Seq(DrainSteps)
    <3>1. path["eh"] = <<>> /\ path["degrade"] = <<>>
      BY <1>3
    <3> QED
      BY <3>1
  <2>3. io \in SUBSET Nat
    BY <1>1
  <2> QED
    BY <1>2, <1>3, <2>1, <2>2, <2>3 DEF Paths
<1>5. Where
  BY <1>1, <1>3 DEF Where, Drivers
<1>6. Waiting
  BY <1>1 DEF Waiting
<1>7. hw \in Controllers
  <2>1. PICK en \in BOOLEAN : hw = [Blank EXCEPT !.en = en, !.rdy = en]
    BY DEF Init
  <2>2. Blank \in Controllers
    BY <1>1 DEF Blank, Controllers
  <2> QED
    BY <2>1, <2>2 DEF Controllers
<1>8. IsFiniteSet(io) /\ nr \in 0 .. Queues /\ cq \in Seq(Entry)
  <2>1. IsFiniteSet(io)
    BY <1>1, FS_EmptySet
  <2> QED
    BY <1>1, <2>1 DEF Init
<1>9. Typed
  <2>1. /\ cmd \in Threads \cup {None} /\ holder \in Threads \cup {None}
        /\ dead \in BOOLEAN /\ latch \in BOOLEAN /\ workq \in BOOLEAN
        /\ stage \in {"probe", "member", "orphan", "leaving", "gone"}
        /\ failed \in SUBSET Threads /\ events \in Nat /\ tries \in Nat
        /\ overlapped \in BOOLEAN
    BY DEF Init
  <2>2. /\ quiesced \in Int /\ frozen \in BOOLEAN /\ memberDown \in BOOLEAN
        /\ degradeq \in BOOLEAN /\ req \in [Reqs -> {"none", "queued", "sent"}]
    <3>1. quiesced = 0 /\ frozen = FALSE /\ memberDown = FALSE /\ degradeq = FALSE
      BY DEF Init
    <3>2. req = [r \in Reqs |-> "none"]
      BY DEF Init
    <3>3. req \in [Reqs -> {"none", "queued", "sent"}]
      BY <3>2
    <3>4. quiesced \in Int
      BY <3>1
    <3> QED
      BY <3>1, <3>3, <3>4, Zenon
  <2> QED
    BY <1>3, <1>7, <1>8, <2>1, <2>2 DEF Typed
<1> QED
  BY <1>4, <1>5, <1>6, <1>9 DEF Struct

-----------------------------------------------------------------------------
(* Automatic resets, two resets at once, and the sleep.                     *)

\* What is left of the automatic resets: a second one without success was queued
\* before the first had failed, and is the last.
Thrash ==
  /\ tries <= 2
  /\ tries = 2 => latch /\ ~workq
  /\ tries >= 1 /\ ~latch => path["work"] # <<>> /\ ("work" \in failed \/ Left("work") >= 2)

\* A driver that has flagged the controller dead, or a suspend that has passed its
\* cancel, and has not brought it back.
Active(t) == Has(t, "live") /\ ~Has(t, IF t = "pm" THEN "cancel" ELSE "dead")
Alone == \A t, u \in Drivers : t # u /\ Active(t) /\ Active(u) => overlapped

\* What a suspend holds still, from its freeze and from its wait on.
Sleeping(n) ==
  /\ DriverForm("pm", n)
  /\ path["pm"] # <<>> /\ Before("pm", n) <= 20 => frozen
  /\ path["pm"] # <<>> /\ Before("pm", n) <= 19 => NoReq
  /\ Before("pm", n) \in 13 .. 15 /\ "pm" \notin failed /\ ~overlapped => ~hw.en
Sleepy == \E n \in Nat : Sleeping(n)

ResetInv == Struct /\ Thrash /\ Alone /\ Sleepy

\* What is not a step of a thread leaves of that.
Rest ==
  /\ overlapped' = overlapped /\ latch' = latch /\ frozen' = frozen
  /\ hw'.en => hw.en
  /\ frozen /\ NoReq => NoReq'
  /\ \A u \in Drivers : path[u] # <<>> /\ u \in failed => u \in failed'
  /\ workq' => workq
  /\ \/ tries' = tries
     \/ /\ workq /\ ~workq' /\ path["work"] = <<>> /\ path'["work"] # <<>>
        /\ tries' = tries + 1 /\ Left("work")' >= 2

\* The controller and its interrupts.
LEMMA HardwareRest ==
  ASSUME Typed, HwUp \/ HwDown \/ HwFail \/ HwAdmin \/ IsrSeesDeath
  PROVE  Rest /\ UNCHANGED <<path, io, stage, cmd>>
<1> USE DEF admVars, flagVars, memVars, blkVars, histVars
<1>1. /\ hw.en \in BOOLEAN /\ Blank.en = FALSE /\ Lost.en = FALSE
      /\ [Blank EXCEPT !.lapse = hw.lapse].en = FALSE
      /\ \A x : [hw EXCEPT !.rdy = x].en = hw.en
      /\ \A x : [hw EXCEPT !.health = x].en = hw.en
  <2>1. hw \in Controllers
    BY DEF Typed
  <2>2. hw.en \in BOOLEAN
    BY <2>1 DEF Controllers
  <2>3. /\ \A x : [hw EXCEPT !.rdy = x].en = hw.en
        /\ \A x : [hw EXCEPT !.health = x].en = hw.en
    BY <2>1 DEF Controllers
  <2> QED
    BY <2>2, <2>3 DEF Blank, Lost
<1>2. CASE HwUp
  BY <1>1, <1>2 DEF HwUp, Rest, NoReq
<1>3. CASE HwDown
  BY <1>1, <1>3 DEF HwDown, Rest, NoReq
<1>4. CASE HwFail
  BY <1>1, <1>4 DEF HwFail, Rest, NoReq
<1>5. CASE HwAdmin
  <2>1. hw'.en = hw.en
    <3>1. hw \in Controllers
      BY DEF Typed
    <3>2. \E x, y, z, w : \/ hw' = [hw EXCEPT !.cmds = x, !.known = y]
                          \/ hw' = [hw EXCEPT !.cmds = x, !.granted = z]
                          \/ hw' = [hw EXCEPT !.cmds = x, !.lapse = w]
      BY <1>5 DEF HwAdmin
    <3> QED
      BY <3>1, <3>2 DEF Controllers
  <2> QED
    BY <1>5, <2>1 DEF HwAdmin, Rest, NoReq
<1>6. CASE IsrSeesDeath
  BY <1>6 DEF IsrSeesDeath, Rest, NoReq
<1> QED
  BY <1>2, <1>3, <1>4, <1>5, <1>6

\* The requests: a frozen queue lets none in.
LEMMA RequestsRest ==
  ASSUME Typed, NEW r \in Reqs, Enter(r) \/ Dispatch(r) \/ HwDone(r)
  PROVE  Rest /\ UNCHANGED <<path, io, stage, cmd>>
<1> USE DEF admVars, flagVars, memVars, blkVars, histVars, MarkDown
<1>1. hw \in Controllers /\ req \in [Reqs -> {"none", "queued", "sent"}]
  BY DEF Typed
<1>2. \A x : [hw EXCEPT !.reqs = x].en = hw.en
  BY <1>1 DEF Controllers
<1>3. CASE Enter(r)
  BY <1>3 DEF Enter, Rest, NoReq
<1>4. CASE Dispatch(r)
  <2>1. hw'.en = hw.en
    BY <1>2, <1>4 DEF Dispatch
  <2>2. ~NoReq
    BY <1>4 DEF Dispatch, NoReq
  <2> QED
    BY <1>4, <2>1, <2>2 DEF Dispatch, Rest
<1>5. CASE HwDone(r)
  <2>1. hw'.en = hw.en
    BY <1>2, <1>5 DEF HwDone
  <2>2. NoReq => NoReq'
    BY <1>1, <1>5 DEF HwDone, NoReq
  <2> QED
    BY <1>5, <2>1, <2>2 DEF HwDone, Rest
<1> QED
  BY <1>3, <1>4, <1>5

\* What starts a path; a start of the automatic reset is counted.
LEMMA StartsRest ==
  ASSUME Struct, Starts \/ \E r \in Reqs : TimeOut(r)
  PROVE  Rest
<1> USE DEF admVars, flagVars, memVars, blkVars, histVars
<1>1. Typed /\ Typed0 /\ path \in [Threads -> Seq(Step)] /\ workq \in BOOLEAN
  BY DEF Struct, Typed, Typed0
<1>2. \A u \in Threads : \A s : Start(u, s) =>
        \A v \in Drivers : path[v] # <<>> /\ v \in failed => v \in failed'
  BY DEF Start
<1>3. "eh" \in Threads /\ "degrade" \in Threads /\ "life" \in Threads /\ Drivers \subseteq Threads
      /\ "work" \in Drivers /\ "sysfs" \in Drivers /\ "pm" \in Drivers
  BY ThreadKinds DEF Drivers
<1>4. ASSUME NEW r \in Reqs, TimeOut(r)
      PROVE  Rest
  <2>1. \A v \in Drivers : path[v] # <<>> /\ v \in failed => v \in failed'
    BY <1>2, <1>3, <1>4 DEF TimeOut
  <2> QED
    BY <1>4, <2>1 DEF TimeOut, Rest, NoReq
<1>5. CASE Degrade
  <2>1. \A v \in Drivers : path[v] # <<>> /\ v \in failed => v \in failed'
    BY <1>2, <1>3, <1>5 DEF Degrade
  <2> QED
    BY <1>5, <2>1 DEF Degrade, Rest, NoReq
<1>6. CASE ManualReset
  <2>1. \A v \in Drivers : path[v] # <<>> /\ v \in failed => v \in failed'
    BY <1>2, <1>3, <1>6 DEF ManualReset
  <2> QED
    BY <1>6, <2>1 DEF ManualReset, Rest, NoReq
<1>7. CASE Suspend
  <2>1. \A v \in Drivers : path[v] # <<>> /\ v \in failed => v \in failed'
    BY <1>2, <1>3, <1>7 DEF Suspend
  <2> QED
    BY <1>7, <2>1 DEF Suspend, Rest, NoReq
<1>8. CASE Unplug
  <2>1. \A v \in Drivers : path[v] # <<>> /\ v \in failed => v \in failed'
    BY <1>2, <1>3, <1>8 DEF Unplug
  <2>2. hw'.en => hw.en
    BY <1>8 DEF Unplug, Lost, Blank
  <2> QED
    BY <1>8, <2>1, <2>2 DEF Unplug, Rest, NoReq
<1>9. CASE AutoReset
  <2>1. \A v \in Drivers : path[v] # <<>> /\ v \in failed => v \in failed'
    BY <1>2, <1>3, <1>9 DEF AutoReset
  <2>2. \/ tries' = tries
        \/ /\ path["work"] = <<>> /\ path'["work"] # <<>>
           /\ tries' = tries + 1 /\ Left("work")' >= 2
    <3>1. CASE dead
      <4> DEFINE s == Reset \o Steps(<<"latch">>)
      <4>1. Start("work", s) /\ tries' = tries + 1 /\ path["work"] = <<>>
        BY <1>9, <3>1 DEF AutoReset, Start
      <4>2. Width \in Nat
        BY WidthNat
      <4>3. s \in Seq(Step) /\ s = DriverPath("work", Width, 2 * Width + 14)
        BY <4>2, DriverStarts
      <4> HIDE DEF s
      <4>4. path'["work"] = s
        BY <1>1, <1>3, <4>1 DEF Start, Jump
      <4>5. Len(s) = 2 * Width + 14
        <5>1. DOMAIN s = 1 .. 2 * Width + 14
          BY <4>3 DEF DriverPath
        <5>2. Len(s) \in Nat /\ DOMAIN s = 1 .. Len(s)
          BY <4>3
        <5> QED
          BY <4>2, <5>1, <5>2
      <4>6. Left("work")' >= 2
        <5>1. Left("work")' = Len(path'["work"]) - 1 - 1
          BY DEF Left, After
        <5> QED
          BY <4>2, <4>4, <4>5, <5>1
      <4>7. path'["work"] # <<>>
        <5>1. s = <<>> => Len(s) = 0
          OBVIOUS
        <5> QED
          BY <4>2, <4>4, <4>5, <5>1
      <4> QED
        BY <4>1, <4>6, <4>7
    <3> QED
      BY <1>9, <3>1 DEF AutoReset
  <2> QED
    BY <1>9, <2>1, <2>2 DEF AutoReset, Rest, NoReq
<1> QED
  BY <1>4, <1>5, <1>6, <1>7, <1>8, <1>9 DEF Starts

\* The facts about a driver and the step it takes.
LEMMA DriverFacts ==
  ASSUME Struct, NEW t \in Drivers, NEW n \in Nat, DriverForm(t, n)
  PROVE  /\ Left(t) \in Int /\ Before(t, n) = Left(t) - 2 * n /\ Before(t, n) <= First(t)
         /\ path[t] # <<>> <=> Left(t) + After(t) >= 0
         /\ First(t) = (IF t = "pm" THEN 21 ELSE 12)
         /\ After(t) = (IF t = "sysfs" THEN 0 ELSE 1)
         /\ \A s : At(t, s) => Places(s, Left(t), Before(t, n), Final(t))
         /\ \A S : HeadIn(t, S) => \E s \in S : Places(s, Left(t), Before(t, n), Final(t))
         /\ path[t] # <<>> => Places(Head(path[t])[1], Left(t), Before(t, n), Final(t))
<1>1. path[t] \in Seq(Step) /\ Len(path[t]) \in Nat
  BY ThreadKinds DEF Struct, Typed
<1>2. After(t) = (IF t = "sysfs" THEN 0 ELSE 1) /\ First(t) = (IF t = "pm" THEN 21 ELSE 12)
  BY DEF After, First
<1>3. /\ Left(t) = Len(path[t]) - After(t) - 1 /\ Before(t, n) = Left(t) - 2 * n
      /\ Before(t, n) <= First(t)
  BY DEF Left, Before, DriverForm
<1>4. path[t] # <<>> <=> Len(path[t]) > 0
  <2>1. path[t] = <<>> => Len(path[t]) = 0
    OBVIOUS
  <2>2. Len(path[t]) = 0 => path[t] = <<>>
    BY <1>1, Empty
  <2> QED
    BY <1>1, <2>1, <2>2
<1>5. path[t] # <<>> => Places(Head(path[t])[1], Left(t), Before(t, n), Final(t))
  BY <1>1, AtDriver
<1>6. Left(t) \in Int /\ (path[t] # <<>> <=> Left(t) + After(t) >= 0)
  BY <1>1, <1>2, <1>3, <1>4
<1> QED
  BY <1>2, <1>3, <1>5, <1>6 DEF At, HeadIn

\* What the steps ahead say of where it is.
LEMMA ActiveIs ==
  ASSUME Struct, NEW t \in Drivers, NEW n \in Nat, DriverForm(t, n)
  PROVE  /\ Active(t) <=> Left(t) >= 2 /\ Before(t, n) < (IF t = "pm" THEN 19 ELSE 12)
         /\ Active(t) => Driving(t)
<1>1. path[t] \in Seq(Step)
  BY ThreadKinds DEF Struct, Typed
<1>2. /\ Has(t, "dead") <=> Left(t) >= 0 /\ Before(t, n) >= 12
      /\ Has(t, "live") <=> Left(t) >= 2
      /\ Has(t, "cancel") <=> Left(t) >= 0 /\ Before(t, n) >= 19
  BY <1>1, HasDriver
<1>3. /\ Left(t) \in Int /\ Before(t, n) \in Int
      /\ Before(t, n) <= (IF t = "pm" THEN 21 ELSE 12)
  BY DriverFacts
<1> QED
  BY <1>2, <1>3 DEF Active, Driving

\* A step of a driver, by where it is and where it comes.
LEMMA DriverSteps ==
  ASSUME Struct, NEW t \in Drivers, NEW n \in Nat, DriverForm(t, n), ThreadStep(t)
  PROVE  /\ Struct' /\ DriverForm(t, n)' /\ DriverTo(t, n)
         /\ Left(t)' \in Int /\ Before(t, n)' = Left(t)' - 2 * n
         /\ path'[t] # <<>> <=> Left(t)' + After(t) >= 0
         /\ Flags(t) /\ Stills(t)
         /\ \A u \in Threads \ {t} : path'[u] = path[u]
<1>1. /\ Typed /\ Waiting /\ path \in [Threads -> Seq(Step)] /\ t \in Threads
  BY ThreadKinds DEF Struct, Typed
<1>2. Shape(t) /\ Flags(t) /\ Stills(t)
  BY <1>1, ThreadShape, ThreadFlags, ThreadStills
<1>3. /\ DriverForm(t, n)' /\ DriverTo(t, n) /\ path' \in [Threads -> Seq(Step)]
      /\ \A u \in Threads \ {t} : path'[u] = path[u]
  BY <1>1, <1>2, DriverMoves
<1>4. Struct'
  BY <1>1, StructThread
<1>5. Len(path'[t]) \in Nat /\ path'[t] \in Seq(Step)
  BY <1>1, <1>3
<1>6. After(t) = (IF t = "sysfs" THEN 0 ELSE 1)
  BY DEF After
<1>7. Left(t)' = Len(path'[t]) - After(t) - 1 /\ Before(t, n)' = Left(t)' - 2 * n
  BY DEF Left, Before, After
<1>8. path'[t] # <<>> <=> Len(path'[t]) > 0
  <2>1. path'[t] = <<>> => Len(path'[t]) = 0
    OBVIOUS
  <2>2. Len(path'[t]) = 0 => path'[t] = <<>>
    BY <1>5, Empty
  <2> QED
    BY <1>5, <2>1, <2>2
<1> QED
  BY <1>2, <1>3, <1>4, <1>5, <1>6, <1>7, <1>8

\* A step leaves the automatic resets so.
LEMMA ThrashThread ==
  ASSUME Struct, Thrash, NEW t \in Threads, ThreadStep(t)
  PROVE  Thrash'
<1>1. /\ tries \in Nat /\ latch \in BOOLEAN /\ workq \in BOOLEAN /\ "work" \in Drivers
      /\ tries' \in Nat /\ latch' \in BOOLEAN /\ workq' \in BOOLEAN
      /\ \A u \in Threads \ {t} : path'[u] = path[u]
      /\ Flags(t)
  <2>1. Typed /\ Waiting /\ Typed' /\ \A u \in Threads \ {t} : path'[u] = path[u]
    BY StructThread DEF Struct
  <2>2. Flags(t)
    BY <2>1, ThreadFlags
  <2> QED
    BY <2>1, <2>2 DEF Typed, Drivers
<1>2. tries' <= 2
  BY <1>1 DEF Thrash, Flags
<1>3. tries' = 2 => latch' /\ ~workq'
  BY <1>1 DEF Thrash, Flags
<1>4. ASSUME tries' >= 1, ~latch'
      PROVE  path'["work"] # <<>> /\ ("work" \in failed' \/ Left("work")' >= 2)
  <2>1. /\ tries >= 1 /\ ~latch /\ ~(At(t, "latch") /\ t \in failed)
        /\ ~At(t, "live")
    BY <1>1, <1>4 DEF Flags
  <2>2. path["work"] # <<>> /\ ("work" \in failed \/ Left("work") >= 2)
    BY <2>1 DEF Thrash
  <2>3. CASE t # "work"
    <3>1. path'["work"] = path["work"]
      BY <1>1, <2>3, ThreadKinds
    <3>2. "work" \in failed => "work" \in failed'
      BY <1>1, <2>3 DEF Flags
    <3>3. Left("work")' = Left("work")
      BY <3>1, FormFrame
    <3> QED
      BY <2>2, <3>1, <3>2, <3>3
  <2>4. CASE t = "work"
    <3>1. PICK n \in Nat : DriverForm("work", n)
      BY <1>1 DEF Struct, Paths
    <3>2. /\ Left("work") \in Int /\ Before("work", n) = Left("work") - 2 * n
          /\ After("work") = 1 /\ Left("work") >= -1
          /\ \A s : At("work", s) => Places(s, Left("work"), Before("work", n), Final("work"))
          /\ Places(Head(path["work"])[1], Left("work"), Before("work", n), Final("work"))
          /\ \A S : HeadIn("work", S) =>
               \E s \in S : Places(s, Left("work"), Before("work", n), Final("work"))
      BY <1>1, <2>2, <3>1, DriverFacts
    <3>3. /\ DriverTo("work", n) /\ Left("work")' \in Int
          /\ path'["work"] # <<>> <=> Left("work")' + 1 >= 0
      BY <1>1, <2>4, <3>1, <3>2, DriverSteps
    <3>4. /\ At("work", "dead") => Before("work", n) \in {12, 17}
          /\ At("work", "mask") => Before("work", n) = 10
          /\ Left("work") = 2 => At("work", "live")
          /\ Left("work") = -1 => At("work", "latch")
      <4>1. /\ Head(path["work"])[1] = "live" <=> Left("work") = 2
            /\ Head(path["work"])[1] = "latch" <=> Left("work") = -1 /\ Final("work") = "latch"
        BY <3>2, Zenon DEF Places
      <4>2. Final("work") = "latch"
        BY DEF Final
      <4>3. /\ At("work", "dead") => Before("work", n) \in {12, 17}
            /\ At("work", "mask") => Before("work", n) = 10
        BY <3>2 DEF Places
      <4> QED
        BY <2>2, <4>1, <4>2, <4>3 DEF At
    <3>5. "work" \in failed => "work" \in failed' \/ Left("work") >= 12
      <4>1. Has("work", "latch")
        <5>1. path["work"] \in Seq(Step)
          BY <1>1, ThreadKinds DEF Struct, Typed
        <5> QED
          BY <1>1, <3>1, <3>2, <5>1, HasDriver
      <4>2. "work" \in failed => "work" \in failed' \/ At("work", "dead")
        BY <1>1, <2>1, <2>4, <4>1 DEF Flags
      <4>3. At("work", "dead") => Left("work") >= 12
        BY <3>2, <3>4
      <4> QED
        BY <4>2, <4>3
    <3>6. CASE path' = path
      <4>1. Left("work")' = Left("work") /\ path'["work"] = path["work"]
        BY <3>6, FormFrame
      <4> QED
        BY <2>2, <3>2, <3>5, <4>1
    <3>7. CASE path["work"] # <<>> /\ ~At("work", "live") /\ Left("work")' = Left("work") - 1
      <4>1. Left("work") # 2
        BY <3>4, <3>7
      <4>2. CASE Left("work") >= 2
        <5>1. Left("work")' >= 2
          BY <3>2, <3>7, <4>1, <4>2
        <5> QED
          BY <3>3, <5>1
      <4>3. CASE ~(Left("work") >= 2)
        <5>1. "work" \in failed /\ "work" \in failed'
          BY <2>2, <3>2, <3>5, <4>3
        <5>2. Left("work") # -1
          BY <2>1, <2>4, <3>4, <5>1
        <5>3. Left("work")' + 1 >= 0
          BY <3>2, <3>7, <5>2
        <5> QED
          BY <3>3, <5>1, <5>3
      <4> QED
        BY <4>2, <4>3
    <3>8. CASE At("work", "mask") /\ Left("work")' = Left("work") - 3
      <4>1. Left("work")' >= 2
        BY <3>2, <3>4, <3>8
      <4> QED
        BY <3>3, <4>1
    <3>9. CASE /\ HeadIn("work", {"on", "wait0", "wait1", "set_num", "ccq", "csq"})
               /\ "work" \in failed'
               /\ Left("work")' = IF Before("work", n) >= 14 THEN 2 * n + 14 ELSE 1
      <4>1. Left("work")' + 1 >= 0
        BY <3>9
      <4> QED
        BY <3>3, <3>9, <4>1
    <3> QED
      BY <2>1, <2>4, <3>3, <3>6, <3>7, <3>8, <3>9 DEF DriverTo
  <2> QED
    BY <2>3, <2>4
<1> QED
  BY <1>2, <1>3, <1>4 DEF Thrash

\* So does whatever is not a step.
LEMMA ThrashRest ==
  ASSUME Struct, Thrash, Rest, Struct',
         path'["work"] = path["work"] \/ path["work"] = <<>>
  PROVE  Thrash'
<1>1. /\ tries \in Nat /\ latch \in BOOLEAN /\ workq \in BOOLEAN /\ workq' \in BOOLEAN
      /\ "work" \in Drivers
  BY DEF Struct, Typed, Drivers
<1>2. CASE tries' = tries
  <2>1. tries >= 1 /\ ~latch => /\ path'["work"] = path["work"] /\ path["work"] # <<>>
                                /\ "work" \in failed => "work" \in failed'
    BY <1>1 DEF Thrash, Rest
  <2>2. path'["work"] = path["work"] => Left("work")' = Left("work")
    BY FormFrame
  <2> QED
    BY <1>1, <1>2, <2>1, <2>2 DEF Thrash, Rest
<1>3. CASE /\ workq /\ ~workq' /\ path["work"] = <<>> /\ path'["work"] # <<>>
           /\ tries' = tries + 1 /\ Left("work")' >= 2
  <2>1. tries = 0 \/ (tries = 1 /\ latch)
    BY <1>1, <1>3 DEF Thrash
  <2>2. latch' = latch
    BY DEF Rest
  <2> QED
    BY <1>1, <1>3, <2>1, <2>2 DEF Thrash
<1> QED
  BY <1>2, <1>3 DEF Rest

\* The same of the next state.
LEMMA ActiveNext ==
  ASSUME NEW t \in Drivers, NEW n \in Nat
  PROVE  (Struct /\ DriverForm(t, n) =>
            /\ Active(t) <=> Left(t) >= 2 /\ Before(t, n) < (IF t = "pm" THEN 19 ELSE 12)
            /\ Left(t) \in Int /\ Before(t, n) = Left(t) - 2 * n)'
<1>1. Struct /\ DriverForm(t, n) =>
        /\ Active(t) <=> Left(t) >= 2 /\ Before(t, n) < (IF t = "pm" THEN 19 ELSE 12)
        /\ Left(t) \in Int /\ Before(t, n) = Left(t) - 2 * n
  BY ActiveIs, DriverFacts
<1> QED
  BY <1>1, PTL

\* A driver becomes active only by flagging the controller dead, or by a cancel.
LEMMA BecomesActive ==
  ASSUME Struct, NEW t \in Drivers, ThreadStep(t), Active(t)'
  PROVE  Active(t) \/ (t # "pm" /\ At(t, "dead")) \/ (t = "pm" /\ At(t, "cancel"))
<1>1. PICK n \in Nat : DriverForm(t, n)
  BY DEF Struct, Paths
<1>2. /\ Left(t) \in Int /\ Before(t, n) = Left(t) - 2 * n
      /\ Before(t, n) <= (IF t = "pm" THEN 21 ELSE 12)
      /\ \A s : At(t, s) => Places(s, Left(t), Before(t, n), Final(t))
      /\ path[t] # <<>> => Places(Head(path[t])[1], Left(t), Before(t, n), Final(t))
      /\ \A S : HeadIn(t, S) => \E s \in S : Places(s, Left(t), Before(t, n), Final(t))
  BY <1>1, DriverFacts
<1>3. /\ Struct' /\ DriverForm(t, n)' /\ DriverTo(t, n) /\ Left(t)' \in Int
      /\ Before(t, n)' = Left(t)' - 2 * n
  BY <1>1, DriverSteps
<1>4. Active(t) <=> Left(t) >= 2 /\ Before(t, n) < (IF t = "pm" THEN 19 ELSE 12)
  BY <1>1, ActiveIs
<1>5. Left(t)' >= 2 /\ Before(t, n)' < (IF t = "pm" THEN 19 ELSE 12)
  BY <1>3, ActiveNext
<1>6. SUFFICES ASSUME ~Active(t)
               PROVE  (t # "pm" /\ At(t, "dead")) \/ (t = "pm" /\ At(t, "cancel"))
  OBVIOUS
<1>7. ASSUME path[t] # <<>>
      PROVE  /\ Before(t, n) = 12 => At(t, "dead")
             /\ Before(t, n) = 19 => At(t, "cancel")
             /\ At(t, "mask") => Before(t, n) = 10
  <2>1. /\ Head(path[t])[1] = "dead" <=> Before(t, n) \in {12, 17}
        /\ Head(path[t])[1] = "cancel" <=> Before(t, n) = 19
        /\ Head(path[t])[1] = "mask" <=> Before(t, n) = 10
    BY <1>2, <1>7, Zenon DEF Places
  <2> QED
    BY <1>7, <2>1 DEF At
<1>8. CASE path' = path
  <2>1. Left(t)' = Left(t)
    BY <1>8, FormFrame
  <2> QED
    BY <1>2, <1>3, <1>4, <1>5, <1>6, <2>1
<1>9. CASE path[t] # <<>> /\ Left(t)' = Left(t) - 1
  BY <1>2, <1>3, <1>4, <1>5, <1>6, <1>7, <1>9
<1>10. CASE At(t, "mask") /\ Left(t)' = Left(t) - 3
  <2>1. path[t] # <<>>
    BY <1>10 DEF At
  <2> QED
    BY <1>2, <1>3, <1>4, <1>5, <1>6, <1>7, <1>10, <2>1
<1>11. CASE /\ HeadIn(t, {"on", "wait0", "wait1", "set_num", "ccq", "csq"})
            /\ Left(t)' = IF Before(t, n) >= 14 THEN 2 * n + 14 ELSE 1
  <2>1. PICK s \in {"on", "wait0", "wait1", "set_num", "ccq", "csq"} :
          Places(s, Left(t), Before(t, n), Final(t))
    BY <1>2, <1>11
  <2>2. Before(t, n) \in {3, 4, 5, 6, 15} \/ Before(t, n) <= 2
    BY <1>2, <2>1 DEF Places
  <2> QED
    BY <1>2, <1>3, <1>4, <1>5, <1>6, <1>11, <2>2
<1>12. CASE Left(t)' = 0
  BY <1>5, <1>12
<1> QED
  BY <1>3, <1>8, <1>9, <1>10, <1>11, <1>12 DEF DriverTo

\* Two drivers are active at once only after an overlap.
LEMMA AloneThread ==
  ASSUME Struct, Alone, NEW t \in Threads, ThreadStep(t)
  PROVE  Alone'
<1>1. /\ Typed /\ Waiting /\ Where /\ Struct' /\ \A u \in Threads \ {t} : path'[u] = path[u]
      /\ overlapped \in BOOLEAN
  BY StructThread DEF Struct, Typed
<1>2. Flags(t) /\ Stills(t)
  BY <1>1, ThreadFlags, ThreadStills
<1>3. ASSUME NEW u \in Drivers, u # t
      PROVE  /\ Active(u)' <=> Active(u)
             /\ path[u] = <<>> => ~Active(u)
             /\ u \in Threads
             /\ Active(u) => Driving(u)
  <2>1. path'[u] = path[u] /\ u \in Threads
    BY <1>1, <1>3, ThreadKinds
  <2>2. Active(u)' <=> Active(u)
    BY <2>1, FormFrame DEF Active
  <2>3. path[u] = <<>> => ~Active(u)
    BY DEF Active, Has
  <2>4. PICK n \in Nat : DriverForm(u, n)
    BY DEF Struct, Paths
  <2>5. Active(u) => Driving(u)
    BY <2>4, ActiveIs
  <2> QED
    BY <2>1, <2>2, <2>3, <2>5
<1>4. ASSUME t \in Drivers, NEW u \in Drivers, u # t, Active(t)', Active(u)'
      PROVE  overlapped'
  <2>1. Active(u) /\ Driving(u) /\ path[u] # <<>> /\ u \in Threads \ {t}
    BY <1>3, <1>4
  <2>2. CASE Active(t)
    BY <1>2, <1>4, <2>1, <2>2 DEF Alone, Flags
  <2>3. CASE At(t, "dead")
    BY <1>2, <2>1, <2>3 DEF Flags
  <2>4. CASE t = "pm" /\ At(t, "cancel")
    <3>1. path["work"] = <<>>
      BY <1>2, <2>4 DEF Stills
    <3>2. path["sysfs"] = <<>>
      BY <1>1, <2>4 DEF Where, At
    <3>3. u = "work" \/ u = "sysfs"
      BY <1>4, <2>4 DEF Drivers
    <3> QED
      BY <2>1, <3>1, <3>2, <3>3
  <2> QED
    BY <1>4, <2>2, <2>3, <2>4, BecomesActive
<1>5. ASSUME NEW u \in Drivers, NEW v \in Drivers, u # v, u # t, v # t, Active(u)', Active(v)'
      PROVE  overlapped'
  BY <1>2, <1>3, <1>5 DEF Alone, Flags
<1> QED
  BY <1>4, <1>5 DEF Alone

\* A driver that starts is not active.
LEMMA AloneRest ==
  ASSUME Struct, Alone, Rest, Struct',
         \A u \in Drivers : path'[u] = path[u] \/ (path[u] = <<>> /\ Begun(u)')
  PROVE  Alone'
<1>1. ASSUME NEW u \in Drivers, Active(u)'
      PROVE  Active(u)
  <2>1. CASE path'[u] = path[u]
    BY <1>1, <2>1, FormFrame DEF Active
  <2>2. CASE Begun(u)'
    <3>1. PICK n \in Nat : DriverForm(u, n)' /\ (path'[u] = <<>> \/ Before(u, n)' = First(u)')
      BY <2>2 DEF Begun
    <3>2. path'[u] # <<>>
      BY <1>1 DEF Active, Has
    <3>3. /\ Left(u)' >= 2 /\ Before(u, n)' < (IF u = "pm" THEN 19 ELSE 12)
          /\ Left(u)' \in Int /\ Before(u, n)' = Left(u)' - 2 * n
      BY <1>1, <3>1, ActiveNext
    <3>4. First(u)' = (IF u = "pm" THEN 21 ELSE 12)
      BY DEF First
    <3> QED
      BY <3>1, <3>2, <3>3, <3>4
  <2> QED
    BY <2>1, <2>2
<1> QED
  BY <1>1 DEF Alone, Rest

\* A step of another thread leaves the suspend in peace.
LEMMA SleepyOther ==
  ASSUME Struct, Alone, Sleepy, NEW t \in Threads \ {"pm"}, ThreadStep(t)
  PROVE  Sleepy'
<1>1. /\ Typed /\ Waiting /\ Where /\ "pm" \in Drivers /\ "pm" \in Threads /\ t \in Threads
      /\ path'["pm"] = path["pm"] /\ hw.en \in BOOLEAN
  <2>1. "pm" \in Threads \ {t} /\ "pm" \in Drivers
    BY DEF Threads, Drivers
  <2>2. path'["pm"] = path["pm"]
    BY <2>1, StructThread
  <2>3. hw.en \in BOOLEAN
    BY HwTypes DEF Struct, Typed
  <2> QED
    BY <2>1, <2>2, <2>3 DEF Struct
<1>2. Flags(t) /\ Stills(t) /\ Shape(t)
  BY <1>1, ThreadFlags, ThreadStills, ThreadShape
<1>3. PICK n \in Nat : Sleeping(n)
  BY DEF Sleepy
<1>4. /\ DriverForm("pm", n) /\ DriverForm("pm", n)' /\ Before("pm", n)' = Before("pm", n)
      /\ Left("pm") \in Int /\ Before("pm", n) = Left("pm") - 2 * n
      /\ path["pm"] # <<>> <=> Left("pm") + 1 >= 0
  <2>1. DriverForm("pm", n)
    BY <1>3 DEF Sleeping
  <2>2. After("pm") = 1
    BY DEF After
  <2> QED
    BY <1>1, <2>1, <2>2, FormFrame, DriverFacts
<1>5. /\ ~At(t, "unfreeze")
      /\ "pm" \in failed => "pm" \in failed'
  <2>1. "pm" \in failed => "pm" \in failed'
    BY <1>2 DEF Flags
  <2>2. ASSUME At(t, "unfreeze")
        PROVE  FALSE
    <3>1. HeadIn(t, {"unfreeze"})
      BY <2>2, HeadNames
    <3>2. {"unfreeze"} \cap {"abort", "stuck", "mask", "disable", "end_reset", "end_one"} = {}
      OBVIOUS
    <3>3. {"unfreeze"} \cap (PlainNames \cup {"register", "disable_dead"}) = {}
      BY DEF PlainNames
    <3>4. t \in Drivers
      BY <1>1, <3>1, <3>2, <3>3, HeadNames, ThreadKinds
    <3>5. PICK m \in Nat : DriverForm(t, m)
      BY <3>4 DEF Struct, Paths
    <3>6. Places("unfreeze", Left(t), Before(t, m), Final(t))
      BY <2>2, <3>4, <3>5, DriverFacts
    <3>7. Final(t) = "unfreeze" /\ Left(t) = -1
      BY <3>6 DEF Places
    <3>8. t = "sysfs"
      BY <3>4, <3>7 DEF Final, Drivers
    <3>9. path[t] # <<>> /\ Left(t) + After(t) >= 0 /\ After(t) = 0
      <4>1. path[t] # <<>>
        BY <2>2 DEF At
      <4> QED
        BY <3>4, <3>5, <3>8, <4>1, DriverFacts
    <3> QED
      BY <3>7, <3>9
  <2> QED
    BY <2>1, <2>2
<1>6. ASSUME Before("pm", n) \in 13 .. 15, "pm" \notin failed', ~overlapped', hw'.en
      PROVE  FALSE
  <2>1. ~overlapped /\ ~hw.en
    BY <1>2, <1>3, <1>5, <1>6 DEF Sleeping, Flags
  <2>2. At(t, "on")
    BY <1>2, <1>6, <2>1 DEF Stills
  <2>3. path["pm"] # <<>> /\ Active("pm")
    <3>1. Left("pm") >= 13
      BY <1>4, <1>6
    <3>2. Active("pm") <=> Left("pm") >= 2 /\ Before("pm", n) < 19
      BY <1>1, <1>4, ActiveIs
    <3> QED
      BY <1>4, <1>6, <3>1, <3>2
  <2>4. t \in {"work", "life"}
    <3>1. HeadIn(t, {"on"}) /\ path[t] # <<>>
      BY <2>2, HeadNames DEF At
    <3>2. {"on"} \cap {"abort", "stuck", "mask", "disable", "end_reset", "end_one"} = {}
      OBVIOUS
    <3>3. t \notin {"eh", "degrade"}
      BY <3>1, <3>2, HeadNames
    <3>4. t # "sysfs"
      BY <1>1, <2>3, <3>1 DEF Where
    <3> QED
      BY <3>3, <3>4, ThreadKinds DEF Drivers
  <2>5. t # "life"
    BY <1>1, <2>2, <2>3 DEF Where, At
  <2>6. t = "work" /\ t \in Drivers
    BY <2>4, <2>5 DEF Drivers
  <2>7. PICK m \in Nat : DriverForm(t, m)
    BY <2>6 DEF Struct, Paths
  <2>8. Places("on", Left(t), Before(t, m), Final(t)) /\ Left(t) \in Int /\ Before(t, m) = Left(t) - 2 * m
    BY <2>2, <2>6, <2>7, DriverFacts
  <2>9. Before(t, m) = 5
    BY <2>8 DEF Places
  <2>10. Active(t)
    <3>1. Active(t) <=> Left(t) >= 2 /\ Before(t, m) < 12
      BY <2>6, <2>7, ActiveIs
    <3> QED
      BY <2>7, <2>8, <2>9, <3>1
  <2> QED
    BY <1>1, <2>1, <2>3, <2>6, <2>10 DEF Alone
<1>7. NoReq => NoReq'
  BY <1>2 DEF Stills
<1>8. frozen => frozen'
  BY <1>2, <1>5 DEF Stills
<1>9. Sleeping(n)'
  BY <1>1, <1>3, <1>4, <1>6, <1>7, <1>8 DEF Sleeping
<1> QED
  BY <1>9 DEF Sleepy

\* So does whatever is not a step: a frozen queue lets no request in.
LEMMA SleepyRest ==
  ASSUME Struct, Sleepy, Rest,
         path'["pm"] = path["pm"] \/ (path["pm"] = <<>> /\ Begun("pm")')
  PROVE  Sleepy'
<1>1. CASE path'["pm"] = path["pm"]
  <2>1. PICK n \in Nat : Sleeping(n)
    BY DEF Sleepy
  <2>2. /\ DriverForm("pm", n) /\ DriverForm("pm", n)' /\ Before("pm", n)' = Before("pm", n)
        /\ Left("pm") \in Int /\ Before("pm", n) = Left("pm") - 2 * n
        /\ path["pm"] # <<>> <=> Left("pm") + 1 >= 0
        /\ "pm" \in Drivers
    <3>1. DriverForm("pm", n)
      BY <2>1 DEF Sleeping
    <3>2. After("pm") = 1 /\ "pm" \in Drivers
      BY DEF After, Drivers
    <3> QED
      BY <1>1, <3>1, <3>2, FormFrame, DriverFacts
  <2>3. ASSUME path["pm"] # <<>>, Before("pm", n) <= 19
        PROVE  NoReq'
    <3>1. frozen /\ NoReq
      BY <2>1, <2>2, <2>3 DEF Sleeping
    <3> QED
      BY <3>1 DEF Rest
  <2>4. ASSUME Before("pm", n) \in 13 .. 15, "pm" \notin failed', ~overlapped'
        PROVE  ~hw'.en
    <3>1. path["pm"] # <<>>
      BY <2>2, <2>4
    <3>2. "pm" \notin failed /\ ~overlapped
      BY <2>2, <2>4, <3>1 DEF Rest
    <3> QED
      BY <2>1, <2>4, <3>2 DEF Sleeping, Rest
  <2>5. Sleeping(n)'
    BY <1>1, <2>1, <2>2, <2>3, <2>4 DEF Sleeping, Rest
  <2> QED
    BY <2>5 DEF Sleepy
<1>2. CASE Begun("pm")'
  <2>1. PICK n \in Nat : DriverForm("pm", n)' /\ (path'["pm"] = <<>> \/ Before("pm", n)' = First("pm")')
    BY <1>2 DEF Begun
  <2>2. First("pm")' = 21
    BY DEF First
  <2>3. path'["pm"] = <<>> => Before("pm", n)' < 0
    <3>1. path'["pm"] = <<>> => Len(path'["pm"]) = 0
      OBVIOUS
    <3>2. Before("pm", n)' = Len(path'["pm"]) - 1 - 1 - 2 * n
      BY DEF Before, Left, After
    <3> QED
      BY <3>1, <3>2
  <2>4. Sleeping(n)'
    BY <2>1, <2>2, <2>3 DEF Sleeping
  <2> QED
    BY <2>4 DEF Sleepy
<1> QED
  BY <1>1, <1>2

\* The suspend's own steps.
LEMMA SleepySelf ==
  ASSUME Struct, Sleepy, ThreadStep("pm")
  PROVE  Sleepy'
<1>1. PICK n \in Nat : Sleeping(n)
  BY DEF Sleepy
<1> DEFINE b == Before("pm", n)
           l == Left("pm")
           bn == Before("pm", n)'
           ln == Left("pm")'
<1>2. /\ "pm" \in Drivers /\ DriverForm("pm", n)
  BY <1>1 DEF Sleeping, Drivers
<1>3. /\ l \in Int /\ b = l - 2 * n /\ b <= 21
      /\ path["pm"] # <<>> <=> l + 1 >= 0
      /\ \A s : At("pm", s) => Places(s, l, b, Final("pm"))
      /\ path["pm"] # <<>> => Places(Head(path["pm"])[1], l, b, Final("pm"))
      /\ \A S : HeadIn("pm", S) => \E s \in S : Places(s, l, b, Final("pm"))
  <2>1. First("pm") = 21 /\ After("pm") = 1
    BY DEF First, After
  <2> QED
    BY <1>2, <2>1, DriverFacts
<1>4. /\ DriverForm("pm", n)' /\ DriverTo("pm", n)
      /\ ln \in Int /\ bn = ln - 2 * n
      /\ path'["pm"] # <<>> <=> ln + 1 >= 0
      /\ Flags("pm") /\ Stills("pm")
  <2>1. After("pm") = 1
    BY DEF After
  <2> QED
    BY <1>2, <2>1, DriverSteps
<1>5. /\ path["pm"] # <<>> /\ b <= 20 => frozen
      /\ path["pm"] # <<>> /\ b <= 19 => NoReq
      /\ b \in 13 .. 15 /\ "pm" \notin failed /\ ~overlapped => ~hw.en
  BY <1>1 DEF Sleeping
<1>6. /\ At("pm", "unfreeze") => l = -1
      /\ At("pm", "dead") => b \in {12, 17}
      /\ At("pm", "latch") => l = -1
      /\ At("pm", "rejoin") => l = 0
      /\ At("pm", "mask") => b = 10
      /\ At("pm", "on") => b = 5
      /\ At("pm", "live") => l = 2
  BY <1>3, Zenon DEF Places
<1>7. /\ path["pm"] # <<>> /\ b = 21 => At("pm", "freeze")
      /\ path["pm"] # <<>> /\ b = 20 => At("pm", "freeze_wait")
      /\ path["pm"] # <<>> /\ b = 16 => At("pm", "off")
  <2>1. path["pm"] # <<>> =>
          /\ Head(path["pm"])[1] = "freeze" <=> b = 21
          /\ Head(path["pm"])[1] = "freeze_wait" <=> b = 20
          /\ Head(path["pm"])[1] = "off" <=> b = 16
    BY <1>3, Zenon DEF Places
  <2> QED
    BY <2>1 DEF At
<1>8. /\ frozen => frozen' \/ (At("pm", "unfreeze") /\ Go("pm"))
      /\ At("pm", "freeze") => frozen'
      /\ NoReq => NoReq'
      /\ At("pm", "freeze_wait") => NoReq
      /\ hw'.en => hw.en \/ At("pm", "on")
      /\ At("pm", "off") => ~hw'.en
      /\ overlapped => overlapped'
      /\ "pm" \in failed => \/ "pm" \in failed' \/ At("pm", "dead") \/ At("pm", "latch")
                            \/ At("pm", "rejoin")
  BY <1>4 DEF Flags, Stills
<1> HIDE DEF b, l, bn, ln
<1>9. ASSUME b \in 13 .. 15, "pm" \notin failed', ~overlapped'
      PROVE  ~hw'.en
  <2>1. l >= 13
    BY <1>3, <1>9
  <2>2. ~At("pm", "dead") /\ ~At("pm", "latch") /\ ~At("pm", "rejoin") /\ ~At("pm", "on")
    BY <1>6, <1>9, <2>1
  <2> QED
    BY <1>5, <1>8, <1>9, <2>2
<1>10. /\ path'["pm"] # <<>> /\ bn <= 20 => frozen'
       /\ path'["pm"] # <<>> /\ bn <= 19 => NoReq'
       /\ bn \in 13 .. 15 /\ "pm" \notin failed' /\ ~overlapped' => ~hw'.en
  <2>1. CASE path' = path
    <3>1. ln = l /\ bn = b
      BY <2>1, FormFrame DEF b, l, bn, ln
    <3>2. ~(At("pm", "unfreeze") /\ Go("pm"))
      <4>1. SUFFICES ASSUME At("pm", "unfreeze"), Go("pm")
                     PROVE  FALSE
        OBVIOUS
      <4>2. path["pm"] # <<>> /\ path \in [Threads -> Seq(Step)]
        BY <4>1 DEF At, Struct, Typed
      <4>3. ln = l - 1
        BY <1>2, <4>1, <4>2, DriverGo DEF l, ln
      <4> QED
        BY <1>3, <3>1, <4>3
    <3> QED
      BY <1>5, <1>8, <1>9, <2>1, <3>1, <3>2
  <2>2. CASE path["pm"] # <<>> /\ ln = l - 1
    <3>1. bn = b - 1
      BY <1>3, <1>4, <2>2
    <3>2. path'["pm"] # <<>> => ~At("pm", "unfreeze")
      BY <1>3, <1>4, <1>6, <2>2
    <3>4. path'["pm"] # <<>> => frozen'
      <4>1. b <= 20 \/ b = 21
        BY <1>3
      <4> QED
        BY <1>5, <1>7, <1>8, <2>2, <3>2, <4>1
    <3>5. bn <= 19 => NoReq'
      BY <1>3, <1>5, <1>7, <1>8, <2>2, <3>1
    <3>6. bn \in 13 .. 15 /\ "pm" \notin failed' /\ ~overlapped' => ~hw'.en
      <4>1. bn \in 13 .. 15 => b \in 13 .. 15 \/ b = 16
        BY <1>3, <3>1
      <4> QED
        BY <1>7, <1>8, <1>9, <2>2, <4>1
    <3> QED
      BY <3>4, <3>5, <3>6
  <2>3. CASE At("pm", "mask") /\ ln = l - 3
    <3>1. path["pm"] # <<>> /\ b = 10 /\ bn = 7 /\ ~At("pm", "unfreeze")
      BY <1>3, <1>4, <1>6, <2>3 DEF At
    <3> QED
      BY <1>5, <1>8, <3>1
  <2>4. CASE /\ HeadIn("pm", {"on", "wait0", "wait1", "set_num", "ccq", "csq"}) /\ "pm" \in failed'
             /\ ln = IF b >= 14 THEN 2 * n + 14 ELSE 1
    <3>1. PICK s \in {"on", "wait0", "wait1", "set_num", "ccq", "csq"} :
            Places(s, l, b, Final("pm"))
      BY <1>3, <2>4
    <3>2. b \in {3, 4, 5, 6, 15} \/ (3 <= l /\ b <= 2)
      BY <3>1 DEF Places
    <3>3. path["pm"] # <<>> /\ b <= 19 /\ ~At("pm", "unfreeze")
      <4>1. b <= 19 /\ l # -1
        BY <1>3, <3>2
      <4> QED
        BY <1>6, <2>4, <4>1 DEF HeadIn
    <3>4. frozen' /\ NoReq'
      BY <1>3, <1>5, <1>8, <3>3
    <3> QED
      BY <2>4, <3>4
  <2>5. CASE At("pm", "live") /\ ln = 0
    <3>1. path["pm"] # <<>> /\ l = 2 /\ b <= 19 /\ bn <= 0 /\ ~At("pm", "unfreeze")
      BY <1>3, <1>4, <1>6, <2>5 DEF At
    <3> QED
      BY <1>3, <1>5, <1>8, <3>1
  <2> QED
    BY <1>4, <2>1, <2>2, <2>3, <2>4, <2>5 DEF DriverTo, b, l, ln
<1>11. Sleeping(n)'
  BY <1>4, <1>10 DEF Sleeping, bn
<1> QED
  BY <1>11 DEF Sleepy

-----------------------------------------------------------------------------
(* The theorems.                                                            *)

\* All of it holds in the first state and stays.
LEMMA ResetInvInit == Init => ResetInv
<1> SUFFICES ASSUME Init
             PROVE  ResetInv
  OBVIOUS
<1>1. Struct
  BY StructInit
<1>2. \A t \in Drivers : path[t] = <<>>
  BY ThreadKinds DEF Init
<1>3. Thrash
  BY DEF Init, Thrash
<1>4. Alone
  BY <1>2 DEF Alone, Active, Has
<1>5. Sleeping(0)
  <2>1. path["pm"] = <<>> /\ DriverForm("pm", 0) /\ Left("pm") < 0 /\ Left("pm") \in Int
    <3>1. path["pm"] = <<>>
      BY <1>2 DEF Drivers
    <3>2. Left("pm") = 0 - 1 - 1
      BY <3>1 DEF Left, After
    <3> QED
      BY <3>1, <3>2, Idle
  <2>2. ~(Before("pm", 0) \in 13 .. 15)
    BY <2>1 DEF Before
  <2> QED
    BY <2>1, <2>2 DEF Sleeping
<1> QED
  BY <1>1, <1>3, <1>4, <1>5 DEF ResetInv, Sleepy

\* Every step keeps it: a step of a thread, the controller, a request, or a start.
LEMMA ResetInvNext == ResetInv /\ [Next]_vars => ResetInv'
<1> SUFFICES ASSUME ResetInv, [Next]_vars
             PROVE  ResetInv'
  OBVIOUS
<1>1. Struct /\ Thrash /\ Alone /\ Sleepy /\ Typed /\ Typed0
  BY DEF ResetInv, Struct, Typed, Typed0
<1>2. ASSUME NEW t \in Threads, ThreadStep(t)
      PROVE  ResetInv'
  <2>1. Struct' /\ Thrash' /\ Alone'
    BY <1>1, <1>2, StructThread, ThrashThread, AloneThread
  <2>2. Sleepy'
    BY <1>1, <1>2, SleepyOther, SleepySelf
  <2> QED
    BY <2>1, <2>2 DEF ResetInv
<1>3. ASSUME Rest, Struct',
             \A u \in Drivers : path'[u] = path[u] \/ (path[u] = <<>> /\ Begun(u)')
      PROVE  ResetInv'
  <2>1. "work" \in Drivers /\ "pm" \in Drivers
    BY DEF Drivers
  <2> QED
    BY <1>1, <1>3, <2>1, ThrashRest, AloneRest, SleepyRest DEF ResetInv
<1>4. ASSUME Rest, Typed0', UNCHANGED <<path, io, stage, cmd>>
      PROVE  ResetInv'
  BY <1>1, <1>3, <1>4, StructStill
<1>5. CASE Hardware \/ HwFail \/ IsrSeesDeath
  BY <1>1, <1>4, <1>5, HardwareTyped, HardwareRest DEF Hardware
<1>6. ASSUME NEW r \in Reqs, Enter(r) \/ Dispatch(r) \/ HwDone(r)
      PROVE  ResetInv'
  BY <1>1, <1>4, <1>6, RequestsTyped, RequestsRest
<1>7. CASE Starts \/ \E r \in Reqs : TimeOut(r)
  BY <1>1, <1>3, <1>7, StructStarts, StartsRest
<1>8. CASE UNCHANGED vars
  <2>1. UNCHANGED <<path, io, stage, cmd>> /\ Typed0'
    BY <1>1, <1>8 DEF vars, admVars, flagVars, memVars, blkVars, histVars, Typed0
  <2>2. Rest
    BY <1>8 DEF vars, admVars, flagVars, memVars, blkVars, histVars, Rest, NoReq
  <2> QED
    BY <1>4, <2>1, <2>2
<1> QED
  BY <1>2, <1>5, <1>6, <1>7, <1>8 DEF Next, Starts

\* It holds in every reachable state.
LEMMA ResetInvAlways == Spec => []ResetInv
BY ResetInvInit, ResetInvNext, PTL DEF Spec

\* Whatever breaks and however often, at most two automatic resets in a row come
\* to nothing: the one under way when auto-reset is switched off, and one that was
\* queued before.
THEOREM AlwaysNotThrashed == Spec => []NotThrashed
<1>1. ResetInv => NotThrashed
  BY DEF ResetInv, Thrash, NotThrashed
<1> QED
  BY <1>1, ResetInvAlways, PTL

\* While the machine sleeps no request is in flight, and unless another path has
\* driven the controller during the suspend it is disabled.
THEOREM AlwaysAsleepQuiet == Spec => []AsleepQuiet
<1>1. ResetInv => AsleepQuiet
  <2> SUFFICES ASSUME ResetInv, At("pm", "sleep"), "pm" \notin failed
               PROVE  NoReq /\ (~overlapped => ~hw.en)
    BY DEF AsleepQuiet, NoReq
  <2>1. PICK n \in Nat : Sleeping(n)
    BY DEF ResetInv, Sleepy
  <2>2. "pm" \in Drivers /\ DriverForm("pm", n) /\ Struct
    BY <2>1 DEF ResetInv, Sleeping, Drivers
  <2>3. Places("sleep", Left("pm"), Before("pm", n), Final("pm"))
    BY <2>2, DriverFacts
  <2>4. Before("pm", n) = 13 /\ path["pm"] # <<>>
    BY <2>3 DEF Places, At
  <2> QED
    BY <2>1, <2>4 DEF Sleeping
<1> QED
  BY <1>1, ResetInvAlways, PTL
=============================================================================
