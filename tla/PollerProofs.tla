---------------------------- MODULE PollerProofs ----------------------------
(* Theorems about the whole poller, for every set of devices, any number   *)
(* of crashes and of failed calls of librrd, and any number of workers     *)
(* where not said otherwise.                                               *)
EXTENDS Poller, MEPRRD_DispatcherProofs, FoldLemmas

(* A worker that starts a task takes it; what else it does the dispatcher  *)
(* does not see.                                                           *)
LEMMA WorkIsUnseen ==
  ASSUME NEW w \in Workers, Writing(w)
  PROVE  TakeTask \/ UNCHANGED vars
<1>1. UNCHANGED <<threadVars, mapVars, clockVars, restarts, count, posted, watermark>>
  BY DEF Writing
<1>2. CASE W!Start(w)
  BY <1>1, <1>2 DEF W!Start, TakeTask, threadVars, mapVars, clockVars
<1>3. CASE \/ W!UpdateAggregateRRD(w)
           \/ W!CheckFile(w)
           \/ W!CreateRRD(w)
           \/ W!UpdateRRD(w)
  BY <1>1, <1>3
  DEF W!UpdateAggregateRRD, W!CheckFile, W!CreateRRD, W!UpdateRRD, vars,
      threadVars, mapVars, clockVars
<1>. QED  BY <1>2, <1>3 DEF Writing, W!Work

LEMMA PollerStep == [PollerNext]_pollerVars => [Next]_vars
<1>. SUFFICES ASSUME [PollerNext]_pollerVars PROVE [Next]_vars
  OBVIOUS
<1>1. CASE Posting
  BY <1>1 DEF Posting, Next, CaptureThread
<1>2. CASE Capturing
  BY <1>2 DEF Capturing, Next, CaptureThread
<1>3. ASSUME NEW w \in Workers, Writing(w) PROVE [Next]_vars
  BY <1>3, WorkIsUnseen DEF Next
<1>4. CASE CrashAndRestart
  BY <1>4 DEF CrashAndRestart, Next
<1>5. CASE UNCHANGED pollerVars
  BY <1>5 DEF pollerVars
<1>. QED  BY <1>1, <1>2, <1>3, <1>4, <1>5 DEF PollerNext

(* The workers do not disturb the capture thread: to the dispatcher they   *)
(* are what takes its tasks, so every theorem about it holds in the poller.*)
THEOREM PollerImplementsDispatcher == PollerSpec => Spec
<1>1. PollerInit => Init
  BY DEF PollerInit
<1>. QED  BY <1>1, PollerStep, PTL DEF PollerSpec, Spec

(* In the whole poller too, every packet is counted and posted once, and   *)
(* a minute is posted with its final count.                                *)
THEOREM PollerCountsOnce ==
  ASSUME ClockStepsBounded
  PROVE  PollerSpec => []CountedOnce /\ ImplementsLedger
BY PollerImplementsDispatcher, PacketsCountedOnce, DispatcherImplementsLedger, PTL
-----------------------------------------------------------------------------
(* The recursive function behind IpsOf.                                    *)
IpsFold(it, b) ==
  it = [s \in SUBSET (DOMAIN IpOrder) |->
          IF s = {} THEN << >>
          ELSE IF DOMAIN b.received[IpOrder[W!Max(s)]] = {} THEN it[s \ {W!Max(s)}]
               ELSE Append(it[s \ {W!Max(s)}], IpOrder[W!Max(s)])]

LEMMA MaxOfIndices ==
  ASSUME NEW n \in Nat
  PROVE  \A s \in SUBSET (1 .. n) : s # {} => W!Max(s) \in s /\ \A i \in s : i <= W!Max(s)
<1>. SUFFICES ASSUME NEW s \in SUBSET (1 .. n), s # {}
              PROVE  W!Max(s) \in s /\ \A i \in s : i <= W!Max(s)
  OBVIOUS
<1>1. s \subseteq 0 .. n
  OBVIOUS
<1>2. \E x \in s : \A y \in s : x >= y
  BY <1>1, HasMax
<1>3. W!Max(s) \in s /\ \A y \in s : W!Max(s) >= y
  BY <1>2 DEF W!Max
<1>4. s \subseteq Int
  OBVIOUS
<1>. QED  BY <1>3, <1>4

LEMMA IpsFolded ==
  ASSUME NEW b
  PROVE  \E it \in [SUBSET (DOMAIN IpOrder) -> Seq(Ip)] :
           IpsFold(it, b) /\ W!IpsOf(b) = it[DOMAIN IpOrder]
<1>. DEFINE D == DOMAIN IpOrder
            V == Seq(Ip)
            Keep(i, v) == IF DOMAIN b.received[IpOrder[i]] = {} THEN v
                          ELSE Append(v, IpOrder[i])
            c == [s \in SUBSET D |-> W!Max(s)]
            g == [i \in D |-> [v \in V |-> Keep(i, v)]]
            it == CHOOSE jt : IpsFold(jt, b)
<1>1. IsFiniteSet(D) /\ \A s \in SUBSET D : s # {} => W!Max(s) \in s
  <2>1. D = 1 .. Len(IpOrder) /\ Len(IpOrder) \in Nat
    BY PollerAssumption
  <2>. HIDE DEF D
  <2>2. IsFiniteSet(1 .. Len(IpOrder))
    BY <2>1, FS_Interval
  <2>3. \A s \in SUBSET (1 .. Len(IpOrder)) : s # {} => W!Max(s) \in s
    BY <2>1, MaxOfIndices
  <2>. QED  BY <2>1, <2>2, <2>3
<1>2. /\ << >> \in V
      /\ \A i \in D, v \in V : Keep(i, v) \in V
  BY PollerAssumption
<1>. HIDE DEF V, Keep
<1>3. /\ \A s \in SUBSET D : s # {} => c[s] \in s /\ c[s] = W!Max(s)
      /\ \A i \in D, v \in V : g[i][v] = Keep(i, v) /\ g[i][v] \in V
  BY <1>1, <1>2
<1>. HIDE DEF D, c, g
<1>4. \E jt : IpsFold(jt, b)
  <2>1. PICK jt \in [SUBSET D -> V] : IsFold(jt, D, << >>, c, g)
    <3>1. \A s \in SUBSET D : s # {} => c[s] \in s
      BY <1>3
    <3>2. \A i \in D, v \in V : g[i][v] \in V
      BY <1>3
    <3>. QED  BY <1>1, <1>2, <3>1, <3>2, FoldExists
  <2>2. \A s \in SUBSET D : s # {} => s \ {c[s]} \in SUBSET D /\ c[s] \in D
    BY <1>3
  <2>3. \A s \in SUBSET D :
          jt[s] = IF s = {} THEN << >> ELSE Keep(W!Max(s), jt[s \ {W!Max(s)}])
    <3>1. ASSUME NEW s \in SUBSET D, s # {}
          PROVE  jt[s] = Keep(W!Max(s), jt[s \ {W!Max(s)}])
      <4>1. jt[s] = g[c[s]][jt[s \ {c[s]}]]
        BY <2>1, <3>1, Zenon DEF IsFold
      <4>2. c[s] \in D /\ jt[s \ {c[s]}] \in V /\ c[s] = W!Max(s)
        BY <1>3, <2>1, <2>2, <3>1
      <4>. QED  BY <1>3, <4>1, <4>2
    <3>2. jt[{}] = << >>
      BY <2>1 DEF IsFold
    <3>. QED  BY <3>1, <3>2
  <2>4. jt = [s \in SUBSET D |->
                IF s = {} THEN << >> ELSE Keep(W!Max(s), jt[s \ {W!Max(s)}])]
    BY <2>1, <2>3
  <2>5. IpsFold(jt, b)
    BY <2>4, Zenon DEF IpsFold, Keep, D
  <2>. QED  BY <2>5
<1>5. IpsFold(it, b)
  BY <1>4
<1>6. W!IpsOf(b) = it[D]
  BY Zenon DEF W!IpsOf, W!FoldLeft, W!MapThenFoldSet, IpsFold, D
<1>. HIDE DEF it
<1>7. it = [s \in SUBSET D |->
              IF s = {} THEN << >> ELSE Keep(W!Max(s), it[s \ {W!Max(s)}])]
  BY <1>5, Zenon DEF IpsFold, Keep, D
<1>8. it \in [SUBSET D -> V]
  <2>1. \A s \in SUBSET D :
          it[s] = IF s = {} THEN << >> ELSE Keep(W!Max(s), it[s \ {W!Max(s)}])
    BY <1>7
  <2>2. it[{}] \in V
    BY <1>2, <2>1
  <2>3. \A s \in SUBSET D : s # {} /\ it[s \ {c[s]}] \in V => it[s] \in V
    BY <1>2, <1>3, <2>1
  <2>4. it = [s \in SUBSET D |-> it[s]]
    BY <1>7
  <2>5. \A s \in SUBSET D : s # {} => c[s] \in s
    BY <1>3
  <2>. QED  BY <1>1, <2>2, <2>3, <2>4, <2>5, FoldTyped
<1>. QED  BY <1>5, <1>6, <1>8 DEF D, V

(* A task writes each device of its batch once, and no other.              *)
LEMMA IpsOfBatch ==
  ASSUME NEW b
  PROVE  /\ W!IpsOf(b) \in Seq(Ip)
         /\ \A i \in DOMAIN W!IpsOf(b) : DOMAIN b.received[W!IpsOf(b)[i]] # {}
         /\ \A ip \in Ip : DOMAIN b.received[ip] # {} =>
              \E i \in DOMAIN W!IpsOf(b) : W!IpsOf(b)[i] = ip
         /\ \A i, j \in DOMAIN W!IpsOf(b) : W!IpsOf(b)[i] = W!IpsOf(b)[j] => i = j
<1>. DEFINE n == Len(IpOrder)
            Has(j) == DOMAIN b.received[IpOrder[j]] # {}
            Partial(v, k) ==
              /\ v \in Seq(Ip)
              /\ \A i \in DOMAIN v : \E j \in 1 .. k : v[i] = IpOrder[j] /\ Has(j)
              /\ \A j \in 1 .. k : Has(j) => \E i \in DOMAIN v : v[i] = IpOrder[j]
              /\ \A i, j \in DOMAIN v : v[i] = v[j] => i = j
<1>1. PICK it \in [SUBSET (DOMAIN IpOrder) -> Seq(Ip)] :
        IpsFold(it, b) /\ W!IpsOf(b) = it[DOMAIN IpOrder]
  BY IpsFolded
<1>2. n \in Nat /\ DOMAIN IpOrder = 1 .. n /\ \A j \in 1 .. n : IpOrder[j] \in Ip
  BY PollerAssumption
<1>. DEFINE T == {k \in Nat : k <= n => Partial(it[1 .. k], k)}
<1>3. 0 \in T
  <2>1. it[1 .. 0] = << >>
    BY <1>1 DEF IpsFold
  <2>. QED  BY <2>1
<1>4. ASSUME NEW k \in Nat, k \in T, k + 1 <= n
      PROVE  Partial(it[1 .. (k + 1)], k + 1)
  <2>. DEFINE s == 1 .. (k + 1)
              v == it[1 .. k]
  <2>1. s \in SUBSET (1 .. n) /\ s # {} /\ s \ {k + 1} = 1 .. k /\ k + 1 \in 1 .. n
    BY <1>2, <1>4
  <2>2. W!Max(s) = k + 1
    <3>1. W!Max(s) \in s /\ \A i \in s : i <= W!Max(s)
      <4>. HIDE DEF s, n
      <4>. QED  BY <1>2, <2>1, MaxOfIndices
    <3>2. k + 1 \in s /\ \A i \in s : i \in Nat /\ i <= k + 1
      OBVIOUS
    <3>. HIDE DEF s
    <3>. QED  BY <3>1, <3>2
  <2>3. it[s] = IF Has(k + 1) THEN Append(v, IpOrder[k + 1]) ELSE v
    <3>1. it[s] = IF DOMAIN b.received[IpOrder[W!Max(s)]] = {} THEN it[s \ {W!Max(s)}]
                  ELSE Append(it[s \ {W!Max(s)}], IpOrder[W!Max(s)])
      <4>1. s \in SUBSET (DOMAIN IpOrder)
        BY <1>2, <2>1, Zenon
      <4>. HIDE DEF s
      <4>. QED  BY <1>1, <2>1, <4>1, Zenon DEF IpsFold
    <3>2. W!Max(s) = k + 1 /\ s \ {k + 1} = 1 .. k
      BY <2>1, <2>2
    <3>. HIDE DEF s, n
    <3>3. it[s] = IF DOMAIN b.received[IpOrder[k + 1]] = {} THEN it[1 .. k]
                  ELSE Append(it[1 .. k], IpOrder[k + 1])
      <4>. DEFINE x == W!Max(s)
                  y == k + 1
      <4>1. x = y /\ s \ {x} = 1 .. k
        BY <3>2
      <4>. HIDE DEF x, y
      <4>. QED  BY <3>1, <4>1, Zenon DEF x, y
    <3>4. CASE DOMAIN b.received[IpOrder[k + 1]] = {}
      BY <3>3, <3>4
    <3>5. CASE DOMAIN b.received[IpOrder[k + 1]] # {}
      BY <3>3, <3>5
    <3>. QED  BY <3>4, <3>5
  <2>4. Partial(v, k)
    <3>1. k <= n
      <4>. HIDE DEF n
      <4>. QED  BY <1>2, <1>4
    <3>. HIDE DEF Partial
    <3>. QED  BY <1>4, <3>1
  <2>. HIDE DEF v, s
  <2>5. IpOrder[k + 1] \in Ip /\ \A j \in 1 .. k : IpOrder[j] # IpOrder[k + 1]
    BY <1>2, <2>1, PollerAssumption
  <2>6. CASE Has(k + 1)
    <3>1. it[s] = Append(v, IpOrder[k + 1])
      BY <2>3, <2>6
    <3>. HIDE DEF Has
    <3>2. \A i \in DOMAIN v : v[i] # IpOrder[k + 1]
      <4>1. \A i \in DOMAIN v : \E j \in 1 .. k : v[i] = IpOrder[j]
        BY <2>4
      <4>. HIDE DEF Partial
      <4>. QED  BY <2>5, <4>1, Zenon
    <3>3. /\ it[s] \in Seq(Ip)
          /\ DOMAIN it[s] = DOMAIN v \cup {Len(v) + 1} /\ Len(v) \in Nat
          /\ Len(v) + 1 \notin DOMAIN v
          /\ it[s][Len(v) + 1] = IpOrder[k + 1]
          /\ \A i \in DOMAIN v : it[s][i] = v[i]
      BY <2>4, <2>5, <3>1
    <3>. DEFINE K == 1 .. (k + 1)
                L == Len(v) + 1
    <3>4. /\ \A j \in K : j = k + 1 \/ j \in 1 .. k
          /\ 1 .. k \subseteq K /\ k + 1 \in K
      OBVIOUS
    <3>. HIDE DEF K, L
    <3>5. /\ DOMAIN it[s] = DOMAIN v \cup {L} /\ L \notin DOMAIN v
          /\ it[s][L] = IpOrder[k + 1]
          /\ \A i \in DOMAIN v : it[s][i] = v[i]
      BY <3>3 DEF L
    <3>6. \A i \in DOMAIN it[s] : \E j \in K : it[s][i] = IpOrder[j] /\ Has(j)
      <4>1. \A i \in DOMAIN v : \E j \in 1 .. k : v[i] = IpOrder[j] /\ Has(j)
        BY <2>4
      <4>. HIDE DEF Partial
      <4>. QED  BY <2>6, <3>4, <3>5, <4>1
    <3>7. \A j \in K : Has(j) => \E i \in DOMAIN it[s] : it[s][i] = IpOrder[j]
      <4>1. \A j \in 1 .. k : Has(j) => \E i \in DOMAIN v : v[i] = IpOrder[j]
        BY <2>4
      <4>. HIDE DEF Partial
      <4>. QED  BY <3>4, <3>5, <4>1
    <3>8. \A i, j \in DOMAIN it[s] : it[s][i] = it[s][j] => i = j
      BY <2>4, <3>2, <3>5
    <3>. QED  BY <3>3, <3>6, <3>7, <3>8 DEF s, K
  <2>7. CASE ~ Has(k + 1)
    <3>1. it[s] = v
      BY <2>3, <2>7
    <3>. HIDE DEF Has
    <3>2. \A j \in 1 .. (k + 1) : j = k + 1 \/ j \in 1 .. k
      OBVIOUS
    <3>3. Partial(it[s], k + 1)
      BY <2>4, <2>7, <3>1, <3>2
    <3>. QED  BY <3>3 DEF s
  <2>. QED  BY <2>6, <2>7
<1>5. Nat \subseteq T
  <2>1. ASSUME NEW k \in Nat, k \in T PROVE k + 1 \in T
    <3>1. k + 1 \in Nat
      OBVIOUS
    <3>. HIDE DEF Partial
    <3>. QED  BY <1>4, <2>1, <3>1
  <2>. HIDE DEF T
  <2>. QED  BY <1>3, <2>1, SetInduction
<1>6. Partial(it[1 .. n], n)
  <2>. HIDE DEF Partial
  <2>1. n \in T
    BY <1>2, <1>5
  <2>2. n <= n
    BY <1>2
  <2>. HIDE DEF n
  <2>. QED  BY <2>1, <2>2
<1>. DEFINE ips == W!IpsOf(b)
<1>7. Partial(ips, n)
  <2>. HIDE DEF Partial, n
  <2>. QED  BY <1>1, <1>2, <1>6
<1>. HIDE DEF ips, n
<1>8. \A ip \in Ip : \E j \in 1 .. n : IpOrder[j] = ip
  BY <1>2, PollerAssumption
<1>9. /\ ips \in Seq(Ip)
      /\ \A i \in DOMAIN ips : DOMAIN b.received[ips[i]] # {}
      /\ \A ip \in Ip : DOMAIN b.received[ip] # {} => \E i \in DOMAIN ips : ips[i] = ip
      /\ \A i, j \in DOMAIN ips : ips[i] = ips[j] => i = j
  <2>1. /\ ips \in Seq(Ip)
        /\ \A i \in DOMAIN ips : \E j \in 1 .. n : ips[i] = IpOrder[j] /\ Has(j)
        /\ \A j \in 1 .. n : Has(j) => \E i \in DOMAIN ips : ips[i] = IpOrder[j]
        /\ \A i, j \in DOMAIN ips : ips[i] = ips[j] => i = j
    BY <1>7, Zenon
  <2>2. \A i \in DOMAIN ips : DOMAIN b.received[ips[i]] # {}
    BY <2>1, Zenon
  <2>3. ASSUME NEW ip \in Ip, DOMAIN b.received[ip] # {}
        PROVE  \E i \in DOMAIN ips : ips[i] = ip
    <3>1. PICK j \in 1 .. n : IpOrder[j] = ip
      BY <1>8
    <3>2. Has(j)
      BY <2>3, <3>1
    <3>. QED  BY <2>1, <3>1, <3>2
  <2>. QED  BY <2>1, <2>2, <2>3
<1>. QED  BY <1>9 DEF ips
-----------------------------------------------------------------------------
(* The devices a task has left to write are of its batch, each is there    *)
(* once, and there is one while it is at a device's file; an idle worker   *)
(* has none.                                                               *)
TaskOK(t) ==
  /\ DOMAIN t = {"step", "batch", "ips"}
  /\ t.step \in {"idle", "aggregate", "check", "create", "update"}
  /\ t.step # "idle" => IsBatch(t.batch)
  /\ t.ips \in Seq(Ip)
  /\ t.step \in {"check", "create", "update"} => t.ips # << >>
  /\ t.step = "idle" => t.ips = << >>
  /\ \A i \in DOMAIN t.ips : DOMAIN t.batch.received[t.ips[i]] # {}
  /\ \A i, j \in DOMAIN t.ips : t.ips[i] = t.ips[j] => i = j

Files == Ip \cup {Aggregation}

(* What the files and the tasks are, with any number of workers.           *)
ShapeInv ==
  /\ files = [f \in Files |-> files[f]]
  /\ task = [w \in Workers |-> task[w]]
  /\ failures \in Nat
  /\ \A f \in Files : DOMAIN files[f] = {"exists", "last_up", "data"}
  /\ \A w \in Workers : TaskOK(task[w])

LEMMA IdleIsOK == TaskOK(W!Idle) /\ W!Idle.step = "idle" /\ W!Idle.ips = << >>
BY DEF TaskOK, W!Idle

LEMMA ShapeInit == PollerInit => ShapeInv
<1>. SUFFICES ASSUME PollerInit PROVE ShapeInv
  OBVIOUS
<1>1. /\ files = [f \in Files |-> W!Absent]
      /\ task = [w \in Workers |-> W!Idle] /\ failures = 0
  BY DEF PollerInit, W!Init, Files
<1>2. DOMAIN W!Absent = {"exists", "last_up", "data"}
  BY DEF W!Absent
<1>. QED  BY <1>1, <1>2, IdleIsOK DEF ShapeInv

(* The first device of a task that is at a device's file, and the others.  *)
LEMMA HeadOfIps ==
  ASSUME NEW t, TaskOK(t), t.ips # << >>
  PROVE  /\ Head(t.ips) \in Ip /\ Head(t.ips) \in Files
         /\ Head(t.ips) = t.ips[1] /\ 1 \in DOMAIN t.ips
         /\ DOMAIN t.batch.received[Head(t.ips)] # {}
         /\ Tail(t.ips) \in Seq(Ip)
         /\ \A i \in DOMAIN Tail(t.ips) :
              /\ i + 1 \in DOMAIN t.ips /\ Tail(t.ips)[i] = t.ips[i + 1]
              /\ Tail(t.ips)[i] # Head(t.ips)
         /\ \A i \in DOMAIN t.ips :
              i = 1 \/ (i - 1 \in DOMAIN Tail(t.ips) /\ Tail(t.ips)[i - 1] = t.ips[i])
<1>. DEFINE s == t.ips
<1>1. s \in Seq(Ip) /\ s # << >>
  BY DEF TaskOK
<1>2. /\ \A i \in DOMAIN s : DOMAIN t.batch.received[s[i]] # {}
      /\ \A i, j \in DOMAIN s : s[i] = s[j] => i = j
  BY DEF TaskOK
<1>. HIDE DEF s
<1>3. /\ Head(s) \in Ip /\ Head(s) = s[1] /\ 1 \in DOMAIN s
      /\ Tail(s) \in Seq(Ip)
      /\ \A i \in DOMAIN Tail(s) :
           i + 1 \in DOMAIN s /\ Tail(s)[i] = s[i + 1] /\ i + 1 # 1
      /\ \A i \in DOMAIN s :
           i = 1 \/ (i - 1 \in DOMAIN Tail(s) /\ Tail(s)[i - 1] = s[i])
  <2>1. /\ Head(s) \in Ip /\ Head(s) = s[1] /\ 1 \in DOMAIN s
        /\ Tail(s) \in Seq(Ip)
        /\ DOMAIN s = 1 .. Len(s) /\ DOMAIN Tail(s) = 1 .. (Len(s) - 1)
        /\ Len(s) \in Nat /\ Len(s) >= 1
    BY <1>1
  <2>2. \A i \in 1 .. (Len(s) - 1) : Tail(s)[i] = s[i + 1]
    BY <1>1
  <2>3. \A i \in DOMAIN Tail(s) :
          i + 1 \in DOMAIN s /\ Tail(s)[i] = s[i + 1] /\ i + 1 # 1
    BY <2>1, <2>2
  <2>4. ASSUME NEW i \in DOMAIN s
        PROVE  i = 1 \/ (i - 1 \in DOMAIN Tail(s) /\ Tail(s)[i - 1] = s[i])
    <3>. SUFFICES ASSUME i # 1
                  PROVE  i - 1 \in DOMAIN Tail(s) /\ Tail(s)[i - 1] = s[i]
      OBVIOUS
    <3>1. i - 1 \in 1 .. (Len(s) - 1) /\ (i - 1) + 1 = i
      BY <2>1
    <3>2. Tail(s)[i - 1] = s[(i - 1) + 1]
      BY <2>2, <3>1
    <3>. QED  BY <2>1, <3>1, <3>2
  <2>. QED  BY <2>1, <2>3, <2>4, Zenon
<1>4. \A i \in DOMAIN Tail(s) : Tail(s)[i] # Head(s)
  BY <1>2, <1>3
<1>5. DOMAIN t.batch.received[Head(s)] # {}
  BY <1>2, <1>3
<1>. QED  BY <1>3, <1>4, <1>5 DEF s, Files

(* A task goes on with the devices it had, or with all but the first.      *)
LEMMA ContinuedIsOK ==
  ASSUME NEW t, TaskOK(t), t.step # "idle", NEW ips,
         ips = t.ips \/ (t.ips # << >> /\ ips = Tail(t.ips))
  PROVE  TaskOK(IF ips = << >> THEN W!Idle
                ELSE [t EXCEPT !.step = "check", !.ips = ips])
<1>1. CASE ips = << >>
  BY <1>1, IdleIsOK
<1>2. CASE ips # << >>
  <2>. DEFINE u == [t EXCEPT !.step = "check", !.ips = ips]
  <2>1. /\ DOMAIN u = {"step", "batch", "ips"}
        /\ u.step = "check" /\ u.batch = t.batch /\ u.ips = ips
    BY DEF TaskOK
  <2>. HIDE DEF u
  <2>2. /\ ips \in Seq(Ip)
        /\ \A i \in DOMAIN ips : DOMAIN t.batch.received[ips[i]] # {}
        /\ \A i, j \in DOMAIN ips : ips[i] = ips[j] => i = j
    <3>1. CASE ips = t.ips
      BY <3>1 DEF TaskOK
    <3>2. CASE t.ips # << >> /\ ips = Tail(t.ips)
      <4>1. /\ ips \in Seq(Ip)
            /\ \A i \in DOMAIN ips : i + 1 \in DOMAIN t.ips /\ ips[i] = t.ips[i + 1]
        BY <3>2, HeadOfIps
      <4>2. \A i, j \in DOMAIN ips : i + 1 = j + 1 => i = j
        BY <4>1
      <4>. QED  BY <4>1, <4>2 DEF TaskOK
    <3>. QED  BY <3>1, <3>2
  <2>3. IsBatch(t.batch)
    BY DEF TaskOK
  <2>4. TaskOK(u)
    BY <1>2, <2>1, <2>2, <2>3 DEF TaskOK
  <2>. QED  BY <1>2, <2>4 DEF u
<1>. QED  BY <1>1, <1>2

(* An update leaves a file as it is or merges its values into it.          *)
LEMMA UpdatedFile ==
  ASSUME NEW file, DOMAIN file = {"exists", "last_up", "data"}, NEW values
  PROVE  /\ DOMAIN W!Updated(file, values) = {"exists", "last_up", "data"}
         /\ W!Updated(file, values).exists = file.exists
         /\ \/ /\ ~ W!Accepts(file, values)
               /\ W!Updated(file, values) = file
            \/ /\ W!Accepts(file, values)
               /\ W!Updated(file, values).data = W!Merge(file.data, values)
               /\ W!Updated(file, values).last_up = W!Max(DOMAIN values)
<1>1. CASE ~ W!Accepts(file, values)
  BY <1>1 DEF W!Updated
<1>2. CASE W!Accepts(file, values)
  <2>. DEFINE d == W!Merge(file.data, values)
              u == W!Max(DOMAIN values)
  <2>1. W!Updated(file, values) = [file EXCEPT !.last_up = u, !.data = d]
    BY <1>2 DEF W!Updated
  <2>. HIDE DEF d, u
  <2>2. /\ DOMAIN [file EXCEPT !.last_up = u, !.data = d] = DOMAIN file
        /\ [file EXCEPT !.last_up = u, !.data = d].exists = file.exists
        /\ [file EXCEPT !.last_up = u, !.data = d].data = d
        /\ [file EXCEPT !.last_up = u, !.data = d].last_up = u
    BY Zenon
  <2>. QED  BY <1>2, <2>1, <2>2 DEF d, u
<1>. QED  BY <1>1, <1>2

LEMMA CreatedFile ==
  /\ DOMAIN W!Created = {"exists", "last_up", "data"}
  /\ W!Created.exists /\ W!Created.last_up = 0
  /\ W!Created.data = << >> /\ DOMAIN W!Created.data = {}
BY DEF W!Created

(* A call of librrd changes the one file it is made for, or nothing.       *)
LEMMA OneFileWritten ==
  ASSUME ShapeInv, NEW f \in Files, NEW result, W!Write(f, result),
         DOMAIN result = {"exists", "last_up", "data"}
  PROVE  /\ files' = [g \in Files |-> files'[g]]
         /\ failures' \in Nat /\ failures' >= failures
         /\ \A g \in Files :
              /\ DOMAIN files'[g] = {"exists", "last_up", "data"}
              /\ g # f => files'[g] = files[g]
         /\ \/ files'[f] = result /\ failures' = failures
            \/ files' = files /\ failures' > 0
<1>1. /\ files = [g \in Files |-> files[g]] /\ failures \in Nat
      /\ \A g \in Files : DOMAIN files[g] = {"exists", "last_up", "data"}
  BY DEF ShapeInv
<1>2. CASE files' = files /\ failures' = failures + 1
  BY <1>1, <1>2
<1>3. CASE files' = [files EXCEPT ![f] = result] /\ failures' = failures
  BY <1>1, <1>3
<1>. QED  BY <1>2, <1>3 DEF W!Write

(* What a step of a worker may do to a file.                               *)
FileStep(t, f, old, new) ==
  \/ new = old
  \/ t.step = "create" /\ f = Head(t.ips) /\ new = W!Created
  \/ t.step = "update" /\ f = Head(t.ips)
     /\ new = W!Updated(old, W!IpValues(t.batch, f))
  \/ t.step = "aggregate" /\ f = Aggregation
     /\ new = W!Updated(old, W!AggregateValues(t.batch))

LEMMA WorkOnFiles ==
  ASSUME ShapeInv, NEW w \in Workers, Writing(w)
  PROVE  /\ files' = [f \in Files |-> files'[f]]
         /\ failures' \in Nat /\ failures' >= failures
         /\ \A f \in Files :
              /\ DOMAIN files'[f] = {"exists", "last_up", "data"}
              /\ FileStep(task[w], f, files[f], files'[f])
              /\ files[f].exists => files'[f].exists
<1>. DEFINE t == task[w]
<1>1. /\ files = [f \in Files |-> files[f]] /\ failures \in Nat
      /\ \A f \in Files : DOMAIN files[f] = {"exists", "last_up", "data"}
      /\ TaskOK(t)
  BY DEF ShapeInv
<1>2. CASE W!Start(w) \/ W!CheckFile(w)
  <2>1. files' = files /\ failures' = failures
    BY <1>2 DEF W!Start, W!CheckFile
  <2>. QED  BY <1>1, <2>1 DEF FileStep
<1>3. CASE W!UpdateAggregateRRD(w)
  <2>. DEFINE result == W!Updated(files[Aggregation], W!AggregateValues(t.batch))
  <2>1. t.step = "aggregate" /\ W!Write(Aggregation, result)
    BY <1>3 DEF W!UpdateAggregateRRD
  <2>2. /\ Aggregation \in Files
        /\ DOMAIN result = {"exists", "last_up", "data"}
        /\ result.exists = files[Aggregation].exists
    BY <1>1, UpdatedFile DEF Files
  <2>3. FileStep(t, Aggregation, files[Aggregation], result)
    BY <2>1 DEF FileStep
  <2>4. \A f \in Files : FileStep(t, f, files[f], files[f])
    BY DEF FileStep
  <2>. HIDE DEF result, t
  <2>6. /\ files' = [g \in Files |-> files'[g]]
        /\ failures' \in Nat /\ failures' >= failures
        /\ \A g \in Files :
             /\ DOMAIN files'[g] = {"exists", "last_up", "data"}
             /\ g # Aggregation => files'[g] = files[g]
        /\ files'[Aggregation] = result \/ files' = files
    BY <2>1, <2>2, OneFileWritten
  <2>. QED  BY <1>1, <2>2, <2>3, <2>4, <2>6 DEF t
<1>4. CASE W!CreateRRD(w)
  <2>. DEFINE ip == Head(t.ips)
  <2>1. t.step = "create" /\ W!Write(ip, W!Created)
    BY <1>4 DEF W!CreateRRD
  <2>2. ip \in Files
    BY <1>1, <2>1, HeadOfIps DEF TaskOK
  <2>3. FileStep(t, ip, files[ip], W!Created)
    BY <2>1 DEF FileStep
  <2>4. \A f \in Files : FileStep(t, f, files[f], files[f])
    BY DEF FileStep
  <2>. HIDE DEF ip, t
  <2>6. /\ files' = [g \in Files |-> files'[g]]
        /\ failures' \in Nat /\ failures' >= failures
        /\ \A g \in Files :
             /\ DOMAIN files'[g] = {"exists", "last_up", "data"}
             /\ g # ip => files'[g] = files[g]
        /\ files'[ip] = W!Created \/ files' = files
    BY <2>1, <2>2, OneFileWritten, CreatedFile
  <2>. QED  BY <1>1, <2>3, <2>4, <2>6, CreatedFile DEF t
<1>5. CASE W!UpdateRRD(w)
  <2>. DEFINE ip == Head(t.ips)
              result == W!Updated(files[ip], W!IpValues(t.batch, ip))
  <2>1. t.step = "update" /\ W!Write(ip, result)
    BY <1>5 DEF W!UpdateRRD
  <2>2. ip \in Files
    BY <1>1, <2>1, HeadOfIps DEF TaskOK
  <2>3. FileStep(t, ip, files[ip], result)
    BY <2>1 DEF FileStep
  <2>4. \A f \in Files : FileStep(t, f, files[f], files[f])
    BY DEF FileStep
  <2>. HIDE DEF ip, t
  <2>5. /\ DOMAIN result = {"exists", "last_up", "data"}
        /\ result.exists = files[ip].exists
    BY <1>1, <2>2, UpdatedFile
  <2>. HIDE DEF result
  <2>6. /\ files' = [g \in Files |-> files'[g]]
        /\ failures' \in Nat /\ failures' >= failures
        /\ \A g \in Files :
             /\ DOMAIN files'[g] = {"exists", "last_up", "data"}
             /\ g # ip => files'[g] = files[g]
        /\ files'[ip] = result \/ files' = files
    BY <2>1, <2>2, <2>5, OneFileWritten
  <2>. QED  BY <1>1, <2>3, <2>4, <2>5, <2>6 DEF t
<1>. QED  BY <1>2, <1>3, <1>4, <1>5 DEF Writing, W!Work

(* What it does to its task.                                               *)
TaskStep(t, u) ==
  \/ /\ t.step = "idle" /\ queue # << >>
     /\ queue' = Tail(queue) /\ files' = files /\ failures' = failures
     /\ u = [step  |-> "aggregate", batch |-> Head(queue),
             ips   |-> W!IpsOf(Head(queue))]
  \/ /\ t.step = "check" /\ queue' = queue /\ files' = files /\ failures' = failures
     /\ u = [t EXCEPT !.step = IF files[Head(t.ips)].exists THEN "update" ELSE "create"]
  \/ /\ t.step = "create" /\ queue' = queue
     /\ u = [t EXCEPT !.step = "update"]
     /\ failures' > 0 \/ files'[Head(t.ips)].exists
  \/ /\ t.step = "aggregate" /\ queue' = queue
     /\ u = IF t.ips = << >> THEN W!Idle
            ELSE [t EXCEPT !.step = "check", !.ips = t.ips]
     /\ \/ failures' > 0
        \/ files'[Aggregation] =
             W!Updated(files[Aggregation], W!AggregateValues(t.batch))
  \/ /\ t.step = "update" /\ queue' = queue
     /\ u = IF Tail(t.ips) = << >> THEN W!Idle
            ELSE [t EXCEPT !.step = "check", !.ips = Tail(t.ips)]
     /\ \/ failures' > 0
        \/ files'[Head(t.ips)] =
             W!Updated(files[Head(t.ips)], W!IpValues(t.batch, Head(t.ips)))

LEMMA WorkOnTask ==
  ASSUME ShapeInv, NEW w \in Workers, Writing(w)
  PROVE  /\ task' = [v \in Workers |-> task'[v]]
         /\ \A v \in Workers : v # w => task'[v] = task[v]
         /\ TaskStep(task[w], task'[w])
<1>. DEFINE t == task[w]
<1>1. /\ task = [v \in Workers |-> task[v]] /\ TaskOK(t)
      /\ \A f \in Files : DOMAIN files[f] = {"exists", "last_up", "data"}
  BY DEF ShapeInv
<1>2. t.step \in {"create", "update"} => Head(t.ips) \in Files
  BY <1>1, HeadOfIps DEF TaskOK
<1>3. ASSUME NEW u, task' = [task EXCEPT ![w] = u]
      PROVE  /\ task' = [v \in Workers |-> task'[v]]
             /\ \A v \in Workers : v # w => task'[v] = task[v]
             /\ task'[w] = u
  BY <1>1, <1>3
<1>4. CASE W!Start(w)
  BY <1>3, <1>4 DEF W!Start, TaskStep
<1>5. CASE W!CheckFile(w)
  <2>1. task' = [task EXCEPT ![w] =
          [t EXCEPT !.step = IF files[Head(t.ips)].exists THEN "update" ELSE "create"]]
    BY <1>1, <1>5 DEF W!CheckFile
  <2>. QED  BY <1>3, <1>5, <2>1 DEF W!CheckFile, TaskStep
<1>6. CASE W!CreateRRD(w)
  <2>1. task' = [task EXCEPT ![w] = [t EXCEPT !.step = "update"]]
    BY <1>1, <1>6 DEF W!CreateRRD
  <2>2. t.step = "create" /\ queue' = queue /\ W!Write(Head(t.ips), W!Created)
    BY <1>6 DEF W!CreateRRD
  <2>3. failures' > 0 \/ files'[Head(t.ips)].exists
    BY <1>2, <2>2, OneFileWritten, CreatedFile
  <2>. QED  BY <1>3, <2>1, <2>2, <2>3 DEF TaskStep
<1>7. CASE W!UpdateAggregateRRD(w)
  <2>. DEFINE result == W!Updated(files[Aggregation], W!AggregateValues(t.batch))
  <2>1. task' = [task EXCEPT ![w] = IF t.ips = << >> THEN W!Idle
                        ELSE [t EXCEPT !.step = "check", !.ips = t.ips]]
    BY <1>1, <1>7 DEF W!UpdateAggregateRRD, W!Continue
  <2>2. t.step = "aggregate" /\ queue' = queue /\ W!Write(Aggregation, result)
    BY <1>7 DEF W!UpdateAggregateRRD
  <2>3. Aggregation \in Files /\ DOMAIN result = {"exists", "last_up", "data"}
    BY <1>1, UpdatedFile DEF Files
  <2>4. failures' > 0 \/ files'[Aggregation] = result
    <3>. HIDE DEF result
    <3>. QED  BY <2>2, <2>3, OneFileWritten
  <2>. QED  BY <1>3, <2>1, <2>2, <2>4 DEF TaskStep
<1>8. CASE W!UpdateRRD(w)
  <2>. DEFINE ip == Head(t.ips)
              result == W!Updated(files[ip], W!IpValues(t.batch, ip))
  <2>1. task' = [task EXCEPT ![w] = IF Tail(t.ips) = << >> THEN W!Idle
                        ELSE [t EXCEPT !.step = "check", !.ips = Tail(t.ips)]]
    BY <1>1, <1>8 DEF W!UpdateRRD, W!Continue
  <2>2. t.step = "update" /\ queue' = queue /\ W!Write(ip, result)
    BY <1>8 DEF W!UpdateRRD
  <2>3. ip \in Files /\ DOMAIN result = {"exists", "last_up", "data"}
    BY <1>1, <1>2, <2>2, UpdatedFile
  <2>4. failures' > 0 \/ files'[ip] = result
    <3>. HIDE DEF result, ip
    <3>. QED  BY <2>2, <2>3, OneFileWritten
  <2>. QED  BY <1>3, <2>1, <2>2, <2>4 DEF TaskStep
<1>. QED  BY <1>4, <1>5, <1>6, <1>7, <1>8 DEF Writing, W!Work

(* A batch from the queue.                                                 *)
LEMMA HeadOfQueue ==
  ASSUME TypeOK, queue # << >>
  PROVE  1 \in DOMAIN queue /\ Head(queue) = queue[1] /\ IsBatch(Head(queue))
<1>1. queue \in Seq({queue[i] : i \in DOMAIN queue})
  BY DEF TypeOK
<1>2. 1 \in DOMAIN queue /\ Head(queue) = queue[1]
  BY <1>1
<1>. QED  BY <1>2 DEF TypeOK

LEMMA TaskStepIsOK ==
  ASSUME TypeOK, NEW t, TaskOK(t), NEW u, TaskStep(t, u)
  PROVE  TaskOK(u)
<1>1. CASE /\ queue # << >>
           /\ u = [step  |-> "aggregate", batch |-> Head(queue),
                   ips   |-> W!IpsOf(Head(queue))]
  <2>. DEFINE b == Head(queue)
              ips == W!IpsOf(b)
  <2>1. IsBatch(b)
    BY <1>1, HeadOfQueue
  <2>. HIDE DEF b
  <2>2. /\ ips \in Seq(Ip)
        /\ \A i \in DOMAIN ips : DOMAIN b.received[ips[i]] # {}
        /\ \A i, j \in DOMAIN ips : ips[i] = ips[j] => i = j
    BY IpsOfBatch
  <2>3. u = [step |-> "aggregate", batch |-> b, ips |-> ips]
    BY <1>1 DEF b
  <2>. HIDE DEF ips
  <2>. QED  BY <2>1, <2>2, <2>3 DEF TaskOK
<1>2. ASSUME NEW s, u = [t EXCEPT !.step = s], t.step \in {"check", "create"},
             s \in {"create", "update"}
      PROVE  TaskOK(u)
  BY <1>2 DEF TaskOK
<1>3. CASE t.step = "check"
  <2>. DEFINE s == IF files[Head(t.ips)].exists THEN "update" ELSE "create"
  <2>1. u = [t EXCEPT !.step = s] /\ s \in {"create", "update"}
    BY <1>3 DEF TaskStep
  <2>. HIDE DEF s
  <2>. QED  BY <1>2, <1>3, <2>1
<1>4. CASE t.step = "create"
  BY <1>2, <1>4 DEF TaskStep
<1>5. CASE t.step = "aggregate"
  <2>. DEFINE ips == t.ips
  <2>1. ips = t.ips /\ u = IF ips = << >> THEN W!Idle
                           ELSE [t EXCEPT !.step = "check", !.ips = ips]
    BY <1>5 DEF TaskStep
  <2>. HIDE DEF ips
  <2>2. t.step # "idle"
    BY <1>5
  <2>3. TaskOK(IF ips = << >> THEN W!Idle
               ELSE [t EXCEPT !.step = "check", !.ips = ips])
    BY <2>1, <2>2, ContinuedIsOK
  <2>. QED  BY <2>1, <2>3, Zenon
<1>6. CASE t.step = "update"
  <2>. DEFINE ips == Tail(t.ips)
  <2>1. ips = Tail(t.ips) /\ u = IF ips = << >> THEN W!Idle
                                 ELSE [t EXCEPT !.step = "check", !.ips = ips]
    BY <1>6 DEF TaskStep
  <2>. HIDE DEF ips
  <2>2. t.step # "idle" /\ t.ips # << >>
    BY <1>6 DEF TaskOK
  <2>3. TaskOK(IF ips = << >> THEN W!Idle
               ELSE [t EXCEPT !.step = "check", !.ips = ips])
    BY <2>1, <2>2, ContinuedIsOK
  <2>. QED  BY <2>1, <2>3, Zenon
<1>. QED  BY <1>1, <1>3, <1>4, <1>5, <1>6 DEF TaskStep

(* An idle worker takes the oldest task.                                   *)
LEMMA TaskStarts ==
  ASSUME NEW t, NEW u, TaskStep(t, u), t.step = "idle"
  PROVE  /\ queue # << >> /\ queue' = Tail(queue)
         /\ files' = files /\ failures' = failures
         /\ u.step = "aggregate" /\ u.batch = Head(queue)
         /\ u.ips = W!IpsOf(Head(queue))
BY DEF TaskStep

(* The others go on with theirs.                                           *)
LEMMA TaskGoesOn ==
  ASSUME NEW t, NEW u, TaskOK(t), TaskStep(t, u), t.step # "idle"
  PROVE  /\ queue' = queue
         /\ u.step # "aggregate"
         /\ IF u.step = "idle"
            THEN \/ t.step = "aggregate" /\ t.ips = << >>
                 \/ t.step = "update" /\ Tail(t.ips) = << >>
            ELSE /\ u.batch = t.batch
                 /\ u.ips = IF t.step = "update" THEN Tail(t.ips) ELSE t.ips
         /\ u.step = "update" =>
              \/ t.step = "check" /\ files' = files /\ files[Head(t.ips)].exists
              \/ /\ t.step = "create"
                 /\ failures' > 0 \/ files'[Head(t.ips)].exists
         /\ u.step = "create" =>
              t.step = "check" /\ files' = files /\ ~ files[Head(t.ips)].exists
<1>1. DOMAIN t = {"step", "batch", "ips"}
  BY DEF TaskOK
<1>2. ASSUME NEW s, u = [t EXCEPT !.step = s]
      PROVE  u.step = s /\ u.batch = t.batch /\ u.ips = t.ips
  BY <1>1, <1>2
<1>3. ASSUME NEW ips,
             u = IF ips = << >> THEN W!Idle
                 ELSE [t EXCEPT !.step = "check", !.ips = ips]
      PROVE  IF ips = << >> THEN u.step = "idle"
             ELSE u.step = "check" /\ u.batch = t.batch /\ u.ips = ips
  BY <1>1, <1>3, IdleIsOK
<1>4. CASE t.step = "check"
  <2>. DEFINE s == IF files[Head(t.ips)].exists THEN "update" ELSE "create"
  <2>1. /\ u = [t EXCEPT !.step = s] /\ queue' = queue /\ files' = files
        /\ IF files[Head(t.ips)].exists THEN s = "update" ELSE s = "create"
    BY <1>4 DEF TaskStep
  <2>. HIDE DEF s
  <2>2. u.step = s /\ u.batch = t.batch /\ u.ips = t.ips
    BY <1>2, <2>1
  <2>. QED  BY <1>4, <2>1, <2>2
<1>5. CASE t.step = "create"
  BY <1>2, <1>5 DEF TaskStep
<1>6. CASE t.step = "aggregate"
  <2>. DEFINE ips == t.ips
  <2>1. u = IF ips = << >> THEN W!Idle
            ELSE [t EXCEPT !.step = "check", !.ips = ips]
    BY <1>6 DEF TaskStep
  <2>. HIDE DEF ips
  <2>2. IF ips = << >> THEN u.step = "idle"
        ELSE u.step = "check" /\ u.batch = t.batch /\ u.ips = ips
    BY <1>3, <2>1
  <2>3. queue' = queue
    BY <1>6 DEF TaskStep
  <2>. QED  BY <1>6, <2>2, <2>3 DEF ips
<1>7. CASE t.step = "update"
  <2>. DEFINE ips == Tail(t.ips)
  <2>1. u = IF ips = << >> THEN W!Idle
            ELSE [t EXCEPT !.step = "check", !.ips = ips]
    BY <1>7 DEF TaskStep
  <2>. HIDE DEF ips
  <2>2. IF ips = << >> THEN u.step = "idle"
        ELSE u.step = "check" /\ u.batch = t.batch /\ u.ips = ips
    BY <1>3, <2>1
  <2>3. queue' = queue
    BY <1>7 DEF TaskStep
  <2>. QED  BY <1>7, <2>2, <2>3 DEF ips
<1>. QED  BY <1>4, <1>5, <1>6, <1>7 DEF TaskOK

LEMMA ShapeStep ==
  ASSUME ShapeInv, TypeOK, [PollerNext]_pollerVars
  PROVE  ShapeInv'
<1>1. CASE Posting
  <2>1. W!CreateAggregation /\ UNCHANGED task
    BY <1>1 DEF Posting
  <2>2. CASE UNCHANGED <<files, failures>>
    BY <2>1, <2>2 DEF ShapeInv
  <2>3. CASE W!Write(Aggregation, W!Created)
    <3>1. Aggregation \in Files
      BY DEF Files
    <3>. QED  BY <2>1, <2>3, <3>1, OneFileWritten, CreatedFile DEF ShapeInv
  <2>. QED  BY <2>1, <2>2, <2>3 DEF W!CreateAggregation
<1>2. CASE Capturing \/ UNCHANGED pollerVars
  BY <1>2 DEF Capturing, pollerVars, ShapeInv
<1>3. ASSUME NEW w \in Workers, Writing(w) PROVE ShapeInv'
  <2>1. TaskOK(task'[w])
    BY <1>3, WorkOnTask, TaskStepIsOK DEF ShapeInv
  <2>2. \A v \in Workers : TaskOK(task'[v])
    BY <1>3, <2>1, WorkOnTask DEF ShapeInv
  <2>. QED  BY <1>3, <2>2, WorkOnTask, WorkOnFiles DEF ShapeInv
<1>4. CASE CrashAndRestart
  BY <1>4, IdleIsOK DEF CrashAndRestart, ShapeInv
<1>. QED  BY <1>1, <1>2, <1>3, <1>4 DEF PollerNext

LEMMA ShapeInvariant == PollerSpec => []ShapeInv /\ []TypeInv
<1>1. PollerSpec => []TypeInv
  BY PollerImplementsDispatcher, TypeInvariant, PTL
<1>2. ShapeInv /\ TypeInv /\ [PollerNext]_pollerVars => ShapeInv'
  BY ShapeStep DEF TypeInv
<1>. QED  BY <1>1, <1>2, ShapeInit, PTL DEF PollerSpec
-----------------------------------------------------------------------------
(* A batch carries the final counts of its minutes, and a file holds them. *)
IsFinal(all, mep, lost_mep) ==
  /\ mep = all
  /\ mep >= 1
  /\ lost_mep <= (OutlierGap - 1) * (mep - 1)

BatchIsFinal(b, all) ==
  \A ip \in Ip : \A m \in DOMAIN b.received[ip] :
    m \in Minute /\ IsFinal(all[ip][m], b.received[ip][m], b.lost[ip][m])

DataIsFinal(data, all) ==
  \A m \in DOMAIN data :
    m \in Minute /\ IsFinal(all[m], data[m].mep, data[m].lost_mep)

(* Why StoredIsFinal is inductive: the batches on their way are final, and *)
(* a posting changes no count that was posted before.                      *)
StoredInv ==
  /\ \A i \in DOMAIN queue : BatchIsFinal(queue[i], posted)
  /\ \A w \in Workers : task[w].step # "idle" => BatchIsFinal(task[w].batch, posted)
  /\ \A ip \in Ip : DataIsFinal(files[ip].data, posted[ip])

(* What a posting does to the counts that were posted, and its own batch.  *)
LEMMA PostingIsFinal ==
  ASSUME CountInv, LossBounded, EnqueueWriteRRDs
  PROVE  /\ \A ip \in Ip, m \in Minute :
              posted[ip][m] >= 1 => posted'[ip][m] = posted[ip][m]
         /\ BatchIsFinal(Batch(max_update_time'), posted')
<1>. DEFINE b == Batch(max_update_time')
<1>1. /\ pc = "posting_test" /\ AddPosted(b)
      /\ UNCHANGED <<received_meps, lost_meps>>
  BY DEF EnqueueWriteRRDs
<1>2. IsMeps(received_meps) /\ posted \in [Ip -> [Minute -> Nat]]
  BY DEF CountInv, TypeInv, TypeOK
<1>3. \A ip \in Ip, m \in Minute : Live(ip, m) => posted[ip][m] = 0
  BY <1>1 DEF CountInv, CountedOnce, BeingRemoved
<1>4. \A ip \in Ip : \A m \in DOMAIN b.received[ip] :
        /\ m \in Minute /\ Live(ip, m)
        /\ b.received[ip][m] = received_meps[ip][m]
        /\ b.lost[ip][m] = lost_meps[ip][m]
  BY <1>2 DEF Batch, Restrict, Below, Live, IsMeps
<1>. HIDE DEF b
<1>5. \A ip \in Ip, m \in Minute :
        posted'[ip][m] = posted[ip][m] + (IF m \in DOMAIN b.received[ip]
                                          THEN b.received[ip][m] ELSE 0)
  BY <1>1 DEF AddPosted
<1>6. \A ip \in Ip, m \in Minute :
        posted[ip][m] >= 1 => posted'[ip][m] = posted[ip][m]
  BY <1>2, <1>3, <1>4, <1>5
<1>7. ASSUME NEW ip \in Ip, NEW m \in DOMAIN b.received[ip]
      PROVE  /\ m \in Minute
             /\ IsFinal(posted'[ip][m], b.received[ip][m], b.lost[ip][m])
  <2>1. received_meps[ip][m] \in Nat
    BY <1>2, <1>4, <1>7 DEF IsMeps, Live
  <2>2. posted'[ip][m] = b.received[ip][m]
    BY <1>3, <1>4, <1>5, <1>7, <2>1
  <2>3. /\ received_meps[ip][m] >= 1
        /\ lost_meps[ip][m] <= (OutlierGap - 1) * (received_meps[ip][m] - 1)
    BY <1>4, <1>7 DEF LossBounded, LossBound, Live
  <2>. QED  BY <1>4, <1>7, <2>2, <2>3 DEF IsFinal
<1>. QED  BY <1>6, <1>7 DEF BatchIsFinal, b

(* A posting takes the minutes between the old watermark and the new one,  *)
(* and they get the counts that are in the batch.                          *)
LEMMA PostedBatch ==
  ASSUME CountInv, EnqueueWriteRRDs, NEW b, b = Batch(max_update_time')
  PROVE  /\ watermark \in Nat /\ watermark' \in Nat /\ watermark' > watermark
         /\ \A ip \in Ip : \A m \in DOMAIN b.received[ip] :
              m \in Minute /\ m >= watermark /\ m < watermark'
         /\ \A ip \in Ip, m \in Minute :
              posted'[ip][m] = IF m < watermark THEN posted[ip][m]
                               ELSE IF m \in DOMAIN b.received[ip]
                                    THEN b.received[ip][m] ELSE 0
<1>1. /\ pc = "posting_test" /\ AddPosted(b) /\ watermark' = max_update_time'
  BY DEF EnqueueWriteRRDs
<1>2. /\ IsMeps(received_meps) /\ posted \in [Ip -> [Minute -> Nat]]
      /\ watermark \in Nat /\ Minute \subseteq Nat
  BY DispatcherAssumption DEF CountInv, TypeInv, TypeOK, Minute
<1>3. watermark' \in Minute /\ watermark' > watermark
  BY <1>1, WatermarkRises DEF CountInv
<1>4. \A ip \in Ip : \A m \in DOMAIN b.received[ip] :
        m \in Minute /\ Live(ip, m) /\ m < watermark'
        /\ b.received[ip][m] = received_meps[ip][m]
  BY <1>1, <1>2 DEF Batch, Restrict, Below, Live, IsMeps
<1>5. \A ip \in Ip, m \in Minute :
        /\ Live(ip, m) => m >= watermark
        /\ posted[ip][m] > 0 => m < watermark
  BY <1>1 DEF CountInv, MinutesClose, BeingRemoved
<1>6. \A ip \in Ip, m \in Minute :
        posted'[ip][m] = posted[ip][m] + (IF m \in DOMAIN b.received[ip]
                                          THEN b.received[ip][m] ELSE 0)
  BY <1>1 DEF AddPosted
<1>7. ASSUME NEW ip \in Ip, NEW m \in Minute
      PROVE  posted'[ip][m] = IF m < watermark THEN posted[ip][m]
                              ELSE IF m \in DOMAIN b.received[ip]
                                   THEN b.received[ip][m] ELSE 0
  <2>1. posted[ip][m] \in Nat /\ m \in Nat
    BY <1>2
  <2>2. CASE m < watermark
    <3>1. m \notin DOMAIN b.received[ip]
      BY <1>2, <1>4, <1>5, <2>1, <2>2
    <3>. QED  BY <1>6, <2>1, <2>2, <3>1
  <2>3. CASE ~ (m < watermark)
    <3>1. posted[ip][m] = 0
      BY <1>5, <2>1, <2>3
    <3>2. m \in DOMAIN b.received[ip] => b.received[ip][m] \in Nat
      BY <1>2, <1>4 DEF IsMeps, Live
    <3>. QED  BY <1>6, <2>3, <3>1, <3>2
  <2>. QED  BY <2>2, <2>3
<1>. QED  BY <1>2, <1>3, <1>4, <1>5, <1>7

LEMMA PostedQueue ==
  ASSUME TypeOK, NEW b, queue' = Append(queue, b)
  PROVE  /\ DOMAIN queue' = DOMAIN queue \cup {Len(queue) + 1}
         /\ Len(queue) \in Nat /\ DOMAIN queue = 1 .. Len(queue)
         /\ queue'[Len(queue) + 1] = b
         /\ \A i \in DOMAIN queue : queue'[i] = queue[i] /\ i < Len(queue) + 1
<1>1. queue \in Seq({queue[i] : i \in DOMAIN queue})
  BY DEF TypeOK
<1>. QED  BY <1>1

(* What is final stays so while the counts posted before do.               *)
LEMMA FinalStays ==
  ASSUME NEW p, NEW q,
         \A ip \in Ip, m \in Minute : p[ip][m] >= 1 => q[ip][m] = p[ip][m]
  PROVE  /\ \A b : BatchIsFinal(b, p) => BatchIsFinal(b, q)
         /\ \A data : \A ip \in Ip :
              DataIsFinal(data, p[ip]) => DataIsFinal(data, q[ip])
<1>1. ASSUME NEW ip \in Ip, NEW m \in Minute, NEW mep, NEW lost_mep,
             IsFinal(p[ip][m], mep, lost_mep)
      PROVE  IsFinal(q[ip][m], mep, lost_mep)
  <2>1. p[ip][m] >= 1
    BY <1>1 DEF IsFinal
  <2>. QED  BY <1>1, <2>1
<1>. QED  BY <1>1 DEF BatchIsFinal, DataIsFinal

LEMMA MergeIsFinal ==
  ASSUME NEW b, NEW p, BatchIsFinal(b, p), NEW ip \in Ip,
         NEW data, DataIsFinal(data, p[ip])
  PROVE  DataIsFinal(W!Merge(data, W!IpValues(b, ip)), p[ip])
<1>. DEFINE values == W!IpValues(b, ip)
<1>1. DataIsFinal(values, p[ip])
  BY DEF BatchIsFinal, DataIsFinal, W!IpValues
<1>. HIDE DEF values
<1>2. DataIsFinal(W!Merge(data, values), p[ip])
  BY <1>1 DEF DataIsFinal, W!Merge
<1>. QED  BY <1>2 DEF values

(* Where the batches come from that a worker leaves.                       *)
LEMMA WorkOnBatches ==
  ASSUME ShapeInv, TypeOK, NEW w \in Workers, Writing(w)
  PROVE  /\ \A i \in DOMAIN queue' : \E j \in DOMAIN queue : queue'[i] = queue[j]
         /\ \A v \in Workers : task'[v].step # "idle" =>
              \/ /\ task[v].step # "idle" /\ task'[v].batch = task[v].batch
                 /\ task'[v].step = "aggregate" => task[v].step = "aggregate"
              \/ \E j \in DOMAIN queue : task'[v].batch = queue[j]
<1>1. \A i \in DOMAIN queue' : \E j \in DOMAIN queue : queue'[i] = queue[j]
  <2>1. TakeTask \/ queue' = queue
    BY WorkIsUnseen DEF vars
  <2>. QED  BY <2>1, TailOfQueue
<1>2. TaskOK(task[w]) /\ TaskStep(task[w], task'[w])
  BY WorkOnTask DEF ShapeInv
<1>3. ASSUME task'[w].step # "idle"
      PROVE  \/ /\ task[w].step # "idle" /\ task'[w].batch = task[w].batch
                /\ task'[w].step # "aggregate"
             \/ \E j \in DOMAIN queue : task'[w].batch = queue[j]
  <2>1. CASE task[w].step = "idle"
    BY <1>2, <2>1, TaskStarts, HeadOfQueue
  <2>2. CASE task[w].step # "idle"
    BY <1>2, <1>3, <2>2, TaskGoesOn
  <2>. QED  BY <2>1, <2>2
<1>4. \A v \in Workers : v # w => task'[v] = task[v]
  BY WorkOnTask
<1>. QED  BY <1>1, <1>3, <1>4

LEMMA StoredInit == PollerInit => StoredInv
<1>. SUFFICES ASSUME PollerInit PROVE StoredInv
  OBVIOUS
<1>1. /\ \A ip \in Ip : files[ip].data = << >>
      /\ \A w \in Workers : task[w].step = "idle"
      /\ queue = << >>
  BY IdleIsOK DEF PollerInit, Init, W!Init, W!Absent
<1>. QED  BY <1>1 DEF StoredInv, DataIsFinal

(* A worker leaves batches and files final.                                *)
LEMMA StoredByWorker ==
  ASSUME ShapeInv, StoredInv, TypeOK, NEW w \in Workers, Writing(w)
  PROVE  StoredInv'
<1>1. posted' = posted
  BY DEF Writing
<1>2. \A i \in DOMAIN queue' : BatchIsFinal(queue'[i], posted')
  BY <1>1, WorkOnBatches DEF StoredInv
<1>3. ASSUME NEW v \in Workers, task'[v].step # "idle"
      PROVE  BatchIsFinal(task'[v].batch, posted')
  BY <1>1, <1>3, WorkOnBatches DEF StoredInv
<1>4. ASSUME NEW ip \in Ip PROVE DataIsFinal(files'[ip].data, posted'[ip])
  <2>1. DataIsFinal(files[ip].data, posted[ip])
    BY DEF StoredInv
  <2>2. /\ ip \in Files /\ ip # Aggregation
        /\ DOMAIN files[ip] = {"exists", "last_up", "data"}
        /\ FileStep(task[w], ip, files[ip], files'[ip])
    BY WorkOnFiles, PollerAssumption DEF Files, ShapeInv
  <2>3. CASE files'[ip] = files[ip]
    BY <1>1, <2>1, <2>3
  <2>4. CASE files'[ip] = W!Created
    BY <2>4, CreatedFile DEF DataIsFinal
  <2>5. CASE /\ task[w].step = "update"
             /\ files'[ip] = W!Updated(files[ip], W!IpValues(task[w].batch, ip))
    <3>1. BatchIsFinal(task[w].batch, posted)
      BY <2>5 DEF StoredInv
    <3>2. DataIsFinal(W!Merge(files[ip].data, W!IpValues(task[w].batch, ip)),
                      posted[ip])
      BY <2>1, <3>1, MergeIsFinal
    <3>3. \/ files'[ip].data = files[ip].data
          \/ files'[ip].data = W!Merge(files[ip].data, W!IpValues(task[w].batch, ip))
      <4>. DEFINE values == W!IpValues(task[w].batch, ip)
      <4>1. DOMAIN files[ip] = {"exists", "last_up", "data"}
        BY <2>2
      <4>2. files'[ip] = W!Updated(files[ip], values)
        BY <2>5
      <4>. HIDE DEF values
      <4>3. \/ W!Updated(files[ip], values) = files[ip]
            \/ W!Updated(files[ip], values).data = W!Merge(files[ip].data, values)
        BY <4>1, UpdatedFile
      <4>4. \/ files'[ip].data = files[ip].data
            \/ files'[ip].data = W!Merge(files[ip].data, values)
        BY <4>2, <4>3
      <4>. QED  BY <4>4 DEF values
    <3>. QED  BY <1>1, <2>1, <3>2, <3>3
  <2>. QED  BY <2>2, <2>3, <2>4, <2>5 DEF FileStep
<1>. QED  BY <1>2, <1>3, <1>4 DEF StoredInv

(* What the capture thread and the clock leave alone.                      *)
LEMMA CapturingIsElsewhere ==
  ASSUME Capturing \/ UNCHANGED pollerVars
  PROVE  UNCHANGED <<files, task, failures, pool, queue, posted, watermark, restarts>>
BY DEF Capturing, DispatchPacket, SkipPosting, RemoveOldieUpdates, RemoveBelow,
       Tick, SetClockBack, pollerVars, vars

(* What a crash leaves.                                                    *)
LEMMA CrashedPoller ==
  ASSUME CrashAndRestart
  PROVE  /\ queue' = << >> /\ restarts' = restarts + 1
         /\ \A w \in Workers : task'[w] = W!Idle
         /\ UNCHANGED <<files, failures, pool, posted, watermark>>
BY DEF CrashAndRestart, Restart

(* The only file a posting may touch is that of the aggregation.           *)
LEMMA PostingOnFiles ==
  ASSUME ShapeInv, Posting
  PROVE  /\ UNCHANGED <<task, pool, restarts>>
         /\ failures' \in Nat /\ failures' >= failures
         /\ \A ip \in Ip : files'[ip] = files[ip]
         /\ \/ files'[Aggregation] = files[Aggregation]
            \/ ~ files[Aggregation].exists /\ files'[Aggregation] = W!Created
         /\ failures' > 0 \/ files'[Aggregation].exists
<1>1. /\ W!CreateAggregation /\ UNCHANGED <<task, pool, restarts>>
      /\ Aggregation \in Files /\ failures \in Nat
  BY DEF Posting, EnqueueWriteRRDs, Files, ShapeInv
<1>2. CASE files[Aggregation].exists /\ UNCHANGED <<files, failures>>
  BY <1>1, <1>2
<1>3. CASE ~ files[Aggregation].exists /\ W!Write(Aggregation, W!Created)
  <2>1. /\ \A g \in Files : g # Aggregation => files'[g] = files[g]
        /\ failures' \in Nat /\ failures' >= failures
        /\ \/ files'[Aggregation] = W!Created
           \/ files' = files /\ failures' > 0
    BY <1>1, <1>3, OneFileWritten, CreatedFile
  <2>. QED  BY <1>1, <1>3, <2>1, CreatedFile, PollerAssumption DEF Files
<1>. QED  BY <1>1, <1>2, <1>3 DEF W!CreateAggregation

LEMMA StoredStep ==
  ASSUME ShapeInv, StoredInv, CountInv, LossBounded, [PollerNext]_pollerVars
  PROVE  StoredInv'
<1>1. CASE Posting
  <2>. DEFINE b == Batch(max_update_time')
  <2>1. EnqueueWriteRRDs /\ queue' = Append(queue, b)
    BY <1>1 DEF Posting, EnqueueWriteRRDs
  <2>2. /\ \A ip \in Ip, m \in Minute :
             posted[ip][m] >= 1 => posted'[ip][m] = posted[ip][m]
        /\ BatchIsFinal(b, posted')
    BY <2>1, PostingIsFinal
  <2>. HIDE DEF b
  <2>3. /\ \A c : BatchIsFinal(c, posted) => BatchIsFinal(c, posted')
        /\ \A data : \A ip \in Ip :
             DataIsFinal(data, posted[ip]) => DataIsFinal(data, posted'[ip])
    BY <2>2, FinalStays
  <2>4. \A i \in DOMAIN queue' :
          queue'[i] = b \/ \E j \in DOMAIN queue : queue'[i] = queue[j]
    BY <2>1, PostedQueue DEF CountInv, TypeInv
  <2>5. \A i \in DOMAIN queue' : BatchIsFinal(queue'[i], posted')
    BY <2>2, <2>3, <2>4 DEF StoredInv
  <2>6. \A v \in Workers :
          task'[v].step # "idle" => BatchIsFinal(task'[v].batch, posted')
    BY <1>1, <2>3, PostingOnFiles DEF StoredInv
  <2>7. \A ip \in Ip : DataIsFinal(files'[ip].data, posted'[ip])
    BY <1>1, <2>3, PostingOnFiles DEF StoredInv
  <2>. QED  BY <2>5, <2>6, <2>7 DEF StoredInv
<1>2. CASE Capturing \/ UNCHANGED pollerVars
  BY <1>2, CapturingIsElsewhere DEF StoredInv
<1>3. ASSUME NEW w \in Workers, Writing(w) PROVE StoredInv'
  BY <1>3, StoredByWorker DEF CountInv, TypeInv
<1>4. CASE CrashAndRestart
  <2>1. \A w \in Workers : task'[w].step = "idle"
    BY <1>4, CrashedPoller, IdleIsOK
  <2>2. queue' = << >> /\ UNCHANGED <<files, posted>>
    BY <1>4, CrashedPoller
  <2>. QED  BY <2>1, <2>2 DEF StoredInv
<1>. QED  BY <1>1, <1>2, <1>3, <1>4 DEF PollerNext

LEMMA StoredInvariant ==
  ASSUME ClockStepsBounded
  PROVE  PollerSpec => []StoredInv /\ []CountInv /\ []LossBounded
<1>1. PollerSpec => []CountInv /\ []LossBounded
  BY PollerImplementsDispatcher, CountInvariant, LossesBounded, PTL
<1>2. ShapeInv /\ StoredInv /\ CountInv /\ LossBounded /\ [PollerNext]_pollerVars
        => StoredInv'
  BY StoredStep
<1>. QED  BY <1>1, <1>2, StoredInit, ShapeInvariant, PTL DEF PollerSpec

(* While the clock is never set back by more than a minute stays open,     *)
(* what a device's file holds for a minute is the minute's final count,    *)
(* however many workers write at the same time, whichever call of librrd   *)
(* fails and wherever the process dies.                                    *)
THEOREM PollerStoresFinalCounts ==
  ASSUME ClockStepsBounded PROVE PollerSpec => []StoredIsFinal
<1>1. StoredInv => StoredIsFinal
  BY DEF StoredInv, DataIsFinal, IsFinal, StoredIsFinal
<1>. QED  BY <1>1, StoredInvariant, PTL

(* And the losses next to it are bounded by that count.                    *)
THEOREM PollerStoresBoundedLosses ==
  ASSUME ClockStepsBounded PROVE PollerSpec => []StoredLossBounded
<1>1. StoredInv => StoredLossBounded
  BY DEF StoredInv, DataIsFinal, IsFinal, StoredLossBounded
<1>. QED  BY <1>1, StoredInvariant, PTL
-----------------------------------------------------------------------------
LEMMA IpIsFinite == IsFiniteSet(Ip)
<1>. DEFINE n == Len(IpOrder)
<1>1. n \in Nat /\ IpOrder \in Surjection(1 .. n, Ip)
  BY PollerAssumption DEF Surjection
<1>2. IsFiniteSet(1 .. n)
  BY <1>1, FS_Interval
<1>. HIDE DEF n
<1>. QED  BY <1>1, <1>2, FS_Surjection

(* The recursive function behind a total of AggregateValues.               *)
TotalFold(it, map, m, S) ==
  it = [s \in SUBSET S |-> IF s = {} THEN 0
                           ELSE map[CHOOSE x \in s : TRUE][m]
                                  + it[s \ {CHOOSE x \in s : TRUE}]]

Total(map, m, S) == W!MapThenSumSet(LAMBDA ip : map[ip][m], S)

(* What the devices of a batch add up to in a minute.                      *)
LEMMA TotalIsSum ==
  ASSUME NEW S \in SUBSET Ip, NEW map, NEW m, NEW h,
         \A ip \in Ip : h[ip] \in Nat,
         \A ip \in S : map[ip][m] = h[ip],
         \A ip \in Ip \ S : h[ip] = 0
  PROVE  Total(map, m, S) = SumFunctionOnSet(h, Ip)
<1>. DEFINE it == CHOOSE jt : TotalFold(jt, map, m, S)
<1>1. IsFiniteSet(S) /\ IsFiniteSet(Ip) /\ \A ip \in S : h[ip] \in Nat
  BY IpIsFinite, FS_Subset
<1>2. Total(map, m, S) = it[S]
  BY Zenon DEF Total, W!MapThenSumSet, W!MapThenFoldSet, TotalFold
<1>3. ASSUME NEW jt PROVE TotalFold(jt, map, m, S) <=> ChosenSum(jt, h, S)
  <2>. DEFINE c == [s \in SUBSET S |-> CHOOSE x \in s : TRUE]
              A == [s \in SUBSET S |-> IF s = {} THEN 0
                                       ELSE map[c[s]][m] + jt[s \ {c[s]}]]
              B == [s \in SUBSET S |-> IF s = {} THEN 0
                                       ELSE h[c[s]] + jt[s \ {c[s]}]]
  <2>1. \A s \in SUBSET S : c[s] = CHOOSE x \in s : TRUE
    OBVIOUS
  <2>2. \A s \in SUBSET S : s # {} => map[c[s]][m] = h[c[s]]
    OBVIOUS
  <2>. HIDE DEF c
  <2>3. A = B
    BY <2>2
  <2>4. A = [s \in SUBSET S |-> IF s = {} THEN 0
                           ELSE map[CHOOSE x \in s : TRUE][m]
                                  + jt[s \ {CHOOSE x \in s : TRUE}]]
    BY <2>1
  <2>5. B = [s \in SUBSET S |-> IF s = {} THEN 0
                           ELSE h[CHOOSE x \in s : TRUE]
                                  + jt[s \ {CHOOSE x \in s : TRUE}]]
    BY <2>1
  <2>. HIDE DEF A, B
  <2>. QED  BY <2>3, <2>4, <2>5, Zenon DEF TotalFold, ChosenSum
<1>4. PICK jt \in [SUBSET S -> Nat] : ChosenSum(jt, h, S)
  BY <1>1, SumExists
<1>5. ChosenSum(it, h, S)
  BY <1>3, <1>4
<1>. HIDE DEF it
<1>6. IsSum(it, h, S)
  BY <1>1, <1>5, ChosenSumIsSum
<1>7. PICK kt : IsSum(kt, h, Ip) /\ SumFunctionOnSet(h, Ip) = kt[Ip]
  BY <1>1, SumOfFunction
<1>8. it[S] = kt[Ip]
  <2>1. IsSum(kt, h, Ip)
    BY <1>7
  <2>2. S \in SUBSET S /\ Ip \in SUBSET Ip /\ S \subseteq Ip
    OBVIOUS
  <2>. QED  BY <1>1, <1>6, <2>1, <2>2, SumsAgree
<1>. QED  BY <1>2, <1>7, <1>8, Zenon

(* A batch has all there is of a minute, for every device.                 *)
BatchIsWhole(b, all) ==
  \A jp \in Ip : \A m \in DOMAIN b.received[jp] :
    \A ip \in Ip : all[ip][m] = IF m \in DOMAIN b.received[ip]
                                THEN b.received[ip][m] ELSE 0

(* What the aggregation file should hold for a minute.                     *)
Rate(all, m) == SumFunction([ip \in Ip |-> all[ip][m]]) \div PerSecond

(* Why AggregateIsComplete is inductive: the batches on their way to the   *)
(* file are whole, and what a posting adds is later than what is written.  *)
AggregateInv ==
  /\ \A i \in DOMAIN queue : BatchIsWhole(queue[i], posted)
  /\ \A w \in Workers :
       task[w].step = "aggregate" => BatchIsWhole(task[w].batch, posted)
  /\ \A m \in DOMAIN files[Aggregation].data :
       /\ m \in Minute /\ m < watermark
       /\ files[Aggregation].data[m].mep = Rate(posted, m)

(* The values of a whole batch are the rates of its minutes.               *)
LEMMA AggregateOfBatch ==
  ASSUME NEW b, NEW all \in [Ip -> [Minute -> Nat]], BatchIsWhole(b, all),
         \A ip \in Ip : DOMAIN b.received[ip] \subseteq Minute,
         NEW m \in DOMAIN W!AggregateValues(b)
  PROVE  /\ m \in Minute
         /\ \E ip \in Ip : m \in DOMAIN b.received[ip]
         /\ W!AggregateValues(b)[m].mep = Rate(all, m)
<1>. DEFINE S == {ip \in Ip : m \in DOMAIN b.received[ip]}
            h == [ip \in Ip |-> all[ip][m]]
<1>1. /\ \E ip \in Ip : m \in DOMAIN b.received[ip]
      /\ W!AggregateValues(b)[m].mep = Total(b.received, m, S) \div PerSecond
  BY DEF W!AggregateValues, Total
<1>2. m \in Minute
  BY <1>1
<1>3. /\ S \in SUBSET Ip
      /\ \A ip \in Ip : h[ip] \in Nat
      /\ \A ip \in S : b.received[ip][m] = h[ip]
      /\ \A ip \in Ip \ S : h[ip] = 0
  BY <1>1, <1>2 DEF BatchIsWhole
<1>4. DOMAIN h = Ip
  OBVIOUS
<1>. HIDE DEF S, h
<1>5. Total(b.received, m, S) = SumFunctionOnSet(h, Ip)
  BY <1>3, TotalIsSum
<1>6. SumFunction(h) = SumFunctionOnSet(h, Ip)
  BY <1>4 DEF SumFunction
<1>7. Rate(all, m) = SumFunction(h) \div PerSecond
  BY DEF Rate, h
<1>8. W!AggregateValues(b)[m].mep = Rate(all, m)
  BY <1>1, <1>5, <1>6, <1>7
<1>. QED  BY <1>1, <1>2, <1>8

(* Where the counts agree, so do the rates.                                *)
LEMMA RateStays ==
  ASSUME NEW all, NEW now_all, NEW m, \A ip \in Ip : now_all[ip][m] = all[ip][m]
  PROVE  Rate(now_all, m) = Rate(all, m)
<1>1. [ip \in Ip |-> now_all[ip][m]] = [ip \in Ip |-> all[ip][m]]
  OBVIOUS
<1>. QED  BY <1>1 DEF Rate

LEMMA AggregateInit == PollerInit => AggregateInv
<1>. SUFFICES ASSUME PollerInit PROVE AggregateInv
  OBVIOUS
<1>1. /\ files[Aggregation].data = << >>
      /\ \A w \in Workers : task[w].step = "idle"
      /\ queue = << >>
  BY IdleIsOK DEF PollerInit, Init, W!Init, W!Absent
<1>. QED  BY <1>1 DEF AggregateInv

(* Minutes in a final batch lie below the watermark.                       *)
LEMMA FinalIsBelow ==
  ASSUME CountInv, NEW b, BatchIsFinal(b, posted),
         NEW ip \in Ip, NEW m \in DOMAIN b.received[ip]
  PROVE  m \in Minute /\ m < watermark
<1>1. m \in Minute /\ posted[ip][m] >= 1
  BY DEF BatchIsFinal, IsFinal
<1>2. posted[ip][m] \in Nat
  BY <1>1 DEF CountInv, TypeInv, TypeOK
<1>. QED  BY <1>1, <1>2 DEF CountInv, MinutesClose

LEMMA AggregateByWorker ==
  ASSUME ShapeInv, StoredInv, CountInv, AggregateInv,
         NEW w \in Workers, Writing(w)
  PROVE  AggregateInv'
<1>1. posted' = posted /\ watermark' = watermark
  BY DEF Writing
<1>2. TypeOK
  BY DEF CountInv, TypeInv
<1>3. \A i \in DOMAIN queue' : BatchIsWhole(queue'[i], posted')
  BY <1>1, <1>2, WorkOnBatches DEF AggregateInv
<1>4. ASSUME NEW v \in Workers, task'[v].step = "aggregate"
      PROVE  BatchIsWhole(task'[v].batch, posted')
  <2>1. task'[v].step # "idle"
    BY <1>4
  <2>2. \/ task[v].step = "aggregate" /\ task'[v].batch = task[v].batch
        \/ \E j \in DOMAIN queue : task'[v].batch = queue[j]
    BY <1>2, <1>4, <2>1, WorkOnBatches
  <2>. QED  BY <1>1, <2>2 DEF AggregateInv
<1>5. ASSUME NEW m \in DOMAIN files'[Aggregation].data
      PROVE  /\ m \in Minute /\ m < watermark'
             /\ files'[Aggregation].data[m].mep = Rate(posted', m)
  <2>. DEFINE old == files[Aggregation]
              values == W!AggregateValues(task[w].batch)
  <2>1. \A n \in DOMAIN old.data :
          n \in Minute /\ n < watermark /\ old.data[n].mep = Rate(posted, n)
    BY DEF AggregateInv
  <2>2. /\ DOMAIN old = {"exists", "last_up", "data"}
        /\ TaskOK(task[w])
        /\ FileStep(task[w], Aggregation, old, files'[Aggregation])
    BY WorkOnFiles DEF Files, ShapeInv
  <2>3. task[w].step \in {"create", "update"} => Head(task[w].ips) # Aggregation
    BY <2>2, HeadOfIps, PollerAssumption DEF TaskOK
  <2>4. CASE files'[Aggregation] = old
    BY <1>1, <1>5, <2>1, <2>4
  <2>5. CASE /\ task[w].step = "aggregate"
             /\ files'[Aggregation] = W!Updated(old, values)
    <3>1. /\ BatchIsWhole(task[w].batch, posted)
          /\ BatchIsFinal(task[w].batch, posted)
      BY <2>5 DEF AggregateInv, StoredInv
    <3>2. /\ \A ip \in Ip : DOMAIN task[w].batch.received[ip] \subseteq Minute
          /\ posted \in [Ip -> [Minute -> Nat]]
      BY <2>2, <2>5 DEF TaskOK, IsBatch, IsMeps, CountInv, TypeInv, TypeOK
    <3>3. \A n \in DOMAIN values :
            /\ n \in Minute /\ n < watermark
            /\ values[n].mep = Rate(posted, n)
      BY <3>1, <3>2, AggregateOfBatch, FinalIsBelow
    <3>. HIDE DEF values, old
    <3>4. \/ files'[Aggregation] = old
          \/ files'[Aggregation].data = W!Merge(old.data, values)
      BY <2>2, <2>5, UpdatedFile
    <3>5. CASE files'[Aggregation].data = W!Merge(old.data, values)
      BY <1>1, <1>5, <2>1, <3>3, <3>5 DEF W!Merge
    <3>. QED  BY <2>4, <3>4, <3>5
  <2>. QED  BY <2>2, <2>3, <2>4, <2>5 DEF FileStep
<1>. QED  BY <1>3, <1>4, <1>5 DEF AggregateInv

LEMMA AggregateByPosting ==
  ASSUME ShapeInv, StoredInv, CountInv, AggregateInv, Posting
  PROVE  AggregateInv'
<1>. DEFINE b == Batch(max_update_time')
<1>1. EnqueueWriteRRDs /\ queue' = Append(queue, b) /\ b = Batch(max_update_time')
  BY DEF Posting, EnqueueWriteRRDs
<1>. HIDE DEF b
<1>2. /\ watermark \in Nat /\ watermark' \in Nat /\ watermark' > watermark
      /\ \A ip \in Ip : \A m \in DOMAIN b.received[ip] :
           m \in Minute /\ m >= watermark /\ m < watermark'
      /\ \A ip \in Ip, m \in Minute :
           posted'[ip][m] = IF m < watermark THEN posted[ip][m]
                            ELSE IF m \in DOMAIN b.received[ip]
                                 THEN b.received[ip][m] ELSE 0
  BY <1>1, PostedBatch
<1>3. Minute \subseteq Nat
  BY DispatcherAssumption DEF Minute
<1>4. ASSUME NEW jp \in Ip, NEW m \in DOMAIN b.received[jp], NEW ip \in Ip
      PROVE  posted'[ip][m] = IF m \in DOMAIN b.received[ip]
                              THEN b.received[ip][m] ELSE 0
  <2>1. m \in Minute /\ ~ (m < watermark)
    <3>1. m \in Minute /\ m >= watermark
      BY <1>2, <1>4
    <3>2. m \in Nat /\ watermark \in Nat
      BY <1>2, <1>3, <3>1
    <3>. QED  BY <3>1, <3>2
  <2>. QED  BY <1>2, <2>1
<1>5. ASSUME NEW c, BatchIsFinal(c, posted), BatchIsWhole(c, posted)
      PROVE  BatchIsWhole(c, posted')
  <2>1. \A ip \in Ip : \A m \in DOMAIN c.received[ip] : m \in Minute /\ m < watermark
    BY <1>5, FinalIsBelow
  <2>2. \A ip, jp \in Ip : \A m \in DOMAIN c.received[jp] :
          posted'[ip][m] = posted[ip][m]
    BY <1>2, <2>1
  <2>. QED  BY <1>5, <2>2 DEF BatchIsWhole
<1>6. \A i \in DOMAIN queue' :
        queue'[i] = b \/ \E j \in DOMAIN queue : queue'[i] = queue[j]
  BY <1>1, PostedQueue DEF CountInv, TypeInv
<1>7. \A i \in DOMAIN queue' : BatchIsWhole(queue'[i], posted')
  <2>1. BatchIsWhole(b, posted')
    BY <1>4 DEF BatchIsWhole
  <2>. QED  BY <1>5, <1>6, <2>1 DEF StoredInv, AggregateInv
<1>8. ASSUME NEW v \in Workers, task'[v].step = "aggregate"
      PROVE  BatchIsWhole(task'[v].batch, posted')
  <2>1. task' = task
    BY PostingOnFiles
  <2>2. BatchIsFinal(task[v].batch, posted) /\ BatchIsWhole(task[v].batch, posted)
    BY <1>8, <2>1 DEF StoredInv, AggregateInv
  <2>. QED  BY <1>5, <2>1, <2>2
<1>9. ASSUME NEW m \in DOMAIN files'[Aggregation].data
      PROVE  /\ m \in Minute /\ m < watermark'
             /\ files'[Aggregation].data[m].mep = Rate(posted', m)
  <2>1. files'[Aggregation] = files[Aggregation]
    BY <1>9, PostingOnFiles, CreatedFile
  <2>2. /\ m \in Minute /\ m < watermark
        /\ files[Aggregation].data[m].mep = Rate(posted, m)
    BY <1>9, <2>1 DEF AggregateInv
  <2>3. Rate(posted', m) = Rate(posted, m)
    BY <1>2, <2>2, RateStays
  <2>. QED  BY <1>2, <1>3, <2>1, <2>2, <2>3
<1>. QED  BY <1>7, <1>8, <1>9 DEF AggregateInv

LEMMA AggregateStep ==
  ASSUME ShapeInv, StoredInv, CountInv, AggregateInv, [PollerNext]_pollerVars
  PROVE  AggregateInv'
<1>1. CASE Capturing \/ UNCHANGED pollerVars
  BY <1>1, CapturingIsElsewhere DEF AggregateInv
<1>2. CASE CrashAndRestart
  <2>1. \A w \in Workers : task'[w].step = "idle"
    BY <1>2, CrashedPoller, IdleIsOK
  <2>2. queue' = << >> /\ UNCHANGED <<files, posted, watermark>>
    BY <1>2, CrashedPoller
  <2>. QED  BY <2>1, <2>2 DEF AggregateInv
<1>. QED  BY <1>1, <1>2, AggregateByPosting, AggregateByWorker DEF PollerNext

(* Under the same condition the aggregation file holds, for each of its    *)
(* minutes, the rate of all devices together, however many workers write   *)
(* it: no share of a minute comes in a later task, not even of a device    *)
(* the poller had not seen before.                                         *)
THEOREM PollerAggregatesAll ==
  ASSUME ClockStepsBounded PROVE PollerSpec => []AggregateIsComplete
<1>1. AggregateInv => AggregateIsComplete
  BY DEF AggregateInv, AggregateIsComplete, Rate
<1>2. ShapeInv /\ StoredInv /\ CountInv /\ AggregateInv /\ [PollerNext]_pollerVars
        => AggregateInv'
  BY AggregateStep
<1>. QED  BY <1>1, <1>2, AggregateInit, ShapeInvariant, StoredInvariant, PTL
          DEF PollerSpec
-----------------------------------------------------------------------------
(* An accepted update is one of later minutes.                             *)
LEMMA AcceptedIsLater ==
  ASSUME NEW file, file.last_up \in 0 .. MaxMinute,
         NEW values, DOMAIN values \subseteq Minute, W!Accepts(file, values)
  PROVE  /\ DOMAIN values # {} /\ file.exists
         /\ W!Max(DOMAIN values) \in 0 .. MaxMinute
         /\ W!Max(DOMAIN values) \in DOMAIN values
         /\ \A m \in DOMAIN values :
              m > file.last_up /\ m <= W!Max(DOMAIN values)
         /\ file.last_up <= W!Max(DOMAIN values)
<1>. DEFINE S == DOMAIN values
<1>1. S # {} /\ file.exists /\ W!Min(S) > file.last_up
  BY DEF W!Accepts
<1>2. S \subseteq Minute /\ S \subseteq Nat /\ S \subseteq 0 .. MaxMinute
  BY DispatcherAssumption DEF Minute
<1>. HIDE DEF S
<1>3. W!Min(S) \in S /\ \A y \in S : W!Min(S) <= y
  BY <1>1, <1>2, HasMin DEF W!Min
<1>4. W!Max(S) \in S /\ \A y \in S : W!Max(S) >= y
  BY <1>1, <1>2, HasMax, DispatcherAssumption DEF W!Max
<1>. DEFINE lo == W!Min(S)
            hi == W!Max(S)
            last == file.last_up
<1>5. /\ lo \in S /\ hi \in S /\ \A m \in S : m >= lo /\ m <= hi /\ m \in Nat
      /\ lo > last /\ last \in Nat
  BY <1>1, <1>2, <1>3, <1>4, DispatcherAssumption
<1>6. hi \in 0 .. MaxMinute /\ hi \in S
  BY <1>2, <1>4
<1>. HIDE DEF lo, hi, last
<1>7. (\A m \in S : m > last /\ m <= hi) /\ last <= hi
  BY <1>5
<1>. QED  BY <1>1, <1>6, <1>7 DEF S, hi, last

(* TBB runs one worker: settled before the poller starts, and in a state.  *)
OneWorker == \A p \in Pools : \A v, w \in p : v = w

SinglePool == \A v, w \in pool : v = w

(* A file's minutes are not later than its last update.                    *)
FileIsOrdered(file) ==
  /\ file.last_up \in 0 .. MaxMinute
  /\ \A m \in DOMAIN file.data : m \in Minute /\ m <= file.last_up
  /\ ~ file.exists => DOMAIN file.data = {}

(* Why HistoryKept holds: a worker creates a file that is not there.       *)
FilesInv ==
  /\ \A w \in Workers : w \notin pool => task[w].step = "idle"
  /\ \A w \in Workers :
       task[w].step = "create" => ~ files[Head(task[w].ips)].exists
  /\ \A f \in Files : FileIsOrdered(files[f])

LEMMA CreatedIsOrdered == FileIsOrdered(W!Created)
BY CreatedFile, DispatcherAssumption DEF FileIsOrdered

(* An update appends to a file or leaves it alone.                         *)
LEMMA UpdatedIsOrdered ==
  ASSUME NEW file, FileIsOrdered(file),
         DOMAIN file = {"exists", "last_up", "data"},
         NEW values, DOMAIN values \subseteq Minute
  PROVE  /\ FileIsOrdered(W!Updated(file, values))
         /\ \A m \in DOMAIN file.data :
              /\ m \in DOMAIN W!Updated(file, values).data
              /\ W!Updated(file, values).data[m] = file.data[m]
<1>. DEFINE new == W!Updated(file, values)
            last == W!Max(DOMAIN values)
<1>1. CASE ~ W!Accepts(file, values)
  BY <1>1, UpdatedFile
<1>2. CASE W!Accepts(file, values)
  <2>1. /\ file.exists /\ last \in 0 .. MaxMinute
        /\ \A m \in DOMAIN values : m > file.last_up /\ m <= last
        /\ file.last_up <= last
    BY <1>2, AcceptedIsLater DEF FileIsOrdered
  <2>2. /\ new.data = W!Merge(file.data, values)
        /\ new.last_up = last /\ new.exists = file.exists
    BY <1>2, UpdatedFile
  <2>. HIDE DEF new, last
  <2>3. /\ DOMAIN new.data = DOMAIN file.data \cup DOMAIN values
        /\ \A m \in DOMAIN new.data :
             new.data[m] = IF m \in DOMAIN values THEN values[m] ELSE file.data[m]
    BY <2>2 DEF W!Merge
  <2>4. \A m \in DOMAIN file.data :
          m \in Minute /\ m <= file.last_up /\ m <= last /\ m \notin DOMAIN values
    BY <2>1, DispatcherAssumption DEF FileIsOrdered, Minute
  <2>5. \A m \in DOMAIN new.data : m \in Minute /\ m <= new.last_up
    BY <2>1, <2>2, <2>3, <2>4
  <2>6. FileIsOrdered(new)
    BY <2>1, <2>2, <2>5 DEF FileIsOrdered
  <2>. QED  BY <2>3, <2>4, <2>6 DEF new
<1>. QED  BY <1>1, <1>2

(* The values of a task's batch are of minutes.                            *)
LEMMA ValuesOfTask ==
  ASSUME NEW t, TaskOK(t), t.step # "idle"
  PROVE  /\ \A ip \in Ip : DOMAIN W!IpValues(t.batch, ip) = DOMAIN t.batch.received[ip]
         /\ \A ip \in Ip : DOMAIN W!IpValues(t.batch, ip) \subseteq Minute
         /\ DOMAIN W!AggregateValues(t.batch) =
              UNION {DOMAIN t.batch.received[ip] : ip \in Ip}
         /\ DOMAIN W!AggregateValues(t.batch) \subseteq Minute
<1>1. \A ip \in Ip : DOMAIN t.batch.received[ip] \subseteq Minute
  BY DEF TaskOK, IsBatch, IsMeps
<1>2. \A ip \in Ip : DOMAIN W!IpValues(t.batch, ip) = DOMAIN t.batch.received[ip]
  BY DEF W!IpValues
<1>3. DOMAIN W!AggregateValues(t.batch) = UNION {DOMAIN t.batch.received[ip] : ip \in Ip}
  BY DEF W!AggregateValues
<1>. QED  BY <1>1, <1>2, <1>3

(* What the step of a worker does to a file with values.                   *)
LEMMA FileStepKeeps ==
  ASSUME NEW t, TaskOK(t), NEW f \in Files, NEW old, NEW new,
         FileIsOrdered(old), DOMAIN old = {"exists", "last_up", "data"},
         FileStep(t, f, old, new),
         t.step = "create" /\ f = Head(t.ips) => ~ old.exists
  PROVE  /\ FileIsOrdered(new)
         /\ \A m \in DOMAIN old.data :
              m \in DOMAIN new.data /\ new.data[m] = old.data[m]
<1>1. CASE new = old
  BY <1>1
<1>2. CASE t.step = "create" /\ f = Head(t.ips) /\ new = W!Created
  <2>1. DOMAIN old.data = {}
    BY <1>2 DEF FileIsOrdered
  <2>. QED  BY <1>2, <2>1, CreatedIsOrdered
<1>3. CASE t.step = "update" /\ f = Head(t.ips)
           /\ new = W!Updated(old, W!IpValues(t.batch, f))
  <2>1. f \in Ip
    BY <1>3, HeadOfIps DEF TaskOK
  <2>2. DOMAIN W!IpValues(t.batch, f) \subseteq Minute
    BY <1>3, <2>1, ValuesOfTask
  <2>. QED  BY <1>3, <2>2, UpdatedIsOrdered
<1>4. CASE t.step = "aggregate" /\ f = Aggregation
           /\ new = W!Updated(old, W!AggregateValues(t.batch))
  <2>1. DOMAIN W!AggregateValues(t.batch) \subseteq Minute
    BY <1>4, ValuesOfTask
  <2>. QED  BY <1>4, <2>1, UpdatedIsOrdered
<1>. QED  BY <1>1, <1>2, <1>3, <1>4 DEF FileStep

LEMMA FilesInit == PollerInit => FilesInv
<1>. SUFFICES ASSUME PollerInit PROVE FilesInv
  OBVIOUS
<1>1. /\ \A w \in Workers : task[w] = W!Idle
      /\ \A f \in Files : files[f] = W!Absent
  BY DEF PollerInit, W!Init, Files
<1>2. FileIsOrdered(W!Absent)
  BY DispatcherAssumption DEF W!Absent, FileIsOrdered
<1>. QED  BY <1>1, <1>2, IdleIsOK DEF FilesInv

(* A stored minute stays as it is.                                         *)
HistoryStep ==
  \A f \in Files : \A m \in DOMAIN files[f].data :
    m \in DOMAIN files'[f].data /\ files'[f].data[m] = files[f].data[m]

LEMMA FilesStep ==
  ASSUME SinglePool, ShapeInv, TypeOK, FilesInv, [PollerNext]_pollerVars
  PROVE  FilesInv' /\ HistoryStep
<1>1. CASE Capturing \/ UNCHANGED pollerVars
  BY <1>1, CapturingIsElsewhere DEF FilesInv, HistoryStep
<1>2. CASE CrashAndRestart
  <2>1. \A w \in Workers : task'[w].step = "idle"
    BY <1>2, CrashedPoller, IdleIsOK
  <2>. QED  BY <1>2, <2>1, CrashedPoller DEF FilesInv, HistoryStep
<1>3. CASE Posting
  <2>1. /\ task' = task /\ pool' = pool
        /\ \A ip \in Ip : files'[ip] = files[ip]
        /\ \/ files'[Aggregation] = files[Aggregation]
           \/ ~ files[Aggregation].exists /\ files'[Aggregation] = W!Created
    BY <1>3, PostingOnFiles
  <2>2. \A w \in Workers : task[w].step = "create" => Head(task[w].ips) \in Ip
    BY HeadOfIps DEF ShapeInv, TaskOK
  <2>3. \A f \in Files :
          \/ files'[f] = files[f]
          \/ DOMAIN files[f].data = {} /\ files'[f] = W!Created
    <3>1. ~ files[Aggregation].exists => DOMAIN files[Aggregation].data = {}
      BY DEF FilesInv, FileIsOrdered, Files
    <3>. QED  BY <2>1, <3>1 DEF Files
  <2>4. \A f \in Files : FileIsOrdered(files'[f])
    BY <2>3, CreatedIsOrdered DEF FilesInv
  <2>5. HistoryStep
    BY <2>3 DEF HistoryStep
  <2>. QED  BY <2>1, <2>2, <2>4, <2>5 DEF FilesInv
<1>4. ASSUME NEW w \in Workers, Writing(w) PROVE FilesInv' /\ HistoryStep
  <2>1. w \in pool /\ pool' = pool
    BY <1>4 DEF Writing
  <2>2. /\ \A v \in Workers : v # w => task'[v] = task[v]
        /\ TaskStep(task[w], task'[w]) /\ TaskOK(task[w])
    BY <1>4, WorkOnTask DEF ShapeInv
  <2>3. \A v \in Workers : v # w => v \notin pool /\ task[v].step = "idle"
    BY <2>1 DEF SinglePool, FilesInv
  <2>4. ASSUME NEW f \in Files
        PROVE  /\ FileIsOrdered(files'[f])
               /\ \A m \in DOMAIN files[f].data :
                    /\ m \in DOMAIN files'[f].data
                    /\ files'[f].data[m] = files[f].data[m]
    <3>1. /\ FileIsOrdered(files[f]) /\ DOMAIN files[f] = {"exists", "last_up", "data"}
          /\ FileStep(task[w], f, files[f], files'[f])
          /\ task[w].step = "create" /\ f = Head(task[w].ips) => ~ files[f].exists
      BY <1>4, WorkOnFiles DEF FilesInv, ShapeInv
    <3>. QED  BY <2>2, <3>1, FileStepKeeps
  <2>5. task'[w].step = "create" => ~ files'[Head(task'[w].ips)].exists
    BY <2>2, TaskStarts, TaskGoesOn
  <2>6. FilesInv'
    BY <2>1, <2>2, <2>3, <2>4, <2>5 DEF FilesInv
  <2>7. HistoryStep
    BY <2>4 DEF HistoryStep
  <2>. QED  BY <2>6, <2>7
<1>. QED  BY <1>1, <1>2, <1>3, <1>4 DEF PollerNext

LEMMA PoolIsSettled ==
  ASSUME [PollerNext]_pollerVars PROVE pool' = pool
BY CrashedPoller, CapturingIsElsewhere
   DEF PollerNext, Posting, Writing, pollerVars

LEMMA PoolInvariant == PollerSpec => [](pool \in Pools)
<1>1. PollerInit => pool \in Pools
  BY DEF PollerInit
<1>2. pool \in Pools /\ [PollerNext]_pollerVars => (pool \in Pools)'
  BY PoolIsSettled
<1>. QED  BY <1>1, <1>2, PTL DEF PollerSpec

LEMMA FilesInvariant == PollerSpec => [](SinglePool => FilesInv)
<1>1. (SinglePool => FilesInv) /\ ShapeInv /\ TypeInv /\ [PollerNext]_pollerVars
        => (SinglePool => FilesInv)'
  <2>. SUFFICES ASSUME SinglePool => FilesInv, ShapeInv, TypeInv,
                       [PollerNext]_pollerVars, SinglePool'
                PROVE  FilesInv'
    OBVIOUS
  <2>1. SinglePool
    BY PoolIsSettled DEF SinglePool
  <2>. QED  BY <2>1, FilesStep DEF TypeInv
<1>. QED  BY <1>1, FilesInit, ShapeInvariant, PTL DEF PollerSpec

LEMMA SingleWorker == ASSUME OneWorker PROVE PollerSpec => []SinglePool
<1>1. pool \in Pools => SinglePool
  BY DEF OneWorker, SinglePool
<1>. QED  BY <1>1, PoolInvariant, PTL

(* With one worker a stored minute is never lost or changed, whatever the  *)
(* clock does, whichever call of librrd fails and wherever the process     *)
(* dies: rrd_create_r never meets a file that is there.                    *)
THEOREM PollerKeepsHistory ==
  ASSUME OneWorker PROVE PollerSpec => HistoryKept
<1>1. SinglePool /\ (SinglePool => FilesInv) /\ ShapeInv /\ TypeInv
        /\ [PollerNext]_pollerVars
        => [\A f \in Ip \cup {Aggregation} : \A m \in DOMAIN files[f].data :
              /\ m \in DOMAIN files'[f].data
              /\ files'[f].data[m] = files[f].data[m]]_files
  BY FilesStep DEF HistoryStep, Files, TypeInv
<1>. QED  BY <1>1, FilesInvariant, ShapeInvariant, SingleWorker, PTL
          DEF PollerSpec, HistoryKept
-----------------------------------------------------------------------------
StoredMeps ==
  [ip \in Ip |-> [m \in DOMAIN files[ip].data |-> files[ip].data[m].mep]]

(* The files have what they had: the archive does not move.                *)
LEMMA ArchiveStands ==
  ASSUME \A ip \in Ip :
           \/ files'[ip].data = files[ip].data
           \/ DOMAIN files'[ip].data = {} /\ DOMAIN files[ip].data = {},
         posted' = posted
  PROVE  UNCHANGED Archive!vars
<1>1. StoredMeps' = StoredMeps
  BY DEF StoredMeps
<1>. QED  BY <1>1 DEF Archive!vars, StoredMeps

(* An accepted update of a device's file moves it.                         *)
LEMMA FileUpdated ==
  ASSUME ShapeInv, FilesInv, StoredInv,
         NEW ip \in Ip, NEW w \in Workers, task[w].step # "idle",
         W!Accepts(files[ip], W!IpValues(task[w].batch, ip)),
         files'[ip] = W!Updated(files[ip], W!IpValues(task[w].batch, ip)),
         \A jp \in Ip : jp # ip => files'[jp] = files[jp],
         posted' = posted, posted \in [Ip -> [Minute -> Nat]]
  PROVE  Archive!Next
<1>. DEFINE values == W!IpValues(task[w].batch, ip)
            old == files[ip].data
            last == files[ip].last_up
<1>1. /\ DOMAIN files[ip] = {"exists", "last_up", "data"}
      /\ TaskOK(task[w]) /\ BatchIsFinal(task[w].batch, posted)
      /\ FileIsOrdered(files[ip])
  BY DEF StoredInv, ShapeInv, FilesInv, Files
<1>2. /\ last \in 0 .. MaxMinute
      /\ \A m \in DOMAIN old : m <= last /\ m \in Minute
  BY <1>1 DEF FileIsOrdered
<1>3. \A m \in DOMAIN values : m \in Minute /\ values[m].mep = posted[ip][m]
                                /\ posted[ip][m] > 0
  <2>1. \A m \in DOMAIN values :
          /\ m \in DOMAIN task[w].batch.received[ip]
          /\ values[m].mep = task[w].batch.received[ip][m]
    BY DEF W!IpValues
  <2>2. \A m \in DOMAIN task[w].batch.received[ip] :
          /\ m \in Minute
          /\ posted[ip][m] = task[w].batch.received[ip][m]
          /\ task[w].batch.received[ip][m] >= 1
    BY <1>1 DEF BatchIsFinal, IsFinal
  <2>. HIDE DEF values
  <2>. QED  BY <2>1, <2>2
<1>. HIDE DEF values
<1>4. W!Accepts(files[ip], values) /\ files'[ip] = W!Updated(files[ip], values)
  BY DEF values
<1>5. files'[ip].data = W!Merge(old, values)
  <2>1. W!Updated(files[ip], values).data = W!Merge(files[ip].data, values)
    BY <1>1, <1>4, UpdatedFile
  <2>. QED  BY <1>4, <2>1
<1>6. DOMAIN values # {} /\ \A m \in DOMAIN values : m > last
  <2>1. DOMAIN values \subseteq Minute /\ files[ip].last_up \in 0 .. MaxMinute
    BY <1>2, <1>3
  <2>. QED  BY <1>4, <2>1, AcceptedIsLater, Zenon
<1>. HIDE DEF last
<1>7. /\ DOMAIN files'[ip].data = DOMAIN old \cup DOMAIN values
      /\ \A m \in DOMAIN files'[ip].data :
           files'[ip].data[m] = IF m \in DOMAIN values THEN values[m] ELSE old[m]
  BY <1>5 DEF W!Merge
<1>8. \A m \in DOMAIN values : \A n \in DOMAIN old : m > n
  <2>1. /\ \A m \in DOMAIN values : m \in Nat /\ m > last
        /\ \A n \in DOMAIN old : n \in Nat /\ n <= last
        /\ last \in Nat
    BY <1>2, <1>3, <1>6, DispatcherAssumption DEF Minute
  <2>. HIDE DEF old
  <2>. QED  BY <2>1
<1>9. StoredMeps' = [StoredMeps EXCEPT
        ![ip] = [m \in DOMAIN StoredMeps[ip] \cup DOMAIN values |->
                   IF m \in DOMAIN values THEN posted[ip][m] ELSE StoredMeps[ip][m]]]
  <2>1. StoredMeps'[ip] = [m \in DOMAIN StoredMeps[ip] \cup DOMAIN values |->
                   IF m \in DOMAIN values THEN posted[ip][m] ELSE StoredMeps[ip][m]]
    BY <1>3, <1>7 DEF StoredMeps
  <2>2. \A jp \in Ip : jp # ip => StoredMeps'[jp] = StoredMeps[jp]
    BY DEF StoredMeps
  <2>3. /\ StoredMeps = [jp \in Ip |-> StoredMeps[jp]]
        /\ StoredMeps' = [jp \in Ip |-> StoredMeps'[jp]]
    BY DEF StoredMeps
  <2>. QED  BY <2>1, <2>2, <2>3
<1>. DEFINE new == DOMAIN StoredMeps'[ip] \ DOMAIN StoredMeps[ip]
<1>10. new = DOMAIN values
  <2>1. /\ DOMAIN StoredMeps'[ip] = DOMAIN old \cup DOMAIN values
        /\ DOMAIN StoredMeps[ip] = DOMAIN old
    BY <1>7 DEF StoredMeps
  <2>2. \A m \in DOMAIN values : m \notin DOMAIN old
    <3>1. \A m \in DOMAIN values : m \in Nat
      BY <1>3, DispatcherAssumption DEF Minute
    <3>2. \A m \in DOMAIN values : ~ (m > m)
      BY <3>1
    <3>. HIDE DEF old
    <3>. QED  BY <1>8, <3>2
  <2>. QED  BY <2>1, <2>2
<1>11. \A m \in DOMAIN values : \A n \in DOMAIN StoredMeps[ip] : m > n
  BY <1>8 DEF StoredMeps
<1>. HIDE DEF new
<1>12. Archive!Store(ip, new)
  BY <1>3, <1>6, <1>9, <1>10, <1>11 DEF Archive!Store, StoredMeps
<1>. QED  BY <1>12, Zenon DEF Archive!Next, StoredMeps, new

(* What a step of the only worker does to the archive: one update that is  *)
(* accepted moves it, everything else leaves it as it is.                  *)
LEMMA ArchivedByWorker ==
  ASSUME ShapeInv, FilesInv, StoredInv, posted \in [Ip -> [Minute -> Nat]],
         NEW w \in Workers, Writing(w)
  PROVE  [Archive!Next]_(Archive!vars)
<1>. DEFINE ip == Head(task[w].ips)
            values == W!IpValues(task[w].batch, ip)
<1>1. /\ posted' = posted
      /\ \A f \in Files : DOMAIN files[f] = {"exists", "last_up", "data"}
      /\ \A f \in Files : FileStep(task[w], f, files[f], files'[f])
      /\ \A jp \in Ip : jp \in Files /\ jp # Aggregation
  BY WorkOnFiles, PollerAssumption DEF Writing, ShapeInv, Files
<1>2. \A jp \in Ip : jp # ip => files'[jp] = files[jp]
  BY <1>1 DEF FileStep
<1>3. CASE task[w].step = "update" /\ ip \in Ip /\ W!Accepts(files[ip], values)
           /\ files'[ip] = W!Updated(files[ip], values)
  BY <1>1, <1>2, <1>3, FileUpdated
<1>4. CASE ~ (/\ task[w].step = "update" /\ ip \in Ip /\ W!Accepts(files[ip], values)
              /\ files'[ip] = W!Updated(files[ip], values))
  <2>. SUFFICES ASSUME ip \in Ip
                PROVE  \/ files'[ip].data = files[ip].data
                       \/ DOMAIN files'[ip].data = {} /\ DOMAIN files[ip].data = {}
    BY <1>1, <1>2, ArchiveStands
  <2>1. CASE files'[ip] = files[ip]
    BY <2>1
  <2>2. CASE task[w].step = "create" /\ files'[ip] = W!Created
    <3>1. DOMAIN files[ip].data = {}
      BY <1>1, <2>2 DEF FilesInv, FileIsOrdered
    <3>. QED  BY <2>2, <3>1, CreatedFile
  <2>3. CASE task[w].step = "update" /\ files'[ip] = W!Updated(files[ip], values)
    <3>1. ~ W!Accepts(files[ip], values)
      BY <1>4, <2>3
    <3>. QED  BY <2>3, <3>1 DEF W!Updated
  <2>. QED  BY <1>1, <2>1, <2>2, <2>3 DEF FileStep
<1>. QED  BY <1>3, <1>4

(* A posting adds later minutes to all posted before and writes no device's*)
(* file.                                                                   *)
LEMMA ArchivedByPosting ==
  ASSUME ShapeInv, CountInv, Posting
  PROVE  [Archive!Next]_(Archive!vars)
<1>. DEFINE b == Batch(max_update_time')
<1>1. EnqueueWriteRRDs /\ b = Batch(max_update_time')
  BY DEF Posting
<1>2. \A ip \in Ip : files'[ip] = files[ip]
  BY PostingOnFiles
<1>. HIDE DEF b
<1>3. /\ watermark \in Nat
      /\ \A ip \in Ip, m \in Minute :
           posted'[ip][m] = IF m < watermark THEN posted[ip][m]
                            ELSE IF m \in DOMAIN b.received[ip]
                                 THEN b.received[ip][m] ELSE 0
  BY <1>1, PostedBatch
<1>4. \A ip \in Ip, m \in Minute :
        m \in Nat /\ (posted[ip][m] > 0 => m < watermark)
  BY DispatcherAssumption DEF CountInv, MinutesClose, Minute
<1>5. \A ip \in Ip, m \in Minute :
        posted[ip][m] > 0 => posted'[ip][m] = posted[ip][m]
  BY <1>3, <1>4
<1>6. \A ip \in Ip, m \in Minute :
        posted'[ip][m] > 0 /\ ~ (posted[ip][m] > 0) => ~ (m < watermark)
  BY <1>3
<1>7. CASE posted' = posted
  BY <1>2, <1>7, ArchiveStands
<1>8. CASE posted' # posted
  <2>1. \A ip \in Ip : \A m \in Archive!Posted(ip) : posted'[ip][m] = posted[ip][m]
    BY <1>5 DEF Archive!Posted
  <2>2. \A ip, jp \in Ip :
          \A m \in Archive!Posted(ip)' \ Archive!Posted(ip), n \in Archive!Posted(jp) :
            m > n
    <3>1. ASSUME NEW ip \in Ip, NEW jp \in Ip, NEW m \in Minute, NEW n \in Minute,
                 ~ (m < watermark), n < watermark
          PROVE  m > n
      BY <1>3, <1>4, <3>1
    <3>2. \A ip \in Ip : \A m \in Archive!Posted(ip)' \ Archive!Posted(ip) :
            m \in Minute /\ ~ (m < watermark)
      BY <1>6 DEF Archive!Posted
    <3>3. \A jp \in Ip : \A n \in Archive!Posted(jp) : n \in Minute /\ n < watermark
      BY <1>4 DEF Archive!Posted
    <3>. QED  BY <3>1, <3>2, <3>3
  <2>3. StoredMeps' = StoredMeps
    BY <1>2 DEF StoredMeps
  <2>4. Archive!Post
    BY <1>8, <2>1, <2>2, <2>3 DEF Archive!Post, StoredMeps
  <2>. QED  BY <2>4 DEF Archive!Next
<1>. QED  BY <1>7, <1>8

LEMMA ArchiveStep ==
  ASSUME ShapeInv, FilesInv, StoredInv, CountInv, [PollerNext]_pollerVars
  PROVE  [Archive!Next]_(Archive!vars)
<1>1. CASE Posting
  BY <1>1, ArchivedByPosting
<1>2. CASE Capturing \/ UNCHANGED pollerVars
  BY <1>2, CapturingIsElsewhere, ArchiveStands
<1>3. ASSUME NEW w \in Workers, Writing(w) PROVE [Archive!Next]_(Archive!vars)
  BY <1>3, ArchivedByWorker DEF CountInv, TypeInv, TypeOK
<1>4. CASE CrashAndRestart
  BY <1>4, CrashedPoller, ArchiveStands
<1>. QED  BY <1>1, <1>2, <1>3, <1>4 DEF PollerNext

LEMMA ArchiveInit == PollerInit => Archive!Init
<1>. SUFFICES ASSUME PollerInit PROVE Archive!Init
  OBVIOUS
<1>1. posted = [ip \in Ip |-> [m \in Minute |-> 0]]
  BY DEF PollerInit, Init, NoPackets
<1>2. \A ip \in Ip : files[ip].data = << >>
  BY DEF PollerInit, W!Init, W!Absent
<1>3. StoredMeps = [ip \in Ip |-> << >>]
  <2>1. \A ip \in Ip : [m \in DOMAIN files[ip].data |-> files[ip].data[m].mep] = << >>
    BY <1>2
  <2>. QED  BY <2>1 DEF StoredMeps
<1>. QED  BY <1>1, <1>3 DEF Archive!Init, StoredMeps

(* With one worker, and while the clock is never set back by more than a   *)
(* minute stays open, a device's file is an archive: it grows at its end   *)
(* only, by minutes with their final counts, in the order in which they    *)
(* were posted, whichever call of librrd fails and wherever the process    *)
(* dies.                                                                   *)
THEOREM PollerImplementsArchive ==
  ASSUME ClockStepsBounded, OneWorker
  PROVE  PollerSpec => ImplementsArchive
<1>1. SinglePool /\ (SinglePool => FilesInv) /\ ShapeInv /\ StoredInv /\ CountInv
        /\ [PollerNext]_pollerVars => [Archive!Next]_(Archive!vars)
  BY ArchiveStep
<1>. QED  BY <1>1, FilesInvariant, ShapeInvariant, StoredInvariant, SingleWorker,
             ArchiveInit, PTL
          DEF PollerSpec, ImplementsArchive, Archive!Spec
-----------------------------------------------------------------------------
(* The minutes of a batch, compared with the last update of a file and     *)
(* with the minutes of another batch.                                      *)
After(b, last) == \A ip \in Ip : \A m \in DOMAIN b.received[ip] : m > last

Earlier(b, c) ==
  \A ip, jp \in Ip : \A m \in DOMAIN b.received[ip], n \in DOMAIN c.received[jp] :
    m < n

(* Why librrd has no reason to refuse an update: the tasks are in the order*)
(* of their minutes, and later than what the files have.                   *)
OrderInv ==
  /\ \A f \in Files : files[f].last_up = 0 \/ files[f].last_up < watermark
  /\ \A i \in DOMAIN queue : \A f \in Files : After(queue[i], files[f].last_up)
  /\ \A i, j \in DOMAIN queue : i < j => Earlier(queue[i], queue[j])
  /\ \A w \in Workers : task[w].step # "idle" =>
       \A i \in DOMAIN queue : Earlier(task[w].batch, queue[i])
  /\ \A w \in Workers : task[w].step = "aggregate" =>
       After(task[w].batch, files[Aggregation].last_up)
  /\ \A w \in Workers : task[w].step # "idle" =>
       \A i \in DOMAIN task[w].ips :
         \A m \in DOMAIN task[w].batch.received[task[w].ips[i]] :
           m > files[task[w].ips[i]].last_up

LEMMA OrderInit == PollerInit => OrderInv
<1>. SUFFICES ASSUME PollerInit PROVE OrderInv
  OBVIOUS
<1>1. /\ \A w \in Workers : task[w].step = "idle"
      /\ \A f \in Files : files[f].last_up = 0
      /\ queue = << >>
  BY IdleIsOK DEF PollerInit, Init, W!Init, W!Absent, Files
<1>. QED  BY <1>1 DEF OrderInv

(* What is left of the queue, and where it was.                            *)
LEMMA TailedQueue ==
  ASSUME TypeOK, queue # << >>, queue' = Tail(queue)
  PROVE  /\ 1 \in DOMAIN queue /\ Head(queue) = queue[1]
         /\ \A i \in DOMAIN queue' :
              i + 1 \in DOMAIN queue /\ queue'[i] = queue[i + 1] /\ 1 < i + 1
         /\ \A i, j \in DOMAIN queue' : i < j => i + 1 < j + 1
         /\ \A i \in DOMAIN queue :
              i = 1 \/ (i - 1 \in DOMAIN queue' /\ queue'[i - 1] = queue[i])
<1>. DEFINE S == {queue[i] : i \in DOMAIN queue}
            q == Tail(queue)
<1>1. queue \in Seq(S) /\ queue # << >>
  BY DEF TypeOK
<1>. HIDE DEF S
<1>2. /\ Len(queue) \in Nat /\ Len(queue) >= 1
      /\ DOMAIN queue = 1 .. Len(queue) /\ DOMAIN q = 1 .. (Len(queue) - 1)
      /\ \A i \in 1 .. (Len(queue) - 1) : q[i] = queue[i + 1]
      /\ Head(queue) = queue[1]
  BY <1>1
<1>. HIDE DEF q
<1>3. \A i \in DOMAIN q : i + 1 \in DOMAIN queue /\ q[i] = queue[i + 1] /\ 1 < i + 1
  BY <1>2
<1>4. ASSUME NEW i \in DOMAIN queue, i # 1
      PROVE  i - 1 \in DOMAIN q /\ q[i - 1] = queue[i]
  <2>1. i - 1 \in 1 .. (Len(queue) - 1) /\ (i - 1) + 1 = i
    BY <1>2, <1>4
  <2>2. q[i - 1] = queue[(i - 1) + 1]
    BY <1>2, <2>1
  <2>. QED  BY <1>2, <2>1, <2>2
<1>5. \A i, j \in DOMAIN q : i < j => i + 1 < j + 1
  BY <1>2
<1>6. q = queue'
  BY DEF q
<1>. QED  BY <1>2, <1>3, <1>4, <1>5, <1>6

(* An update moves a file's last update to a minute of the batch.          *)
LEMMA FileStepLast ==
  ASSUME NEW t, TaskOK(t), NEW f \in Files, NEW old, NEW new,
         FileIsOrdered(old), DOMAIN old = {"exists", "last_up", "data"},
         FileStep(t, f, old, new)
  PROVE  \/ new.last_up = old.last_up
         \/ new.last_up = 0
         \/ /\ \E ip \in Ip : new.last_up \in DOMAIN t.batch.received[ip]
            /\ f = Aggregation \/ (t.step = "update" /\ f = Head(t.ips))
<1>. DEFINE Moved(values) == new.last_up \in DOMAIN values
<1>1. ASSUME NEW values, DOMAIN values \subseteq Minute, new = W!Updated(old, values)
      PROVE  new.last_up = old.last_up \/ Moved(values)
  <2>1. CASE W!Accepts(old, values)
    <3>1. W!Max(DOMAIN values) \in DOMAIN values
      BY <1>1, <2>1, AcceptedIsLater DEF FileIsOrdered
    <3>2. new.last_up = W!Max(DOMAIN values)
      BY <1>1, <2>1, UpdatedFile
    <3>. QED  BY <3>1, <3>2
  <2>2. CASE ~ W!Accepts(old, values)
    BY <1>1, <2>2, UpdatedFile
  <2>. QED  BY <2>1, <2>2
<1>2. CASE t.step = "update" /\ f = Head(t.ips)
           /\ new = W!Updated(old, W!IpValues(t.batch, f))
  <2>1. f \in Ip
    BY <1>2, HeadOfIps DEF TaskOK
  <2>2. /\ DOMAIN W!IpValues(t.batch, f) = DOMAIN t.batch.received[f]
        /\ DOMAIN W!IpValues(t.batch, f) \subseteq Minute
    BY <1>2, <2>1, ValuesOfTask
  <2>. QED  BY <1>1, <1>2, <2>1, <2>2
<1>3. CASE t.step = "aggregate" /\ f = Aggregation
           /\ new = W!Updated(old, W!AggregateValues(t.batch))
  <2>1. /\ DOMAIN W!AggregateValues(t.batch) =
             UNION {DOMAIN t.batch.received[ip] : ip \in Ip}
        /\ DOMAIN W!AggregateValues(t.batch) \subseteq Minute
    BY <1>3, ValuesOfTask
  <2>. QED  BY <1>1, <1>3, <2>1
<1>. QED  BY <1>2, <1>3, CreatedFile DEF FileStep

LEMMA BatchesAreLater ==
  ASSUME NEW b, IsBatch(b)
  PROVE  /\ After(b, 0)
         /\ \A ip \in Ip : DOMAIN b.received[ip] \subseteq Minute
<1>1. \A ip \in Ip : DOMAIN b.received[ip] \subseteq Minute
  BY DEF IsBatch, IsMeps
<1>2. \A m \in Minute : m > 0
  BY DispatcherAssumption DEF Minute
<1>. QED  BY <1>1, <1>2 DEF After

(* The only worker starts a task.                                          *)
LEMMA OrderByStart ==
  ASSUME ShapeInv, TypeOK, OrderInv, NEW w \in Workers, Writing(w),
         \A v \in Workers : v # w => task[v].step = "idle",
         task[w].step = "idle"
  PROVE  OrderInv'
<1>. DEFINE t == task[w]
            u == task'[w]
<1>1. /\ watermark' = watermark
      /\ \A v \in Workers : v # w => task'[v] = task[v]
      /\ TaskOK(u)
  BY WorkOnTask, TaskStepIsOK DEF Writing, ShapeInv
<1>2. /\ queue # << >> /\ queue' = Tail(queue) /\ files' = files
      /\ u.batch = queue[1] /\ 1 \in DOMAIN queue
  BY WorkOnTask, TaskStarts, TailedQueue
<1>3. /\ \A i \in DOMAIN queue' :
           i + 1 \in DOMAIN queue /\ queue'[i] = queue[i + 1] /\ 1 < i + 1
      /\ \A i, j \in DOMAIN queue' : i < j => i + 1 < j + 1
  BY <1>2, TailedQueue
<1>4. \A v \in Workers : task'[v].step # "idle" => v = w
  BY <1>1
<1>5. \A i \in DOMAIN u.ips : u.ips[i] \in Ip /\ u.ips[i] \in Files
  BY <1>1 DEF TaskOK, Files
<1>6. Aggregation \in Files
  BY DEF Files
<1>. HIDE DEF u
<1>7. \A f \in Files : files'[f].last_up = 0 \/ files'[f].last_up < watermark'
  BY <1>1, <1>2 DEF OrderInv
<1>8. \A i \in DOMAIN queue' : \A f \in Files : After(queue'[i], files'[f].last_up)
  BY <1>2, <1>3 DEF OrderInv
<1>9. \A i, j \in DOMAIN queue' : i < j => Earlier(queue'[i], queue'[j])
  BY <1>3 DEF OrderInv
<1>10. \A i \in DOMAIN queue' : Earlier(u.batch, queue'[i])
  BY <1>2, <1>3 DEF OrderInv
<1>11. \A f \in Files : After(u.batch, files'[f].last_up)
  BY <1>2 DEF OrderInv
<1>12. \A i \in DOMAIN u.ips : \A m \in DOMAIN u.batch.received[u.ips[i]] :
         m > files'[u.ips[i]].last_up
  BY <1>5, <1>11 DEF After
<1>. QED  BY <1>4, <1>6, <1>7, <1>8, <1>9, <1>10, <1>11, <1>12 DEF OrderInv, u

(* The only worker goes on with one.                                       *)
LEMMA OrderByWork ==
  ASSUME ShapeInv, CountInv, FilesInv, StoredInv, OrderInv,
         NEW w \in Workers, Writing(w),
         \A v \in Workers : v # w => task[v].step = "idle",
         task[w].step # "idle"
  PROVE  OrderInv'
<1>. DEFINE t == task[w]
            u == task'[w]
            b == t.batch
<1>1. /\ watermark' = watermark /\ queue' = queue /\ TypeOK
      /\ \A v \in Workers : v # w => task'[v] = task[v]
      /\ TaskOK(t) /\ TaskStep(t, u)
  BY WorkOnTask, TaskGoesOn DEF Writing, ShapeInv, CountInv, TypeInv
<1>2. \A v \in Workers : task'[v].step # "idle" => v = w
  BY <1>1
<1>3. /\ u.step # "aggregate"
      /\ u.step # "idle" =>
           u.batch = b /\ u.ips = IF t.step = "update" THEN Tail(t.ips) ELSE t.ips
  BY <1>1, TaskGoesOn
<1>4. IsBatch(b) /\ BatchIsFinal(b, posted)
  BY <1>1 DEF TaskOK, StoredInv
<1>5. ASSUME NEW f \in Files
      PROVE  \/ files'[f].last_up = files[f].last_up
             \/ files'[f].last_up = 0
             \/ /\ \E ip \in Ip : files'[f].last_up \in DOMAIN b.received[ip]
                /\ f = Aggregation \/ (t.step = "update" /\ f = Head(t.ips))
  <2>1. /\ FileIsOrdered(files[f])
        /\ DOMAIN files[f] = {"exists", "last_up", "data"}
        /\ FileStep(t, f, files[f], files'[f])
    BY WorkOnFiles DEF FilesInv, ShapeInv
  <2>2. TaskOK(t)
    BY <1>1
  <2>. HIDE DEF t
  <2>3. \/ files'[f].last_up = files[f].last_up
        \/ files'[f].last_up = 0
        \/ /\ \E ip \in Ip : files'[f].last_up \in DOMAIN t.batch.received[ip]
           /\ f = Aggregation \/ (t.step = "update" /\ f = Head(t.ips))
    BY <2>1, <2>2, FileStepLast
  <2>. QED  BY <2>3
<1>6. \A f \in Files : files'[f].last_up = 0 \/ files'[f].last_up < watermark'
  <2>1. \A ip \in Ip : \A m \in DOMAIN b.received[ip] : m < watermark
    BY <1>4, FinalIsBelow
  <2>. HIDE DEF b, t
  <2>. QED  BY <1>1, <1>5, <2>1 DEF OrderInv
<1>7. ASSUME NEW i \in DOMAIN queue', NEW f \in Files
      PROVE  After(queue'[i], files'[f].last_up)
  <2>1. /\ i \in DOMAIN queue /\ queue'[i] = queue[i] /\ IsBatch(queue[i])
        /\ After(queue[i], files[f].last_up) /\ Earlier(b, queue[i])
        /\ After(queue[i], 0)
    BY <1>1, <1>7, BatchesAreLater DEF OrderInv, TypeOK
  <2>2. \A ip \in Ip : \A m \in DOMAIN b.received[ip] : After(queue[i], m)
    <3>1. \A ip \in Ip : \A m \in DOMAIN b.received[ip] : m \in Nat
      BY <1>4, BatchesAreLater, DispatcherAssumption DEF Minute
    <3>2. \A ip \in Ip : \A m \in DOMAIN queue[i].received[ip] : m \in Nat
      BY <2>1, BatchesAreLater, DispatcherAssumption DEF Minute
    <3>. HIDE DEF b
    <3>. QED  BY <2>1, <3>1, <3>2 DEF Earlier, After
  <2>. HIDE DEF b, t
  <2>. QED  BY <1>5, <2>1, <2>2
<1>8. \A i, j \in DOMAIN queue' : i < j => Earlier(queue'[i], queue'[j])
  BY <1>1 DEF OrderInv
<1>9. u.step # "idle" => \A i \in DOMAIN queue' : Earlier(u.batch, queue'[i])
  BY <1>1, <1>3 DEF OrderInv
<1>10. ASSUME u.step # "idle", NEW i \in DOMAIN u.ips,
              NEW m \in DOMAIN u.batch.received[u.ips[i]]
       PROVE  m > files'[u.ips[i]].last_up
  <2>. DEFINE ip == u.ips[i]
  <2>1. /\ \E j \in DOMAIN t.ips : t.ips[j] = ip
        /\ t.step = "update" => ip # Head(t.ips)
    <3>1. CASE t.step = "update"
      <4>1. u.ips = Tail(t.ips) /\ t.ips # << >>
        BY <1>1, <1>3, <1>10, <3>1 DEF TaskOK
      <4>. HIDE DEF t, u
      <4>2. /\ i + 1 \in DOMAIN t.ips /\ Tail(t.ips)[i] = t.ips[i + 1]
            /\ Tail(t.ips)[i] # Head(t.ips)
        BY <1>1, <1>10, <4>1, HeadOfIps
      <4>. QED  BY <4>1, <4>2
    <3>2. CASE t.step # "update"
      BY <1>3, <1>10, <3>2
    <3>. QED  BY <3>1, <3>2
  <2>2. ip \in Ip /\ ip \in Files /\ ip # Aggregation
    BY <1>1, <2>1, PollerAssumption DEF TaskOK, Files
  <2>3. m \in DOMAIN b.received[ip]
    BY <1>3, <1>10
  <2>4. m > files[ip].last_up
    BY <2>1, <2>3 DEF OrderInv
  <2>5. m > 0
    BY <1>4, <2>2, <2>3, BatchesAreLater DEF After
  <2>. HIDE DEF ip, b, t, u
  <2>6. files'[ip].last_up = files[ip].last_up \/ files'[ip].last_up = 0
    BY <1>5, <2>1, <2>2
  <2>7. m > files'[ip].last_up
    BY <2>4, <2>5, <2>6
  <2>. QED  BY <2>7 DEF ip
<1>. HIDE DEF b, t
<1>. QED  BY <1>2, <1>3, <1>6, <1>7, <1>8, <1>9, <1>10 DEF OrderInv

LEMMA OrderByPosting ==
  ASSUME ShapeInv, CountInv, FilesInv, StoredInv, OrderInv, Posting
  PROVE  OrderInv'
<1>. DEFINE b == Batch(max_update_time')
            n == Len(queue) + 1
<1>1. EnqueueWriteRRDs /\ queue' = Append(queue, b) /\ b = Batch(max_update_time')
  BY DEF Posting, EnqueueWriteRRDs
<1>. HIDE DEF b
<1>2. /\ watermark \in Nat /\ watermark' \in Nat /\ watermark' > watermark
      /\ \A ip \in Ip : \A m \in DOMAIN b.received[ip] : m \in Minute /\ m >= watermark
  BY <1>1, PostedBatch
<1>3. /\ DOMAIN queue' = DOMAIN queue \cup {n}
      /\ queue'[n] = b
      /\ \A i \in DOMAIN queue : queue'[i] = queue[i] /\ i < n /\ i \in Nat
      /\ n \in Nat /\ TypeOK
  BY <1>1, PostedQueue DEF CountInv, TypeInv
<1>. HIDE DEF n
<1>4. \A m \in Minute : m \in Nat /\ m > 0
  BY DispatcherAssumption DEF Minute
<1>5. ASSUME NEW f \in Files
      PROVE  /\ files'[f].last_up = files[f].last_up \/ files'[f].last_up = 0
             /\ f \in Ip => files'[f] = files[f]
  BY PostingOnFiles, CreatedFile DEF Files
<1>6. ASSUME NEW f \in Files
      PROVE  /\ files'[f].last_up \in Nat
             /\ files'[f].last_up = 0 \/ files'[f].last_up < watermark
  <2>1. files[f].last_up \in Nat
    BY DispatcherAssumption DEF FilesInv, FileIsOrdered
  <2>2. files[f].last_up = 0 \/ files[f].last_up < watermark
    BY DEF OrderInv
  <2>. QED  BY <1>5, <2>1, <2>2
<1>7. ASSUME NEW f \in Files PROVE After(b, files'[f].last_up)
  <2>. DEFINE last == files'[f].last_up
  <2>1. last \in Nat /\ (last = 0 \/ last < watermark)
    BY <1>6
  <2>2. \A ip \in Ip : \A m \in DOMAIN b.received[ip] :
          m \in Nat /\ m > 0 /\ m >= watermark
    BY <1>2, <1>4
  <2>. HIDE DEF last
  <2>3. After(b, last)
    BY <1>2, <2>1, <2>2 DEF After
  <2>. QED  BY <2>3 DEF last
<1>8. ASSUME NEW c, BatchIsFinal(c, posted) PROVE Earlier(c, b)
  <2>. SUFFICES ASSUME NEW ip \in Ip, NEW jp \in Ip,
                       NEW m \in DOMAIN c.received[ip], NEW k \in DOMAIN b.received[jp]
                PROVE  m < k
    BY DEF Earlier
  <2>1. m \in Nat /\ m < watermark
    BY <1>4, <1>8, FinalIsBelow
  <2>2. k \in Nat /\ k >= watermark
    BY <1>2, <1>4
  <2>. QED  BY <1>2, <2>1, <2>2
<1>9. ASSUME NEW c, NEW f \in Files, After(c, files[f].last_up), After(c, 0)
      PROVE  After(c, files'[f].last_up)
  BY <1>5, <1>9
<1>10. task' = task
  BY PostingOnFiles
<1>11. \A f \in Files : files'[f].last_up = 0 \/ files'[f].last_up < watermark'
  BY <1>2, <1>6
<1>12. ASSUME NEW i \in DOMAIN queue', NEW f \in Files
       PROVE  After(queue'[i], files'[f].last_up)
  <2>1. CASE i = n
    BY <1>3, <1>7, <2>1
  <2>2. CASE i \in DOMAIN queue
    BY <1>3, <1>9, <2>2, BatchesAreLater DEF OrderInv, TypeOK
  <2>. QED  BY <1>3, <1>12, <2>1, <2>2
<1>13. ASSUME NEW i \in DOMAIN queue', NEW j \in DOMAIN queue', i < j
       PROVE  Earlier(queue'[i], queue'[j])
  <2>1. i \in DOMAIN queue
    BY <1>3, <1>13
  <2>2. CASE j = n
    BY <1>3, <1>8, <2>1, <2>2 DEF StoredInv
  <2>3. CASE j \in DOMAIN queue
    BY <1>3, <1>13, <2>1, <2>3 DEF OrderInv
  <2>. QED  BY <1>3, <1>13, <2>2, <2>3
<1>14. ASSUME NEW w \in Workers, task[w].step # "idle", NEW i \in DOMAIN queue'
       PROVE  Earlier(task[w].batch, queue'[i])
  <2>1. CASE i = n
    BY <1>3, <1>8, <1>14, <2>1 DEF StoredInv
  <2>2. CASE i \in DOMAIN queue
    BY <1>3, <1>14, <2>2 DEF OrderInv
  <2>. QED  BY <1>3, <1>14, <2>1, <2>2
<1>15. ASSUME NEW w \in Workers, task[w].step = "aggregate"
       PROVE  After(task[w].batch, files'[Aggregation].last_up)
  <2>1. IsBatch(task[w].batch) /\ Aggregation \in Files
    BY <1>15 DEF ShapeInv, TaskOK, Files
  <2>2. After(task[w].batch, 0)
    BY <2>1, BatchesAreLater
  <2>. QED  BY <1>9, <1>15, <2>1, <2>2 DEF OrderInv
<1>16. ASSUME NEW w \in Workers, task[w].step # "idle", NEW i \in DOMAIN task[w].ips,
              NEW m \in DOMAIN task[w].batch.received[task[w].ips[i]]
       PROVE  m > files'[task[w].ips[i]].last_up
  <2>1. task[w].ips[i] \in Ip /\ task[w].ips[i] \in Files
    BY <1>16 DEF ShapeInv, TaskOK, Files
  <2>2. files'[task[w].ips[i]] = files[task[w].ips[i]]
    BY <1>5, <2>1
  <2>. QED  BY <1>16, <2>2 DEF OrderInv
<1>. QED  BY <1>10, <1>11, <1>12, <1>13, <1>14, <1>15, <1>16 DEF OrderInv

LEMMA OrderStep ==
  ASSUME SinglePool, ShapeInv, CountInv, FilesInv, StoredInv, OrderInv,
         [PollerNext]_pollerVars
  PROVE  OrderInv'
<1>1. CASE Capturing \/ UNCHANGED pollerVars
  BY <1>1, CapturingIsElsewhere DEF OrderInv
<1>2. CASE CrashAndRestart
  <2>1. \A w \in Workers : task'[w].step = "idle"
    BY <1>2, CrashedPoller, IdleIsOK
  <2>2. queue' = << >> /\ UNCHANGED <<files, watermark>>
    BY <1>2, CrashedPoller
  <2>. QED  BY <2>1, <2>2 DEF OrderInv
<1>3. ASSUME NEW w \in Workers, Writing(w) PROVE OrderInv'
  <2>1. \A v \in Workers : v # w => task[v].step = "idle"
    BY <1>3 DEF Writing, SinglePool, FilesInv
  <2>. QED  BY <1>3, <2>1, OrderByStart, OrderByWork DEF CountInv, TypeInv
<1>. QED  BY <1>1, <1>2, <1>3, OrderByPosting DEF PollerNext

LEMMA OrderInvariant ==
  ASSUME ClockStepsBounded
  PROVE  PollerSpec => [](SinglePool => OrderInv)
<1>1. (SinglePool => OrderInv) /\ (SinglePool => FilesInv)
        /\ ShapeInv /\ CountInv /\ StoredInv /\ [PollerNext]_pollerVars
        => (SinglePool => OrderInv)'
  <2>. SUFFICES ASSUME SinglePool => OrderInv, SinglePool => FilesInv, ShapeInv,
                       CountInv, StoredInv, [PollerNext]_pollerVars, SinglePool'
                PROVE  OrderInv'
    OBVIOUS
  <2>1. SinglePool
    BY PoolIsSettled DEF SinglePool
  <2>. QED  BY <2>1, OrderStep
<1>. QED  BY <1>1, OrderInit, FilesInvariant, ShapeInvariant, StoredInvariant, PTL
          DEF PollerSpec
-----------------------------------------------------------------------------
(* A task has something for the aggregation file, and as long as no call   *)
(* failed the file that it updates is there.                               *)
ReadyInv ==
  /\ \A w \in Workers : task[w].step = "aggregate" =>
       \E ip \in Ip : DOMAIN task[w].batch.received[ip] # {}
  /\ failures = 0 =>
       /\ queue # << >> => files[Aggregation].exists
       /\ \A w \in Workers :
            /\ task[w].step = "aggregate" => files[Aggregation].exists
            /\ task[w].step = "update" => files[Head(task[w].ips)].exists

LEMMA ReadyInit == PollerInit => ReadyInv
<1>. SUFFICES ASSUME PollerInit PROVE ReadyInv
  OBVIOUS
<1>1. queue = << >> /\ \A w \in Workers : task[w].step = "idle"
  BY IdleIsOK DEF PollerInit, Init, W!Init
<1>. QED  BY <1>1 DEF ReadyInv

LEMMA ReadyStep ==
  ASSUME ShapeInv, TypeOK, NoEmptyBatch, ReadyInv, [PollerNext]_pollerVars
  PROVE  ReadyInv'
<1>1. CASE Capturing \/ UNCHANGED pollerVars
  BY <1>1, CapturingIsElsewhere DEF ReadyInv
<1>2. CASE CrashAndRestart
  <2>1. queue' = << >> /\ \A w \in Workers : task'[w].step = "idle"
    BY <1>2, CrashedPoller, IdleIsOK
  <2>. QED  BY <2>1 DEF ReadyInv
<1>3. CASE Posting
  <2>1. /\ task' = task /\ failures \in Nat
        /\ failures' \in Nat /\ failures' >= failures
        /\ \A ip \in Ip : files'[ip] = files[ip]
        /\ failures' > 0 \/ files'[Aggregation].exists
    BY <1>3, PostingOnFiles DEF ShapeInv
  <2>2. failures' = 0 => failures = 0 /\ files'[Aggregation].exists
    BY <2>1
  <2>3. \A w \in Workers : task[w].step = "update" => Head(task[w].ips) \in Ip
    BY HeadOfIps DEF ShapeInv, TaskOK
  <2>. QED  BY <2>1, <2>2, <2>3 DEF ReadyInv
<1>4. ASSUME NEW w \in Workers, Writing(w) PROVE ReadyInv'
  <2>. DEFINE t == task[w]
              u == task'[w]
  <2>1. /\ \A v \in Workers : v # w => task'[v] = task[v]
        /\ TaskStep(t, u) /\ TaskOK(t)
        /\ \A f \in Files : files[f].exists => files'[f].exists
        /\ Aggregation \in Files
    BY <1>4, WorkOnTask, WorkOnFiles DEF ShapeInv, Files
  <2>2. failures' = 0 => failures = 0
    BY <1>4, WorkOnFiles DEF ShapeInv
  <2>3. \A v \in Workers : task[v].step = "update" => Head(task[v].ips) \in Files
    BY HeadOfIps DEF ShapeInv, TaskOK
  <2>. HIDE DEF t, u
  <2>4. CASE t.step = "idle"
    <3>1. /\ queue # << >> /\ queue' = Tail(queue) /\ files' = files
          /\ u.step = "aggregate" /\ u.batch = Head(queue)
      BY <2>1, <2>4, TaskStarts
    <3>2. \E ip \in Ip : DOMAIN u.batch.received[ip] # {}
      BY <3>1, HeadOfQueue DEF NoEmptyBatch
    <3>. QED  BY <2>1, <2>2, <3>1, <3>2 DEF ReadyInv, u
  <2>5. CASE t.step # "idle"
    <3>1. queue' = queue /\ u.step # "aggregate"
      BY <2>1, <2>5, TaskGoesOn
    <3>2. ASSUME u.step = "update", failures' = 0
          PROVE  files'[Head(u.ips)].exists
      <4>1. /\ u.ips = t.ips
            /\ \/ t.step = "check" /\ files' = files /\ files[Head(t.ips)].exists
               \/ t.step = "create" /\ files'[Head(t.ips)].exists
        BY <2>1, <2>5, <3>2, TaskGoesOn
      <4>. QED  BY <4>1
    <3>. QED  BY <2>1, <2>2, <2>3, <3>1, <3>2 DEF ReadyInv, u
  <2>. QED  BY <2>4, <2>5
<1>. QED  BY <1>1, <1>2, <1>3, <1>4 DEF PollerNext

LEMMA ReadyInvariant ==
  ASSUME DispatchIsPrompt PROVE PollerSpec => []ReadyInv
<1>1. ReadyInv /\ ShapeInv /\ TypeInv /\ NoEmptyBatch /\ [PollerNext]_pollerVars
        => ReadyInv'
  BY ReadyStep DEF TypeInv
<1>. QED  BY <1>1, ReadyInit, ShapeInvariant, NoBatchIsEmpty,
             PollerImplementsDispatcher, PTL DEF PollerSpec

(* librrd accepts values of which every minute is later than the last      *)
(* update.                                                                 *)
LEMMA LaterIsAccepted ==
  ASSUME NEW file, file.exists, NEW values,
         DOMAIN values # {}, DOMAIN values \subseteq Minute,
         \A m \in DOMAIN values : m > file.last_up
  PROVE  W!Accepts(file, values)
<1>. DEFINE S == DOMAIN values
<1>1. S # {} /\ S \subseteq Nat
  BY DispatcherAssumption DEF Minute
<1>. HIDE DEF S
<1>2. W!Min(S) \in S
  BY <1>1, HasMin DEF W!Min
<1>. QED  BY <1>2 DEF S, W!Accepts

LEMMA OrderIsAccepted ==
  ASSUME ShapeInv, OrderInv, ReadyInv, failures = 0, NEW w \in Workers
  PROVE  /\ task[w].step = "update" =>
              W!Accepts(files[Head(task[w].ips)],
                        W!IpValues(task[w].batch, Head(task[w].ips)))
         /\ task[w].step = "aggregate" =>
              W!Accepts(files[Aggregation], W!AggregateValues(task[w].batch))
<1>. DEFINE t == task[w]
            ip == Head(t.ips)
<1>1. TaskOK(t)
  BY DEF ShapeInv
<1>2. CASE t.step = "update"
  <2>1. ip \in Ip /\ DOMAIN t.batch.received[ip] # {} /\ 1 \in DOMAIN t.ips /\ ip = t.ips[1]
    BY <1>1, <1>2, HeadOfIps DEF TaskOK
  <2>2. files[ip].exists
    BY <1>2 DEF ReadyInv
  <2>3. \A m \in DOMAIN t.batch.received[ip] : m > files[ip].last_up
    BY <1>2, <2>1 DEF OrderInv
  <2>4. /\ DOMAIN W!IpValues(t.batch, ip) = DOMAIN t.batch.received[ip]
        /\ DOMAIN W!IpValues(t.batch, ip) \subseteq Minute
    BY <1>1, <1>2, <2>1, ValuesOfTask
  <2>. HIDE DEF t, ip
  <2>5. W!Accepts(files[ip], W!IpValues(t.batch, ip))
    BY <2>1, <2>2, <2>3, <2>4, LaterIsAccepted
  <2>. QED  BY <1>2, <2>5 DEF t, ip
<1>3. CASE t.step = "aggregate"
  <2>1. files[Aggregation].exists /\ \E jp \in Ip : DOMAIN t.batch.received[jp] # {}
    BY <1>3 DEF ReadyInv
  <2>2. \A jp \in Ip : \A m \in DOMAIN t.batch.received[jp] : m > files[Aggregation].last_up
    BY <1>3 DEF OrderInv, After
  <2>3. /\ DOMAIN W!AggregateValues(t.batch) =
             UNION {DOMAIN t.batch.received[jp] : jp \in Ip}
        /\ DOMAIN W!AggregateValues(t.batch) \subseteq Minute
    BY <1>1, <1>3, ValuesOfTask
  <2>. HIDE DEF t
  <2>4. W!Accepts(files[Aggregation], W!AggregateValues(t.batch))
    BY <2>1, <2>2, <2>3, LaterIsAccepted
  <2>. QED  BY <1>3, <2>4 DEF t
<1>. QED  BY <1>2, <1>3

(* With one worker, and while the clock is not set back by more than a     *)
(* minute stays open and a dispatch is prompt, librrd never has a reason   *)
(* to refuse an update, up to the first call that fails for one of its     *)
(* own: the batches come in the order of their minutes, none is empty, and *)
(* what is posted after a crash is later than what the files have.         *)
THEOREM PollerUpdatesAreAccepted ==
  ASSUME ClockStepsBounded, DispatchIsPrompt, OneWorker
  PROVE  PollerSpec => [](failures = 0 => NoUpdateRefused)
<1>1. SinglePool /\ (SinglePool => OrderInv) /\ ShapeInv /\ ReadyInv
        => (failures = 0 => NoUpdateRefused)
  BY OrderIsAccepted DEF NoUpdateRefused
<1>. QED  BY <1>1, OrderInvariant, ReadyInvariant, ShapeInvariant, SingleWorker, PTL

(* No call fails where none may.                                           *)
LEMMA FailuresBounded ==
  ASSUME MaxFailures = 0 PROVE PollerSpec => [](failures = 0)
<1>1. PollerInit => failures = 0
  BY DEF PollerInit, W!Init
<1>2. ASSUME NEW f, NEW result, W!Write(f, result), failures = 0
      PROVE  failures' = 0
  BY <1>2 DEF W!Write
<1>3. failures = 0 /\ [PollerNext]_pollerVars => (failures = 0)'
  <2>. SUFFICES ASSUME failures = 0, [PollerNext]_pollerVars PROVE failures' = 0
    OBVIOUS
  <2>1. CASE Posting
    BY <1>2, <2>1 DEF Posting, W!CreateAggregation
  <2>2. ASSUME NEW w \in Workers, Writing(w) PROVE failures' = 0
    BY <1>2, <2>2 DEF Writing, W!Work, W!Start, W!UpdateAggregateRRD, W!CheckFile,
                      W!CreateRRD, W!UpdateRRD
  <2>. QED  BY <2>1, <2>2, CrashedPoller, CapturingIsElsewhere DEF PollerNext
<1>. QED  BY <1>1, <1>3, PTL DEF PollerSpec

(* Where no call fails for a reason of librrd's own, none is refused.      *)
THEOREM PollerIsNeverRefused ==
  ASSUME ClockStepsBounded, DispatchIsPrompt, OneWorker, MaxFailures = 0
  PROVE  PollerSpec => []NoUpdateRefused
BY PollerUpdatesAreAccepted, FailuresBounded, PTL
-----------------------------------------------------------------------------
(* What a posted minute is waiting for, or has got.                        *)
Reaches(ip, m) ==
  /\ Stored(ip, m) \/ PendingForIp(ip, m)
  /\ Stored(Aggregation, m) \/ PendingForAggregation(m)

(* A minute on its way stays on it, or arrives, with the step of a worker. *)
LEMMA ReachedByWorker ==
  ASSUME ShapeInv, TypeOK, OrderInv, ReadyInv, HistoryStep,
         NEW w \in Workers, Writing(w), failures' = 0,
         NEW ip \in Ip, NEW m \in Minute, Reaches(ip, m)
  PROVE  Reaches(ip, m)'
<1>. DEFINE t == task[w]
            u == task'[w]
<1>1. /\ \A v \in Workers : v # w => task'[v] = task[v]
      /\ TaskStep(t, u) /\ TaskOK(t)
      /\ ip \in Files /\ Aggregation \in Files /\ ip # Aggregation
      /\ \A f \in Files : DOMAIN files[f] = {"exists", "last_up", "data"}
  BY WorkOnTask, PollerAssumption DEF ShapeInv, Files
<1>2. failures = 0
  BY WorkOnFiles DEF ShapeInv
<1>3. \A f \in Files : Stored(f, m) => Stored(f, m)'
  BY DEF Stored, HistoryStep
<1>4. ASSUME NEW f \in Files, NEW values, W!Accepts(files[f], values),
             files'[f] = W!Updated(files[f], values), m \in DOMAIN values
      PROVE  Stored(f, m)'
  <2>1. DOMAIN files[f] = {"exists", "last_up", "data"}
    BY <1>1
  <2>2. W!Updated(files[f], values).data = W!Merge(files[f].data, values)
    BY <1>4, <2>1, UpdatedFile
  <2>. QED  BY <1>4, <2>2 DEF Stored, W!Merge
<1>5. CASE t.step = "idle"
  <2>1. /\ queue # << >> /\ queue' = Tail(queue) /\ files' = files
        /\ u.step = "aggregate" /\ u.batch = Head(queue)
        /\ u.ips = W!IpsOf(u.batch)
        /\ t.ips = << >>
    BY <1>1, <1>5, TaskStarts DEF TaskOK
  <2>2. \A i \in DOMAIN queue :
          \/ queue[i] = u.batch
          \/ i - 1 \in DOMAIN queue' /\ queue'[i - 1] = queue[i]
    BY <2>1, TailedQueue
  <2>. HIDE DEF t, u
  <2>3. m \in DOMAIN u.batch.received[ip] => \E i \in DOMAIN u.ips : u.ips[i] = ip
    <3>1. DOMAIN u.batch.received[ip] # {} =>
            \E i \in DOMAIN W!IpsOf(u.batch) : W!IpsOf(u.batch)[i] = ip
      BY IpsOfBatch
    <3>. QED  BY <2>1, <3>1
  <2>4. ASSUME PendingForIp(ip, m) PROVE PendingForIp(ip, m)'
    <3>1. CASE \E i \in DOMAIN queue : m \in DOMAIN queue[i].received[ip]
      <4>1. PICK i \in DOMAIN queue : m \in DOMAIN queue[i].received[ip]
        BY <3>1
      <4>2. CASE queue[i] = u.batch
        BY <2>3, <4>1, <4>2 DEF PendingForIp, u
      <4>3. CASE i - 1 \in DOMAIN queue' /\ queue'[i - 1] = queue[i]
        BY <4>1, <4>3 DEF PendingForIp
      <4>. QED  BY <2>2, <4>2, <4>3
    <3>2. CASE \E v \in Workers :
                 /\ \E i \in DOMAIN task[v].ips : task[v].ips[i] = ip
                 /\ m \in DOMAIN task[v].batch.received[ip]
      <4>1. PICK v \in Workers :
                 /\ \E i \in DOMAIN task[v].ips : task[v].ips[i] = ip
                 /\ m \in DOMAIN task[v].batch.received[ip]
        BY <3>2
      <4>2. v # w
        BY <2>1, <4>1 DEF t
      <4>3. task'[v] = task[v]
        BY <1>1, <4>2
      <4>. QED  BY <4>1, <4>3 DEF PendingForIp
    <3>. QED  BY <2>4, <3>1, <3>2 DEF PendingForIp
  <2>5. PendingForAggregation(m) => PendingForAggregation(m)'
    BY <1>1, <1>5, <2>1, <2>2 DEF PendingForAggregation, t, u
  <2>. QED  BY <1>1, <1>3, <2>4, <2>5 DEF Reaches
<1>6. CASE t.step # "idle"
  <2>1. queue' = queue
    BY <1>1, <1>6, TaskGoesOn
  <2>2. ASSUME PendingForIp(ip, m), ~ PendingForIp(ip, m)' PROVE Stored(ip, m)'
    <3>1. m \in DOMAIN t.batch.received[ip] /\ \E i \in DOMAIN t.ips : t.ips[i] = ip
      BY <1>1, <2>1, <2>2 DEF PendingForIp
    <3>2. \/ ~ \E i \in DOMAIN u.ips : u.ips[i] = ip
          \/ m \notin DOMAIN u.batch.received[ip]
      BY <2>2 DEF PendingForIp
    <3>3. t.step = "update" /\ ip = Head(t.ips)
      <4>. SUFFICES ASSUME ~ (t.step = "update" /\ ip = Head(t.ips)) PROVE FALSE
        OBVIOUS
      <4>1. CASE t.step = "update"
        <5>1. \E i \in DOMAIN Tail(t.ips) : Tail(t.ips)[i] = ip
          <6>1. PICK i \in DOMAIN t.ips : t.ips[i] = ip
            BY <3>1
          <6>2. TaskOK(t) /\ t.ips # << >> /\ ip # Head(t.ips)
            BY <1>1, <4>1 DEF TaskOK
          <6>. HIDE DEF t
          <6>. QED  BY <6>1, <6>2, HeadOfIps
        <5>2. Tail(t.ips) # << >>
          BY <5>1
        <5>3. u.batch = t.batch /\ u.ips = Tail(t.ips)
          BY <1>1, <1>6, <4>1, <5>2, TaskGoesOn
        <5>. QED  BY <3>1, <3>2, <5>1, <5>3
      <4>2. CASE t.step # "update"
        <5>1. t.ips # << >>
          BY <3>1
        <5>2. u.batch = t.batch /\ u.ips = t.ips
          BY <1>1, <1>6, <4>2, <5>1, TaskGoesOn
        <5>. QED  BY <3>1, <3>2, <5>2
      <4>. QED  BY <4>1, <4>2
    <3>. DEFINE values == W!IpValues(t.batch, ip)
    <3>4. files'[ip] = W!Updated(files[ip], values)
      BY <1>1, <3>3 DEF TaskStep
    <3>5. W!Accepts(files[ip], values)
      BY <1>2, <3>3, OrderIsAccepted
    <3>6. m \in DOMAIN values
      BY <3>1 DEF W!IpValues
    <3>. HIDE DEF values
    <3>. QED  BY <1>1, <1>4, <3>4, <3>5, <3>6
  <2>3. ASSUME PendingForAggregation(m), ~ PendingForAggregation(m)'
        PROVE  Stored(Aggregation, m)'
    <3>1. t.step = "aggregate" /\ \E jp \in Ip : m \in DOMAIN t.batch.received[jp]
      BY <1>1, <2>1, <2>3 DEF PendingForAggregation
    <3>. DEFINE values == W!AggregateValues(t.batch)
    <3>2. files'[Aggregation] = W!Updated(files[Aggregation], values)
      BY <1>1, <3>1 DEF TaskStep
    <3>3. W!Accepts(files[Aggregation], values)
      BY <1>2, <3>1, OrderIsAccepted
    <3>4. m \in DOMAIN values
      BY <3>1 DEF W!AggregateValues
    <3>. HIDE DEF values
    <3>. QED  BY <1>1, <1>4, <3>2, <3>3, <3>4
  <2>. QED  BY <1>1, <1>3, <2>2, <2>3 DEF Reaches
<1>. QED  BY <1>5, <1>6

(* A posting puts the minutes it posts on their way.                       *)
LEMMA ReachedByPosting ==
  ASSUME CountInv, RemovedIsUpdated, HistoryStep, Posting, ShapeInv
  PROVE  RemovedIsUpdated'
<1>. DEFINE b == Batch(max_update_time')
<1>1. EnqueueWriteRRDs /\ queue' = Append(queue, b) /\ b = Batch(max_update_time')
  BY DEF Posting, EnqueueWriteRRDs
<1>. HIDE DEF b
<1>2. task' = task
  BY PostingOnFiles
<1>3. \E n : n \in DOMAIN queue' /\ queue'[n] = b
  BY <1>1, PostedQueue DEF CountInv, TypeInv
<1>4. \A i \in DOMAIN queue : i \in DOMAIN queue' /\ queue'[i] = queue[i]
  BY <1>1, PostedQueue DEF CountInv, TypeInv
<1>5. \A f \in Files : \A m : Stored(f, m) => Stored(f, m)'
  BY DEF Stored, HistoryStep
<1>6. ASSUME NEW ip \in Ip, NEW m \in Minute, posted'[ip][m] > 0
      PROVE  Reaches(ip, m)'
  <2>1. CASE posted[ip][m] > 0
    <3>1. Reaches(ip, m)
      BY <2>1 DEF RemovedIsUpdated, Reaches
    <3>2. PendingForIp(ip, m) => PendingForIp(ip, m)'
      BY <1>2, <1>4 DEF PendingForIp
    <3>3. PendingForAggregation(m) => PendingForAggregation(m)'
      BY <1>2, <1>4 DEF PendingForAggregation
    <3>. QED  BY <1>5, <3>1, <3>2, <3>3 DEF Reaches, Files
  <2>2. CASE ~ (posted[ip][m] > 0)
    <3>1. m \in DOMAIN b.received[ip]
      <4>1. posted'[ip][m] = IF m < watermark THEN posted[ip][m]
                             ELSE IF m \in DOMAIN b.received[ip]
                                  THEN b.received[ip][m] ELSE 0
        BY <1>1, PostedBatch
      <4>. QED  BY <1>6, <2>2, <4>1
    <3>. QED  BY <1>3, <3>1 DEF Reaches, PendingForIp, PendingForAggregation
  <2>. QED  BY <2>1, <2>2
<1>. QED  BY <1>6 DEF RemovedIsUpdated, Reaches

(* The part of the poller's life that RemovedIsUpdatedByOne is about.      *)
Untroubled == SinglePool /\ failures = 0 /\ restarts = 0

LEMMA RemovedStep ==
  ASSUME SinglePool => FilesInv, SinglePool => OrderInv, ShapeInv, ReadyInv,
         CountInv, Untroubled => RemovedIsUpdated, [PollerNext]_pollerVars,
         Untroubled'
  PROVE  RemovedIsUpdated'
<1>1. SinglePool /\ failures' = 0 /\ restarts' = 0
  BY PoolIsSettled DEF Untroubled, SinglePool
<1>2. FilesInv /\ OrderInv /\ TypeOK /\ HistoryStep
  BY <1>1, FilesStep DEF CountInv, TypeInv
<1>3. restarts \in Nat /\ failures \in Nat
  BY <1>2, DispatcherAssumption DEF TypeOK, ShapeInv
<1>4. CASE Posting
  <2>1. failures = 0 /\ restarts = 0
    BY <1>1, <1>3, <1>4, PostingOnFiles
  <2>. QED  BY <1>1, <1>2, <1>4, <2>1, ReachedByPosting DEF Untroubled
<1>5. CASE Capturing \/ UNCHANGED pollerVars
  BY <1>1, <1>5, CapturingIsElsewhere
     DEF Untroubled, RemovedIsUpdated, Stored, PendingForIp, PendingForAggregation
<1>6. ASSUME NEW w \in Workers, Writing(w) PROVE RemovedIsUpdated'
  <2>1. posted' = posted /\ restarts' = restarts /\ failures = 0
    BY <1>1, <1>6, WorkOnFiles DEF Writing, ShapeInv
  <2>2. \A ip \in Ip, m \in Minute : posted[ip][m] > 0 => Reaches(ip, m)
    BY <1>1, <2>1 DEF Untroubled, RemovedIsUpdated, Reaches
  <2>3. \A ip \in Ip, m \in Minute : posted'[ip][m] > 0 => Reaches(ip, m)'
    BY <1>1, <1>2, <1>6, <2>1, <2>2, ReachedByWorker
  <2>. QED  BY <2>3 DEF RemovedIsUpdated, Reaches
<1>7. CASE CrashAndRestart
  BY <1>1, <1>3, <1>7, CrashedPoller
<1>. QED  BY <1>4, <1>5, <1>6, <1>7 DEF PollerNext

(* A pool of one worker.                                                   *)
LEMMA OneIsSingle == ASSUME pool \in Pools, Cardinality(pool) = 1 PROVE SinglePool
<1>1. IsFiniteSet(pool)
  BY PollerAssumption, FS_Subset
<1>2. PICK w : pool = {w}
  BY <1>1, FS_Singleton
<1>. QED  BY <1>2 DEF SinglePool

(* "Remove the updated bits" is right with one worker, as long as no call  *)
(* of librrd fails and the process lives: every minute that left the maps  *)
(* is in both of its files, or in the task that will write it there.       *)
THEOREM PollerUpdatesWhatItRemoves ==
  ASSUME ClockStepsBounded, DispatchIsPrompt
  PROVE  PollerSpec => []RemovedIsUpdatedByOne
<1>1. PollerInit => (Untroubled => RemovedIsUpdated)
  BY DEF PollerInit, Init, NoPackets, RemovedIsUpdated
<1>2. (Untroubled => RemovedIsUpdated) /\ (SinglePool => FilesInv)
        /\ (SinglePool => OrderInv) /\ ShapeInv /\ ReadyInv /\ CountInv
        /\ [PollerNext]_pollerVars => (Untroubled => RemovedIsUpdated)'
  BY RemovedStep
<1>3. (Untroubled => RemovedIsUpdated) /\ pool \in Pools => RemovedIsUpdatedByOne
  BY OneIsSingle DEF RemovedIsUpdatedByOne, Untroubled
<1>. QED  BY <1>1, <1>2, <1>3, FilesInvariant, OrderInvariant, ShapeInvariant,
             ReadyInvariant, StoredInvariant, PoolInvariant, PTL DEF PollerSpec
=============================================================================
