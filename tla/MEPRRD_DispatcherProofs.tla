----------------------- MODULE MEPRRD_DispatcherProofs -----------------------
(* Theorems about the dispatcher, for every set of devices and every bound, *)
(* and about the losses it records over a network that loses requests.      *)
EXTENDS MEPFeed, FiniteSetTheorems, TLAPS

(* Wherever the sums of LostBetween wrap around the int, the losses it     *)
(* reports are not negative and less than OutlierGap.                      *)
LEMMA LostBetweenBounded ==
  ASSUME NEW last \in Int32, NEW seqno \in Int32
  PROVE  LostBetween(last, seqno) \in 0 .. OutlierGap - 1
<1>. USE SeqnoAssumption DEF Int32
<1>1. CASE ~ IsGap(last, seqno)
  BY <1>1 DEF LostBetween
<1>2. CASE IsGap(last, seqno)
  <2>1. /\ seqno <= Wrap(last + OutlierGap)
        /\ seqno > Wrap(last + 1)
    BY <1>2 DEF IsGap, IsOutlier, Wrap
  <2>2. CASE last + OutlierGap < HalfRange
    BY <1>2, <2>1, <2>2 DEF LostBetween, Wrap
  <2>3. CASE last + OutlierGap >= HalfRange /\ last + 1 < HalfRange
    BY <2>1, <2>3 DEF Wrap
  <2>4. CASE last + 1 >= HalfRange
    BY <1>2, <2>1, <2>4 DEF LostBetween, Wrap
  <2>. QED  BY <2>2, <2>3, <2>4
<1>. QED  BY <1>1, <1>2
-----------------------------------------------------------------------------
(* The cut of a posting is such that _starting_time stays on the clock.    *)
TypeInv ==
  /\ TypeOK
  /\ pc = "remove" => max_update_time + ThresholdMinutes \in Minute

(* The maps after a packet, after a removal and in a batch are maps.       *)
LEMMA PutIsMap ==
  ASSUME NEW map, DOMAIN map \subseteq Minute, map \in [DOMAIN map -> Nat],
         NEW k \in Minute, NEW v \in Nat
  PROVE  /\ DOMAIN Put(map, k, v) = DOMAIN map \cup {k}
         /\ DOMAIN Put(map, k, v) \subseteq Minute
         /\ Put(map, k, v) \in [DOMAIN Put(map, k, v) -> Nat]
BY DEF Put

LEMMA RestrictIsMeps ==
  ASSUME NEW meps, IsMeps(meps), NEW kept, 
         \A ip \in Ip : kept[ip] \subseteq DOMAIN meps[ip]
  PROVE  IsMeps([ip \in Ip |-> Restrict(meps[ip], kept[ip])])
BY DEF IsMeps, Restrict

(* What updateDataSets leaves in the maps.                                 *)
LEMMA UpdateDataSetsType ==
  ASSUME TypeOK, NEW ip \in Ip, NEW seqno \in Int32,
         UpdateDataSets(ip, now, seqno)
  PROVE  /\ IsMeps(received_meps') /\ IsMeps(lost_meps')
         /\ Paired(received_meps', lost_meps')
         /\ last_seqnos' \in [Ip -> Int32]
<1>1. /\ now \in Minute
      /\ IsMeps(received_meps) /\ IsMeps(lost_meps)
      /\ Paired(received_meps, lost_meps)
      /\ last_seqnos \in [Ip -> Int32]
  BY DEF TypeOK
<1>2. LostBetween(last_seqnos[ip], seqno) \in Nat
  BY <1>1, LostBetweenBounded, SeqnoAssumption
<1>. DEFINE known == now \in DOMAIN received_meps[ip]
            r == IF known THEN received_meps[ip][now] + 1 ELSE 1
            l == IF known THEN lost_meps[ip][now]
                                 + LostBetween(last_seqnos[ip], seqno)
                 ELSE 0
<1>3. r \in Nat /\ l \in Nat
  BY <1>1, <1>2 DEF IsMeps, Paired
<1>4. /\ received_meps' = [received_meps EXCEPT
                             ![ip] = Put(received_meps[ip], now, r)]
      /\ lost_meps' = [lost_meps EXCEPT
                             ![ip] = Put(lost_meps[ip], now, l)]
      /\ last_seqnos' = [last_seqnos EXCEPT ![ip] = seqno]
  BY DEF UpdateDataSets
<1>. HIDE DEF r, l, known
<1>5. IsMeps(received_meps') /\ DOMAIN received_meps'[ip] = DOMAIN received_meps[ip] \cup {now}
  BY <1>1, <1>3, <1>4, PutIsMap DEF IsMeps
<1>6. IsMeps(lost_meps') /\ DOMAIN lost_meps'[ip] = DOMAIN lost_meps[ip] \cup {now}
  BY <1>1, <1>3, <1>4, PutIsMap DEF IsMeps
<1>7. Paired(received_meps', lost_meps')
  BY <1>1, <1>4, <1>5, <1>6 DEF Paired, IsMeps
<1>. QED  BY <1>1, <1>4, <1>5, <1>6, <1>7

LEMMA TypeInit == Init => TypeInv
BY DispatcherAssumption, SeqnoAssumption
   DEF Init, TypeInv, TypeOK, Minute, IsMeps, Paired, NoMeps, EmptyMap,
       NoPackets, Int32

LEMMA BatchType ==
  ASSUME TypeOK, NEW cut
  PROVE  IsBatch(Batch(cut))
<1>1. \A ip \in Ip : Below(received_meps[ip], cut) \subseteq DOMAIN received_meps[ip]
  BY DEF Below
<1>2. \A ip \in Ip : Below(received_meps[ip], cut) \subseteq DOMAIN lost_meps[ip]
  BY <1>1 DEF TypeOK, Paired
<1>3. IsMeps(received_meps) /\ IsMeps(lost_meps)
  BY DEF TypeOK
<1>4. IsMeps(Batch(cut).received) /\ IsMeps(Batch(cut).lost)
  BY <1>1, <1>2, <1>3 DEF Batch, IsMeps, Restrict
<1>5. Paired(Batch(cut).received, Batch(cut).lost)
  BY DEF Paired, Batch, Restrict
<1>. QED  BY <1>4, <1>5 DEF IsBatch

(* What is left of the queue when a worker took a task.                    *)
LEMMA TailOfQueue ==
  ASSUME TypeOK, TakeTask
  PROVE  /\ \A i \in DOMAIN queue' : \E j \in DOMAIN queue : queue'[i] = queue[j]
         /\ queue' \in Seq({queue'[i] : i \in DOMAIN queue'})
         /\ \A i \in DOMAIN queue' : IsBatch(queue'[i])
<1>. DEFINE S == {queue[i] : i \in DOMAIN queue}
<1>1. queue \in Seq(S) /\ \A e \in S : IsBatch(e)
  BY DEF TypeOK
<1>2. queue' \in Seq(S)
  BY <1>1 DEF TakeTask
<1>3. \A i \in DOMAIN queue' : queue'[i] \in S
  BY <1>2
<1>. QED  BY <1>1, <1>2, <1>3

LEMMA TypeStep == TypeInv /\ [Next]_vars => TypeInv'
<1>. SUFFICES ASSUME TypeInv, [Next]_vars PROVE TypeInv'
  OBVIOUS
<1>. USE DispatcherAssumption
<1>1. ASSUME NEW ip \in Ip, NEW seqno \in Seqnos, DispatchPacket(ip, seqno)
      PROVE  TypeInv'
  <2>1. seqno \in Int32
    OBVIOUS
  <2>2. /\ IsMeps(received_meps') /\ IsMeps(lost_meps')
        /\ Paired(received_meps', lost_meps')
        /\ last_seqnos' \in [Ip -> Int32]
    BY <1>1, <2>1, UpdateDataSetsType DEF DispatchPacket, TypeInv
  <2>3. count' \in [Ip -> [Minute -> Nat]]
    BY <1>1 DEF DispatchPacket, TypeInv, TypeOK
  <2>4. /\ now' \in Minute /\ high' \in Minute
        /\ pc' = "posting_test"
        /\ captured' \in 0 .. MaxPackets
        /\ packet_time' \in 0 .. MaxMinute
        /\ starting_time' \in 0 .. MaxMinute
        /\ max_update_time' \in 0 .. MaxMinute
        /\ restarts' \in 0 .. MaxRestarts
        /\ watermark' \in 0 .. MaxMinute
    BY <1>1 DEF DispatchPacket, TypeInv, TypeOK, Minute
  <2>5. queue' = queue /\ posted' = posted
    BY <1>1 DEF DispatchPacket
  <2>. QED
    BY <2>2, <2>3, <2>4, <2>5 DEF TypeInv, TypeOK
<1>2. CASE SkipPosting
  BY <1>2 DEF SkipPosting, TypeInv, TypeOK
<1>3. CASE EnqueueWriteRRDs
  <2>. DEFINE b == Batch(max_update_time')
  <2>1. max_update_time' + ThresholdMinutes = now /\ max_update_time' \in 0 .. MaxMinute
    BY <1>3 DEF EnqueueWriteRRDs, PostingDue, TypeInv, TypeOK, Minute
  <2>2. IsBatch(b)
    BY BatchType DEF TypeInv
  <2>3. queue' = Append(queue, b)
    BY <1>3 DEF EnqueueWriteRRDs
  <2>4. posted' \in [Ip -> [Minute -> Nat]]
    BY <1>3, <2>2
    DEF EnqueueWriteRRDs, AddPosted, TypeInv, TypeOK, IsBatch, IsMeps
  <2>. HIDE DEF b
  <2>5. /\ queue' \in Seq({queue'[i] : i \in DOMAIN queue'})
        /\ \A i \in DOMAIN queue' : IsBatch(queue'[i])
    <3>. DEFINE S == {queue[i] : i \in DOMAIN queue} \cup {b}
    <3>1. queue \in Seq(S)
      BY DEF TypeInv, TypeOK
    <3>2. /\ \A e \in S : IsBatch(e)
      BY <2>2 DEF TypeInv, TypeOK
    <3>3. queue' \in Seq(S)
      BY <2>3, <3>1
    <3>4. \A i \in DOMAIN queue' : queue'[i] \in S
      BY <3>3
    <3>. QED  BY <3>2, <3>3, <3>4
  <2>. QED
    BY <1>3, <2>1, <2>4, <2>5 DEF EnqueueWriteRRDs, TypeInv, TypeOK
<1>4. CASE RemoveOldieUpdates
  <2>1. IsMeps(received_meps') /\ IsMeps(lost_meps')
    BY <1>4
    DEF RemoveOldieUpdates, RemoveBelow, TypeInv, TypeOK, IsMeps, Restrict
  <2>2. Paired(received_meps', lost_meps')
    BY <1>4
    DEF RemoveOldieUpdates, RemoveBelow, TypeInv, TypeOK, Paired, Restrict, Below
  <2>. QED
    BY <1>4, <2>1, <2>2
    DEF RemoveOldieUpdates, RemoveBelow, TypeInv, TypeOK, Minute
<1>5. CASE Tick
  BY <1>5 DEF Tick, TypeInv, TypeOK, Minute
<1>6. CASE SetClockBack
  BY <1>6 DEF SetClockBack, TypeInv, TypeOK, Minute
<1>7. CASE Restart
  <2>1. IsMeps(NoMeps) /\ Paired(NoMeps, NoMeps)
    BY DEF IsMeps, Paired, NoMeps, EmptyMap
  <2>2. IsMeps(received_meps') /\ IsMeps(lost_meps') /\ Paired(received_meps', lost_meps')
    BY <1>7, <2>1 DEF Restart
  <2>3. last_seqnos' \in [Ip -> Int32]
    BY <1>7, SeqnoAssumption DEF Restart, Int32
  <2>4. queue' = << >> /\ queue' \in Seq({queue'[i] : i \in DOMAIN queue'})
    BY <1>7 DEF Restart
  <2>5. \A i \in DOMAIN queue' : IsBatch(queue'[i])
    BY <2>4
  <2>. QED
    BY <1>7, <2>2, <2>3, <2>4, <2>5 DEF Restart, TypeInv, TypeOK, Minute
<1>8. CASE TakeTask
  <2>1. /\ queue' \in Seq({queue'[i] : i \in DOMAIN queue'})
        /\ \A i \in DOMAIN queue' : IsBatch(queue'[i])
    BY <1>8, TailOfQueue DEF TypeInv
  <2>. QED
    BY <1>8, <2>1 DEF TakeTask, TypeInv, TypeOK
<1>9. CASE UNCHANGED vars
  BY <1>9 DEF vars, TypeInv, TypeOK
<1>. QED
  BY <1>1, <1>2, <1>3, <1>4, <1>5, <1>6, <1>7, <1>8, <1>9 DEF Next, CaptureThread

LEMMA TypeInvariant == Spec => []TypeInv
BY TypeInit, TypeStep, PTL DEF Spec

(* Type correctness, whatever the clock does: in particular no minute is   *)
(* charged a negative number of losses, received and lost entries stay     *)
(* paired, and the cut of a posting never lies before the first minute.    *)
THEOREM TypeCorrect == Spec => []TypeOK
BY TypeInvariant, PTL DEF TypeInv
-----------------------------------------------------------------------------
(* The inductive invariant behind CountedOnce.                             *)
CountInv == TypeInv /\ MinutesClose /\ CountedOnce

(* The clock cannot be set back behind the watermark.                      *)
LEMMA NowIsOpen ==
  ASSUME ClockStepsBounded, TypeInv, MinutesClose
  PROVE  now >= watermark
BY DispatcherAssumption
   DEF ClockStepsBounded, TypeInv, TypeOK, MinutesClose, Minute

(* A posting raises the watermark.                                         *)
LEMMA WatermarkRises ==
  ASSUME TypeInv, MinutesClose, EnqueueWriteRRDs
  PROVE  /\ max_update_time' = now - ThresholdMinutes
         /\ max_update_time' \in Minute
         /\ max_update_time' > watermark
BY DispatcherAssumption
   DEF EnqueueWriteRRDs, PostingDue, TypeInv, TypeOK, MinutesClose, Minute

LEMMA CountInit == Init => MinutesClose /\ CountedOnce
BY DispatcherAssumption
   DEF Init, MinutesClose, CountedOnce, Live, BeingRemoved, NoMeps, EmptyMap,
       NoPackets, Minute

(* How a packet changes what CountedOnce compares.                         *)
LEMMA PacketCounted ==
  ASSUME TypeInv, NEW ip \in Ip, NEW seqno \in Seqnos, DispatchPacket(ip, seqno)
  PROVE  /\ \A d \in Ip, m \in Minute :
              d # ip \/ m # now =>
                /\ Live(d, m)' <=> Live(d, m)
                /\ Live(d, m) => received_meps'[d][m] = received_meps[d][m]
                /\ count'[d][m] = count[d][m]
         /\ now \in DOMAIN received_meps'[ip]
         /\ received_meps'[ip][now] =
              IF Live(ip, now) THEN received_meps[ip][now] + 1 ELSE 1
         /\ count'[ip][now] = count[ip][now] + 1
<1>. DEFINE r == IF now \in DOMAIN received_meps[ip]
                 THEN received_meps[ip][now] + 1 ELSE 1
<1>1. received_meps' = [received_meps EXCEPT
                          ![ip] = Put(received_meps[ip], now, r)]
  BY DEF DispatchPacket, UpdateDataSets
<1>2. count' = [count EXCEPT ![ip][now] = @ + 1]
  BY DEF DispatchPacket
<1>3. /\ now \in Minute /\ DOMAIN received_meps = Ip
      /\ count \in [Ip -> [Minute -> Nat]]
  BY DEF TypeInv, TypeOK, IsMeps
<1>4. now' = now
  BY DEF DispatchPacket
<1>. HIDE DEF r
<1>5. /\ DOMAIN Put(received_meps[ip], now, r) = DOMAIN received_meps[ip] \cup {now}
      /\ \A m \in DOMAIN received_meps[ip] \cup {now} :
           Put(received_meps[ip], now, r)[m] =
             IF m = now THEN r ELSE received_meps[ip][m]
  BY DEF Put
<1>6. /\ received_meps'[ip] = Put(received_meps[ip], now, r)
      /\ \A d \in Ip : d # ip => received_meps'[d] = received_meps[d]
  BY <1>1, <1>3
<1>7. \A d \in Ip, m \in Minute :
        count'[d][m] = IF d = ip /\ m = now THEN count[d][m] + 1 ELSE count[d][m]
  BY <1>2, <1>3
<1>8. ASSUME NEW d \in Ip, NEW m \in Minute, d # ip \/ m # now
      PROVE  /\ Live(d, m)' <=> Live(d, m)
             /\ Live(d, m) => received_meps'[d][m] = received_meps[d][m]
             /\ count'[d][m] = count[d][m]
  BY <1>5, <1>6, <1>7, <1>8 DEF Live
<1>9. /\ now \in DOMAIN received_meps'[ip]
      /\ received_meps'[ip][now] = r
      /\ count'[ip][now] = count[ip][now] + 1
  BY <1>3, <1>5, <1>6, <1>7
<1>. QED  BY <1>8, <1>9 DEF Live, r

LEMMA CountStep ==
  ASSUME ClockStepsBounded, CountInv, [Next]_vars
  PROVE  MinutesClose' /\ CountedOnce'
<1>. USE DispatcherAssumption
<1>1. ASSUME NEW ip \in Ip, NEW seqno \in Seqnos, DispatchPacket(ip, seqno)
      PROVE  MinutesClose' /\ CountedOnce'
  <2>1. now >= watermark /\ now \in Minute
    BY NowIsOpen DEF CountInv, TypeInv, TypeOK
  <2>2. /\ ~ BeingRemoved(now)
        /\ \A m \in Minute : ~ BeingRemoved(m) /\ ~ BeingRemoved(m)'
    BY <1>1, <2>1 DEF DispatchPacket, BeingRemoved
  <2>3. \A d \in Ip, m \in Minute : Live(d, m)' => m >= watermark
    <3>1. \A d \in Ip, m \in Minute : Live(d, m) => m >= watermark
      BY <2>2 DEF CountInv, MinutesClose
    <3>2. \A d \in Ip, m \in Minute :
            d # ip \/ m # now => (Live(d, m)' <=> Live(d, m))
      BY <1>1, PacketCounted DEF CountInv
    <3>. QED  BY <2>1, <3>1, <3>2
  <2>4. MinutesClose'
    <3>1. /\ now' = now /\ high' = high /\ watermark' = watermark /\ posted' = posted
          /\ pc' = "posting_test" /\ pc # "remove"
          /\ starting_time' = IF starting_time = 0 THEN now ELSE starting_time
      BY <1>1 DEF DispatchPacket
    <3>2. /\ now <= high /\ now >= high - ClockSlack
          /\ watermark = 0 \/ watermark + ThresholdMinutes <= high
          /\ starting_time # 0 => starting_time >= watermark
          /\ \A d \in Ip, m \in Minute : posted[d][m] > 0 => m < watermark
      BY <3>1 DEF CountInv, MinutesClose
    <3>3. starting_time' # 0 /\ starting_time' >= watermark
      BY <2>1, <3>1, <3>2 DEF Minute
    <3>. QED  BY <2>3, <3>1, <3>2, <3>3 DEF MinutesClose
  <2>5. posted[ip][now] = 0
    BY <2>1 DEF CountInv, MinutesClose, TypeInv, TypeOK, Minute
  <2>6. ~ Live(ip, now) => count[ip][now] = 0
    BY <2>1, <2>5 DEF CountInv, CountedOnce
  <2>7. Live(ip, now) => received_meps[ip][now] = count[ip][now]
    BY <2>1 DEF CountInv, CountedOnce
  <2>8. posted' = posted
    BY <1>1 DEF DispatchPacket
  <2>9. CountedOnce'
    <3>1. SUFFICES ASSUME NEW d \in Ip, NEW m \in Minute
                   PROVE  IF Live(d, m)'
                          THEN /\ received_meps'[d][m] = count'[d][m]
                               /\ posted'[d][m] = 0
                          ELSE posted'[d][m] = count'[d][m]
      BY <2>2 DEF CountedOnce
    <3>2. CASE d = ip /\ m = now
      <4>1. /\ now \in DOMAIN received_meps'[ip]
            /\ received_meps'[ip][now] = count'[ip][now]
        <5>1. /\ now \in DOMAIN received_meps'[ip]
              /\ received_meps'[ip][now] =
                   IF Live(ip, now) THEN received_meps[ip][now] + 1 ELSE 1
              /\ count'[ip][now] = count[ip][now] + 1
          BY <1>1, PacketCounted DEF CountInv
        <5>. QED  BY <2>6, <2>7, <5>1
      <4>. QED  BY <2>5, <2>8, <3>2, <4>1 DEF Live
    <3>3. CASE d # ip \/ m # now
      BY <1>1, <2>2, <2>8, <3>3, PacketCounted DEF CountInv, CountedOnce
    <3>. QED  BY <3>2, <3>3
  <2>. QED  BY <2>4, <2>9
<1>2. CASE SkipPosting
  BY <1>2
  DEF SkipPosting, CountInv, MinutesClose, CountedOnce, Live, BeingRemoved
<1>3. CASE EnqueueWriteRRDs
  <2>. DEFINE cut == max_update_time'
  <2>1. cut = now - ThresholdMinutes /\ cut \in Minute /\ cut > watermark
    BY <1>3, WatermarkRises DEF CountInv
  <2>2. /\ pc' = "remove" /\ pc = "posting_test" /\ watermark' = cut
        /\ now' = now /\ high' = high
        /\ received_meps' = received_meps /\ count' = count
        /\ AddPosted(Batch(cut))
    BY <1>3 DEF EnqueueWriteRRDs
  <2>3. ASSUME NEW ip \in Ip, NEW m \in Minute
        PROVE  /\ Live(ip, m)' <=> Live(ip, m)
               /\ posted'[ip][m] = IF Live(ip, m) /\ m < cut
                                   THEN received_meps[ip][m] ELSE posted[ip][m]
    <3>1. posted'[ip][m] = posted[ip][m]
            + (IF m \in DOMAIN Batch(cut).received[ip]
               THEN Batch(cut).received[ip][m] ELSE 0)
      BY <2>2 DEF AddPosted
    <3>2. /\ m \in DOMAIN Batch(cut).received[ip] <=> Live(ip, m) /\ m < cut
          /\ Live(ip, m) /\ m < cut =>
               Batch(cut).received[ip][m] = received_meps[ip][m]
      BY DEF Batch, Restrict, Below, Live
    <3>3. posted[ip][m] \in Nat /\ (Live(ip, m) => posted[ip][m] = 0)
      BY <2>2 DEF CountInv, CountedOnce, BeingRemoved, TypeInv, TypeOK
    <3>4. Live(ip, m) => received_meps[ip][m] \in Nat
      BY DEF CountInv, TypeInv, TypeOK, IsMeps, Live
    <3>. QED  BY <2>2, <3>1, <3>2, <3>3, <3>4 DEF Live
  <2>4. CountedOnce'
    BY <2>2, <2>3 DEF CountInv, CountedOnce, BeingRemoved
  <2>5. MinutesClose'
    <3>1. ASSUME NEW ip \in Ip, NEW m \in Minute, posted'[ip][m] > 0
          PROVE  m < cut
      <4>1. posted[ip][m] > 0 => m < watermark
        BY DEF CountInv, MinutesClose
      <4>2. watermark < cut /\ m \in Int /\ cut \in Int /\ watermark \in Int
        BY <2>1 DEF Minute, CountInv, TypeInv, TypeOK
      <4>. HIDE DEF cut
      <4>3. CASE Live(ip, m) /\ m < cut
        BY <4>3
      <4>4. CASE ~ (Live(ip, m) /\ m < cut)
        BY <2>3, <3>1, <4>1, <4>2, <4>4
      <4>. QED  BY <4>3, <4>4
    <3>2. \A ip \in Ip, m \in Minute :
            Live(ip, m)' => m >= cut \/ BeingRemoved(m)'
      BY <2>1, <2>2 DEF BeingRemoved, Minute
    <3>. QED
      BY <2>1, <2>2, <3>1, <3>2
      DEF CountInv, MinutesClose, TypeInv, TypeOK, Minute
  <2>. QED  BY <2>4, <2>5
<1>4. CASE RemoveOldieUpdates
  <2>1. /\ pc = "remove" /\ pc' = "capture"
        /\ starting_time' = max_update_time + ThresholdMinutes
        /\ UNCHANGED <<now, high, count, posted, watermark, max_update_time>>
        /\ max_update_time = watermark
    BY <1>4 DEF RemoveOldieUpdates, RemoveBelow, CountInv, MinutesClose
  <2>2. ASSUME NEW ip \in Ip, NEW m \in Minute
        PROVE  /\ Live(ip, m)' <=> Live(ip, m) /\ m >= watermark
               /\ Live(ip, m)' => received_meps'[ip][m] = received_meps[ip][m]
    <3>1. received_meps'[ip] =
            [k \in DOMAIN received_meps[ip] \ Below(received_meps[ip], watermark)
               |-> received_meps[ip][k]]
      BY <1>4, <2>1 DEF RemoveOldieUpdates, RemoveBelow, Restrict
    <3>2. DOMAIN received_meps[ip] \subseteq Minute /\ watermark \in Nat
      BY DEF TypeInv, TypeOK, IsMeps, CountInv
    <3>. QED  BY <3>1, <3>2 DEF Below, Live, Minute
  <2>3. \A m \in Minute : ~ BeingRemoved(m)'
    BY <2>1 DEF BeingRemoved
  <2>4. CountedOnce'
    <3>1. ASSUME NEW ip \in Ip, NEW m \in Minute
          PROVE  IF Live(ip, m)'
                 THEN received_meps'[ip][m] = count'[ip][m] /\ posted'[ip][m] = 0
                 ELSE posted'[ip][m] = count'[ip][m]
      <4>1. BeingRemoved(m) <=> m < watermark
        BY <2>1 DEF BeingRemoved
      <4>2. IF Live(ip, m)
            THEN /\ received_meps[ip][m] = count[ip][m]
                 /\ posted[ip][m] = IF BeingRemoved(m) THEN count[ip][m] ELSE 0
            ELSE posted[ip][m] = count[ip][m]
        BY DEF CountInv, CountedOnce
      <4>3. m \in Nat /\ watermark \in Nat /\ count' = count /\ posted' = posted
        BY <2>1 DEF CountInv, TypeInv, TypeOK, Minute
      <4>. QED  BY <2>2, <4>1, <4>2, <4>3
    <3>. QED  BY <2>3, <3>1 DEF CountedOnce
  <2>5. MinutesClose'
    BY <2>1, <2>2 DEF CountInv, MinutesClose, TypeInv, TypeOK, Minute
  <2>. QED  BY <2>4, <2>5
<1>5. CASE Tick
  BY <1>5
  DEF Tick, CountInv, MinutesClose, CountedOnce, Live, BeingRemoved, TypeInv,
      TypeOK, Minute
<1>6. CASE SetClockBack
  BY <1>6
  DEF SetClockBack, CountInv, MinutesClose, CountedOnce, Live, BeingRemoved,
      TypeInv, TypeOK, Minute
<1>7. CASE Restart
  <2>1. /\ pc' = "capture" /\ starting_time' = 0
        /\ received_meps' = NoMeps /\ count' = posted
        /\ UNCHANGED <<now, high, posted, watermark>>
    BY <1>7 DEF Restart
  <2>2. \A ip \in Ip, m \in Minute : ~ Live(ip, m)'
    BY <2>1 DEF Live, NoMeps, EmptyMap
  <2>. QED  BY <2>1, <2>2 DEF CountInv, MinutesClose, CountedOnce
<1>8. CASE TakeTask \/ UNCHANGED vars
  BY <1>8
  DEF TakeTask, vars, CountInv, MinutesClose, CountedOnce, Live, BeingRemoved
<1>. QED
  BY <1>1, <1>2, <1>3, <1>4, <1>5, <1>6, <1>7, <1>8 DEF Next, CaptureThread

LEMMA CountInvariant == ASSUME ClockStepsBounded PROVE Spec => []CountInv
<1>1. Init => CountInv
  BY TypeInit, CountInit DEF CountInv
<1>2. CountInv /\ [Next]_vars => CountInv'
  BY TypeStep, CountStep DEF CountInv
<1>. QED  BY <1>1, <1>2, PTL DEF Spec

(* While the clock is never set back by more than the two minutes that a   *)
(* minute stays open, each packet is counted and posted exactly once.      *)
THEOREM PacketsCountedOnce ==
  ASSUME ClockStepsBounded PROVE Spec => []CountedOnce
BY CountInvariant, PTL DEF CountInv

(* Under the same condition no minute below the watermark is open, and the *)
(* next posting cuts above it.                                             *)
THEOREM PostedMinutesClose ==
  ASSUME ClockStepsBounded PROVE Spec => []MinutesClose
BY CountInvariant, PTL DEF CountInv
-----------------------------------------------------------------------------
(* A step of the dispatcher is a step of the ledger, or none.              *)
LEMMA LedgerStep ==
  ASSUME ClockStepsBounded, CountInv, CountInv', [Next]_vars
  PROVE  [Ledger!Next]_(Ledger!vars)
<1>. USE DEF Ledger!Next, Ledger!vars
<1>1. ASSUME NEW ip \in Ip, NEW seqno \in Seqnos, DispatchPacket(ip, seqno)
      PROVE  Ledger!Next
  <2>1. now \in Minute /\ now >= watermark
    BY NowIsOpen DEF CountInv, TypeInv, TypeOK
  <2>2. Ledger!Count(ip, now)
    BY <1>1, <2>1 DEF DispatchPacket, Ledger!Count
  <2>. QED  BY <2>1, <2>2
<1>2. CASE SkipPosting
  BY <1>2 DEF SkipPosting
<1>3. CASE EnqueueWriteRRDs
  <2>. DEFINE cut == max_update_time'
  <2>1. cut \in Minute /\ cut > watermark
    BY <1>3, WatermarkRises DEF CountInv
  <2>2. watermark' = cut /\ count' = count /\ pc' = "remove"
    BY <1>3 DEF EnqueueWriteRRDs
  <2>3. posted' = [ip \in Ip |-> [m \in Minute |-> posted'[ip][m]]]
    BY DEF CountInv, TypeInv, TypeOK
  <2>4. ASSUME NEW ip \in Ip, NEW m \in Minute
        PROVE  posted'[ip][m] = IF m < cut THEN count[ip][m] ELSE 0
    <3>1. m < cut => posted'[ip][m] = count[ip][m]
      BY <2>2 DEF CountInv, CountedOnce, BeingRemoved
    <3>2. posted'[ip][m] > 0 => m < cut
      BY <2>2 DEF CountInv, MinutesClose
    <3>3. posted'[ip][m] \in Nat
      BY DEF CountInv, TypeInv, TypeOK
    <3>. QED  BY <3>1, <3>2, <3>3
  <2>5. posted' = [ip \in Ip |-> [m \in Minute |->
                     IF m < cut THEN count[ip][m] ELSE 0]]
    BY <2>3, <2>4
  <2>6. Ledger!Post(cut)
    BY <2>1, <2>2, <2>5 DEF Ledger!Post
  <2>. QED  BY <2>1, <2>6
<1>4. CASE RemoveOldieUpdates
  BY <1>4 DEF RemoveOldieUpdates, RemoveBelow
<1>5. CASE Tick
  BY <1>5 DEF Tick
<1>6. CASE SetClockBack
  BY <1>6 DEF SetClockBack
<1>7. CASE Restart
  BY <1>7 DEF Restart, Ledger!Forget
<1>8. CASE TakeTask \/ UNCHANGED vars
  BY <1>8 DEF TakeTask, vars
<1>. QED
  BY <1>1, <1>2, <1>3, <1>4, <1>5, <1>6, <1>7, <1>8 DEF Next, CaptureThread

(* The dispatcher implements the ledger: once a minute was posted nothing  *)
(* is counted into it, and its posted count is its count.                  *)
THEOREM DispatcherImplementsLedger ==
  ASSUME ClockStepsBounded PROVE Spec => ImplementsLedger
<1>1. Init => Ledger!Init
  BY DEF Init, Ledger!Init, NoPackets, Ledger!NoPackets
<1>2. CountInv /\ CountInv' /\ [Next]_vars => [Ledger!Next]_(Ledger!vars)
  BY LedgerStep
<1>. QED
  BY <1>1, <1>2, CountInvariant, PTL DEF Spec, ImplementsLedger, Ledger!Spec
-----------------------------------------------------------------------------
(* One more packet pays for OutlierGap - 1 more losses.                    *)
LEMMA OnePacketMore ==
  ASSUME NEW r \in Nat, NEW l \in Nat, NEW d \in 0 .. OutlierGap - 1,
         r >= 1, l <= (OutlierGap - 1) * (r - 1)
  PROVE  /\ r + 1 >= 1
         /\ l + d <= (OutlierGap - 1) * ((r + 1) - 1)
<1>1. OutlierGap \in Nat
  BY SeqnoAssumption
<1>2. (OutlierGap - 1) * r = (OutlierGap - 1) * (r - 1) + (OutlierGap - 1)
  BY <1>1
<1>. QED  BY <1>1, <1>2

LEMMA NoLossYet == 0 <= (OutlierGap - 1) * (1 - 1)
BY SeqnoAssumption

LEMMA LossStep ==
  ASSUME TypeInv, LossBounded, [Next]_vars
  PROVE  LossBounded'
<1>1. ASSUME NEW ip \in Ip, NEW seqno \in Seqnos, DispatchPacket(ip, seqno)
      PROVE  LossBounded'
  <2>. DEFINE known == now \in DOMAIN received_meps[ip]
              d == LostBetween(last_seqnos[ip], seqno)
              r == IF known THEN received_meps[ip][now] + 1 ELSE 1
              l == IF known THEN lost_meps[ip][now] + d ELSE 0
  <2>1. /\ received_meps' = [received_meps EXCEPT
                               ![ip] = Put(received_meps[ip], now, r)]
        /\ lost_meps' = [lost_meps EXCEPT ![ip] = Put(lost_meps[ip], now, l)]
        /\ queue' = queue
    BY <1>1 DEF DispatchPacket, UpdateDataSets
  <2>2. /\ IsMeps(received_meps) /\ IsMeps(lost_meps)
        /\ Paired(received_meps, lost_meps)
    BY DEF TypeInv, TypeOK
  <2>3. r >= 1 /\ l <= (OutlierGap - 1) * (r - 1)
    <3>1. d \in 0 .. OutlierGap - 1
      BY LostBetweenBounded, DispatcherAssumption DEF TypeInv, TypeOK
    <3>2. CASE known
      <4>1. /\ received_meps[ip][now] \in Nat
            /\ lost_meps[ip][now] \in Nat
            /\ received_meps[ip][now] >= 1
            /\ lost_meps[ip][now] <=
                 (OutlierGap - 1) * (received_meps[ip][now] - 1)
        BY <2>2, <3>2 DEF IsMeps, Paired, LossBounded, LossBound
      <4>. HIDE DEF d
      <4>. QED  BY <3>1, <3>2, <4>1, OnePacketMore
    <3>3. CASE ~ known
      BY <3>3, NoLossYet
    <3>. QED  BY <3>2, <3>3
  <2>. HIDE DEF r, l
  <2>4. LossBound(received_meps', lost_meps')
    <3>1. SUFFICES ASSUME NEW e \in Ip, NEW m \in DOMAIN received_meps'[e]
                   PROVE  /\ received_meps'[e][m] >= 1
                          /\ lost_meps'[e][m] <=
                               (OutlierGap - 1) * (received_meps'[e][m] - 1)
      BY DEF LossBound
    <3>2. CASE e = ip /\ m = now
      <4>1. received_meps'[ip][now] = r /\ lost_meps'[ip][now] = l
        BY <2>1, <2>2 DEF Put, IsMeps
      <4>. QED  BY <2>3, <3>2, <4>1
    <3>3. CASE e # ip \/ m # now
      <4>1. /\ m \in DOMAIN received_meps[e]
            /\ received_meps'[e][m] = received_meps[e][m]
            /\ lost_meps'[e][m] = lost_meps[e][m]
        BY <2>1, <2>2, <3>3 DEF Put, IsMeps, Paired
      <4>. QED  BY <4>1 DEF LossBounded, LossBound
    <3>. QED  BY <3>2, <3>3
  <2>. QED  BY <2>1, <2>4 DEF LossBounded
<1>2. CASE EnqueueWriteRRDs
  <2>. DEFINE b == Batch(max_update_time')
  <2>1. /\ queue' = Append(queue, b)
        /\ UNCHANGED <<received_meps, lost_meps>>
    BY <1>2 DEF EnqueueWriteRRDs
  <2>2. LossBound(b.received, b.lost)
    BY DEF LossBounded, LossBound, Batch, Restrict, Below
  <2>. HIDE DEF b
  <2>3. \A i \in DOMAIN queue' : queue'[i] = b \/ \E j \in DOMAIN queue : queue'[i] = queue[j]
    BY <2>1 DEF TypeInv, TypeOK
  <2>. QED  BY <2>1, <2>2, <2>3 DEF LossBounded
<1>3. CASE RemoveOldieUpdates
  <2>1. LossBound(received_meps', lost_meps')
    BY <1>3
    DEF RemoveOldieUpdates, RemoveBelow, LossBounded, LossBound, TypeInv, TypeOK, Paired,
        Restrict, Below
  <2>. QED  BY <1>3, <2>1 DEF RemoveOldieUpdates, RemoveBelow, LossBounded
<1>4. CASE SkipPosting \/ Tick \/ SetClockBack \/ UNCHANGED vars
  BY <1>4 DEF SkipPosting, Tick, SetClockBack, vars, LossBounded
<1>5. CASE Restart
  BY <1>5 DEF Restart, LossBounded, LossBound, NoMeps, EmptyMap
<1>6. CASE TakeTask
  <2>1. UNCHANGED <<received_meps, lost_meps>>
    BY <1>6 DEF TakeTask
  <2>2. \A i \in DOMAIN queue' : \E j \in DOMAIN queue : queue'[i] = queue[j]
    BY <1>6, TailOfQueue DEF TypeInv
  <2>. QED  BY <2>1, <2>2 DEF LossBounded
<1>. QED
  BY <1>1, <1>2, <1>3, <1>4, <1>5, <1>6 DEF Next, CaptureThread

(* The losses of a minute are bounded by its packets, in the maps and in   *)
(* every task, whatever numbers the devices send.                          *)
THEOREM LossesBounded == Spec => []LossBounded
<1>1. Init => LossBounded
  BY DEF Init, LossBounded, LossBound, NoMeps, EmptyMap
<1>. QED  BY <1>1, LossStep, TypeInvariant, PTL DEF Spec
-----------------------------------------------------------------------------
BatchInv == TypeInv /\ MinuteAtHand /\ NoEmptyBatch

LEMMA BatchStep ==
  ASSUME DispatchIsPrompt, BatchInv, [Next]_vars
  PROVE  MinuteAtHand' /\ NoEmptyBatch'
<1>. USE DispatcherAssumption
<1>1. ASSUME NEW ip \in Ip, NEW seqno \in Seqnos, DispatchPacket(ip, seqno)
      PROVE  MinuteAtHand' /\ NoEmptyBatch'
  <2>1. /\ pc' = "posting_test" /\ packet_time' = now
        /\ starting_time' = IF starting_time = 0 THEN now ELSE starting_time
        /\ UNCHANGED <<now, high, queue>>
        /\ pc = "capture" /\ now \in Minute
    BY <1>1 DEF DispatchPacket, BatchInv, TypeInv, TypeOK
  <2>2. /\ now \in DOMAIN received_meps'[ip]
        /\ \A d \in Ip : DOMAIN received_meps[d] \subseteq DOMAIN received_meps'[d]
    <3>1. DOMAIN received_meps = Ip
      BY DEF BatchInv, TypeInv, TypeOK, IsMeps
    <3>. QED  BY <1>1, <3>1 DEF DispatchPacket, UpdateDataSets, Put
  <2>3. \E d \in Ip : \E m \in DOMAIN received_meps'[d] :
          m <= starting_time' + ClockSlack
    <3>1. CASE starting_time = 0
      BY <2>1, <2>2, <3>1 DEF Minute
    <3>2. CASE starting_time # 0
      BY <2>1, <2>2, <3>2 DEF BatchInv, MinuteAtHand
    <3>. QED  BY <3>1, <3>2
  <2>4. starting_time' # 0
    BY <2>1 DEF Minute
  <2>5. \E d \in Ip : Live(d, packet_time)'
    BY <2>1, <2>2 DEF Live
  <2>6. now <= high /\ now >= high - ClockSlack /\ now - now <= MaxLag
    BY <2>1 DEF BatchInv, MinuteAtHand, Minute
  <2>7. MinuteAtHand'
    BY <2>1, <2>3, <2>4, <2>5, <2>6 DEF MinuteAtHand
  <2>. QED  BY <2>1, <2>7 DEF BatchInv, NoEmptyBatch
<1>2. CASE SkipPosting
  BY <1>2 DEF SkipPosting, BatchInv, MinuteAtHand, NoEmptyBatch, Live
<1>3. CASE EnqueueWriteRRDs
  <2>. DEFINE cut == max_update_time'
              b == Batch(cut)
  <2>1. /\ pc = "posting_test" /\ pc' = "remove"
        /\ cut = now - ThresholdMinutes
        /\ now - starting_time > RrdUpdateSize
        /\ queue' = Append(queue, b)
        /\ UNCHANGED <<now, high, packet_time, starting_time, received_meps>>
    BY <1>3 DEF EnqueueWriteRRDs, PostingDue
  <2>2. /\ now \in Minute /\ high \in Minute /\ packet_time \in Nat
        /\ starting_time \in Nat
        /\ now <= high /\ now >= high - ClockSlack
        /\ packet_time <= high /\ now - packet_time <= MaxLag
        /\ starting_time # 0
    BY <2>1 DEF BatchInv, MinuteAtHand, TypeInv, TypeOK
  <2>3. /\ packet_time' >= cut + ThresholdMinutes - MaxLag
        /\ packet_time' <= cut + ThresholdMinutes + ClockSlack
    BY <2>1, <2>2 DEF Minute
  <2>4. MinuteAtHand'
    BY <2>1, <2>2, <2>3 DEF BatchInv, MinuteAtHand, Live
  <2>5. PICK ip \in Ip : \E m \in DOMAIN received_meps[ip] :
          m <= starting_time + ClockSlack
    BY <2>1, <2>2 DEF BatchInv, MinuteAtHand
  <2>. PICK m \in DOMAIN received_meps[ip] : m <= starting_time + ClockSlack
    BY <2>5
  <2>6. m \in Minute
    BY DEF BatchInv, TypeInv, TypeOK, IsMeps
  <2>7. m < cut
    <3>1. ThresholdMinutes + ClockSlack <= RrdUpdateSize
      BY DEF DispatchIsPrompt
    <3>2. /\ m \in Nat /\ now \in Nat /\ starting_time \in Nat
          /\ cut = now - ThresholdMinutes /\ m <= starting_time + ClockSlack
          /\ now - starting_time > RrdUpdateSize
      BY <2>1, <2>2, <2>6 DEF Minute
    <3>. HIDE DEF b, cut
    <3>. QED  BY <3>1, <3>2
  <2>8. \E d \in Ip : DOMAIN b.received[d] # {}
    <3>1. DOMAIN b.received[ip] = {k \in DOMAIN received_meps[ip] : k < cut}
      BY DEF Batch, Restrict, Below
    <3>2. m \in DOMAIN b.received[ip]
      BY <2>7, <3>1
    <3>. HIDE DEF b
    <3>. QED  BY <3>2
  <2>. HIDE DEF b
  <2>9. \A i \in DOMAIN queue' :
          queue'[i] = b \/ \E j \in DOMAIN queue : queue'[i] = queue[j]
    BY <2>1 DEF BatchInv, TypeInv, TypeOK
  <2>10. NoEmptyBatch'
    BY <2>8, <2>9 DEF BatchInv, NoEmptyBatch
  <2>. QED  BY <2>4, <2>10
<1>4. CASE RemoveOldieUpdates
  <2>1. /\ pc = "remove" /\ pc' = "capture"
        /\ starting_time' = max_update_time + ThresholdMinutes
        /\ UNCHANGED <<now, high, queue, packet_time>>
    BY <1>4 DEF RemoveOldieUpdates, RemoveBelow
  <2>2. PICK ip \in Ip : packet_time \in DOMAIN received_meps[ip]
    BY <2>1 DEF BatchInv, MinuteAtHand, Live
  <2>3. /\ packet_time >= max_update_time
        /\ packet_time <= starting_time' + ClockSlack
    BY <2>1 DEF BatchInv, MinuteAtHand, TypeInv, TypeOK, DispatchIsPrompt
  <2>4. ~ packet_time < max_update_time
    BY <2>3 DEF BatchInv, TypeInv, TypeOK
  <2>5. packet_time \in DOMAIN received_meps'[ip]
    BY <1>4, <2>2, <2>4 DEF RemoveOldieUpdates, RemoveBelow, Restrict, Below
  <2>6. MinuteAtHand'
    BY <2>1, <2>3, <2>5 DEF BatchInv, MinuteAtHand
  <2>. QED  BY <2>1, <2>6 DEF BatchInv, NoEmptyBatch
<1>5. CASE Tick
  <2>1. UNCHANGED <<pc, packet_time, starting_time, max_update_time,
                    received_meps, queue>>
    BY <1>5 DEF Tick
  <2>2. /\ now' <= high' /\ now' >= high' - ClockSlack
        /\ packet_time <= high => packet_time <= high'
        /\ pc = "posting_test" => now' - packet_time <= MaxLag
    BY <1>5 DEF Tick, BatchInv, MinuteAtHand, TypeInv, TypeOK, Minute
  <2>. QED
    BY <2>1, <2>2 DEF BatchInv, MinuteAtHand, NoEmptyBatch, Live
<1>6. CASE SetClockBack
  <2>1. UNCHANGED <<pc, packet_time, starting_time, max_update_time,
                    received_meps, queue, high>>
    BY <1>6 DEF SetClockBack
  <2>2. /\ now' <= high /\ now' >= high - ClockSlack
        /\ now - packet_time <= MaxLag => now' - packet_time <= MaxLag
    BY <1>6 DEF SetClockBack, BatchInv, MinuteAtHand, TypeInv, TypeOK, Minute
  <2>. QED
    BY <2>1, <2>2 DEF BatchInv, MinuteAtHand, NoEmptyBatch, Live
<1>7. CASE Restart
  BY <1>7 DEF Restart, BatchInv, MinuteAtHand, NoEmptyBatch
<1>8. CASE UNCHANGED vars
  BY <1>8 DEF vars, BatchInv, MinuteAtHand, NoEmptyBatch, Live
<1>9. CASE TakeTask
  <2>1. UNCHANGED <<now, high, pc, packet_time, starting_time, max_update_time,
                    received_meps>>
    BY <1>9 DEF TakeTask
  <2>2. \A i \in DOMAIN queue' : \E j \in DOMAIN queue : queue'[i] = queue[j]
    BY <1>9, TailOfQueue DEF BatchInv, TypeInv
  <2>. QED  BY <2>1, <2>2 DEF BatchInv, MinuteAtHand, NoEmptyBatch, Live
<1>. QED
  BY <1>1, <1>2, <1>3, <1>4, <1>5, <1>6, <1>7, <1>8, <1>9 DEF Next, CaptureThread

LEMMA BatchInvariant == ASSUME DispatchIsPrompt PROVE Spec => []BatchInv
<1>1. Init => BatchInv
  BY TypeInit, DispatcherAssumption
  DEF Init, BatchInv, MinuteAtHand, NoEmptyBatch
<1>2. BatchInv /\ [Next]_vars => BatchInv'
  BY TypeStep, BatchStep DEF BatchInv
<1>. QED  BY <1>1, <1>2, PTL DEF Spec

(* The maps always hold a minute that the next posting will find, when a   *)
(* dispatch straddles at most ThresholdMinutes minute boundaries and the   *)
(* clock is set back by at most what RrdUpdateSize leaves over them.       *)
THEOREM AMinuteIsAtHand ==
  ASSUME DispatchIsPrompt PROVE Spec => []MinuteAtHand
<1>1. BatchInv => MinuteAtHand
  BY DEF BatchInv
<1>. QED  BY <1>1, BatchInvariant, PTL

(* Then no task is enqueued without a minute to write.                     *)
THEOREM NoBatchIsEmpty ==
  ASSUME DispatchIsPrompt PROVE Spec => []NoEmptyBatch
<1>1. BatchInv => NoEmptyBatch
  BY DEF BatchInv
<1>. QED  BY <1>1, BatchInvariant, PTL
-----------------------------------------------------------------------------
(* What a minute's losses on record say of what the network dropped.       *)
IsRecord(lost, missed, unseen) == lost <= missed /\ missed <= lost + unseen

(* While a device's order is kept, the last number of the dispatcher is    *)
(* the last one sent, and a minute that may still open has lost nothing.   *)
InOrderInv(ip) ==
  /\ delayed[ip] = {}
  /\ \A m \in Minute : Live(ip, m) =>
       /\ last_seqnos[ip] = sent[ip]
       /\ IsRecord(lost_meps[ip][m], dropped[ip][m], excused[ip][m])
  /\ \A m \in Minute : ~ Live(ip, m) /\ m >= watermark => dropped[ip][m] = 0
  /\ \A i \in DOMAIN queue : \A m \in DOMAIN queue[i].lost[ip] :
       /\ m < watermark
       /\ IsRecord(queue[i].lost[ip][m], dropped[ip][m], excused[ip][m])

FeedType ==
  /\ sent \in [Ip -> Int32]
  /\ delayed = [ip \in Ip |-> delayed[ip]]
  /\ \A ip \in Ip : delayed[ip] \subseteq Int32
  /\ delays \in [Ip -> Nat]
  /\ dropped \in [Ip -> [Minute -> Nat]]
  /\ excused \in [Ip -> [Minute -> Nat]]

FeedInv == FeedType /\ \A ip \in Ip : delays[ip] = 0 => InOrderInv(ip)

LEMMA NextNumber ==
  ASSUME NEW last \in Int32, NEW skipped \in 0 .. MaxSkip
  PROVE  Wrap(last + skipped + 1) \in Int32
BY FeedAssumption, IntAssumption DEF Wrap, Int32

(* The loss between a number and the next one that was not dropped: never  *)
(* more than was dropped, and, away from the end of the int and below an   *)
(* outlier, no less.                                                       *)
LEMMA LossOfNext ==
  ASSUME NEW last \in Int32, NEW skipped \in 0 .. MaxSkip
  PROVE  LET lost == LostBetween(last, Wrap(last + skipped + 1))
         IN  /\ lost \in Nat /\ lost <= skipped
             /\ skipped < OutlierGap /\ last + OutlierGap < HalfRange =>
                  lost = skipped
<1>. DEFINE seqno == Wrap(last + skipped + 1)
<1>1. seqno \in Int32 /\ skipped \in Nat /\ skipped <= HalfRange
  <2>1. seqno \in Int32
    BY NextNumber
  <2>2. skipped \in Nat /\ skipped <= HalfRange
    BY FeedAssumption, IntAssumption
  <2>. QED  BY <2>1, <2>2
<1>2. LostBetween(last, seqno) \in Nat
  BY <1>1, LostBetweenBounded, SeqnoAssumption
<1>3. LostBetween(last, seqno) <= skipped
  <2>1. CASE ~ IsGap(last, seqno)
    BY <1>1, <2>1 DEF LostBetween
  <2>2. CASE IsGap(last, seqno)
    <3>1. seqno > Wrap(last + 1) /\ LostBetween(last, seqno) = Wrap(seqno - last - 1)
      BY <2>2 DEF IsGap, LostBetween
    <3>2. CASE last + 1 >= HalfRange
      BY <1>1, <3>1, <3>2, SeqnoAssumption DEF Wrap, Int32
    <3>3. CASE last + 1 < HalfRange
      BY <1>1, <3>1, <3>3, SeqnoAssumption DEF Wrap, Int32
    <3>. QED  BY <3>2, <3>3, SeqnoAssumption DEF Int32
  <2>. QED  BY <2>1, <2>2
<1>4. ASSUME skipped < OutlierGap, last + OutlierGap < HalfRange
      PROVE  LostBetween(last, seqno) = skipped
  <2>1. seqno = last + skipped + 1 /\ Wrap(last + OutlierGap) = last + OutlierGap
    BY <1>1, <1>4, SeqnoAssumption DEF Wrap, Int32
  <2>2. Wrap(last + 1) = last + 1 /\ Wrap(seqno - last - 1) = skipped
    BY <1>1, <1>4, <2>1, SeqnoAssumption DEF Wrap, Int32
  <2>. QED  BY <1>1, <1>4, <2>1, <2>2, SeqnoAssumption
            DEF LostBetween, IsGap, IsOutlier, Int32
<1>. QED  BY <1>2, <1>3, <1>4

(* What a packet changes in the maps.                                      *)
LEMMA PacketInMaps ==
  ASSUME TypeInv, NEW ip \in Ip, NEW seqno \in Int32, DispatchPacket(ip, seqno)
  PROVE  /\ \A d \in Ip : d # ip =>
              /\ received_meps'[d] = received_meps[d]
              /\ lost_meps'[d] = lost_meps[d]
              /\ last_seqnos'[d] = last_seqnos[d]
         /\ last_seqnos'[ip] = seqno
         /\ \A m \in Minute : m # now =>
              /\ Live(ip, m)' <=> Live(ip, m)
              /\ Live(ip, m) => lost_meps'[ip][m] = lost_meps[ip][m]
         /\ Live(ip, now)'
         /\ lost_meps'[ip][now] =
              IF Live(ip, now)
              THEN lost_meps[ip][now] + LostBetween(last_seqnos[ip], seqno) ELSE 0
         /\ now \in Minute /\ UNCHANGED <<now, queue, watermark>>
<1>1. /\ IsMeps(received_meps) /\ IsMeps(lost_meps)
      /\ Paired(received_meps, lost_meps) /\ last_seqnos \in [Ip -> Int32]
      /\ now \in Minute
  BY DEF TypeInv, TypeOK
<1>. DEFINE known == now \in DOMAIN received_meps[ip]
            r == IF known THEN received_meps[ip][now] + 1 ELSE 1
            l == IF known THEN lost_meps[ip][now] + LostBetween(last_seqnos[ip], seqno)
                 ELSE 0
<1>2. /\ received_meps' = [received_meps EXCEPT ![ip] = Put(received_meps[ip], now, r)]
      /\ lost_meps' = [lost_meps EXCEPT ![ip] = Put(lost_meps[ip], now, l)]
      /\ last_seqnos' = [last_seqnos EXCEPT ![ip] = seqno]
      /\ UNCHANGED <<now, queue, watermark>>
  BY DEF DispatchPacket, UpdateDataSets
<1>. HIDE DEF r, l
<1>3. /\ received_meps'[ip] = Put(received_meps[ip], now, r)
      /\ lost_meps'[ip] = Put(lost_meps[ip], now, l)
      /\ last_seqnos'[ip] = seqno
      /\ \A d \in Ip : d # ip =>
           /\ received_meps'[d] = received_meps[d]
           /\ lost_meps'[d] = lost_meps[d]
           /\ last_seqnos'[d] = last_seqnos[d]
  BY <1>1, <1>2 DEF IsMeps
<1>4. DOMAIN lost_meps[ip] = DOMAIN received_meps[ip]
  BY <1>1 DEF Paired
<1>5. \A m \in Minute : m # now =>
        /\ Live(ip, m)' <=> Live(ip, m)
        /\ Live(ip, m) => lost_meps'[ip][m] = lost_meps[ip][m]
  BY <1>3, <1>4 DEF Put, Live
<1>6. Live(ip, now)' /\ lost_meps'[ip][now] = l
  BY <1>2, <1>3 DEF Put, Live
<1>. QED  BY <1>1, <1>2, <1>3, <1>5, <1>6 DEF Live, l

(* Now is an open minute: its first packet finds no count, and loses       *)
(* nothing on record.                                                      *)
LEMMA FirstIsExcused ==
  ASSUME ClockStepsBounded, CountInv, NEW ip \in Ip, ~ Live(ip, now)
  PROVE  now >= watermark /\ count[ip][now] = 0
<1>1. now \in Minute /\ posted[ip][now] \in Nat
  BY DEF CountInv, TypeInv, TypeOK
<1>2. now >= watermark
  BY NowIsOpen DEF CountInv
<1>3. posted[ip][now] = count[ip][now]
  BY <1>1 DEF CountInv, CountedOnce
<1>4. ~ (posted[ip][now] > 0)
  <2>1. posted[ip][now] > 0 => now < watermark
    BY <1>1 DEF CountInv, MinutesClose
  <2>2. watermark \in Nat /\ now \in Nat
    BY DEF CountInv, TypeInv, TypeOK, Minute
  <2>. QED  BY <1>2, <2>1, <2>2
<1>. QED  BY <1>1, <1>2, <1>3, <1>4

(* A packet of another device leaves the order of this one alone.          *)
LEMMA OtherDevice ==
  ASSUME TypeInv, NEW ip \in Ip, NEW seqno \in Int32, DispatchPacket(ip, seqno),
         NEW d \in Ip, d # ip, InOrderInv(d),
         sent'[d] = sent[d], delayed'[d] = delayed[d],
         dropped'[d] = dropped[d], excused'[d] = excused[d]
  PROVE  InOrderInv(d)'
<1>1. /\ received_meps'[d] = received_meps[d] /\ lost_meps'[d] = lost_meps[d]
      /\ last_seqnos'[d] = last_seqnos[d] /\ UNCHANGED <<queue, watermark>>
  BY PacketInMaps
<1>. QED  BY <1>1 DEF InOrderInv, Live, IsRecord

LEMMA DeliverStep ==
  ASSUME ClockStepsBounded, CountInv, FeedInv,
         NEW ip \in Ip, NEW skipped \in 0 .. MaxSkip, Deliver(ip, skipped)
  PROVE  FeedInv'
<1>. DEFINE seqno == Wrap(sent[ip] + skipped + 1)
            e == IF Excused(ip, skipped) THEN skipped ELSE 0
<1>1. /\ sent' = [sent EXCEPT ![ip] = seqno]
      /\ DispatchPacket(ip, sent'[ip])
      /\ dropped' = [dropped EXCEPT ![ip][now] = dropped[ip][now] + skipped]
      /\ excused' = [excused EXCEPT ![ip][now] = excused[ip][now] + e]
      /\ UNCHANGED <<delayed, delays>>
  BY DEF Deliver, Send
<1>2. TypeInv /\ FeedType /\ now \in Minute /\ skipped \in Nat
  BY FeedAssumption DEF CountInv, FeedInv, TypeInv, TypeOK
<1>3. sent[ip] \in Int32 /\ seqno \in Int32
  BY <1>2, NextNumber DEF FeedType
<1>4. /\ sent' \in [Ip -> Int32] /\ sent'[ip] = seqno
      /\ \A d \in Ip : d # ip => sent'[d] = sent[d]
  <2>. HIDE DEF seqno
  <2>. QED  BY <1>1, <1>2, <1>3 DEF FeedType
<1>5. e \in Nat /\ (Excused(ip, skipped) => e = skipped)
  BY <1>2
<1>. HIDE DEF e
<1>6. /\ dropped' \in [Ip -> [Minute -> Nat]]
      /\ dropped'[ip][now] = dropped[ip][now] + skipped
      /\ \A m \in Minute : m # now => dropped'[ip][m] = dropped[ip][m]
      /\ \A d \in Ip : d # ip => dropped'[d] = dropped[d]
  BY <1>1, <1>2 DEF FeedType
<1>7. /\ excused' \in [Ip -> [Minute -> Nat]]
      /\ excused'[ip][now] = excused[ip][now] + e
      /\ \A m \in Minute : m # now => excused'[ip][m] = excused[ip][m]
      /\ \A d \in Ip : d # ip => excused'[d] = excused[d]
  BY <1>1, <1>2, <1>5 DEF FeedType
<1>8. FeedType'
  BY <1>1, <1>2, <1>4, <1>6, <1>7 DEF FeedType
<1>9. DispatchPacket(ip, seqno)
  BY <1>1, <1>4
<1>. HIDE DEF seqno
<1>10. ASSUME NEW d \in Ip, d # ip, delays'[d] = 0 PROVE InOrderInv(d)'
  <2>1. delays[d] = 0 /\ delayed'[d] = delayed[d]
    BY <1>1, <1>10
  <2>2. InOrderInv(d)
    BY <2>1 DEF FeedInv
  <2>3. sent'[d] = sent[d] /\ dropped'[d] = dropped[d] /\ excused'[d] = excused[d]
    BY <1>4, <1>6, <1>7, <1>10
  <2>. QED  BY <1>2, <1>3, <1>9, <1>10, <2>1, <2>2, <2>3, OtherDevice
<1>11. ASSUME delays'[ip] = 0 PROVE InOrderInv(ip)'
  <2>1. InOrderInv(ip) /\ delayed'[ip] = {}
    BY <1>1, <1>11 DEF FeedInv, InOrderInv
  <2>2. /\ last_seqnos'[ip] = seqno
        /\ \A m \in Minute : m # now =>
             /\ Live(ip, m)' <=> Live(ip, m)
             /\ Live(ip, m) => lost_meps'[ip][m] = lost_meps[ip][m]
        /\ Live(ip, now)'
        /\ lost_meps'[ip][now] =
             IF Live(ip, now)
             THEN lost_meps[ip][now] + LostBetween(last_seqnos[ip], seqno) ELSE 0
        /\ UNCHANGED <<now, queue, watermark>>
    BY <1>2, <1>3, <1>9, PacketInMaps
  <2>3. /\ \A m \in Minute : dropped[ip][m] \in Nat /\ excused[ip][m] \in Nat
        /\ now >= watermark /\ watermark \in Nat /\ now \in Nat
    <3>1. \A m \in Minute : dropped[ip][m] \in Nat /\ excused[ip][m] \in Nat
      BY <1>2 DEF FeedType
    <3>2. watermark \in Nat /\ now \in Nat
      BY DispatcherAssumption DEF CountInv, TypeInv, TypeOK, Minute
    <3>3. now >= watermark
      BY NowIsOpen DEF CountInv
    <3>. QED  BY <3>1, <3>2, <3>3
  <2>4. IsRecord(lost_meps'[ip][now], dropped'[ip][now], excused'[ip][now])
    <3>1. CASE ~ Live(ip, now)
      <4>1. dropped[ip][now] = 0 /\ lost_meps'[ip][now] = 0 /\ count[ip][now] = 0
        BY <1>2, <2>1, <2>2, <3>1, FirstIsExcused DEF InOrderInv
      <4>2. e = skipped
        BY <1>5, <4>1 DEF Excused
      <4>. QED  BY <1>2, <1>6, <1>7, <2>3, <4>1, <4>2 DEF IsRecord
    <3>2. CASE Live(ip, now)
      <4>. DEFINE lost == LostBetween(sent[ip], seqno)
      <4>1. /\ last_seqnos[ip] = sent[ip]
            /\ lost_meps[ip][now] <= dropped[ip][now]
            /\ dropped[ip][now] <= lost_meps[ip][now] + excused[ip][now]
        BY <1>2, <2>1, <3>2 DEF InOrderInv, IsRecord
      <4>2. lost_meps'[ip][now] = lost_meps[ip][now] + lost
        BY <2>2, <3>2, <4>1
      <4>3. /\ lost \in Nat /\ lost <= skipped
            /\ skipped < OutlierGap /\ sent[ip] + OutlierGap < HalfRange =>
                 lost = skipped
        BY <1>3, LossOfNext DEF seqno
      <4>4. lost_meps[ip][now] \in Nat
        <5>1. now \in DOMAIN lost_meps[ip] /\ lost_meps[ip] \in [DOMAIN lost_meps[ip] -> Nat]
          BY <1>2, <3>2 DEF TypeInv, TypeOK, IsMeps, Paired, Live
        <5>. QED  BY <5>1
      <4>. HIDE DEF lost
      <4>5. skipped <= lost + e
        <5>1. CASE Excused(ip, skipped)
          BY <1>2, <1>5, <4>3, <5>1
        <5>2. CASE ~ Excused(ip, skipped)
          <6>1. ~ (skipped >= OutlierGap) /\ ~ (sent[ip] + OutlierGap >= HalfRange)
            BY <5>2 DEF Excused
          <6>2. skipped < OutlierGap /\ sent[ip] + OutlierGap < HalfRange
            BY <1>2, <1>3, <6>1, SeqnoAssumption DEF Int32
          <6>. QED  BY <1>2, <1>5, <4>3, <6>2
        <5>. QED  BY <5>1, <5>2
      <4>6. /\ dropped'[ip][now] = dropped[ip][now] + skipped
            /\ excused'[ip][now] = excused[ip][now] + e
            /\ dropped[ip][now] \in Nat /\ excused[ip][now] \in Nat
        BY <1>2, <1>6, <1>7, <2>3
      <4>. QED  BY <1>2, <1>5, <4>1, <4>2, <4>3, <4>4, <4>5, <4>6 DEF IsRecord
    <3>. QED  BY <3>1, <3>2
  <2>5. \A m \in Minute : Live(ip, m)' =>
          /\ last_seqnos'[ip] = sent'[ip]
          /\ IsRecord(lost_meps'[ip][m], dropped'[ip][m], excused'[ip][m])
    <3>1. \A m \in Minute : m # now /\ Live(ip, m)' =>
            IsRecord(lost_meps'[ip][m], dropped'[ip][m], excused'[ip][m])
      BY <1>6, <1>7, <2>1, <2>2 DEF InOrderInv, IsRecord
    <3>. QED  BY <1>4, <2>2, <2>4, <3>1
  <2>6. \A m \in Minute : ~ Live(ip, m)' /\ m >= watermark' => dropped'[ip][m] = 0
    <3>1. \A m \in Minute : ~ Live(ip, m)' => m # now /\ ~ Live(ip, m)
      BY <2>2 DEF Live
    <3>2. \A m \in Minute : ~ Live(ip, m) /\ m >= watermark => dropped[ip][m] = 0
      BY <2>1 DEF InOrderInv
    <3>3. watermark' = watermark
      BY <2>2
    <3>. QED  BY <1>6, <3>1, <3>2, <3>3
  <2>7. \A i \in DOMAIN queue' : \A m \in DOMAIN queue'[i].lost[ip] :
          /\ m < watermark'
          /\ IsRecord(queue'[i].lost[ip][m], dropped'[ip][m], excused'[ip][m])
    <3>1. \A i \in DOMAIN queue : \A m \in DOMAIN queue[i].lost[ip] :
            /\ m \in Minute /\ m < watermark
            /\ IsRecord(queue[i].lost[ip][m], dropped[ip][m], excused[ip][m])
      BY <1>2, <2>1 DEF InOrderInv, TypeInv, TypeOK, IsBatch, IsMeps
    <3>2. \A m \in Minute : m < watermark => m # now
      BY <2>3 DEF Minute
    <3>. QED  BY <1>6, <1>7, <2>2, <3>1, <3>2 DEF IsRecord
  <2>. QED  BY <2>1, <2>5, <2>6, <2>7 DEF InOrderInv
<1>. QED  BY <1>8, <1>10, <1>11 DEF FeedInv

(* A device that ever had a request delayed is not claimed to be in order. *)
LEMMA DelayStep ==
  ASSUME FeedInv, NEW ip \in Ip, Delay(ip)
  PROVE  FeedInv'
<1>. DEFINE seqno == Wrap(sent[ip] + 0 + 1)
<1>1. /\ sent' = [sent EXCEPT ![ip] = seqno]
      /\ delayed' = [delayed EXCEPT ![ip] = delayed[ip] \cup {sent'[ip]}]
      /\ delays' = [delays EXCEPT ![ip] = delays[ip] + 1]
      /\ UNCHANGED <<received_meps, lost_meps, last_seqnos, queue, watermark,
                     dropped, excused>>
  BY DEF Delay, Send, vars
<1>2. FeedType
  BY DEF FeedInv
<1>3. seqno \in Int32
  <2>1. 0 \in 0 .. MaxSkip
    BY FeedAssumption
  <2>. QED  BY <1>2, <2>1, NextNumber DEF FeedType
<1>. HIDE DEF seqno
<1>4. /\ sent' \in [Ip -> Int32] /\ sent'[ip] = seqno
      /\ \A d \in Ip : d # ip => sent'[d] = sent[d]
  BY <1>1, <1>2, <1>3 DEF FeedType
<1>5. /\ delays' \in [Ip -> Nat] /\ delays'[ip] # 0
      /\ \A d \in Ip : d # ip => delays'[d] = delays[d]
  BY <1>1, <1>2 DEF FeedType
<1>6. /\ delayed' = [d \in Ip |-> delayed'[d]]
      /\ delayed'[ip] = delayed[ip] \cup {seqno}
      /\ \A d \in Ip : d # ip => delayed'[d] = delayed[d]
  BY <1>1, <1>2, <1>4 DEF FeedType
<1>7. FeedType'
  BY <1>1, <1>2, <1>3, <1>4, <1>5, <1>6 DEF FeedType
<1>8. ASSUME NEW d \in Ip, delays'[d] = 0 PROVE InOrderInv(d)'
  <2>1. d # ip /\ delays[d] = 0
    BY <1>5, <1>8
  <2>2. InOrderInv(d)
    BY <2>1 DEF FeedInv
  <2>3. sent'[d] = sent[d] /\ delayed'[d] = delayed[d]
    BY <1>4, <1>6, <2>1
  <2>. QED  BY <1>1, <2>2, <2>3 DEF InOrderInv, Live
<1>. QED  BY <1>7, <1>8 DEF FeedInv

LEMMA DeliverDelayedStep ==
  ASSUME TypeInv, FeedInv, NEW ip \in Ip, DeliverDelayed(ip)
  PROVE  FeedInv'
<1>1. PICK seqno \in delayed[ip] :
        /\ DispatchPacket(ip, seqno)
        /\ delayed' = [delayed EXCEPT ![ip] = delayed[ip] \ {seqno}]
  BY DEF DeliverDelayed
<1>2. FeedType /\ UNCHANGED <<sent, delays, dropped, excused>>
  BY DEF FeedInv, DeliverDelayed
<1>3. seqno \in Int32
  BY <1>1, <1>2 DEF FeedType
<1>4. delays[ip] # 0
  BY <1>1 DEF FeedInv, InOrderInv
<1>5. /\ delayed' = [d \in Ip |-> delayed'[d]]
      /\ delayed'[ip] \subseteq Int32
      /\ \A d \in Ip : d # ip => delayed'[d] = delayed[d]
  BY <1>1, <1>2 DEF FeedType
<1>6. FeedType'
  BY <1>2, <1>5 DEF FeedType
<1>7. ASSUME NEW d \in Ip, delays'[d] = 0 PROVE InOrderInv(d)'
  <2>1. d # ip /\ InOrderInv(d)
    BY <1>2, <1>4, <1>7 DEF FeedInv
  <2>2. /\ sent'[d] = sent[d] /\ delayed'[d] = delayed[d]
        /\ dropped'[d] = dropped[d] /\ excused'[d] = excused[d]
    BY <1>2, <1>5, <2>1
  <2>. QED  BY <1>1, <1>3, <2>1, <2>2, OtherDevice
<1>. QED  BY <1>6, <1>7 DEF FeedInv

(* A posting takes what is on record along.                                *)
LEMMA EnqueueStep ==
  ASSUME CountInv, FeedInv, EnqueueWriteRRDs, UNCHANGED feedVars
  PROVE  FeedInv'
<1>. DEFINE b == Batch(max_update_time')
<1>1. /\ queue' = Append(queue, b) /\ watermark' = max_update_time'
      /\ UNCHANGED <<received_meps, lost_meps, last_seqnos>>
      /\ UNCHANGED <<sent, delayed, delays, dropped, excused>>
  BY DEF EnqueueWriteRRDs, feedVars
<1>2. /\ watermark' \in Nat /\ watermark \in Nat /\ watermark' > watermark
      /\ \A m \in Minute : m \in Nat
  <2>1. watermark' > watermark /\ watermark' \in Minute
    BY <1>1, WatermarkRises DEF CountInv
  <2>. QED  BY <2>1 DEF CountInv, TypeInv, TypeOK, Minute
<1>3. /\ \A ip \in Ip : DOMAIN b.lost[ip] = {m \in DOMAIN received_meps[ip] : m < watermark'}
      /\ \A ip \in Ip : \A m \in DOMAIN b.lost[ip] : b.lost[ip][m] = lost_meps[ip][m]
  BY <1>1 DEF Batch, Restrict, Below
<1>. HIDE DEF b
<1>4. \A i \in DOMAIN queue' :
        \/ i \in DOMAIN queue /\ queue'[i] = queue[i]
        \/ queue'[i] = b
  BY <1>1 DEF CountInv, TypeInv, TypeOK
<1>5. \A ip \in Ip : DOMAIN received_meps[ip] \subseteq Minute
  BY DEF CountInv, TypeInv, TypeOK, IsMeps
<1>6. \A i \in DOMAIN queue : \A ip \in Ip : DOMAIN queue[i].lost[ip] \subseteq Minute
  BY DEF CountInv, TypeInv, TypeOK, IsBatch, IsMeps
<1>7. ASSUME NEW ip \in Ip, delays'[ip] = 0 PROVE InOrderInv(ip)'
  <2>1. InOrderInv(ip)
    BY <1>1, <1>7 DEF FeedInv
  <2>2. \A m \in Minute : Live(ip, m)' <=> Live(ip, m)
    BY <1>1 DEF Live
  <2>3. \A m \in DOMAIN b.lost[ip] :
          m < watermark' /\ IsRecord(b.lost[ip][m], dropped[ip][m], excused[ip][m])
    BY <1>3, <1>5, <2>1 DEF InOrderInv, Live
  <2>4. \A i \in DOMAIN queue : \A m \in DOMAIN queue[i].lost[ip] :
          m < watermark' /\ IsRecord(queue[i].lost[ip][m], dropped[ip][m], excused[ip][m])
    BY <1>2, <1>6, <2>1 DEF InOrderInv
  <2>5. \A i \in DOMAIN queue' : \A m \in DOMAIN queue'[i].lost[ip] :
          m < watermark' /\ IsRecord(queue'[i].lost[ip][m], dropped[ip][m], excused[ip][m])
    BY <1>4, <2>3, <2>4
  <2>6. \A m \in Minute : ~ Live(ip, m)' /\ m >= watermark' => dropped[ip][m] = 0
    BY <1>2, <2>1, <2>2 DEF InOrderInv
  <2>. QED  BY <1>1, <2>1, <2>2, <2>5, <2>6 DEF InOrderInv
<1>. QED  BY <1>1, <1>7 DEF FeedInv, FeedType

(* What is removed is below the watermark, so it will not open again.      *)
LEMMA RemoveStep ==
  ASSUME CountInv, FeedInv, RemoveOldieUpdates, UNCHANGED feedVars
  PROVE  FeedInv'
<1>1. /\ received_meps' = [ip \in Ip |-> Restrict(received_meps[ip],
           DOMAIN received_meps[ip] \ Below(received_meps[ip], max_update_time))]
      /\ lost_meps' = [ip \in Ip |-> Restrict(lost_meps[ip],
           DOMAIN lost_meps[ip] \ Below(lost_meps[ip], max_update_time))]
      /\ pc = "remove"
      /\ UNCHANGED <<last_seqnos, queue, watermark>>
      /\ UNCHANGED <<sent, delayed, delays, dropped, excused>>
  BY DEF RemoveOldieUpdates, RemoveBelow, feedVars
<1>2. max_update_time = watermark /\ watermark \in Nat
  BY <1>1 DEF CountInv, MinutesClose, TypeInv, TypeOK
<1>3. \A ip \in Ip : DOMAIN lost_meps[ip] = DOMAIN received_meps[ip]
  BY DEF CountInv, TypeInv, TypeOK, Paired
<1>4. ASSUME NEW ip \in Ip, NEW m \in Minute
      PROVE  /\ Live(ip, m)' <=> Live(ip, m) /\ ~ (m < watermark)
             /\ Live(ip, m)' => lost_meps'[ip][m] = lost_meps[ip][m]
  BY <1>1, <1>2, <1>3 DEF Live, Restrict, Below
<1>5. ASSUME NEW ip \in Ip, delays'[ip] = 0 PROVE InOrderInv(ip)'
  <2>1. InOrderInv(ip)
    BY <1>1, <1>5 DEF FeedInv
  <2>2. \A m \in Minute : m \in Nat
    BY DEF Minute
  <2>3. \A m \in Minute : ~ Live(ip, m)' /\ m >= watermark => dropped[ip][m] = 0
    BY <1>2, <1>4, <2>1, <2>2 DEF InOrderInv
  <2>. QED  BY <1>1, <1>4, <2>1, <2>3 DEF InOrderInv
<1>. QED  BY <1>1, <1>5 DEF FeedInv, FeedType

LEMMA QuietStep ==
  ASSUME FeedInv, UNCHANGED <<received_meps, lost_meps, last_seqnos, queue, watermark>>,
         UNCHANGED feedVars
  PROVE  FeedInv'
BY DEF FeedInv, FeedType, InOrderInv, Live, feedVars

(* A restart forgets the maps, and the requests still on their way.        *)
LEMMA OutageStep ==
  ASSUME FeedInv, Outage
  PROVE  FeedInv'
<1>1. /\ received_meps' = NoMeps /\ queue' = << >>
      /\ delayed' = [ip \in Ip |-> {}] /\ delays' = [ip \in Ip |-> 0]
      /\ dropped' = NoPackets /\ excused' = NoPackets
  BY DEF Outage, Restart
<1>2. sent' \in [Ip -> Int32]
  <2>1. PICK ip \in Ip, skipped \in 0 .. MaxSkip :
          sent' = [sent EXCEPT ![ip] = Wrap(sent[ip] + skipped)]
    BY DEF Outage
  <2>2. sent \in [Ip -> Int32]
    BY DEF FeedInv, FeedType
  <2>3. Wrap(sent[ip] + skipped) \in Int32
    BY <2>2, FeedAssumption, IntAssumption DEF Wrap, Int32
  <2>. QED  BY <2>1, <2>2, <2>3
<1>3. FeedType'
  BY <1>1, <1>2 DEF FeedType, NoPackets
<1>4. ASSUME NEW ip \in Ip PROVE InOrderInv(ip)'
  <2>1. \A m \in Minute : ~ Live(ip, m)' /\ dropped'[ip][m] = 0
    BY <1>1 DEF Live, NoMeps, EmptyMap, NoPackets
  <2>2. DOMAIN queue' = {}
    BY <1>1
  <2>. QED  BY <1>1, <2>1, <2>2 DEF InOrderInv
<1>. QED  BY <1>3, <1>4 DEF FeedInv

LEMMA FeedInvInit == FeedInit => FeedInv
<1>. SUFFICES ASSUME FeedInit PROVE FeedInv
  OBVIOUS
<1>1. /\ received_meps = NoMeps /\ queue = << >>
      /\ sent \in [Ip -> FirstSeqnos]
      /\ delayed = [ip \in Ip |-> {}] /\ delays = [ip \in Ip |-> 0]
      /\ dropped = NoPackets /\ excused = NoPackets
  BY DEF FeedInit, Init
<1>2. FeedType
  BY <1>1, FeedAssumption DEF FeedType, NoPackets
<1>3. ASSUME NEW ip \in Ip PROVE InOrderInv(ip)
  <2>1. \A m \in Minute : ~ Live(ip, m) /\ dropped[ip][m] = 0
    BY <1>1 DEF Live, NoMeps, EmptyMap, NoPackets
  <2>2. DOMAIN queue = {}
    BY <1>1
  <2>. QED  BY <1>1, <2>1, <2>2 DEF InOrderInv
<1>. QED  BY <1>2, <1>3 DEF FeedInv

(* The feed is the dispatcher with its packets chosen.                     *)
LEMMA FeedIsDispatcher ==
  ASSUME EveryInt, FeedType, [FeedNext]_<<vars, feedVars>>
  PROVE  [Next]_vars
<1>1. ASSUME NEW ip \in Ip, NEW skipped \in 0 .. MaxSkip, Deliver(ip, skipped)
      PROVE  Next
  <2>1. sent \in [Ip -> Int32]
    BY DEF FeedType
  <2>2. sent'[ip] = Wrap(sent[ip] + skipped + 1)
    BY <1>1, <2>1 DEF Deliver, Send
  <2>3. sent'[ip] \in Seqnos
    BY <2>1, <2>2, NextNumber DEF EveryInt
  <2>. QED  BY <1>1, <2>3 DEF Deliver, Next, CaptureThread
<1>2. ASSUME NEW ip \in Ip, Delay(ip) PROVE UNCHANGED vars
  BY <1>2 DEF Delay
<1>3. ASSUME NEW ip \in Ip, DeliverDelayed(ip) PROVE Next
  BY <1>3 DEF DeliverDelayed, FeedType, Next, CaptureThread, EveryInt
<1>. QED  BY <1>1, <1>2, <1>3 DEF FeedNext, Outage, Next, CaptureThread

LEMMA FeedStep ==
  ASSUME ClockStepsBounded, CountInv, FeedInv, [FeedNext]_<<vars, feedVars>>
  PROVE  FeedInv'
<1>1. ASSUME NEW ip \in Ip, NEW skipped \in 0 .. MaxSkip, Deliver(ip, skipped)
      PROVE  FeedInv'
  BY <1>1, DeliverStep
<1>2. ASSUME NEW ip \in Ip, Delay(ip) \/ DeliverDelayed(ip) PROVE FeedInv'
  BY <1>2, DelayStep, DeliverDelayedStep DEF CountInv
<1>3. CASE EnqueueWriteRRDs /\ UNCHANGED feedVars
  BY <1>3, EnqueueStep
<1>4. CASE RemoveOldieUpdates /\ UNCHANGED feedVars
  BY <1>4, RemoveStep
<1>5. CASE (SkipPosting \/ Tick \/ SetClockBack) /\ UNCHANGED feedVars
  BY <1>5, QuietStep DEF SkipPosting, Tick, SetClockBack
<1>6. CASE Outage
  BY <1>6, OutageStep
<1>7. CASE UNCHANGED <<vars, feedVars>>
  BY <1>7, QuietStep DEF vars
<1>. QED  BY <1>1, <1>2, <1>3, <1>4, <1>5, <1>6, <1>7 DEF FeedNext

LEMMA FeedInvariant ==
  ASSUME ClockStepsBounded, EveryInt PROVE FeedSpec => [](CountInv /\ FeedInv)
<1>1. FeedInit => CountInv /\ FeedInv
  BY FeedInvInit, TypeInit, CountInit DEF FeedInit, CountInv
<1>2. CountInv /\ FeedInv /\ [FeedNext]_<<vars, feedVars>> => CountInv' /\ FeedInv'
  <2>. SUFFICES ASSUME CountInv, FeedInv, [FeedNext]_<<vars, feedVars>>
                PROVE  CountInv' /\ FeedInv'
    OBVIOUS
  <2>1. [Next]_vars
    BY FeedIsDispatcher DEF FeedInv
  <2>2. CountInv'
    BY <2>1, TypeStep, CountStep DEF CountInv
  <2>. QED  BY <2>2, FeedStep
<1>. QED  BY <1>1, <1>2, PTL DEF FeedSpec

(* The losses on record, minute by minute.                                 *)
LEMMA RecordsInOrder ==
  ASSUME CountInv, FeedInv, NEW lost \in Records, NEW ip \in Ip, delays[ip] = 0,
         NEW m \in DOMAIN lost[ip]
  PROVE  m \in Minute /\ IsRecord(lost[ip][m], dropped[ip][m], excused[ip][m])
<1>1. InOrderInv(ip)
  BY DEF FeedInv
<1>2. CASE lost = lost_meps
  <2>1. m \in Minute /\ Live(ip, m)
    BY <1>2 DEF CountInv, TypeInv, TypeOK, IsMeps, Paired, Live
  <2>. QED  BY <1>1, <1>2, <2>1 DEF InOrderInv
<1>3. ASSUME NEW i \in DOMAIN queue, lost = queue[i].lost
      PROVE  m \in Minute /\ IsRecord(lost[ip][m], dropped[ip][m], excused[ip][m])
  <2>1. m \in Minute
    BY <1>3 DEF CountInv, TypeInv, TypeOK, IsBatch, IsMeps
  <2>. QED  BY <1>1, <1>3, <2>1 DEF InOrderInv
<1>. QED  BY <1>2, <1>3 DEF Records

(* Losses are seen: whatever else the network does, a device whose order   *)
(* it keeps has every dropped request on record in its minute, once, save  *)
(* the excused ones, through postings, restarts and the wrap of the int.   *)
THEOREM LossesAreSeen ==
  ASSUME ClockStepsBounded, EveryInt PROVE FeedSpec => []LossIsSeen
<1>1. CountInv /\ FeedInv => LossIsSeen
  BY RecordsInOrder DEF LossIsSeen, IsRecord
<1>. QED  BY <1>1, FeedInvariant, PTL

LEMMA MoreTimes ==
  ASSUME NEW a \in Nat, NEW k \in Nat, NEW n \in Nat, n <= k + 1
  PROVE  /\ a * n \in Nat /\ a * k \in Nat
         /\ a * n <= a * (k + 1)
         /\ a * (k + 1) = a * k + a
<1>1. a * n \in Nat /\ a * k \in Nat /\ a * (k + 1) \in Nat /\ a * (k + 1) = a * k + a
  OBVIOUS
<1>2. PICK j \in Nat : k + 1 = n + j
  <2>1. (k + 1) - n \in Nat /\ k + 1 = n + ((k + 1) - n)
    OBVIOUS
  <2>. QED  BY <2>1
<1>3. a * (k + 1) = a * n + a * j /\ a * j \in Nat
  BY <1>2
<1>. QED  BY <1>1, <1>3

-----------------------------------------------------------------------------
(* The types of the feed alone, which hold whatever the clock does.        *)
LEMMA FeedTypeInit == FeedInit => FeedType
BY FeedAssumption DEF FeedInit, FeedType, NoPackets

LEMMA FeedTypeStep ==
  ASSUME TypeInv, FeedType, [FeedNext]_<<vars, feedVars>>
  PROVE  FeedType'
<1>1. ASSUME NEW ip \in Ip, NEW skipped \in 0 .. MaxSkip, Deliver(ip, skipped)
      PROVE  FeedType'
  <2>. DEFINE seqno == Wrap(sent[ip] + skipped + 1)
              e == IF Excused(ip, skipped) THEN skipped ELSE 0
  <2>1. /\ sent' = [sent EXCEPT ![ip] = seqno]
        /\ dropped' = [dropped EXCEPT ![ip][now] = dropped[ip][now] + skipped]
        /\ excused' = [excused EXCEPT ![ip][now] = excused[ip][now] + e]
        /\ UNCHANGED <<delayed, delays>>
    BY <1>1 DEF Deliver, Send
  <2>2. seqno \in Int32
    BY NextNumber DEF FeedType
  <2>3. skipped \in Nat /\ e \in Nat /\ now \in Minute
    BY FeedAssumption DEF TypeInv, TypeOK
  <2>. HIDE DEF seqno, e
  <2>4. sent' \in [Ip -> Int32]
    BY <2>1, <2>2 DEF FeedType
  <2>5. dropped' \in [Ip -> [Minute -> Nat]]
    BY <2>1, <2>3 DEF FeedType
  <2>6. excused' \in [Ip -> [Minute -> Nat]]
    BY <2>1, <2>3 DEF FeedType
  <2>. QED  BY <2>1, <2>4, <2>5, <2>6 DEF FeedType
<1>2. ASSUME NEW ip \in Ip, Delay(ip) PROVE FeedType'
  <2>. DEFINE seqno == Wrap(sent[ip] + 0 + 1)
  <2>1. /\ sent' = [sent EXCEPT ![ip] = seqno]
        /\ delayed' = [delayed EXCEPT ![ip] = delayed[ip] \cup {sent'[ip]}]
        /\ delays' = [delays EXCEPT ![ip] = delays[ip] + 1]
        /\ UNCHANGED <<dropped, excused>>
    BY <1>2 DEF Delay, Send
  <2>2. seqno \in Int32
    <3>1. 0 \in 0 .. MaxSkip
      BY FeedAssumption
    <3>. QED  BY <3>1, NextNumber DEF FeedType
  <2>. HIDE DEF seqno
  <2>3. sent' \in [Ip -> Int32] /\ sent'[ip] \in Int32
    BY <2>1, <2>2 DEF FeedType
  <2>4. delays' \in [Ip -> Nat]
    BY <2>1 DEF FeedType
  <2>5. delayed' = [d \in Ip |-> delayed'[d]] /\ \A d \in Ip : delayed'[d] \subseteq Int32
    BY <2>1, <2>3 DEF FeedType
  <2>. QED  BY <2>1, <2>3, <2>4, <2>5 DEF FeedType
<1>3. ASSUME NEW ip \in Ip, DeliverDelayed(ip) PROVE FeedType'
  <2>1. PICK seqno \in delayed[ip] :
          delayed' = [delayed EXCEPT ![ip] = delayed[ip] \ {seqno}]
    BY <1>3 DEF DeliverDelayed
  <2>2. UNCHANGED <<sent, delays, dropped, excused>>
    BY <1>3 DEF DeliverDelayed
  <2>3. delayed' = [d \in Ip |-> delayed'[d]] /\ \A d \in Ip : delayed'[d] \subseteq Int32
    BY <2>1 DEF FeedType
  <2>. QED  BY <2>2, <2>3 DEF FeedType
<1>4. ASSUME Outage PROVE FeedType'
  <2>1. /\ delayed' = [d \in Ip |-> {}] /\ delays' = [d \in Ip |-> 0]
        /\ dropped' = NoPackets /\ excused' = NoPackets
    BY <1>4 DEF Outage
  <2>2. PICK ip \in Ip, skipped \in 0 .. MaxSkip :
          sent' = [sent EXCEPT ![ip] = Wrap(sent[ip] + skipped)]
    BY <1>4 DEF Outage
  <2>3. Wrap(sent[ip] + skipped) \in Int32
    BY FeedAssumption, IntAssumption DEF FeedType, Wrap, Int32
  <2>4. sent' \in [Ip -> Int32]
    BY <2>2, <2>3 DEF FeedType
  <2>. QED  BY <2>1, <2>4 DEF FeedType, NoPackets
<1>5. CASE UNCHANGED feedVars
  BY <1>5 DEF FeedType, feedVars
<1>. QED  BY <1>1, <1>2, <1>3, <1>4, <1>5 DEF FeedNext

(* How far number a is past number b, around the int.                      *)
Past(a, b) == IF a >= b THEN a - b ELSE a - b + 2 * HalfRange

(* How far a device's numbers are past the last one the dispatcher saw,    *)
(* once it holds a minute of that device.                                  *)
Ahead(ip) ==
  IF DOMAIN lost_meps[ip] = {} THEN 0 ELSE Past(sent[ip], last_seqnos[ip])

(* Each delayed request is credited with itself and the numbers that may   *)
(* pass it.  Of that credit the part not yet used up is the numbers the    *)
(* dispatcher has still to look at, and those that it may look at again    *)
(* for the requests still on their way.                                    *)
Credit(ip) == (MaxOvertakes + 1) * delays[ip]
Unused(ip) == Ahead(ip) + MaxOvertakes * Cardinality(delayed[ip])

PaidInv(ip) ==
  /\ IsFiniteSet(delayed[ip])
  /\ \A seqno \in delayed[ip] : Past(sent[ip], seqno) <= MaxOvertakes
  /\ Unused(ip) <= Credit(ip)
  /\ \A m \in DOMAIN lost_meps[ip] :
       lost_meps[ip][m] + Unused(ip) <= dropped[ip][m] + Credit(ip)
  /\ \A i \in DOMAIN queue : \A m \in DOMAIN queue[i].lost[ip] :
       queue[i].lost[ip][m] <= dropped[ip][m] + Credit(ip)

LEMMA PastIsNat ==
  ASSUME NEW a \in Int32, NEW b \in Int32
  PROVE  Past(a, b) \in Nat
BY IntAssumption DEF Past, Int32

(* Numbers that go on are past the same one by so many more, unless they   *)
(* come round to it.                                                       *)
LEMMA PastNext ==
  ASSUME NEW a \in Int32, NEW b \in Int32, NEW k \in 1 .. HalfRange + 1
  PROVE  /\ Wrap(a + k) \in Int32
         /\ Past(Wrap(a + k), b) <= Past(a, b) + k
         /\ Past(a, b) < HalfRange => Wrap(a - b) = Past(a, b)
<1>. USE SeqnoAssumption
<1>1. Wrap(a + k) \in Int32
  BY DEF Wrap, Int32
<1>2. Past(Wrap(a + k), b) <= Past(a, b) + k
  BY DEF Wrap, Int32, Past
<1>3. Past(a, b) < HalfRange => Wrap(a - b) = Past(a, b)
  BY DEF Wrap, Int32, Past
<1>. QED  BY <1>1, <1>2, <1>3

(* What the next number of a device loses is what was skipped and what the *)
(* dispatcher has still to look at.                                        *)
LEMMA LossOnTime ==
  ASSUME NEW last \in Int32, NEW s \in Int32, NEW skipped \in 0 .. HalfRange
  PROVE  LostBetween(last, Wrap(s + skipped + 1)) <= skipped + Past(s, last)
<1>. DEFINE seqno == Wrap(s + skipped + 1)
<1>. USE SeqnoAssumption
<1>1. seqno \in Int32 /\ (seqno = s + skipped + 1 \/ seqno = s + skipped + 1 - 2 * HalfRange)
  BY DEF Wrap, Int32
<1>2. \/ Past(s, last) = s - last /\ s >= last
      \/ Past(s, last) = s - last + 2 * HalfRange /\ s < last
  BY DEF Past, Int32
<1>. HIDE DEF seqno
<1>3. LostBetween(last, seqno) \in 0 .. OutlierGap - 1
  BY <1>1, LostBetweenBounded
<1>4. LostBetween(last, seqno) = 0
      \/ LostBetween(last, seqno) = seqno - last - 1
      \/ LostBetween(last, seqno) = seqno - last - 1 + 2 * HalfRange
      \/ LostBetween(last, seqno) = seqno - last - 1 - 2 * HalfRange
  BY <1>1 DEF LostBetween, Wrap, Int32
<1>5. LostBetween(last, seqno) <= skipped + Past(s, last)
  BY <1>1, <1>2, <1>3, <1>4 DEF Int32
<1>. QED  BY <1>5 DEF seqno

(* What a late number loses, and what the dispatcher has still to look at  *)
(* after it, is what it had to look at before or the numbers that passed.  *)
LEMMA LossOfLate ==
  ASSUME NEW last \in Int32, NEW s \in Int32, NEW seqno \in Int32,
         Past(s, seqno) < HalfRange
  PROVE  \/ LostBetween(last, seqno) = 0
         \/ LostBetween(last, seqno) + Past(s, seqno) <= Past(s, last)
<1>. USE SeqnoAssumption
<1>1. \/ Past(s, last) = s - last /\ s >= last
      \/ Past(s, last) = s - last + 2 * HalfRange /\ s < last
  BY DEF Past, Int32
<1>2. \/ Past(s, seqno) = s - seqno /\ s >= seqno
      \/ Past(s, seqno) = s - seqno + 2 * HalfRange /\ s < seqno
  BY DEF Past, Int32
<1>3. LostBetween(last, seqno) \in 0 .. OutlierGap - 1
  BY LostBetweenBounded
<1>4. LostBetween(last, seqno) = 0
      \/ LostBetween(last, seqno) = seqno - last - 1
      \/ LostBetween(last, seqno) = seqno - last - 1 + 2 * HalfRange
      \/ LostBetween(last, seqno) = seqno - last - 1 - 2 * HalfRange
  BY DEF LostBetween, Wrap, Int32
<1>. QED  BY <1>1, <1>2, <1>3, <1>4 DEF Int32

(* The type of the credit, as the prover needs it.                         *)
LEMMA CreditType ==
  ASSUME FeedType, TypeInv, NEW ip \in Ip, IsFiniteSet(delayed[ip])
  PROVE  /\ Ahead(ip) \in Nat /\ Unused(ip) \in Nat /\ Credit(ip) \in Nat
         /\ Cardinality(delayed[ip]) \in Nat
         /\ MaxOvertakes \in Nat /\ MaxOvertakes < HalfRange
         /\ MaxOvertakes * Cardinality(delayed[ip]) \in Nat
<1>1. Cardinality(delayed[ip]) \in Nat
  BY FS_CardinalityType
<1>2. MaxOvertakes \in Nat /\ MaxOvertakes < HalfRange
  BY FeedAssumption, IntAssumption
<1>3. Ahead(ip) \in Nat
  BY PastIsNat DEF Ahead, FeedType, TypeInv, TypeOK
<1>4. delays[ip] \in Nat
  BY DEF FeedType
<1>5. MaxOvertakes * Cardinality(delayed[ip]) \in Nat
  BY <1>1, <1>2
<1>6. Credit(ip) \in Nat
  BY <1>2, <1>4 DEF Credit
<1>7. Unused(ip) \in Nat
  BY <1>3, <1>5 DEF Unused
<1>. QED  BY <1>1, <1>2, <1>3, <1>5, <1>6, <1>7

(* What a packet changes, as the credit sees it.                           *)
LEMMA PacketInLosses ==
  ASSUME TypeInv, NEW ip \in Ip, NEW seqno \in Int32, DispatchPacket(ip, seqno)
  PROVE  /\ \A d \in Ip : d # ip =>
              lost_meps'[d] = lost_meps[d] /\ last_seqnos'[d] = last_seqnos[d]
         /\ last_seqnos'[ip] = seqno
         /\ DOMAIN lost_meps'[ip] = DOMAIN lost_meps[ip] \cup {now}
         /\ \A m \in DOMAIN lost_meps[ip] : m # now => lost_meps'[ip][m] = lost_meps[ip][m]
         /\ now \in DOMAIN lost_meps[ip] =>
              lost_meps'[ip][now] = lost_meps[ip][now] + LostBetween(last_seqnos[ip], seqno)
         /\ now \notin DOMAIN lost_meps[ip] => lost_meps'[ip][now] = 0
         /\ queue' = queue
<1>1. /\ IsMeps(lost_meps) /\ DOMAIN lost_meps[ip] = DOMAIN received_meps[ip]
      /\ last_seqnos \in [Ip -> Int32]
  BY DEF TypeInv, TypeOK, Paired
<1>. DEFINE known == now \in DOMAIN received_meps[ip]
            l == IF known THEN lost_meps[ip][now] + LostBetween(last_seqnos[ip], seqno)
                 ELSE 0
<1>2. /\ lost_meps' = [lost_meps EXCEPT ![ip] = Put(lost_meps[ip], now, l)]
      /\ last_seqnos' = [last_seqnos EXCEPT ![ip] = seqno]
      /\ queue' = queue
  BY DEF DispatchPacket, UpdateDataSets
<1>. HIDE DEF l
<1>3. /\ lost_meps'[ip] = Put(lost_meps[ip], now, l)
      /\ last_seqnos'[ip] = seqno
      /\ \A d \in Ip : d # ip =>
           lost_meps'[d] = lost_meps[d] /\ last_seqnos'[d] = last_seqnos[d]
  BY <1>1, <1>2 DEF IsMeps
<1>4. /\ DOMAIN lost_meps'[ip] = DOMAIN lost_meps[ip] \cup {now}
      /\ lost_meps'[ip][now] = l
      /\ \A m \in DOMAIN lost_meps[ip] : m # now => lost_meps'[ip][m] = lost_meps[ip][m]
  BY <1>3 DEF Put
<1>. QED  BY <1>1, <1>2, <1>3, <1>4 DEF l

(* A device about which nothing changes.                                   *)
LEMMA PaidElsewhere ==
  ASSUME NEW ip \in Ip, PaidInv(ip),
         lost_meps'[ip] = lost_meps[ip], last_seqnos'[ip] = last_seqnos[ip],
         queue' = queue, sent'[ip] = sent[ip], delayed'[ip] = delayed[ip],
         delays'[ip] = delays[ip], dropped'[ip] = dropped[ip]
  PROVE  PaidInv(ip)'
BY DEF PaidInv, Unused, Ahead, Credit

(* A packet whose loss, and what is left to look at after it, is paid for. *)
LEMMA PacketIsPaid ==
  ASSUME TypeInv, FeedType, FeedType', NEW ip \in Ip, PaidInv(ip),
         NEW seqno \in Int32, DispatchPacket(ip, seqno),
         NEW skipped \in Nat,
         dropped'[ip][now] = dropped[ip][now] + skipped,
         \A m \in Minute : m # now => dropped'[ip][m] = dropped[ip][m],
         delays'[ip] = delays[ip],
         IsFiniteSet(delayed'[ip]), Unused(ip)' \in Nat,
         \A n \in delayed'[ip] : Past(sent'[ip], n) <= MaxOvertakes,
         Unused(ip)' <= Unused(ip),
         DOMAIN lost_meps[ip] # {} =>
           LostBetween(last_seqnos[ip], seqno) + Unused(ip)' <= skipped + Unused(ip)
  PROVE  PaidInv(ip)'
<1>. DEFINE u == Unused(ip)
            uu == Unused(ip)'
            c == Credit(ip)
            loss == LostBetween(last_seqnos[ip], seqno)
<1>1. u \in Nat /\ uu \in Nat /\ c \in Nat /\ Credit(ip)' = c
  <2>1. u \in Nat /\ c \in Nat
    BY CreditType DEF PaidInv
  <2>2. uu \in Nat
    OBVIOUS
  <2>3. Credit(ip)' = c
    BY DEF Credit
  <2>. QED  BY <2>1, <2>2, <2>3
<1>2. loss \in Nat
  BY LostBetweenBounded, SeqnoAssumption DEF TypeInv, TypeOK
<1>3. /\ \A m \in Minute : dropped[ip][m] \in Nat /\ dropped'[ip][m] \in Nat
      /\ now \in Minute /\ DOMAIN lost_meps[ip] \subseteq Minute
      /\ \A m \in DOMAIN lost_meps[ip] : lost_meps[ip][m] \in Nat
      /\ \A i \in DOMAIN queue : DOMAIN queue[i].lost[ip] \subseteq Minute
      /\ \A i \in DOMAIN queue : \A m \in DOMAIN queue[i].lost[ip] :
           queue[i].lost[ip][m] \in Nat
  <2>1. /\ \A m \in Minute : dropped[ip][m] \in Nat /\ dropped'[ip][m] \in Nat
        /\ now \in Minute
    BY DEF FeedType, TypeInv, TypeOK
  <2>2. IsMeps(lost_meps) /\ \A i \in DOMAIN queue : IsMeps(queue[i].lost)
    BY DEF TypeInv, TypeOK, IsBatch
  <2>. QED  BY <2>1, <2>2 DEF IsMeps
<1>4. /\ DOMAIN lost_meps'[ip] = DOMAIN lost_meps[ip] \cup {now}
      /\ \A m \in DOMAIN lost_meps[ip] : m # now => lost_meps'[ip][m] = lost_meps[ip][m]
      /\ now \in DOMAIN lost_meps[ip] => lost_meps'[ip][now] = lost_meps[ip][now] + loss
      /\ now \notin DOMAIN lost_meps[ip] => lost_meps'[ip][now] = 0
      /\ queue' = queue
  BY PacketInLosses
<1>5. /\ u <= c /\ uu <= u
      /\ \A m \in DOMAIN lost_meps[ip] : lost_meps[ip][m] + u <= dropped[ip][m] + c
      /\ \A i \in DOMAIN queue : \A m \in DOMAIN queue[i].lost[ip] :
           queue[i].lost[ip][m] <= dropped[ip][m] + c
      /\ DOMAIN lost_meps[ip] # {} => loss + uu <= skipped + u
  BY DEF PaidInv
<1>. HIDE DEF u, uu, c, loss
<1>6. \A m \in Minute : dropped[ip][m] <= dropped'[ip][m]
  BY <1>3
<1>7. ASSUME NEW m \in DOMAIN lost_meps'[ip]
      PROVE  lost_meps'[ip][m] + uu <= dropped'[ip][m] + c
  <2>1. CASE m # now
    BY <1>1, <1>3, <1>4, <1>5, <1>7, <2>1
  <2>2. CASE m = now /\ now \notin DOMAIN lost_meps[ip]
    BY <1>1, <1>3, <1>4, <1>5, <1>7, <2>2
  <2>3. CASE m = now /\ now \in DOMAIN lost_meps[ip]
    BY <1>1, <1>2, <1>3, <1>4, <1>5, <1>7, <2>3
  <2>. QED  BY <2>1, <2>2, <2>3
<1>8. \A i \in DOMAIN queue' : \A m \in DOMAIN queue'[i].lost[ip] :
        queue'[i].lost[ip][m] <= dropped'[ip][m] + c
  <2>. SUFFICES ASSUME NEW i \in DOMAIN queue, NEW m \in DOMAIN queue[i].lost[ip]
                PROVE  queue[i].lost[ip][m] <= dropped'[ip][m] + c
    BY <1>4
  <2>1. m \in Minute /\ queue[i].lost[ip][m] \in Nat
    BY <1>3
  <2>2. queue[i].lost[ip][m] <= dropped[ip][m] + c
    BY <1>5
  <2>. QED  BY <1>1, <1>3, <1>6, <2>1, <2>2
<1>9. uu <= c
  BY <1>1, <1>5
<1>. QED  BY <1>1, <1>7, <1>8, <1>9 DEF PaidInv, u, uu, c

LEMMA PaidDeliver ==
  ASSUME TypeInv, FeedType, FeedType', \A d \in Ip : PaidInv(d),
         NEW ip \in Ip, NEW skipped \in 0 .. MaxSkip, Deliver(ip, skipped)
  PROVE  \A d \in Ip : PaidInv(d)'
<1>. DEFINE seqno == Wrap(sent[ip] + skipped + 1)
<1>1. /\ sent' = [sent EXCEPT ![ip] = seqno]
      /\ DispatchPacket(ip, sent'[ip])
      /\ dropped' = [dropped EXCEPT ![ip][now] = dropped[ip][now] + skipped]
      /\ UNCHANGED <<delayed, delays>>
      /\ \A n \in delayed[ip] : Wrap(sent[ip] - n) + skipped + 1 <= MaxOvertakes
  BY DEF Deliver, Send
<1>2. /\ skipped \in Nat /\ skipped <= HalfRange /\ now \in Minute
      /\ sent[ip] \in Int32 /\ last_seqnos[ip] \in Int32
      /\ delayed[ip] \subseteq Int32
  <2>1. skipped \in Nat /\ skipped <= HalfRange
    BY FeedAssumption, IntAssumption
  <2>2. now \in Minute /\ last_seqnos[ip] \in Int32
    BY DEF TypeInv, TypeOK
  <2>3. sent[ip] \in Int32 /\ delayed[ip] \subseteq Int32
    BY DEF FeedType
  <2>. QED  BY <2>1, <2>2, <2>3
<1>3. seqno \in Int32
  BY <1>2, NextNumber
<1>4. /\ sent'[ip] = seqno /\ DispatchPacket(ip, seqno)
      /\ \A d \in Ip : d # ip => sent'[d] = sent[d]
  <2>. HIDE DEF seqno
  <2>. QED  BY <1>1 DEF FeedType
<1>5. /\ dropped'[ip][now] = dropped[ip][now] + skipped
      /\ \A m \in Minute : m # now => dropped'[ip][m] = dropped[ip][m]
      /\ \A d \in Ip : d # ip => dropped'[d] = dropped[d]
  BY <1>1, <1>2 DEF FeedType
<1>6. ASSUME NEW d \in Ip, d # ip PROVE PaidInv(d)'
  <2>1. lost_meps'[d] = lost_meps[d] /\ last_seqnos'[d] = last_seqnos[d] /\ queue' = queue
    BY <1>3, <1>4, <1>6, PacketInLosses
  <2>. QED  BY <1>1, <1>4, <1>5, <1>6, <2>1, PaidElsewhere
<1>7. PaidInv(ip)'
  <2>1. IsFiniteSet(delayed[ip]) /\ \A n \in delayed[ip] : Past(sent[ip], n) <= MaxOvertakes
    BY DEF PaidInv
  <2>2. /\ Ahead(ip) \in Nat /\ MaxOvertakes \in Nat /\ MaxOvertakes < HalfRange
        /\ MaxOvertakes * Cardinality(delayed[ip]) \in Nat
    BY <2>1, CreditType
  <2>3. ASSUME NEW n \in delayed[ip] PROVE Past(seqno, n) <= MaxOvertakes
    <3>1. n \in Int32 /\ Past(sent[ip], n) \in Nat
      BY <1>2, PastIsNat
    <3>2. skipped + 1 \in 1 .. HalfRange + 1
      BY <1>2, IntAssumption
    <3>3. /\ Past(Wrap(sent[ip] + (skipped + 1)), n) <= Past(sent[ip], n) + (skipped + 1)
          /\ Past(sent[ip], n) < HalfRange => Wrap(sent[ip] - n) = Past(sent[ip], n)
      BY <1>2, <3>1, <3>2, PastNext
    <3>4. seqno = Wrap(sent[ip] + (skipped + 1))
      BY <1>2 DEF Int32, Wrap
    <3>5. Past(seqno, n) \in Nat
      BY <1>3, <3>1, PastIsNat
    <3>6. Wrap(sent[ip] - n) + skipped + 1 <= MaxOvertakes
      BY <1>1
    <3>7. Past(sent[ip], n) < HalfRange
      BY <2>1, <2>2, <3>1, FeedAssumption, IntAssumption
    <3>. HIDE DEF seqno
    <3>. QED  BY <1>2, <2>2, <3>1, <3>3, <3>4, <3>5, <3>6, <3>7
  <2>4. Past(seqno, seqno) = 0
    <3>. HIDE DEF seqno
    <3>. QED  BY <1>3 DEF Past, Int32
  <2>5. LostBetween(last_seqnos[ip], seqno) <= skipped + Past(sent[ip], last_seqnos[ip])
    BY <1>2, LossOnTime
  <2>6. LostBetween(last_seqnos[ip], seqno) \in Nat
    BY <1>2, <1>3, LostBetweenBounded, SeqnoAssumption
  <2>. HIDE DEF seqno
  <2>7. last_seqnos'[ip] = seqno /\ DOMAIN lost_meps'[ip] # {}
    BY <1>3, <1>4, PacketInLosses
  <2>8. Ahead(ip)' = 0
    BY <1>4, <2>4, <2>7 DEF Ahead
  <2>9. Unused(ip)' = MaxOvertakes * Cardinality(delayed[ip])
    BY <1>1, <2>2, <2>8 DEF Unused
  <2>10. Unused(ip)' \in Nat /\ Unused(ip)' <= Unused(ip)
    BY <2>2, <2>9 DEF Unused
  <2>11. DOMAIN lost_meps[ip] # {} =>
           LostBetween(last_seqnos[ip], seqno) + Unused(ip)' <= skipped + Unused(ip)
    BY <1>2, <2>2, <2>5, <2>6, <2>9 DEF Unused, Ahead
  <2>12. IsFiniteSet(delayed'[ip]) /\ \A n \in delayed'[ip] : Past(sent'[ip], n) <= MaxOvertakes
    BY <1>1, <1>4, <2>1, <2>3
  <2>13. delays'[ip] = delays[ip] /\ PaidInv(ip)
    BY <1>1
  <2>. QED  BY <1>2, <1>3, <1>4, <1>5, <2>10, <2>11, <2>12, <2>13, PacketIsPaid
<1>. QED  BY <1>6, <1>7

LEMMA PaidDelay ==
  ASSUME TypeInv, FeedType, FeedType', \A d \in Ip : PaidInv(d),
         NEW ip \in Ip, Delay(ip)
  PROVE  \A d \in Ip : PaidInv(d)'
<1>. DEFINE seqno == Wrap(sent[ip] + 0 + 1)
<1>1. /\ sent' = [sent EXCEPT ![ip] = seqno]
      /\ delayed' = [delayed EXCEPT ![ip] = delayed[ip] \cup {sent'[ip]}]
      /\ delays' = [delays EXCEPT ![ip] = delays[ip] + 1]
      /\ \A n \in delayed[ip] : Wrap(sent[ip] - n) + 0 + 1 <= MaxOvertakes
      /\ UNCHANGED <<lost_meps, last_seqnos, queue, dropped>>
  BY DEF Delay, Send, vars
<1>2. /\ sent[ip] \in Int32 /\ last_seqnos[ip] \in Int32 /\ delays[ip] \in Nat
      /\ delayed[ip] \subseteq Int32
  BY DEF TypeInv, TypeOK, FeedType
<1>3. /\ seqno \in Int32
      /\ \A b \in Int32 : Past(seqno, b) <= Past(sent[ip], b) + 1
      /\ \A b \in Int32 : Past(sent[ip], b) < HalfRange =>
           Wrap(sent[ip] - b) = Past(sent[ip], b)
  <2>1. 1 \in 1 .. HalfRange + 1
    BY IntAssumption
  <2>2. seqno = Wrap(sent[ip] + 1)
    BY <1>2 DEF Int32
  <2>. HIDE DEF seqno
  <2>. QED  BY <1>2, <2>1, <2>2, PastNext
<1>. HIDE DEF seqno
<1>4. /\ sent'[ip] = seqno
      /\ \A d \in Ip : d # ip => sent'[d] = sent[d]
  BY <1>1 DEF FeedType
<1>5. /\ delayed'[ip] = delayed[ip] \cup {seqno}
      /\ delays'[ip] = delays[ip] + 1
      /\ \A d \in Ip : d # ip => delayed'[d] = delayed[d] /\ delays'[d] = delays[d]
  BY <1>1, <1>4 DEF FeedType
<1>6. ASSUME NEW d \in Ip, d # ip PROVE PaidInv(d)'
  BY <1>1, <1>4, <1>5, <1>6, PaidElsewhere
<1>7. PaidInv(ip)'
  <2>1. IsFiniteSet(delayed[ip]) /\ \A n \in delayed[ip] : Past(sent[ip], n) <= MaxOvertakes
    BY DEF PaidInv
  <2>2. /\ Ahead(ip) \in Nat /\ Unused(ip) \in Nat /\ Credit(ip) \in Nat
        /\ Cardinality(delayed[ip]) \in Nat
        /\ MaxOvertakes \in Nat /\ MaxOvertakes < HalfRange
        /\ MaxOvertakes * Cardinality(delayed[ip]) \in Nat
    BY <2>1, CreditType
  <2>3. /\ IsFiniteSet(delayed'[ip])
        /\ Cardinality(delayed'[ip]) \in Nat
        /\ Cardinality(delayed'[ip]) <= Cardinality(delayed[ip]) + 1
    <3>1. /\ IsFiniteSet(delayed[ip] \cup {seqno})
          /\ Cardinality(delayed[ip] \cup {seqno})
               = IF seqno \in delayed[ip] THEN Cardinality(delayed[ip])
                 ELSE Cardinality(delayed[ip]) + 1
      BY <2>1, FS_AddElement
    <3>. QED  BY <1>5, <2>2, <3>1
  <2>4. ASSUME NEW n \in delayed'[ip] PROVE Past(sent'[ip], n) <= MaxOvertakes
    <3>1. CASE n = seqno
      BY <1>3, <1>4, <2>2, <3>1 DEF Past, Int32
    <3>2. CASE n \in delayed[ip]
      <4>1. n \in Int32 /\ Past(sent[ip], n) \in Nat /\ Past(seqno, n) \in Nat
        BY <1>2, <1>3, <3>2, PastIsNat
      <4>2. Past(sent[ip], n) < HalfRange
        BY <2>1, <2>2, <3>2, <4>1, FeedAssumption, IntAssumption
      <4>3. Wrap(sent[ip] - n) + 0 + 1 <= MaxOvertakes
        BY <1>1, <3>2
      <4>4. Past(seqno, n) <= Past(sent[ip], n) + 1 /\ Wrap(sent[ip] - n) = Past(sent[ip], n)
        BY <1>3, <4>1, <4>2
      <4>. QED  BY <1>4, <2>2, <4>1, <4>3, <4>4
    <3>. QED  BY <1>5, <3>1, <3>2
  <2>5. Ahead(ip)' \in Nat /\ Ahead(ip)' <= Ahead(ip) + 1
    <3>1. Past(seqno, last_seqnos[ip]) \in Nat /\ Past(sent[ip], last_seqnos[ip]) \in Nat
      BY <1>2, <1>3, PastIsNat
    <3>2. Past(seqno, last_seqnos[ip]) <= Past(sent[ip], last_seqnos[ip]) + 1
      BY <1>2, <1>3
    <3>. QED  BY <1>1, <1>4, <3>1, <3>2 DEF Ahead
  <2>6. Credit(ip)' = Credit(ip) + MaxOvertakes + 1
    <3>1. (MaxOvertakes + 1) * (delays[ip] + 1) = (MaxOvertakes + 1) * delays[ip] + MaxOvertakes + 1
      BY <1>2, <2>2
    <3>. QED  BY <1>5, <3>1 DEF Credit
  <2>7. Unused(ip)' \in Nat /\ Unused(ip)' <= Unused(ip) + MaxOvertakes + 1
    <3>. DEFINE k == Cardinality(delayed[ip])
                kk == Cardinality(delayed'[ip])
    <3>1. /\ MaxOvertakes * kk \in Nat
          /\ MaxOvertakes * kk <= MaxOvertakes * (k + 1)
          /\ MaxOvertakes * (k + 1) = MaxOvertakes * k + MaxOvertakes
      <4>. HIDE DEF k, kk
      <4>1. k \in Nat /\ kk \in Nat /\ kk <= k + 1
        BY <2>2, <2>3 DEF k, kk
      <4>. QED  BY <2>2, <4>1, MoreTimes
    <3>2. Unused(ip)' = Ahead(ip)' + MaxOvertakes * kk /\ Unused(ip) = Ahead(ip) + MaxOvertakes * k
      BY DEF Unused
    <3>. HIDE DEF k, kk
    <3>. QED  BY <2>2, <2>5, <3>1, <3>2 DEF k
  <2>8. /\ Unused(ip) <= Credit(ip)
        /\ \A m \in DOMAIN lost_meps[ip] :
             lost_meps[ip][m] + Unused(ip) <= dropped[ip][m] + Credit(ip)
        /\ \A i \in DOMAIN queue : \A m \in DOMAIN queue[i].lost[ip] :
             queue[i].lost[ip][m] <= dropped[ip][m] + Credit(ip)
    BY DEF PaidInv
  <2>9. /\ \A m \in Minute : dropped[ip][m] \in Nat
        /\ DOMAIN lost_meps[ip] \subseteq Minute
        /\ \A m \in DOMAIN lost_meps[ip] : lost_meps[ip][m] \in Nat
        /\ \A i \in DOMAIN queue : DOMAIN queue[i].lost[ip] \subseteq Minute
        /\ \A i \in DOMAIN queue : \A m \in DOMAIN queue[i].lost[ip] :
             queue[i].lost[ip][m] \in Nat
    <3>1. \A m \in Minute : dropped[ip][m] \in Nat
      BY DEF FeedType
    <3>2. IsMeps(lost_meps) /\ \A i \in DOMAIN queue : IsMeps(queue[i].lost)
      BY DEF TypeInv, TypeOK, IsBatch
    <3>. QED  BY <3>1, <3>2 DEF IsMeps
  <2>10. Unused(ip)' <= Credit(ip)'
    BY <2>2, <2>6, <2>7, <2>8
  <2>11. \A m \in DOMAIN lost_meps'[ip] :
           lost_meps'[ip][m] + Unused(ip)' <= dropped'[ip][m] + Credit(ip)'
    <3>. SUFFICES ASSUME NEW m \in DOMAIN lost_meps[ip]
                  PROVE  lost_meps[ip][m] + Unused(ip)' <= dropped[ip][m] + Credit(ip)'
      BY <1>1
    <3>1. lost_meps[ip][m] \in Nat /\ dropped[ip][m] \in Nat
          /\ lost_meps[ip][m] + Unused(ip) <= dropped[ip][m] + Credit(ip)
      BY <2>8, <2>9
    <3>. QED  BY <2>2, <2>6, <2>7, <3>1
  <2>12. \A i \in DOMAIN queue' : \A m \in DOMAIN queue'[i].lost[ip] :
           queue'[i].lost[ip][m] <= dropped'[ip][m] + Credit(ip)'
    <3>. SUFFICES ASSUME NEW i \in DOMAIN queue, NEW m \in DOMAIN queue[i].lost[ip]
                  PROVE  queue[i].lost[ip][m] <= dropped[ip][m] + Credit(ip)'
      BY <1>1
    <3>1. queue[i].lost[ip][m] \in Nat /\ dropped[ip][m] \in Nat
          /\ queue[i].lost[ip][m] <= dropped[ip][m] + Credit(ip)
      BY <2>8, <2>9
    <3>. QED  BY <2>2, <2>6, <3>1
  <2>. QED  BY <2>3, <2>4, <2>10, <2>11, <2>12 DEF PaidInv
<1>. QED  BY <1>6, <1>7

LEMMA PaidDeliverDelayed ==
  ASSUME TypeInv, FeedType, FeedType', \A d \in Ip : PaidInv(d),
         NEW ip \in Ip, DeliverDelayed(ip)
  PROVE  \A d \in Ip : PaidInv(d)'
<1>1. PICK seqno \in delayed[ip] :
        /\ DispatchPacket(ip, seqno)
        /\ delayed' = [delayed EXCEPT ![ip] = delayed[ip] \ {seqno}]
  BY DEF DeliverDelayed
<1>2. UNCHANGED <<sent, delays, dropped>>
  BY DEF DeliverDelayed
<1>3. /\ seqno \in Int32 /\ sent[ip] \in Int32 /\ last_seqnos[ip] \in Int32
      /\ now \in Minute
      /\ \A m \in Minute : dropped[ip][m] \in Nat
  BY <1>1 DEF FeedType, TypeInv, TypeOK
<1>4. /\ delayed'[ip] = delayed[ip] \ {seqno}
      /\ \A d \in Ip : d # ip => delayed'[d] = delayed[d]
  BY <1>1 DEF FeedType
<1>5. ASSUME NEW d \in Ip, d # ip PROVE PaidInv(d)'
  <2>1. lost_meps'[d] = lost_meps[d] /\ last_seqnos'[d] = last_seqnos[d] /\ queue' = queue
    BY <1>1, <1>3, <1>5, PacketInLosses
  <2>. QED  BY <1>2, <1>4, <1>5, <2>1, PaidElsewhere
<1>6. PaidInv(ip)'
  <2>1. IsFiniteSet(delayed[ip]) /\ \A n \in delayed[ip] : Past(sent[ip], n) <= MaxOvertakes
    BY DEF PaidInv
  <2>2. /\ Ahead(ip) \in Nat /\ MaxOvertakes \in Nat /\ MaxOvertakes < HalfRange
        /\ Cardinality(delayed[ip]) \in Nat
    BY <2>1, CreditType
  <2>3. /\ IsFiniteSet(delayed'[ip])
        /\ Cardinality(delayed'[ip]) = Cardinality(delayed[ip]) - 1
        /\ Cardinality(delayed'[ip]) \in Nat
    <3>1. /\ IsFiniteSet(delayed[ip] \ {seqno})
          /\ Cardinality(delayed[ip] \ {seqno})
               = IF seqno \in delayed[ip] THEN Cardinality(delayed[ip]) - 1
                 ELSE Cardinality(delayed[ip])
      BY <2>1, FS_RemoveElement
    <3>2. Cardinality(delayed[ip] \ {seqno}) \in Nat
      BY <3>1, FS_CardinalityType
    <3>. QED  BY <1>1, <1>4, <3>1, <3>2
  <2>4. /\ MaxOvertakes * Cardinality(delayed'[ip]) \in Nat
        /\ MaxOvertakes * Cardinality(delayed[ip])
             = MaxOvertakes * Cardinality(delayed'[ip]) + MaxOvertakes
    <3>. DEFINE k == Cardinality(delayed[ip])
                kk == Cardinality(delayed'[ip])
    <3>1. kk \in Nat /\ k = kk + 1
      BY <2>2, <2>3
    <3>. HIDE DEF k, kk
    <3>2. MaxOvertakes * kk \in Nat /\ MaxOvertakes * k = MaxOvertakes * kk + MaxOvertakes
      BY <2>2, <3>1, MoreTimes
    <3>. QED  BY <3>2 DEF k, kk
  <2>5. last_seqnos'[ip] = seqno /\ DOMAIN lost_meps'[ip] # {}
    BY <1>1, <1>3, PacketInLosses
  <2>6. Ahead(ip)' = Past(sent[ip], seqno)
    BY <1>2, <2>5 DEF Ahead
  <2>7. Past(sent[ip], seqno) \in Nat /\ Past(sent[ip], seqno) <= MaxOvertakes
    BY <1>1, <1>3, <2>1, PastIsNat
  <2>8. LostBetween(last_seqnos[ip], seqno) \in Nat
    BY <1>3, LostBetweenBounded, SeqnoAssumption
  <2>9. \/ LostBetween(last_seqnos[ip], seqno) = 0
        \/ LostBetween(last_seqnos[ip], seqno) + Past(sent[ip], seqno)
             <= Past(sent[ip], last_seqnos[ip])
    <3>1. Past(sent[ip], seqno) < HalfRange
      BY <2>2, <2>7, IntAssumption
    <3>. QED  BY <1>3, <3>1, LossOfLate
  <2>10. /\ Unused(ip)' = Past(sent[ip], seqno) + MaxOvertakes * Cardinality(delayed'[ip])
         /\ Unused(ip) = Ahead(ip) + MaxOvertakes * Cardinality(delayed'[ip]) + MaxOvertakes
    <3>1. Unused(ip)' = Ahead(ip)' + MaxOvertakes * Cardinality(delayed'[ip])
      BY DEF Unused
    <3>2. Unused(ip) = Ahead(ip) + MaxOvertakes * Cardinality(delayed[ip])
      BY DEF Unused
    <3>. QED  BY <2>2, <2>4, <2>6, <3>1, <3>2
  <2>. DEFINE w == MaxOvertakes * Cardinality(delayed'[ip])
              loss == LostBetween(last_seqnos[ip], seqno)
              p == Past(sent[ip], seqno)
  <2>11. w \in Nat /\ loss \in Nat /\ p \in Nat /\ p <= MaxOvertakes
    BY <2>4, <2>7, <2>8
  <2>12. loss = 0 \/ loss + p <= Past(sent[ip], last_seqnos[ip])
    BY <2>9
  <2>13. Unused(ip)' = p + w /\ Unused(ip) = Ahead(ip) + w + MaxOvertakes
    BY <2>10
  <2>. HIDE DEF w, loss, p
  <2>14. Unused(ip)' \in Nat /\ Unused(ip)' <= Unused(ip)
    BY <2>2, <2>11, <2>13
  <2>15. DOMAIN lost_meps[ip] # {} => loss + Unused(ip)' <= 0 + Unused(ip)
    <3>1. DOMAIN lost_meps[ip] # {} => Ahead(ip) = Past(sent[ip], last_seqnos[ip])
      BY DEF Ahead
    <3>. QED  BY <2>2, <2>11, <2>12, <2>13, <3>1
  <2>16. \A n \in delayed'[ip] : Past(sent'[ip], n) <= MaxOvertakes
    BY <1>2, <1>4, <2>1
  <2>17. /\ dropped'[ip][now] = dropped[ip][now] + 0
         /\ \A m \in Minute : m # now => dropped'[ip][m] = dropped[ip][m]
         /\ delays'[ip] = delays[ip] /\ PaidInv(ip) /\ DispatchPacket(ip, seqno)
    BY <1>1, <1>2, <1>3
  <2>. QED  BY <1>3, <2>3, <2>14, <2>15, <2>16, <2>17, PacketIsPaid DEF loss
<1>. QED  BY <1>5, <1>6

(* What goes into a task or out of the maps is paid for as it was.         *)
LEMMA PaidEnqueue ==
  ASSUME TypeInv, FeedType, \A d \in Ip : PaidInv(d),
         EnqueueWriteRRDs, UNCHANGED feedVars
  PROVE  \A d \in Ip : PaidInv(d)'
<1>. DEFINE b == Batch(max_update_time')
<1>1. /\ queue' = Append(queue, b)
      /\ UNCHANGED <<lost_meps, last_seqnos, sent, delayed, delays, dropped>>
  BY DEF EnqueueWriteRRDs, feedVars
<1>2. /\ \A d \in Ip : DOMAIN b.lost[d] \subseteq DOMAIN received_meps[d]
      /\ \A d \in Ip : \A m \in DOMAIN b.lost[d] : b.lost[d][m] = lost_meps[d][m]
  BY DEF Batch, Restrict, Below
<1>. HIDE DEF b
<1>3. \A i \in DOMAIN queue' :
        \/ i \in DOMAIN queue /\ queue'[i] = queue[i]
        \/ queue'[i] = b
  <2>1. queue \in Seq({queue[i] : i \in DOMAIN queue}) /\ queue' = Append(queue, b)
    BY <1>1 DEF TypeInv, TypeOK
  <2>. QED  BY <2>1
<1>4. ASSUME NEW d \in Ip PROVE PaidInv(d)'
  <2>1. PaidInv(d) /\ Unused(d)' = Unused(d) /\ Credit(d)' = Credit(d)
    BY <1>1 DEF Unused, Ahead, Credit
  <2>2. Unused(d) \in Nat /\ Credit(d) \in Nat
    BY <2>1, CreditType DEF PaidInv
  <2>3. ASSUME NEW m \in DOMAIN b.lost[d]
        PROVE  b.lost[d][m] <= dropped[d][m] + Credit(d)
    <3>1. m \in DOMAIN lost_meps[d] /\ m \in Minute
      BY <1>2, <2>3 DEF TypeInv, TypeOK, Paired, IsMeps
    <3>2. lost_meps[d][m] \in Nat /\ dropped[d][m] \in Nat
      BY <3>1 DEF TypeInv, TypeOK, IsMeps, FeedType
    <3>3. lost_meps[d][m] + Unused(d) <= dropped[d][m] + Credit(d)
      BY <2>1, <3>1 DEF PaidInv
    <3>. QED  BY <1>2, <2>2, <2>3, <3>2, <3>3
  <2>4. \A i \in DOMAIN queue' : \A m \in DOMAIN queue'[i].lost[d] :
          queue'[i].lost[d][m] <= dropped[d][m] + Credit(d)
    BY <1>3, <2>1, <2>3 DEF PaidInv
  <2>. QED  BY <1>1, <2>1, <2>4 DEF PaidInv
<1>. QED  BY <1>4

LEMMA PaidRemove ==
  ASSUME TypeInv, FeedType, \A d \in Ip : PaidInv(d),
         RemoveOldieUpdates, UNCHANGED feedVars
  PROVE  \A d \in Ip : PaidInv(d)'
<1>1. /\ lost_meps' = [d \in Ip |-> Restrict(lost_meps[d],
           DOMAIN lost_meps[d] \ Below(lost_meps[d], max_update_time))]
      /\ UNCHANGED <<last_seqnos, queue, sent, delayed, delays, dropped>>
  BY DEF RemoveOldieUpdates, RemoveBelow, feedVars
<1>2. \A d \in Ip : /\ DOMAIN lost_meps'[d] \subseteq DOMAIN lost_meps[d]
                    /\ \A m \in DOMAIN lost_meps'[d] : lost_meps'[d][m] = lost_meps[d][m]
  BY <1>1 DEF Restrict
<1>3. ASSUME NEW d \in Ip PROVE PaidInv(d)'
  <2>1. PaidInv(d) /\ Credit(d)' = Credit(d)
    BY <1>1 DEF Credit
  <2>2. /\ Ahead(d) \in Nat /\ Unused(d) \in Nat /\ Credit(d) \in Nat
        /\ MaxOvertakes * Cardinality(delayed[d]) \in Nat
    BY <2>1, CreditType DEF PaidInv
  <2>3. Ahead(d)' = Ahead(d) \/ Ahead(d)' = 0
    BY <1>1, <1>2 DEF Ahead
  <2>4. Unused(d)' \in Nat /\ Unused(d)' <= Unused(d)
    <3>1. Unused(d)' = Ahead(d)' + MaxOvertakes * Cardinality(delayed[d])
      BY <1>1 DEF Unused
    <3>2. Unused(d) = Ahead(d) + MaxOvertakes * Cardinality(delayed[d])
      BY DEF Unused
    <3>. QED  BY <2>2, <2>3, <3>1, <3>2
  <2>5. \A m \in DOMAIN lost_meps[d] :
          /\ lost_meps[d][m] \in Nat /\ dropped[d][m] \in Nat
          /\ lost_meps[d][m] + Unused(d) <= dropped[d][m] + Credit(d)
    BY <2>1 DEF TypeInv, TypeOK, IsMeps, FeedType, PaidInv
  <2>6. \A m \in DOMAIN lost_meps'[d] :
          lost_meps'[d][m] + Unused(d)' <= dropped[d][m] + Credit(d)
    BY <1>2, <2>2, <2>4, <2>5
  <2>7. Unused(d)' <= Credit(d) /\ Unused(d) <= Credit(d)
    BY <2>1, <2>2, <2>4 DEF PaidInv
  <2>. QED  BY <1>1, <2>1, <2>6, <2>7 DEF PaidInv
<1>. QED  BY <1>3

(* A device whose maps are empty owes nothing.                            *)
Nothing ==
  /\ \A d \in Ip : lost_meps[d] = EmptyMap /\ delayed[d] = {} /\ delays[d] = 0
  /\ queue = << >>

LEMMA PaidFromNothing == Nothing => \A d \in Ip : PaidInv(d)
<1>. SUFFICES ASSUME Nothing, NEW d \in Ip PROVE PaidInv(d)
  OBVIOUS
<1>. USE DEF Nothing
<1>1. DOMAIN lost_meps[d] = {} /\ DOMAIN queue = {}
  BY DEF EmptyMap
<1>2. IsFiniteSet(delayed[d]) /\ Cardinality(delayed[d]) = 0
  BY FS_EmptySet
<1>3. Unused(d) = 0 /\ Credit(d) = 0
  BY <1>1, <1>2, FeedAssumption, IntAssumption DEF Unused, Ahead, Credit
<1>. QED  BY <1>1, <1>2, <1>3 DEF PaidInv

LEMMA PaidStep ==
  ASSUME TypeInv, FeedType, FeedType', \A d \in Ip : PaidInv(d),
         [FeedNext]_<<vars, feedVars>>
  PROVE  \A d \in Ip : PaidInv(d)'
<1>1. ASSUME NEW ip \in Ip, NEW skipped \in 0 .. MaxSkip, Deliver(ip, skipped)
      PROVE  \A d \in Ip : PaidInv(d)'
  BY <1>1, PaidDeliver
<1>2. ASSUME NEW ip \in Ip, Delay(ip) PROVE \A d \in Ip : PaidInv(d)'
  BY <1>2, PaidDelay
<1>3. ASSUME NEW ip \in Ip, DeliverDelayed(ip) PROVE \A d \in Ip : PaidInv(d)'
  BY <1>3, PaidDeliverDelayed
<1>4. CASE EnqueueWriteRRDs /\ UNCHANGED feedVars
  BY <1>4, PaidEnqueue
<1>5. CASE RemoveOldieUpdates /\ UNCHANGED feedVars
  BY <1>5, PaidRemove
<1>6. ASSUME UNCHANGED <<lost_meps, last_seqnos, queue>>, UNCHANGED feedVars
      PROVE  \A d \in Ip : PaidInv(d)'
  BY <1>6, PaidElsewhere DEF feedVars
<1>7. CASE (SkipPosting \/ Tick \/ SetClockBack) /\ UNCHANGED feedVars
  BY <1>6, <1>7 DEF SkipPosting, Tick, SetClockBack
<1>8. CASE UNCHANGED <<vars, feedVars>>
  BY <1>6, <1>8 DEF vars
<1>9. CASE Outage
  <2>1. Nothing'
    BY <1>9 DEF Nothing, Outage, Restart, NoMeps
  <2>2. Nothing' => (\A d \in Ip : PaidInv(d))'
    BY PaidFromNothing, PTL
  <2>. QED  BY <2>1, <2>2
<1>. QED  BY <1>1, <1>2, <1>3, <1>4, <1>5, <1>7, <1>8, <1>9 DEF FeedNext

(* Losses are real: in the maps and in every task a minute is charged with *)
(* no more than the network dropped, plus for each request delayed so far  *)
(* the request and the numbers that may pass it; whatever the clock does,  *)
(* also where the int wraps, across minutes, postings and restarts.        *)
THEOREM LossesAreReal ==
  ASSUME EveryInt PROVE FeedSpec => []LossIsReal
<1>. DEFINE I == TypeInv /\ FeedType /\ \A d \in Ip : PaidInv(d)
<1>1. FeedInit => I
  <2>. SUFFICES ASSUME FeedInit PROVE I
    OBVIOUS
  <2>1. TypeInv /\ FeedType
    BY TypeInit, FeedTypeInit DEF FeedInit
  <2>2. Nothing
    BY DEF Nothing, FeedInit, Init, NoMeps
  <2>. QED  BY <2>1, <2>2, PaidFromNothing
<1>2. I /\ [FeedNext]_<<vars, feedVars>> => I'
  <2>. SUFFICES ASSUME I, [FeedNext]_<<vars, feedVars>> PROVE I'
    OBVIOUS
  <2>1. [Next]_vars /\ FeedType'
    BY FeedIsDispatcher, FeedTypeStep
  <2>2. TypeInv'
    BY <2>1, TypeStep
  <2>. QED  BY <2>1, <2>2, PaidStep
<1>3. I => LossIsReal
  <2>. SUFFICES ASSUME I, NEW lost \in Records, NEW d \in Ip, NEW m \in DOMAIN lost[d]
                PROVE  lost[d][m] <= dropped[d][m] + Credit(d)
    BY DEF LossIsReal, Credit
  <2>1. PaidInv(d) /\ Unused(d) \in Nat /\ Credit(d) \in Nat
    BY CreditType DEF PaidInv
  <2>2. CASE lost = lost_meps
    <3>1. m \in Minute /\ lost[d][m] \in Nat
      BY <2>2 DEF TypeInv, TypeOK, IsMeps
    <3>2. dropped[d][m] \in Nat /\ lost[d][m] + Unused(d) <= dropped[d][m] + Credit(d)
      BY <2>1, <2>2, <3>1 DEF PaidInv, FeedType
    <3>. QED  BY <2>1, <3>1, <3>2
  <2>3. ASSUME NEW i \in DOMAIN queue, lost = queue[i].lost
        PROVE  lost[d][m] <= dropped[d][m] + Credit(d)
    BY <2>1, <2>3 DEF PaidInv
  <2>. QED  BY <2>2, <2>3 DEF Records
<1>. HIDE DEF I
<1>. QED  BY <1>1, <1>2, <1>3, PTL DEF FeedSpec
=============================================================================
