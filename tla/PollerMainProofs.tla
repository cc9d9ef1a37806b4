-------------------------- MODULE PollerMainProofs --------------------------
(* Theorems about the capture: for every heap, every set of frames and     *)
(* every content of dispatch_queue.                                        *)
EXTENDS PollerMain, SequenceTheorems, TLAPS

(* The processor's own copy is in use.                                     *)
InHand == step \in {"dispatch", "free"} /\ Current.class # "tcp"

Pairs == 1 .. Len(dispatch_queue)

IsKept(b) == \E i \in Pairs : \E j \in 1 .. Len(kept[i]) : kept[i][j] = b

QueueInv ==
  /\ dispatch_queue \in Seq(Pair)
  /\ kept \in Seq(Seq(Buffers)) /\ held \in Seq(Seq(1 .. MaxFrames))
  /\ Len(kept) = Len(dispatch_queue) /\ Len(held) = Len(dispatch_queue)
  /\ \A i, j \in DOMAIN dispatch_queue :
       dispatch_queue[i].processor = dispatch_queue[j].processor =>
         dispatch_queue[i].class = dispatch_queue[j].class

StepInv ==
  /\ count \in 0 .. MaxFrames /\ frame \in Captured
  /\ pair \in 1 .. Len(dispatch_queue) + 1
  /\ step \in {"wait", "process", "dispatch", "free", "aborted"}
  /\ step # "wait" => count >= 1 /\ stage = "loop"
  /\ step \in {"dispatch", "free"} => pair \in Pairs
  /\ step = "dispatch" => Takes(Current.class, frame)

(* No copy is made before the loop, nor ever by a TCPPacket.               *)
OwnInv ==
  /\ heap \in [Buffers -> 0 .. MaxFrames]
  /\ own \in [Processors -> Buffers \cup {NoBuffer}]
  /\ stage = "register" => step = "wait"
  /\ stage \in {"options", "open", "datalink", "compile", "register"} =>
       own = [p \in Processors |-> NoBuffer]
  /\ \A i \in DOMAIN dispatch_queue :
       dispatch_queue[i].class = "tcp" =>
         own[dispatch_queue[i].processor] = NoBuffer

(* Why KeptIntact and NoLeak are inductive: no two packets share a buffer, *)
(* and what is not free is kept or in hand.                                *)
KeptInv ==
  /\ \A i \in Pairs : Len(kept[i]) = Len(held[i])
  /\ \A i \in Pairs : \A j \in 1 .. Len(kept[i]) : heap[kept[i][j]] = held[i][j]
  /\ \A i, k \in Pairs : \A j \in 1 .. Len(kept[i]), l \in 1 .. Len(kept[k]) :
       kept[i][j] = kept[k][l] => i = k /\ j = l
  /\ InHand => /\ Processed \in Buffers /\ heap[Processed] = count
               /\ ~ IsKept(Processed)
  /\ \A b \in Buffers : heap[b] # 0 => IsKept(b) \/ (InHand /\ b = Processed)
  /\ \A i \in Pairs :
       dispatch_queue[i].copy = "buffer" => Len(kept[i]) < KeptSize

FaultsInv == faults \subseteq {"read", "write", "free"} /\ NoFaults

CaptureInv == QueueInv /\ StepInv /\ OwnInv /\ KeptInv /\ FaultsInv

LEMMA CaptureInit == MainInit => CaptureInv
<1>. SUFFICES ASSUME MainInit PROVE CaptureInv
  OBVIOUS
<1>1. frame \in Captured
  BY CaptureAssumption DEF MainInit, Init
<1>2. QueueInv
  BY DEF MainInit, Init, QueueInv
<1>3. StepInv
  BY <1>1, CaptureAssumption DEF MainInit, Init, StepInv, Pairs
<1>4. OwnInv
  BY CaptureAssumption DEF MainInit, Init, OwnInv
<1>5. KeptInv
  BY DEF MainInit, Init, KeptInv, InHand, IsKept, Pairs
<1>6. FaultsInv
  BY DEF MainInit, Init, FaultsInv, NoFaults
<1>. QED  BY <1>2, <1>3, <1>4, <1>5, <1>6 DEF CaptureInv

(* A pair joins the queue before the first frame.                          *)
LEMMA RegisterStep ==
  ASSUME CaptureInv, RegisterDispatcher
  PROVE  CaptureInv'
<1>. DEFINE n == Len(dispatch_queue)
<1>1. /\ stage = "register" /\ step = "wait" /\ n \in Nat
      /\ own = [p \in Processors |-> NoBuffer]
  BY DEF RegisterDispatcher, CaptureInv, QueueInv, OwnInv
<1>2. PICK q \in Queues : /\ IsPrefix(dispatch_queue, q) /\ dispatch_queue # q
                          /\ AddDispatcher(q[n + 1])
                          /\ stage' \in {"loop", "register"}
  BY DEF RegisterDispatcher
<1>3. /\ q \in Seq(Pair) /\ dispatch_queue \in Seq(Pair)
      /\ \A i, j \in DOMAIN q :
           q[i].processor = q[j].processor => q[i].class = q[j].class
  BY MainAssumption DEF CaptureInv, QueueInv
<1>4. n < Len(q) /\ \A i \in 1 .. n : dispatch_queue[i] = q[i]
  <2>1. n <= Len(q) /\ SubSeq(dispatch_queue, 1, n) = SubSeq(q, 1, n)
    BY <1>2 DEF IsPrefix
  <2>2. \A i \in 1 .. n : dispatch_queue[i] = q[i]
    <3>. TAKE i \in 1 .. n
    <3>1. SubSeq(dispatch_queue, 1, n)[i] = dispatch_queue[i]
      BY <1>3
    <3>2. SubSeq(q, 1, n)[i] = q[i]
      BY <1>3, <2>1
    <3>. QED  BY <2>1, <3>1, <3>2
  <2>3. n # Len(q)
    BY <1>2, <1>3, <2>2
  <2>. QED  BY <1>1, <1>3, <2>1, <2>2, <2>3
<1>5. /\ dispatch_queue' = Append(dispatch_queue, q[n + 1])
      /\ kept' = Append(kept, << >>) /\ held' = Append(held, << >>)
      /\ UNCHANGED <<count, frame, pair, step, heap, own, faults>>
  BY <1>2 DEF AddDispatcher
<1>6. /\ dispatch_queue' \in Seq(Pair) /\ Len(dispatch_queue') = n + 1
      /\ \A i \in 1 .. n + 1 : dispatch_queue'[i] = q[i]
  BY <1>1, <1>3, <1>4, <1>5
<1>7. /\ kept' \in Seq(Seq(Buffers)) /\ held' \in Seq(Seq(1 .. MaxFrames))
      /\ Len(kept') = n + 1 /\ Len(held') = n + 1
      /\ kept'[n + 1] = << >> /\ held'[n + 1] = << >>
      /\ \A i \in 1 .. n : kept'[i] = kept[i] /\ held'[i] = held[i]
  <2>1. /\ kept \in Seq(Seq(Buffers)) /\ held \in Seq(Seq(1 .. MaxFrames))
        /\ Len(kept) = n /\ Len(held) = n
    BY DEF CaptureInv, QueueInv
  <2>. QED  BY <1>1, <1>5, <2>1
<1>8. DOMAIN kept = 1 .. n /\ DOMAIN kept' = 1 .. n + 1
  BY <1>7 DEF CaptureInv, QueueInv
<1>9. QueueInv'
  <2>1. DOMAIN dispatch_queue' = 1 .. n + 1 /\ DOMAIN q = 1 .. Len(q)
    BY <1>1, <1>3, <1>6
  <2>2. Len(q) \in Nat /\ n + 1 <= Len(q)
    BY <1>1, <1>3, <1>4
  <2>3. \A i \in 1 .. n + 1 : i \in DOMAIN q
    BY <1>1, <2>1, <2>2
  <2>4. \A i, j \in DOMAIN dispatch_queue' :
          dispatch_queue'[i].processor = dispatch_queue'[j].processor =>
            dispatch_queue'[i].class = dispatch_queue'[j].class
    BY <1>3, <1>6, <2>1, <2>3
  <2>. QED  BY <1>6, <1>7, <2>4 DEF QueueInv
<1>10. StepInv'
  BY <1>1, <1>5, <1>6 DEF CaptureInv, StepInv, Pairs
<1>11. OwnInv'
  <2>1. \A i \in DOMAIN dispatch_queue' : dispatch_queue'[i].processor \in Processors
    <3>1. \A i \in DOMAIN dispatch_queue' : dispatch_queue'[i] \in Pair
      BY <1>6
    <3>2. \A r \in Pair : r.processor \in Processors
      BY DEF Pair
    <3>. QED  BY <3>1, <3>2
  <2>. QED  BY <1>1, <1>2, <1>5, <2>1 DEF CaptureInv, OwnInv
<1>12. KeptInv'
  <2>1. ~ InHand /\ ~ InHand'
    BY <1>1, <1>5 DEF InHand
  <2>2. Pairs = 1 .. n /\ Pairs' = 1 .. n + 1
    BY <1>6 DEF Pairs
  <2>. HIDE DEF n
  <2>3. \A i \in Pairs' :
          \/ /\ i \in Pairs /\ kept'[i] = kept[i] /\ held'[i] = held[i]
             /\ dispatch_queue'[i] = dispatch_queue[i]
          \/ kept'[i] = << >> /\ held'[i] = << >>
    <3>. TAKE i \in Pairs'
    <3>1. CASE i = n + 1
      BY <1>7, <3>1
    <3>2. CASE i \in 1 .. n
      <4>1. i \in 1 .. n + 1
        BY <2>2
      <4>. QED  BY <1>4, <1>6, <1>7, <2>2, <3>2, <4>1
    <3>. QED  BY <1>1, <2>2, <3>1, <3>2
  <2>4. \A i \in Pairs : i \in Pairs' /\ kept'[i] = kept[i]
    BY <1>1, <1>7, <2>2
  <2>5. 1 .. Len(<< >>) = {} /\ Len(<< >>) < KeptSize
    BY CaptureAssumption
  <2>6. \A b : IsKept(b)' <=> IsKept(b)
    BY <2>3, <2>4, <2>5 DEF IsKept
  <2>7. KeptInv
    BY DEF CaptureInv
  <2>8. \A i \in Pairs' : Len(kept'[i]) = Len(held'[i])
    BY <2>3, <2>7 DEF KeptInv
  <2>9. \A i \in Pairs' : \A j \in 1 .. Len(kept'[i]) :
          heap'[kept'[i][j]] = held'[i][j]
    <3>1. \A i \in Pairs' : \A j \in 1 .. Len(kept'[i]) :
            i \in Pairs /\ kept'[i] = kept[i] /\ held'[i] = held[i]
      BY <2>3, <2>5
    <3>2. heap' = heap
      BY <1>5
    <3>. QED  BY <2>7, <3>1, <3>2 DEF KeptInv
  <2>10. \A i, k \in Pairs' : \A j \in 1 .. Len(kept'[i]), l \in 1 .. Len(kept'[k]) :
           kept'[i][j] = kept'[k][l] => i = k /\ j = l
    <3>1. \A i \in Pairs' : \A j \in 1 .. Len(kept'[i]) :
            i \in Pairs /\ kept'[i] = kept[i]
      BY <2>3, <2>5
    <3>. QED  BY <2>7, <3>1 DEF KeptInv
  <2>11. \A b \in Buffers : heap'[b] # 0 => IsKept(b)'
    BY <1>5, <2>1, <2>6, <2>7 DEF KeptInv
  <2>12. \A i \in Pairs' :
           dispatch_queue'[i].copy = "buffer" => Len(kept'[i]) < KeptSize
    BY <2>3, <2>5, <2>7 DEF KeptInv
  <2>. QED  BY <2>1, <2>8, <2>9, <2>10, <2>11, <2>12 DEF KeptInv
<1>13. FaultsInv'
  <2>1. \A field, value : Uses(field, value) => Uses(field, value)'
    <3>1. DOMAIN dispatch_queue = 1 .. n /\ DOMAIN dispatch_queue' = 1 .. n + 1
      BY <1>3, <1>6
    <3>. QED  BY <1>1, <1>4, <1>6, <3>1 DEF Uses
  <2>. QED  BY <1>5, <2>1 DEF CaptureInv, FaultsInv, NoFaults
<1>. QED  BY <1>9, <1>10, <1>11, <1>12, <1>13 DEF CaptureInv

(* What the steps of the loop share: the queue and its pairs stay.         *)
LEMMA SameQueue ==
  ASSUME CaptureInv, UNCHANGED <<dispatch_queue, kept, held>>
  PROVE  /\ QueueInv' /\ Pairs' = Pairs
         /\ \A b : IsKept(b)' <=> IsKept(b)
         /\ \A field, value : Uses(field, value)' <=> Uses(field, value)
<1>1. QueueInv'
  BY DEF CaptureInv, QueueInv
<1>2. Pairs' = Pairs
  BY DEF Pairs
<1>3. \A b : IsKept(b)' <=> IsKept(b)
  BY <1>2 DEF IsKept
<1>4. \A field, value : Uses(field, value)' <=> Uses(field, value)
  BY DEF Uses
<1>. QED  BY <1>1, <1>2, <1>3, <1>4

(* The pair in the loop.                                                   *)
LEMMA CurrentPair ==
  ASSUME CaptureInv, pair \in Pairs
  PROVE  /\ pair \in DOMAIN dispatch_queue
         /\ Current \in Pair /\ Current.processor \in Processors
         /\ Current.class \in {"mep", "udp", "tcp"}
         /\ Processed \in Buffers \cup {NoBuffer}
<1>1. dispatch_queue \in Seq(Pair) /\ own \in [Processors -> Buffers \cup {NoBuffer}]
  BY DEF CaptureInv, QueueInv, OwnInv
<1>2. pair \in DOMAIN dispatch_queue /\ Current \in Pair
  BY <1>1 DEF Pairs, Current
<1>3. /\ Current.processor \in Processors
      /\ Current.class \in {"mep", "udp", "tcp"}
  BY <1>2 DEF Pair
<1>. QED  BY <1>1, <1>2, <1>3 DEF Processed

(* A kept packet is not free.                                              *)
LEMMA KeptIsUsed ==
  ASSUME CaptureInv
  PROVE  /\ \A i \in Pairs : \A j \in 1 .. Len(kept[i]) :
              /\ kept[i][j] \in Buffers /\ heap[kept[i][j]] # 0
              /\ held[i][j] \in 1 .. MaxFrames
         /\ \A b : IsKept(b) => b \in Buffers /\ heap[b] # 0
<1>1. \A i \in Pairs : kept[i] \in Seq(Buffers) /\ held[i] \in Seq(1 .. MaxFrames)
  BY DEF CaptureInv, QueueInv, Pairs
<1>2. \A i \in Pairs : Len(kept[i]) = Len(held[i])
  BY DEF CaptureInv, KeptInv
<1>3. \A i \in Pairs : \A j \in 1 .. Len(kept[i]) :
        kept[i][j] \in Buffers /\ held[i][j] \in 1 .. MaxFrames
  <2>. TAKE i \in Pairs
  <2>. TAKE j \in 1 .. Len(kept[i])
  <2>1. kept[i][j] \in Buffers
    BY <1>1, ElementOfSeq
  <2>2. held[i][j] \in 1 .. MaxFrames
    BY <1>1, <1>2, ElementOfSeq
  <2>. QED  BY <2>1, <2>2
<1>4. \A i \in Pairs : \A j \in 1 .. Len(kept[i]) : heap[kept[i][j]] = held[i][j]
  BY DEF CaptureInv, KeptInv
<1>5. 0 \notin 1 .. MaxFrames
  OBVIOUS
<1>6. \A i \in Pairs : \A j \in 1 .. Len(kept[i]) : heap[kept[i][j]] # 0
  BY <1>3, <1>4, <1>5
<1>. QED  BY <1>3, <1>6 DEF IsKept

LEMMA CaptureStep ==
  ASSUME CaptureInv, stage = "loop", UNCHANGED mainVars,
         NEW f \in Captured, Capture(f)
  PROVE  CaptureInv'
<1>1. /\ step = "wait" /\ step' = "process" /\ pair' = 1 /\ frame' = f
      /\ count < MaxFrames /\ count' = count + 1
      /\ UNCHANGED <<dispatch_queue, heap, own, kept, held, faults, stage>>
  BY DEF Capture, mainVars
<1>2. /\ QueueInv' /\ Pairs' = Pairs
      /\ \A b : IsKept(b)' <=> IsKept(b)
      /\ \A field, value : Uses(field, value)' <=> Uses(field, value)
  BY <1>1, SameQueue
<1>3. StepInv'
  <2>1. count \in 0 .. MaxFrames /\ MaxFrames \in Nat
    BY CaptureAssumption DEF CaptureInv, StepInv
  <2>2. count' \in 0 .. MaxFrames /\ count' >= 1
    BY <1>1, <2>1
  <2>3. Len(dispatch_queue) \in Nat
    BY DEF CaptureInv, QueueInv
  <2>4. pair' \in 1 .. Len(dispatch_queue') + 1
    BY <1>1, <2>3
  <2>. QED  BY <1>1, <2>2, <2>4 DEF StepInv
<1>4. OwnInv'
  BY <1>1 DEF CaptureInv, OwnInv
<1>5. KeptInv'
  <2>1. ~ InHand /\ ~ InHand'
    BY <1>1 DEF InHand
  <2>. QED  BY <1>1, <1>2, <2>1 DEF CaptureInv, KeptInv
<1>6. FaultsInv'
  BY <1>1, <1>2 DEF CaptureInv, FaultsInv, NoFaults
<1>. QED  BY <1>2, <1>3, <1>4, <1>5, <1>6 DEF CaptureInv

LEMMA ReturnStep ==
  ASSUME CaptureInv, stage = "loop", UNCHANGED mainVars, ReturnFromLoop
  PROVE  CaptureInv'
<1>1. /\ step = "process" /\ step' = "wait"
      /\ UNCHANGED <<dispatch_queue, count, frame, pair, heap, own, kept, held,
                     faults, stage>>
  BY DEF ReturnFromLoop, mainVars
<1>2. /\ QueueInv' /\ Pairs' = Pairs
      /\ \A b : IsKept(b)' <=> IsKept(b)
      /\ \A field, value : Uses(field, value)' <=> Uses(field, value)
  BY <1>1, SameQueue
<1>3. StepInv'
  BY <1>1 DEF CaptureInv, StepInv
<1>4. OwnInv'
  BY <1>1 DEF CaptureInv, OwnInv
<1>5. KeptInv'
  <2>1. ~ InHand /\ ~ InHand'
    BY <1>1 DEF InHand
  <2>. QED  BY <1>1, <1>2, <2>1 DEF CaptureInv, KeptInv
<1>6. FaultsInv'
  BY <1>1, <1>2 DEF CaptureInv, FaultsInv, NoFaults
<1>. QED  BY <1>2, <1>3, <1>4, <1>5, <1>6 DEF CaptureInv

(* The clone goes into a buffer that is free, so no kept packet is in it.  *)
LEMMA ProcessStep ==
  ASSUME CaptureInv, stage = "loop", UNCHANGED mainVars, ProcessPacket
  PROVE  CaptureInv'
<1>1. /\ step = "process" /\ pair <= Len(dispatch_queue)
      /\ step' = IF Takes(Current.class, frame) THEN "dispatch" ELSE "free"
      /\ UNCHANGED <<dispatch_queue, count, frame, pair, kept, held, faults, stage>>
  BY DEF ProcessPacket, mainVars
<1>2. /\ QueueInv' /\ Pairs' = Pairs
      /\ \A b : IsKept(b)' <=> IsKept(b)
      /\ \A field, value : Uses(field, value)' <=> Uses(field, value)
  BY <1>1, SameQueue
<1>3. pair \in Pairs
  BY <1>1 DEF CaptureInv, StepInv, QueueInv, Pairs
<1>4. /\ Current' = Current
      /\ pair \in DOMAIN dispatch_queue
      /\ Current.processor \in Processors
  BY <1>1, <1>3, CurrentPair DEF Current
<1>5. /\ heap \in [Buffers -> 0 .. MaxFrames]
      /\ own \in [Processors -> Buffers \cup {NoBuffer}]
      /\ count \in 0 .. MaxFrames /\ count # 0
  BY <1>1 DEF CaptureInv, OwnInv, StepInv
<1>6. StepInv'
  BY <1>1, <1>2, <1>3, <1>4 DEF CaptureInv, StepInv
<1>7. FaultsInv'
  BY <1>1, <1>2 DEF CaptureInv, FaultsInv, NoFaults
<1>8. ~ InHand /\ (InHand' <=> Current.class # "tcp")
  BY <1>1, <1>4 DEF InHand
<1>9. OwnInv' /\ KeptInv'
  <2>1. CASE Current.class = "tcp"
    <3>1. heap' = heap /\ own' = own
      BY <2>1 DEF ProcessPacket
    <3>2. OwnInv'
      BY <1>1, <3>1 DEF CaptureInv, OwnInv
    <3>3. KeptInv'
      BY <1>1, <1>2, <1>8, <2>1, <3>1 DEF CaptureInv, KeptInv
    <3>. QED  BY <3>2, <3>3
  <2>2. CASE Current.class # "tcp"
    <3>1. PICK b \in Buffers :
            /\ heap[b] = 0
            /\ heap' = [heap EXCEPT ![b] = count]
            /\ own' = [own EXCEPT ![Current.processor] = b]
      BY <2>2 DEF ProcessPacket
    <3>2. ~ IsKept(b)
      BY <3>1, KeptIsUsed
    <3>3. /\ heap'[b] = count
          /\ \A c \in Buffers : c # b => heap'[c] = heap[c]
          /\ heap' \in [Buffers -> 0 .. MaxFrames]
      BY <1>5, <3>1
    <3>4. /\ own'[Current.processor] = b
          /\ \A p \in Processors : p # Current.processor => own'[p] = own[p]
          /\ own' \in [Processors -> Buffers \cup {NoBuffer}]
      BY <1>4, <1>5, <3>1
    <3>5. Processed' = b
      BY <1>4, <3>4 DEF Processed
    <3>6. OwnInv'
      <4>1. \A i \in DOMAIN dispatch_queue :
              dispatch_queue[i].class = "tcp" =>
                /\ dispatch_queue[i].processor \in Processors
                /\ dispatch_queue[i].processor # Current.processor
        <5>1. \A i \in DOMAIN dispatch_queue : dispatch_queue[i] \in Pair
          BY DEF CaptureInv, QueueInv
        <5>2. \A i \in DOMAIN dispatch_queue : dispatch_queue[i].processor \in Processors
          BY <5>1 DEF Pair
        <5>3. \A i \in DOMAIN dispatch_queue :
                dispatch_queue[i].processor = Current.processor =>
                  dispatch_queue[i].class = Current.class
          BY <1>4 DEF CaptureInv, QueueInv, Current
        <5>. QED  BY <2>2, <5>2, <5>3
      <4>. QED  BY <1>1, <3>3, <3>4, <4>1 DEF CaptureInv, OwnInv
    <3>7. KeptInv'
      <4>1. \A i \in Pairs : \A j \in 1 .. Len(kept[i]) :
              /\ kept[i][j] \in Buffers /\ kept[i][j] # b
        BY <3>1, KeptIsUsed
      <4>2. \A i \in Pairs : \A j \in 1 .. Len(kept[i]) :
              heap'[kept[i][j]] = held[i][j]
        BY <3>3, <4>1 DEF CaptureInv, KeptInv
      <4>3. \A c \in Buffers : heap'[c] # 0 => IsKept(c) \/ c = b
        BY <1>8, <3>3 DEF CaptureInv, KeptInv
      <4>. QED  BY <1>1, <1>2, <1>8, <2>2, <3>2, <3>3, <3>5, <4>2, <4>3
                DEF CaptureInv, KeptInv
    <3>. QED  BY <3>6, <3>7
  <2>. QED  BY <2>1, <2>2
<1>. QED  BY <1>2, <1>6, <1>7, <1>9 DEF CaptureInv

(* While a dispatcher or the clean-up has the pair: a processor that made  *)
(* a clone holds this frame, one that made none is a TCPPacket.            *)
LEMMA HandCases ==
  ASSUME CaptureInv, step \in {"dispatch", "free"}
  PROVE  /\ pair \in Pairs /\ Current \in Pair
         /\ Processed = NoBuffer =>
              Current.class = "tcp" /\ Uses("class", "tcp") /\ ~ InHand
         /\ Processed # NoBuffer =>
              /\ InHand /\ Processed \in Buffers /\ heap[Processed] = count
              /\ count # 0 /\ count \in 1 .. MaxFrames /\ ~ IsKept(Processed)
<1>1. /\ pair \in Pairs
      /\ count \in 0 .. MaxFrames /\ count >= 1 /\ MaxFrames \in Nat
  BY CaptureAssumption DEF CaptureInv, StepInv
<1>2. /\ pair \in DOMAIN dispatch_queue /\ Current \in Pair
      /\ Processed \in Buffers \cup {NoBuffer}
  BY <1>1, CurrentPair
<1>3. Current.class = "tcp" => Processed = NoBuffer /\ Uses("class", "tcp") /\ ~ InHand
  BY <1>2 DEF CaptureInv, OwnInv, Current, Processed, Uses, InHand
<1>4. Current.class # "tcp" =>
        /\ InHand /\ Processed \in Buffers /\ heap[Processed] = count
        /\ ~ IsKept(Processed)
  BY DEF InHand, CaptureInv, KeptInv
<1>. QED  BY <1>1, <1>2, <1>3, <1>4, CaptureAssumption

LEMMA UnclonedStep ==
  ASSUME CaptureInv, stage = "loop", UNCHANGED mainVars, DispatchUncloned
  PROVE  CaptureInv'
<1>1. /\ step = "dispatch" /\ step' = "aborted" /\ Processed = NoBuffer
      /\ faults' = faults \cup {"read"}
      /\ UNCHANGED <<dispatch_queue, count, frame, pair, heap, own, kept, held, stage>>
  BY DEF DispatchUncloned, mainVars
<1>2. /\ QueueInv' /\ Pairs' = Pairs
      /\ \A b : IsKept(b)' <=> IsKept(b)
      /\ \A field, value : Uses(field, value)' <=> Uses(field, value)
  BY <1>1, SameQueue
<1>3. Uses("class", "tcp") /\ ~ InHand /\ ~ InHand'
  BY <1>1, HandCases DEF InHand
<1>4. StepInv'
  BY <1>1 DEF CaptureInv, StepInv
<1>5. OwnInv'
  BY <1>1 DEF CaptureInv, OwnInv
<1>6. KeptInv'
  BY <1>1, <1>2, <1>3 DEF CaptureInv, KeptInv
<1>7. FaultsInv'
  BY <1>1, <1>2, <1>3 DEF CaptureInv, FaultsInv, NoFaults
<1>. QED  BY <1>2, <1>4, <1>5, <1>6, <1>7 DEF CaptureInv

LEMMA DeleteStep ==
  ASSUME CaptureInv, stage = "loop", UNCHANGED mainVars, DispatchAndDelete
  PROVE  CaptureInv'
<1>1. /\ step = "dispatch" /\ step' = "free" /\ Processed # NoBuffer
      /\ faults' = faults \cup ReadFaults
                    \cup IF Current.copy = "touch" THEN {"write"} ELSE {}
      /\ UNCHANGED <<dispatch_queue, count, frame, pair, heap, own, kept, held, stage>>
  BY DEF DispatchAndDelete, mainVars
<1>2. /\ QueueInv' /\ Pairs' = Pairs
      /\ \A b : IsKept(b)' <=> IsKept(b)
      /\ \A field, value : Uses(field, value)' <=> Uses(field, value)
  BY <1>1, SameQueue
<1>3. /\ InHand /\ heap[Processed] = count /\ pair \in Pairs
  BY <1>1, HandCases
<1>4. Current' = Current /\ Processed' = Processed /\ InHand'
  BY <1>1, <1>3 DEF InHand, Current, Processed
<1>5. StepInv'
  BY <1>1, <1>2 DEF CaptureInv, StepInv
<1>6. OwnInv'
  BY <1>1 DEF CaptureInv, OwnInv
<1>7. KeptInv'
  BY <1>1, <1>2, <1>3, <1>4 DEF CaptureInv, KeptInv
<1>8. FaultsInv'
  <2>1. ReadFaults = {}
    BY <1>3 DEF ReadFaults
  <2>2. Current.copy = "touch" => Uses("copy", "touch")
    BY <1>3, CurrentPair DEF Uses, Current
  <2>3. faults' \subseteq faults \cup {"write"}
    BY <1>1, <2>1
  <2>4. "write" \in faults' => "write" \in faults \/ Current.copy = "touch"
    BY <1>1, <2>1
  <2>. QED  BY <1>2, <2>2, <2>3, <2>4 DEF CaptureInv, FaultsInv, NoFaults
<1>. QED  BY <1>2, <1>5, <1>6, <1>7, <1>8 DEF CaptureInv

(* The clean-up frees the clone of this frame and no other buffer.         *)
LEMMA FreeStep ==
  ASSUME CaptureInv, stage = "loop", UNCHANGED mainVars, FreePacketAndHeader
  PROVE  CaptureInv'
<1>1. /\ step = "free" /\ step' \in {"process", "aborted"} /\ pair' = pair + 1
      /\ heap' = Freed({Processed})
      /\ faults' = faults \cup FreeFaults({Processed})
      /\ UNCHANGED <<dispatch_queue, count, frame, own, kept, held, stage>>
  BY DEF FreePacketAndHeader, mainVars
<1>2. /\ QueueInv' /\ Pairs' = Pairs
      /\ \A b : IsKept(b)' <=> IsKept(b)
      /\ \A field, value : Uses(field, value)' <=> Uses(field, value)
  BY <1>1, SameQueue
<1>3. ~ InHand'
  BY <1>1 DEF InHand
<1>4. heap \in [Buffers -> 0 .. MaxFrames] /\ MaxFrames \in Nat
  BY CaptureAssumption DEF CaptureInv, OwnInv
<1>5. /\ \A b \in Buffers : b # Processed => heap'[b] = heap[b]
      /\ Processed \in Buffers => heap'[Processed] = 0
      /\ heap' \in [Buffers -> 0 .. MaxFrames]
  BY <1>1, <1>4 DEF Freed
<1>6. StepInv'
  <2>1. pair \in Pairs /\ Len(dispatch_queue) \in Nat
    BY <1>1, HandCases DEF CaptureInv, QueueInv
  <2>2. pair' \in 1 .. Len(dispatch_queue') + 1
    BY <1>1, <2>1 DEF Pairs
  <2>. QED  BY <1>1, <2>2 DEF CaptureInv, StepInv
<1>7. OwnInv'
  BY <1>1, <1>5 DEF CaptureInv, OwnInv
<1>8. KeptInv'
  <2>1. ~ IsKept(Processed) /\ (InHand => Processed \in Buffers)
    BY <1>1, CaptureAssumption, HandCases, KeptIsUsed
  <2>2. \A i \in Pairs : \A j \in 1 .. Len(kept[i]) :
          heap'[kept[i][j]] = held[i][j]
    <3>1. \A i \in Pairs : \A j \in 1 .. Len(kept[i]) :
            kept[i][j] \in Buffers /\ kept[i][j] # Processed
      BY <2>1, KeptIsUsed DEF IsKept
    <3>. QED  BY <1>5, <3>1 DEF CaptureInv, KeptInv
  <2>3. \A b \in Buffers : heap'[b] # 0 => IsKept(b)
    BY <1>5 DEF CaptureInv, KeptInv
  <2>4. UNCHANGED <<dispatch_queue, kept, held>> /\ KeptInv
    BY <1>1 DEF CaptureInv
  <2>. QED  BY <1>2, <1>3, <2>2, <2>3, <2>4 DEF KeptInv
<1>9. FaultsInv'
  <2>1. CASE Processed = NoBuffer
    <3>1. Uses("class", "tcp")
      BY <1>1, <2>1, HandCases
    <3>2. FreeFaults({Processed}) \subseteq {"free"}
      BY DEF FreeFaults
    <3>. QED  BY <1>1, <1>2, <3>1, <3>2 DEF CaptureInv, FaultsInv, NoFaults
  <2>2. CASE Processed # NoBuffer
    <3>1. IsLive(Processed)
      BY <1>1, <2>2, HandCases DEF IsLive
    <3>2. FreeFaults({Processed}) = {}
      BY <3>1 DEF FreeFaults
    <3>. QED  BY <1>1, <1>2, <3>2 DEF CaptureInv, FaultsInv, NoFaults
  <2>. QED  BY <2>1, <2>2
<1>. QED  BY <1>2, <1>6, <1>7, <1>8, <1>9 DEF CaptureInv

(* What the dispatcher that keeps its copies deletes: a prefix of them,    *)
(* and enough to stay below the size at which it deletes.                  *)
LEMMA OldestIsPrefix ==
  ASSUME NEW all \in Seq(Buffers), Len(all) >= 1,
         Current.copy = "buffer" => Len(all) <= KeptSize
  PROVE  /\ Len(Oldest(all)) \in 0 .. Len(all)
         /\ \A j \in 1 .. Len(Oldest(all)) : Oldest(all)[j] = all[j]
         /\ ToSet(Oldest(all)) = {all[j] : j \in 1 .. Len(Oldest(all))}
         /\ Current.copy = "buffer" => Len(all) - Len(Oldest(all)) < KeptSize
<1>1. Len(all) \in Nat /\ KeptSize \in Nat /\ DeleteSize \in 1 .. KeptSize
  BY CaptureAssumption
<1>2. CASE Current.copy = "buffer" /\ Len(all) >= KeptSize
  <2>1. Oldest(all) = SubSeq(all, 1, DeleteSize) /\ DeleteSize <= Len(all)
    BY <1>1, <1>2 DEF Oldest
  <2>2. \A j \in 1 .. DeleteSize : all[j] \in Buffers
    BY <1>1, <2>1
  <2>3. /\ Oldest(all) \in Seq(Buffers) /\ Len(Oldest(all)) = DeleteSize
        /\ \A j \in 1 .. DeleteSize : Oldest(all)[j] = all[j]
    BY <1>1, <2>1, <2>2, SubSeqProperties
  <2>4. DOMAIN Oldest(all) = 1 .. DeleteSize
    BY <2>3, LenProperties
  <2>5. ToSet(Oldest(all)) = {all[j] : j \in 1 .. DeleteSize}
    BY <2>3, <2>4 DEF ToSet
  <2>. QED  BY <1>1, <1>2, <2>1, <2>3, <2>5
<1>3. CASE ~ (Current.copy = "buffer" /\ Len(all) >= KeptSize)
  <2>1. Oldest(all) = << >>
    BY <1>3 DEF Oldest
  <2>2. Len(<< >>) = 0 /\ DOMAIN << >> = {} /\ 1 .. 0 = {}
    OBVIOUS
  <2>3. ToSet(Oldest(all)) = {}
    BY <2>1, <2>2 DEF ToSet
  <2>. QED  BY <1>1, <1>3, <2>1, <2>2, <2>3
<1>. QED  BY <1>2, <1>3

(* The rest of a list and one more, from n + 1 on.                         *)
LEMMA RestOfAppend ==
  ASSUME NEW S, NEW s \in Seq(S), NEW e \in S, NEW n \in 0 .. Len(s) + 1
  PROVE  /\ SubSeq(Append(s, e), n + 1, Len(s) + 1) \in Seq(S)
         /\ Len(SubSeq(Append(s, e), n + 1, Len(s) + 1)) = Len(s) + 1 - n
         /\ \A j \in 1 .. Len(s) + 1 - n :
              SubSeq(Append(s, e), n + 1, Len(s) + 1)[j] = Append(s, e)[j + n]
<1>1. Len(s) \in Nat
  OBVIOUS
<1>2. /\ Append(s, e) \in Seq(S) /\ Len(Append(s, e)) = Len(s) + 1
  BY AppendProperties
<1>3. \A i \in n + 1 .. Len(s) + 1 : Append(s, e)[i] \in S
  BY <1>1, <1>2, ElementOfSeq
<1>4. n + 1 \in Int /\ Len(s) + 1 \in Int
  BY <1>1
<1>5. /\ SubSeq(Append(s, e), n + 1, Len(s) + 1) \in Seq(S)
      /\ Len(SubSeq(Append(s, e), n + 1, Len(s) + 1)) =
           IF n + 1 <= Len(s) + 1 THEN Len(s) + 1 - (n + 1) + 1 ELSE 0
      /\ \A i \in 1 .. Len(s) + 1 - (n + 1) + 1 :
           SubSeq(Append(s, e), n + 1, Len(s) + 1)[i] = Append(s, e)[n + 1 + i - 1]
  BY <1>3, <1>4, SubSeqProperties
<1>6. Len(SubSeq(Append(s, e), n + 1, Len(s) + 1)) = Len(s) + 1 - n
  BY <1>1, <1>5
<1>7. \A j \in 1 .. Len(s) + 1 - n : n + 1 + j - 1 = j + n
  BY <1>1
<1>8. Len(s) + 1 - (n + 1) + 1 = Len(s) + 1 - n
  BY <1>1
<1>. QED  BY <1>5, <1>6, <1>7, <1>8

(* A copy joins the list, the oldest leave it: each of them was in use and *)
(* held by nobody else.                                                    *)
LEMMA KeepStep ==
  ASSUME CaptureInv, stage = "loop", UNCHANGED mainVars, DispatchAndKeep
  PROVE  CaptureInv'
<1>. DEFINE L == Len(kept[pair])
<1>1. /\ step = "dispatch" /\ step' = "free" /\ Processed # NoBuffer
      /\ UNCHANGED <<dispatch_queue, count, frame, pair, own, stage>>
  BY DEF DispatchAndKeep, mainVars
<1>2. /\ InHand /\ Processed \in Buffers /\ heap[Processed] = count
      /\ count \in 1 .. MaxFrames /\ ~ IsKept(Processed)
      /\ pair \in Pairs /\ Current \in Pair
  BY <1>1, HandCases
<1>3. /\ kept[pair] \in Seq(Buffers) /\ held[pair] \in Seq(1 .. MaxFrames)
      /\ L \in Nat /\ Len(held[pair]) = L
      /\ Current.copy = "buffer" => L < KeptSize
  <2>1. kept[pair] \in Seq(Buffers) /\ held[pair] \in Seq(1 .. MaxFrames)
    BY <1>2 DEF CaptureInv, QueueInv, Pairs
  <2>. QED  BY <1>2, <2>1 DEF CaptureInv, KeptInv, Current
<1>4. PICK b \in Buffers :
        LET all == Append(kept[pair], b)
            n == Len(Oldest(all))
            old == ToSet(Oldest(all))
        IN  /\ heap[b] = 0
            /\ heap' = [Freed(old) EXCEPT
                 ![b] = IF b \in old THEN 0 ELSE heap[Processed]]
            /\ kept' = [kept EXCEPT ![pair] = SubSeq(all, n + 1, Len(all))]
            /\ held' = [held EXCEPT
                 ![pair] = SubSeq(Append(@, count), n + 1, Len(all))]
            /\ faults' = faults \cup ReadFaults \cup FreeFaults(old \ {b})
  BY DEF DispatchAndKeep
<1>. DEFINE all == Append(kept[pair], b)
            n == Len(Oldest(all))
            old == ToSet(Oldest(all))
<1>5. /\ all \in Seq(Buffers) /\ Len(all) = L + 1 /\ all[L + 1] = b
      /\ \A j \in 1 .. L : all[j] = kept[pair][j]
  BY <1>3, AppendProperties
<1>6. /\ n \in 0 .. L + 1 /\ old = {all[j] : j \in 1 .. n}
      /\ Current.copy = "buffer" => L + 1 - n < KeptSize
  <2>1. Len(all) >= 1 /\ (Current.copy = "buffer" => Len(all) <= KeptSize)
    BY <1>3, <1>5, CaptureAssumption
  <2>2. /\ Len(Oldest(all)) \in 0 .. Len(all)
        /\ ToSet(Oldest(all)) = {all[j] : j \in 1 .. Len(Oldest(all))}
        /\ Current.copy = "buffer" => Len(all) - Len(Oldest(all)) < KeptSize
    <3>1. all \in Seq(Buffers)
      BY <1>5
    <3>. HIDE DEF all
    <3>. QED  BY <2>1, <3>1, OldestIsPrefix
  <2>3. Len(all) = L + 1
    BY <1>5
  <2>4. old = {all[j] : j \in 1 .. n}
    <3>. HIDE DEF all
    <3>. QED  BY <2>2
  <2>5. n \in 0 .. L + 1 /\ (Current.copy = "buffer" => L + 1 - n < KeptSize)
    <3>1. /\ n \in 0 .. Len(all)
          /\ Current.copy = "buffer" => Len(all) - n < KeptSize
      <4>. HIDE DEF all
      <4>. QED  BY <2>2
    <3>. HIDE DEF all, n, L
    <3>. QED  BY <1>3, <2>3, <3>1
  <2>. QED  BY <2>4, <2>5
<1>7. /\ heap[b] = 0
      /\ heap' = [Freed(old) EXCEPT ![b] = IF b \in old THEN 0 ELSE heap[Processed]]
      /\ kept' = [kept EXCEPT ![pair] = SubSeq(all, n + 1, L + 1)]
      /\ held' = [held EXCEPT ![pair] = SubSeq(Append(held[pair], count), n + 1, L + 1)]
      /\ faults' = faults \cup ReadFaults \cup FreeFaults(old \ {b})
  BY <1>4, <1>5
<1>8. \A j \in 1 .. L + 1 : j \in 1 .. L \/ j = L + 1
  BY <1>3
(* The copies of the pair, with the new one: no two are the same buffer.   *)
<1>9. /\ ~ IsKept(b) /\ b # Processed
      /\ \A i \in Pairs : \A j \in 1 .. Len(kept[i]) :
           /\ kept[i][j] \in Buffers /\ kept[i][j] # b /\ kept[i][j] # Processed
           /\ heap[kept[i][j]] # 0
  <2>1. ~ IsKept(b) /\ b # Processed
    BY <1>2, <1>7, KeptIsUsed
  <2>. QED  BY <1>2, <1>7, <2>1, KeptIsUsed DEF IsKept
<1>10. \A j, l \in 1 .. L + 1 : all[j] = all[l] => j = l
  <2>1. \A j, l \in 1 .. L : kept[pair][j] = kept[pair][l] => j = l
    BY <1>2 DEF CaptureInv, KeptInv
  <2>2. \A j \in 1 .. L : all[j] # b
    BY <1>2, <1>5, <1>9
  <2>. HIDE DEF L, all
  <2>. QED  BY <1>5, <1>8, <2>1, <2>2
<1>11. \A j \in 1 .. n : j \in 1 .. L + 1
  BY <1>3, <1>6
<1>12. \A j \in 1 .. L + 1 : all[j] \in old <=> j <= n
  <2>. HIDE DEF L, all, n, old
  <2>. QED  BY <1>3, <1>6, <1>10, <1>11
<1>13. \A c \in old : c \in Buffers /\ c # Processed /\ (c = b \/ heap[c] # 0)
  <2>1. \A j \in 1 .. L + 1 : /\ all[j] \in Buffers /\ all[j] # Processed
                              /\ all[j] = b \/ heap[all[j]] # 0
    BY <1>2, <1>5, <1>8, <1>9
  <2>. HIDE DEF L, all, n, old
  <2>. QED  BY <1>6, <1>11, <2>1
<1>14. \A i \in Pairs : \A j \in 1 .. Len(kept[i]) : i # pair => kept[i][j] \notin old
  <2>1. \A i \in Pairs : \A j \in 1 .. Len(kept[i]) : \A l \in 1 .. L :
          i # pair => kept[i][j] # kept[pair][l]
    BY <1>2 DEF CaptureInv, KeptInv
  <2>2. \A i \in Pairs : \A j \in 1 .. Len(kept[i]) : \A l \in 1 .. L + 1 :
          i # pair => kept[i][j] # all[l]
    BY <1>5, <1>8, <1>9, <2>1
  <2>. HIDE DEF L, all, n, old
  <2>. QED  BY <1>6, <1>11, <2>2
(* The heap and the lists after the step.                                  *)
<1>15. /\ heap' \in [Buffers -> 0 .. MaxFrames]
       /\ \A c \in Buffers :
            heap'[c] = IF c \in old THEN 0
                       ELSE IF c = b THEN count ELSE heap[c]
  <2>1. /\ heap \in [Buffers -> 0 .. MaxFrames] /\ MaxFrames \in Nat
        /\ count \in 0 .. MaxFrames
    BY CaptureAssumption DEF CaptureInv, OwnInv, StepInv
  <2>. HIDE DEF all, n, old
  <2>. QED  BY <1>2, <1>7, <2>1 DEF Freed
<1>16. /\ /\ kept' \in Seq(Seq(Buffers)) /\ held' \in Seq(Seq(1 .. MaxFrames))
          /\ Len(kept') = Len(kept) /\ Len(held') = Len(held)
       /\ /\ Len(kept'[pair]) = L + 1 - n /\ Len(held'[pair]) = L + 1 - n
          /\ \A i \in Pairs : i # pair => kept'[i] = kept[i] /\ held'[i] = held[i]
       /\ \A j \in 1 .. L + 1 - n : kept'[pair][j] = all[j + n]
       /\ \A j \in 1 .. L + 1 - n : held'[pair][j] = Append(held[pair], count)[j + n]
  <2>. DEFINE k == SubSeq(all, n + 1, L + 1)
              h == SubSeq(Append(held[pair], count), n + 1, L + 1)
  <2>1. /\ k \in Seq(Buffers) /\ Len(k) = L + 1 - n
        /\ \A j \in 1 .. L + 1 - n : k[j] = all[j + n]
    <3>1. n \in 0 .. Len(kept[pair]) + 1 /\ kept[pair] \in Seq(Buffers)
      BY <1>3, <1>6
    <3>. HIDE DEF n
    <3>. QED  BY <3>1, RestOfAppend
  <2>2. /\ h \in Seq(1 .. MaxFrames) /\ Len(h) = L + 1 - n
        /\ \A j \in 1 .. L + 1 - n : h[j] = Append(held[pair], count)[j + n]
    <3>1. n \in 0 .. Len(held[pair]) + 1
      BY <1>3, <1>6
    <3>2. count \in 1 .. MaxFrames /\ held[pair] \in Seq(1 .. MaxFrames)
          /\ Len(held[pair]) = L
      BY <1>2, <1>3
    <3>. DEFINE s == held[pair]
                T == 1 .. MaxFrames
                r == SubSeq(Append(s, count), n + 1, Len(s) + 1)
    <3>3. r \in Seq(T) /\ Len(r) = Len(s) + 1 - n
          /\ \A j \in 1 .. Len(s) + 1 - n : r[j] = Append(s, count)[j + n]
      <4>1. n \in 0 .. Len(s) + 1 /\ count \in T /\ s \in Seq(T)
        BY <3>1, <3>2
      <4>. HIDE DEF n, s, T
      <4>. QED  BY <4>1, RestOfAppend
    <3>4. h = r /\ Len(s) = L
      BY <3>2
    <3>. HIDE DEF n, h, r, L
    <3>. QED  BY <3>3, <3>4
  <2>3. /\ kept \in Seq(Seq(Buffers)) /\ held \in Seq(Seq(1 .. MaxFrames))
        /\ Pairs = 1 .. Len(kept) /\ Pairs = 1 .. Len(held)
    BY DEF CaptureInv, QueueInv, Pairs
  <2>4. kept' = [kept EXCEPT ![pair] = k] /\ held' = [held EXCEPT ![pair] = h]
    BY <1>7
  <2>. HIDE DEF k, h, all, n, old, L
  <2>5. /\ kept' \in Seq(Seq(Buffers)) /\ Len(kept') = Len(kept)
        /\ \A i \in Pairs : kept'[i] = IF i = pair THEN k ELSE kept[i]
    BY <1>2, <2>1, <2>3, <2>4, ExceptSeq
  <2>6. /\ held' \in Seq(Seq(1 .. MaxFrames)) /\ Len(held') = Len(held)
        /\ \A i \in Pairs : held'[i] = IF i = pair THEN h ELSE held[i]
    BY <1>2, <2>2, <2>3, <2>4, ExceptSeq
  <2>. QED  BY <1>2, <2>1, <2>2, <2>5, <2>6
<1>17. QueueInv'
  BY <1>1, <1>16 DEF CaptureInv, QueueInv
<1>18. StepInv'
  BY <1>1, <1>2 DEF CaptureInv, StepInv, Pairs
<1>19. OwnInv'
  BY <1>1, <1>15 DEF CaptureInv, OwnInv
<1>20. KeptInv'
  <2>1. /\ Pairs' = Pairs /\ Current' = Current /\ Processed' = Processed
        /\ InHand' /\ UNCHANGED <<dispatch_queue, count>>
    BY <1>1, <1>2 DEF Pairs, Current, Processed, InHand
  <2>. HIDE DEF all, n, old, L
  <2>0. /\ Len(kept'[pair]) = L + 1 - n
        /\ \A i \in Pairs : i # pair => kept'[i] = kept[i] /\ held'[i] = held[i]
    BY <1>16
  <2>2. \A j \in 1 .. L + 1 - n :
          /\ j + n \in 1 .. L + 1 /\ ~ (j + n <= n)
          /\ kept'[pair][j] = all[j + n]
    <3>1. L \in Nat /\ n \in 0 .. L + 1
      BY <1>3, <1>6
    <3>2. \A j \in 1 .. L + 1 - n : j + n \in 1 .. L + 1 /\ ~ (j + n <= n)
      BY <3>1
    <3>. QED  BY <1>16, <3>2
  <2>3. \A j \in 1 .. L + 1 - n :
          /\ kept'[pair][j] \in Buffers /\ kept'[pair][j] \notin old
          /\ kept'[pair][j] # Processed
    <3>1. \A l \in 1 .. L + 1 : all[l] \in Buffers /\ all[l] # Processed
      BY <1>2, <1>5, <1>8, <1>9 DEF L
    <3>. QED  BY <1>12, <2>2, <3>1
  <2>4. \A i \in Pairs : \A j \in 1 .. Len(kept'[i]) :
          /\ kept'[i][j] \in Buffers /\ kept'[i][j] \notin old
          /\ kept'[i][j] # Processed
    BY <1>9, <1>14, <2>0, <2>3
  <2>5. \A i \in Pairs : Len(kept'[i]) = Len(held'[i])
    BY <1>16 DEF CaptureInv, KeptInv
  <2>6. \A i \in Pairs : \A j \in 1 .. Len(kept'[i]) :
          heap'[kept'[i][j]] = held'[i][j]
    <3>1. \A i \in Pairs : i # pair => \A j \in 1 .. Len(kept'[i]) :
            heap'[kept'[i][j]] = held'[i][j]
      <4>1. \A i \in Pairs : \A j \in 1 .. Len(kept[i]) :
              heap[kept[i][j]] = held[i][j]
        BY DEF CaptureInv, KeptInv
      <4>2. \A i \in Pairs : \A j \in 1 .. Len(kept[i]) :
              i # pair => heap'[kept[i][j]] = heap[kept[i][j]]
        BY <1>9, <1>14, <1>15
      <4>. QED  BY <2>0, <4>1, <4>2
    <3>2. \A j \in 1 .. L + 1 - n : heap'[kept'[pair][j]] = held'[pair][j]
      <4>. TAKE j \in 1 .. L + 1 - n
      <4>1. held'[pair][j] = Append(held[pair], count)[j + n]
        BY <1>16
      <4>2. /\ Append(held[pair], count)[L + 1] = count
            /\ \A l \in 1 .. L : Append(held[pair], count)[l] = held[pair][l]
        BY <1>2, <1>3, AppendProperties
      <4>3. heap'[all[j + n]] =
              IF all[j + n] = b THEN count ELSE heap[all[j + n]]
        BY <1>15, <2>2, <2>3
      <4>4. CASE j + n = L + 1
        BY <1>5, <2>2, <4>1, <4>2, <4>3, <4>4
      <4>5. CASE j + n \in 1 .. L
        <5>1. all[j + n] = kept[pair][j + n] /\ all[j + n] # b
          BY <1>2, <1>5, <1>9, <4>5 DEF L
        <5>2. heap[kept[pair][j + n]] = held[pair][j + n]
          BY <1>2, <4>5 DEF CaptureInv, KeptInv, L
        <5>. QED  BY <2>2, <4>1, <4>2, <4>3, <4>5, <5>1, <5>2
      <4>. QED  BY <1>8, <2>2, <4>4, <4>5
    <3>. QED  BY <2>0, <3>1, <3>2
  <2>7. \A i, k \in Pairs : \A j \in 1 .. Len(kept'[i]), l \in 1 .. Len(kept'[k]) :
          kept'[i][j] = kept'[k][l] => i = k /\ j = l
    <3>1. \A i, k \in Pairs : \A j \in 1 .. Len(kept'[i]), l \in 1 .. Len(kept'[k]) :
            i # pair /\ k # pair /\ kept'[i][j] = kept'[k][l] => i = k /\ j = l
      <4>1. \A i, k \in Pairs : \A j \in 1 .. Len(kept[i]), l \in 1 .. Len(kept[k]) :
              kept[i][j] = kept[k][l] => i = k /\ j = l
        BY DEF CaptureInv, KeptInv
      <4>. QED  BY <2>0, <4>1
    <3>2. \A i \in Pairs : \A j \in 1 .. Len(kept'[i]), l \in 1 .. Len(kept'[pair]) :
            i # pair => kept'[i][j] # kept'[pair][l]
      <4>1. \A i \in Pairs : \A j \in 1 .. Len(kept[i]) : \A m \in 1 .. L :
              i # pair => kept[i][j] # kept[pair][m]
        BY <1>2 DEF CaptureInv, KeptInv, L
      <4>2. \A i \in Pairs : \A j \in 1 .. Len(kept[i]) : \A m \in 1 .. L + 1 :
              i # pair => kept[i][j] # all[m]
        BY <1>5, <1>8, <1>9, <4>1
      <4>. QED  BY <2>0, <2>2, <4>2
    <3>3. \A j, l \in 1 .. L + 1 - n : kept'[pair][j] = kept'[pair][l] => j = l
      <4>1. \A j, l \in 1 .. L + 1 - n : j + n = l + n => j = l
        BY <1>3, <1>6
      <4>. QED  BY <1>10, <2>2, <4>1
    <3>. QED  BY <2>0, <3>1, <3>2, <3>3
  <2>8. heap'[Processed] = count /\ ~ IsKept(Processed)'
    <3>1. Processed \notin old /\ Processed # b
      BY <1>9, <1>13
    <3>2. heap'[Processed] = count
      BY <1>2, <1>15, <3>1
    <3>. QED  BY <2>1, <2>4, <3>2 DEF IsKept
  <2>9. \A c \in Buffers : heap'[c] # 0 => IsKept(c)' \/ c = Processed
    <3>. SUFFICES ASSUME NEW c \in Buffers, heap'[c] # 0, c # Processed
                  PROVE  \E i \in Pairs : \E j \in 1 .. Len(kept'[i]) : kept'[i][j] = c
      BY <2>1 DEF IsKept
    <3>1. c \notin old /\ (c = b \/ heap[c] # 0)
      BY <1>15
    <3>2. ASSUME NEW m \in 1 .. L + 1, all[m] = c
          PROVE  \E i \in Pairs : \E j \in 1 .. Len(kept'[i]) : kept'[i][j] = c
      <4>1. ~ (m <= n)
        BY <1>12, <3>1, <3>2
      <4>2. m - n \in 1 .. L + 1 - n /\ (m - n) + n = m
        BY <1>3, <1>6, <4>1
      <4>3. kept'[pair][m - n] = c
        BY <2>2, <3>2, <4>2
      <4>. QED  BY <1>2, <2>0, <4>2, <4>3
    <3>3. CASE c = b
      <4>1. L + 1 \in 1 .. L + 1
        BY <1>3
      <4>. QED  BY <1>5, <3>2, <3>3, <4>1
    <3>4. CASE c # b
      <4>1. IsKept(c)
        BY <3>1, <3>4 DEF CaptureInv, KeptInv
      <4>2. PICK i \in Pairs : \E j \in 1 .. Len(kept[i]) : kept[i][j] = c
        BY <4>1 DEF IsKept
      <4>3. CASE i # pair
        BY <2>0, <4>2, <4>3
      <4>4. CASE i = pair
        <5>1. PICK j \in 1 .. L : kept[pair][j] = c
          BY <4>2, <4>4 DEF L
        <5>2. j \in 1 .. L + 1 /\ all[j] = c
          BY <1>3, <1>5, <5>1
        <5>. QED  BY <3>2, <5>2
      <4>. QED  BY <4>3, <4>4
    <3>. QED  BY <3>3, <3>4
  <2>10. \A i \in Pairs :
           dispatch_queue[i].copy = "buffer" => Len(kept'[i]) < KeptSize
    <3>1. Current = dispatch_queue[pair]
      BY DEF Current
    <3>. QED  BY <1>6, <2>0, <3>1 DEF CaptureInv, KeptInv
  <2>. QED  BY <1>2, <2>1, <2>5, <2>6, <2>7, <2>8, <2>9, <2>10 DEF KeptInv
<1>21. FaultsInv'
  <2>1. ReadFaults = {}
    BY <1>2 DEF ReadFaults
  <2>2. FreeFaults(old \ {b}) = {}
    <3>. HIDE DEF old
    <3>. QED  BY <1>13 DEF FreeFaults, IsLive
  <2>3. faults' = faults
    BY <1>7, <2>1, <2>2
  <2>. QED  BY <1>1, <2>3 DEF CaptureInv, FaultsInv, NoFaults, Uses
<1>. QED  BY <1>17, <1>18, <1>19, <1>20, <1>21 DEF CaptureInv

(* Every other step of main leaves the capture alone.                      *)
LEMMA OtherStep ==
  ASSUME CaptureInv, UNCHANGED vars,
         GetOptions \/ OpenDevice \/ CheckDatalink \/ CompileFilter \/ EndLoop
                    \/ UNCHANGED mainVars
  PROVE  CaptureInv'
<1>1. UNCHANGED <<dispatch_queue, count, frame, pair, step, heap, own, kept, held,
                  faults>>
  BY DEF vars
<1>2. stage' # stage => step = "wait"
  BY DEF GetOptions, OpenDevice, CheckDatalink, CompileFilter, EndLoop, Try,
         mainVars, CaptureInv, StepInv
<1>3. stage' \in {"options", "open", "datalink", "compile", "register"} =>
        stage \in {"options", "open", "datalink", "compile", "register"}
  BY DEF GetOptions, OpenDevice, CheckDatalink, CompileFilter, EndLoop, Try, mainVars
<1>4. /\ QueueInv' /\ Pairs' = Pairs
      /\ \A b : IsKept(b)' <=> IsKept(b)
      /\ \A field, value : Uses(field, value)' <=> Uses(field, value)
  BY <1>1, SameQueue
<1>5. StepInv'
  <2>1. step' # "wait" => count' >= 1 /\ stage' = "loop"
    BY <1>1, <1>2 DEF CaptureInv, StepInv
  <2>2. /\ count \in 0 .. MaxFrames /\ frame \in Captured
        /\ pair \in 1 .. Len(dispatch_queue) + 1
        /\ step \in {"wait", "process", "dispatch", "free", "aborted"}
        /\ step \in {"dispatch", "free"} => pair \in Pairs
        /\ step = "dispatch" => Takes(Current.class, frame)
    BY DEF CaptureInv, StepInv
  <2>3. Current' = Current
    BY <1>1 DEF Current
  <2>. QED  BY <1>1, <1>4, <2>1, <2>2, <2>3 DEF StepInv
<1>6. OwnInv'
  <2>1. stage' = "register" => step' = "wait"
    BY <1>1, <1>2 DEF CaptureInv, OwnInv
  <2>. QED  BY <1>1, <1>3, <2>1 DEF CaptureInv, OwnInv
<1>7. KeptInv'
  <2>1. (InHand' <=> InHand) /\ Processed' = Processed
    BY <1>1 DEF InHand, Processed, Current
  <2>2. KeptInv
    BY DEF CaptureInv
  <2>. QED  BY <1>1, <1>4, <2>1, <2>2 DEF KeptInv
<1>8. FaultsInv'
  BY <1>1, <1>4 DEF CaptureInv, FaultsInv, NoFaults
<1>. QED  BY <1>4, <1>5, <1>6, <1>7, <1>8 DEF CaptureInv

LEMMA CaptureNext ==
  ASSUME CaptureInv, [MainNext]_<<vars, mainVars>>
  PROVE  CaptureInv'
<1>1. CASE RegisterDispatcher
  BY <1>1, RegisterStep
<1>2. CASE Loop
  <2>1. stage = "loop" /\ UNCHANGED mainVars
    BY <1>2 DEF Loop
  <2>2. ASSUME NEW f \in Captured, Capture(f) PROVE CaptureInv'
    BY <2>1, <2>2, CaptureStep
  <2>3. CASE ReturnFromLoop
    BY <2>1, <2>3, ReturnStep
  <2>4. CASE ProcessPacket
    BY <2>1, <2>4, ProcessStep
  <2>5. CASE DispatchUncloned
    BY <2>1, <2>5, UnclonedStep
  <2>6. CASE DispatchAndDelete
    BY <2>1, <2>6, DeleteStep
  <2>7. CASE DispatchAndKeep
    BY <2>1, <2>7, KeepStep
  <2>8. CASE FreePacketAndHeader
    BY <2>1, <2>8, FreeStep
  <2>. QED  BY <1>2, <2>2, <2>3, <2>4, <2>5, <2>6, <2>7, <2>8 DEF Loop, Callback
<1>3. CASE GetOptions \/ OpenDevice \/ CheckDatalink \/ CompileFilter \/ EndLoop
  BY <1>3, OtherStep
     DEF GetOptions, OpenDevice, CheckDatalink, CompileFilter, EndLoop
<1>4. CASE UNCHANGED <<vars, mainVars>>
  BY <1>4, OtherStep
<1>. QED  BY <1>1, <1>2, <1>3, <1>4 DEF MainNext

LEMMA AllDomains ==
  ASSUME CaptureInv
  PROVE  /\ DOMAIN kept = Pairs /\ DOMAIN dispatch_queue = Pairs
         /\ \A i \in Pairs : DOMAIN kept[i] = 1 .. Len(kept[i])
<1>1. kept \in Seq(Seq(Buffers)) /\ Len(kept) = Len(dispatch_queue)
      /\ dispatch_queue \in Seq(Pair)
  BY DEF CaptureInv, QueueInv
<1>2. DOMAIN kept = Pairs /\ DOMAIN dispatch_queue = Pairs
  BY <1>1 DEF Pairs
<1>3. \A i \in Pairs : kept[i] \in Seq(Buffers)
  BY <1>1 DEF Pairs
<1>. QED  BY <1>2, <1>3

LEMMA CaptureInvImpliesTypeOK == CaptureInv => TypeOK
<1>. SUFFICES ASSUME CaptureInv PROVE TypeOK
  OBVIOUS
<1>1. \A i \in Pairs : ToSet(kept[i]) \subseteq Buffers
  BY AllDomains, KeptIsUsed DEF ToSet
<1>2. \A i \in Pairs : dispatch_queue[i].copy = "buffer" => Len(kept[i]) < KeptSize
  BY DEF CaptureInv, KeptInv
<1>3. dispatch_queue \in Seq(Pair)
  BY DEF CaptureInv, QueueInv
<1>. QED  BY <1>1, <1>2, <1>3, AllDomains DEF TypeOK, CaptureInv, StepInv, OwnInv

LEMMA CaptureInvImpliesNoLeak == CaptureInv => NoLeak
<1>. SUFFICES ASSUME CaptureInv, step = "wait"
              PROVE  {b \in Buffers : heap[b] # 0} =
                       UNION {ToSet(kept[i]) : i \in DOMAIN kept}
  BY DEF NoLeak
<1>1. \A b \in Buffers : heap[b] # 0 => IsKept(b)
  BY DEF CaptureInv, KeptInv, InHand
<1>2. \A b : IsKept(b) <=> b \in UNION {ToSet(kept[i]) : i \in DOMAIN kept}
  BY AllDomains DEF IsKept, ToSet
<1>. QED  BY <1>1, <1>2, KeptIsUsed

LEMMA CaptureInvImpliesKeptIntact == CaptureInv => KeptIntact
  BY AllDomains DEF CaptureInv, KeptInv, KeptIntact

LEMMA CaptureInvImpliesTakenIsWhole == CaptureInv => TakenIsWhole
<1>. SUFFICES ASSUME CaptureInv, step = "dispatch", Current.class = "mep"
              PROVE  /\ frame.len <= SnapLen
                     /\ frame.len >= SizeEthernet + SizeIp(frame) + MepReqLen
                     /\ frame.ipv4 => Passes(frame)
  BY DEF TakenIsWhole
<1>1. frame \in Frame
  BY CaptureAssumption DEF CaptureInv, StepInv
<1>2. IsMEP(frame)
  BY DEF CaptureInv, StepInv, Takes
<1>3. frame.ihl \in 0 .. 15 /\ frame.len \in Nat
  <2>1. \A f \in Frame : f.ihl \in Nibble /\ f.len \in Nat
    BY DEF Frame
  <2>. QED  BY <1>1, <2>1 DEF Nibble
<1>. QED  BY <1>2, <1>3 DEF IsMEP, SizeIp, SnapLen, SizeEthernet, MepReqLen, Passes

LEMMA CaptureInvariant == MainSpec => []CaptureInv
<1>1. CaptureInv /\ [MainNext]_<<vars, mainVars>> => CaptureInv'
  BY CaptureNext
<1>. QED  BY <1>1, CaptureInit, PTL DEF MainSpec

(* The loop keeps within dispatch_queue, and the dispatcher that keeps its *)
(* packets below its size, whatever main registers.                        *)
THEOREM CaptureTypeCorrect == MainSpec => []TypeOK
BY CaptureInvariant, CaptureInvImpliesTypeOK, PTL

(* No copy is freed twice, freed unallocated or read when it is not the    *)
(* frame at hand, unless a TCPPacket is registered, which makes none; none *)
(* is written once freed, save by UDP_test.                                *)
THEOREM CopiesAreSound == MainSpec => []NoFaults
<1>1. CaptureInv => NoFaults
  BY DEF CaptureInv, FaultsInv
<1>. QED  BY <1>1, CaptureInvariant, PTL

(* Each frame frees what it allocated, save what a dispatcher keeps.       *)
THEOREM FramesAreFreed == MainSpec => []NoLeak
BY CaptureInvariant, CaptureInvImpliesNoLeak, PTL

(* A kept packet stays as it was captured until its dispatcher deletes it. *)
THEOREM KeptPacketsStay == MainSpec => []KeptIntact
BY CaptureInvariant, CaptureInvImpliesKeptIntact, PTL

(* A request that reaches a dispatcher was captured whole, for any frames. *)
THEOREM TakenFramesAreWhole == MainSpec => []TakenIsWhole
BY CaptureInvariant, CaptureInvImpliesTakenIsWhole, PTL
=============================================================================
