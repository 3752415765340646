-------------------------- MODULE EdgeDelivery_proofs --------------------------
(***************************************************************************)
(* Proofs about module EdgeDelivery, for any number of results, any queue  *)
(* and batch size and any backend: the device is one of the open clients   *)
(* of Ingest_proofs, its store stays in order and on disk, it forgets only *)
(* what it may, and with the backend it implements Custody.                *)
(***************************************************************************)
EXTENDS EdgeRecovery, Ingest_proofs, SequenceTheorems

USE SubjectAssumption, WorkerAssumption, TimeAssumption, DatabaseAssumption, EdgeAssumption

-------------------------------------------------------------------------------
(* Sequences *)

Results == Seq(Result)

LEMMA InToSet ==
  ASSUME NEW s \in Results
  PROVE  /\ \A x : x \in ToSet(s) <=> \E i \in 1..Len(s) : s[i] = x
         /\ ToSet(s) \subseteq Result
  BY DEF ToSet, Results

LEMMA Singleton ==
  ASSUME NEW s \in Results, Len(s) = 1
  PROVE  ToSet(s) = {s[1]}
<1>1. 1..Len(s) = {1}
  OBVIOUS
<1>. QED  BY <1>1, InToSet

LEMMA Concat ==
  ASSUME NEW s \in Results, NEW t \in Results
  PROVE  /\ s \o t \in Results /\ Len(s \o t) = Len(s) + Len(t)
         /\ Len(s) \in Nat /\ Len(t) \in Nat
         /\ \A i \in 1..Len(s) : (s \o t)[i] = s[i]
         /\ \A i \in 1..Len(t) : (s \o t)[Len(s) + i] = t[i]
         /\ \A i \in 1..Len(s) + Len(t) : i \in 1..Len(s) \/ i - Len(s) \in 1..Len(t)
  BY DEF Results

LEMMA ToSetOfConcat ==
  ASSUME NEW s \in Results, NEW t \in Results
  PROVE  ToSet(s \o t) = ToSet(s) \cup ToSet(t)
<1>. DEFINE c == s \o t
<1>1. /\ c \in Results /\ Len(c) = Len(s) + Len(t)
      /\ Len(s) \in Nat /\ Len(t) \in Nat
      /\ \A i \in 1..Len(s) : c[i] = s[i]
      /\ \A i \in 1..Len(t) : c[Len(s) + i] = t[i]
  BY Concat
<1>. HIDE DEF c
<1>2. ASSUME NEW i \in 1..Len(c) PROVE c[i] \in ToSet(s) \cup ToSet(t)
  <2>1. CASE i <= Len(s)
    BY <1>1, <2>1, InToSet
  <2>2. CASE ~(i <= Len(s))
    <3>1. i - Len(s) \in 1..Len(t) /\ Len(s) + (i - Len(s)) = i
      BY <1>1, <2>2
    <3>2. c[i] = t[i - Len(s)]
      BY <1>1, <3>1
    <3>. QED  BY <3>1, <3>2, InToSet
  <2>. QED  BY <2>1, <2>2
<1>3. ASSUME NEW i \in 1..Len(s) PROVE s[i] \in ToSet(c)
  BY <1>1, InToSet
<1>4. ASSUME NEW i \in 1..Len(t) PROVE t[i] \in ToSet(c)
  <2>1. Len(s) + i \in 1..Len(c) /\ c[Len(s) + i] = t[i]
    BY <1>1
  <2>. QED  BY <2>1, <1>1, InToSet
<1>5. \A x : x \in ToSet(c) <=> x \in ToSet(s) \/ x \in ToSet(t)
  BY <1>1, <1>2, <1>3, <1>4, InToSet
<1>. QED  BY <1>5 DEF c

\* A suffix, element by element.
LEMMA SuffixElements ==
  ASSUME NEW s \in Results, NEW t \in Results
  PROVE  IsSuffix(s, t) <=>
           /\ Len(s) <= Len(t)
           /\ \A i \in 1..Len(s) : s[i] = t[Len(t) - Len(s) + i]
<1>. DEFINE a == Reverse(s)
            b == Reverse(t)
            n == Len(s)
<1>1. /\ n \in Nat /\ Len(t) \in Nat
      /\ a \in Results /\ Len(a) = n /\ \A i \in 1..n : a[i] = s[n - i + 1]
      /\ b \in Results /\ Len(b) = Len(t) /\ \A i \in 1..Len(t) : b[i] = t[Len(t) - i + 1]
  BY DEF Reverse, Results
<1>2. IsSuffix(s, t) <=> n <= Len(t) /\ SubSeq(a, 1, n) = SubSeq(b, 1, n)
  BY <1>1 DEF IsSuffix, IsPrefix
<1>. SUFFICES ASSUME n <= Len(t)
              PROVE  SubSeq(a, 1, n) = SubSeq(b, 1, n) <=>
                       \A i \in 1..n : s[i] = t[Len(t) - n + i]
  BY <1>2
<1>. HIDE DEF a, b, n
<1>3. /\ SubSeq(a, 1, n) \in Results /\ Len(SubSeq(a, 1, n)) = n
      /\ \A i \in 1..n : SubSeq(a, 1, n)[i] = a[i]
  BY <1>1 DEF Results
<1>4. /\ SubSeq(b, 1, n) \in Results /\ Len(SubSeq(b, 1, n)) = n
      /\ \A i \in 1..n : SubSeq(b, 1, n)[i] = b[i]
  BY <1>1 DEF Results
<1>5. SubSeq(a, 1, n) = SubSeq(b, 1, n) <=> \A i \in 1..n : a[i] = b[i]
  BY <1>3, <1>4, SeqEqual DEF Results
<1>6. \A i \in 1..n : /\ n - i + 1 \in 1..n /\ n - (n - i + 1) + 1 = i
                      /\ i \in 1..Len(t) /\ n - i + 1 \in 1..Len(t)
                      /\ Len(t) - (n - i + 1) + 1 = Len(t) - n + i
                      /\ Len(t) - n + (n - i + 1) = Len(t) - i + 1
  BY <1>1
<1>7. \A i \in 1..n : a[n - i + 1] = s[i] /\ b[n - i + 1] = t[Len(t) - n + i]
  <2>. TAKE i \in 1..n
  <2>1. a[n - i + 1] = s[n - (n - i + 1) + 1] /\ b[n - i + 1] = t[Len(t) - (n - i + 1) + 1]
    BY <1>1, <1>6
  <2>. QED  BY <2>1, <1>6
<1>8. ASSUME \A i \in 1..n : s[i] = t[Len(t) - n + i], NEW i \in 1..n
      PROVE  a[i] = b[i]
  <2>. DEFINE j == n - i + 1
  <2>1. j \in 1..n /\ n - j + 1 = i
    BY <1>6
  <2>. HIDE DEF j
  <2>2. a[n - j + 1] = b[n - j + 1]
    BY <1>7, <1>8, <2>1
  <2>. QED  BY <2>1, <2>2
<1>9. ASSUME \A i \in 1..n : a[i] = b[i], NEW i \in 1..n
      PROVE  s[i] = t[Len(t) - n + i]
  BY <1>6, <1>7, <1>9
<1>. QED  BY <1>5, <1>8, <1>9

LEMMA SuffixSelf ==
  ASSUME NEW s \in Results
  PROVE  IsSuffix(s, s)
<1>1. Len(s) \in Nat
  BY DEF Results
<1>. QED  BY <1>1, SuffixElements

\* What follows a prefix of a suffix is a suffix.
LEMMA SuffixRest ==
  ASSUME NEW s \in Results, NEW t \in Results, NEW u \in Results, IsSuffix(s \o t, u)
  PROVE  IsSuffix(t, u)
<1>. DEFINE c == s \o t
<1>1. /\ c \in Results /\ Len(c) = Len(s) + Len(t)
      /\ \A i \in 1..Len(t) : c[Len(s) + i] = t[i]
      /\ Len(s) \in Nat /\ Len(t) \in Nat /\ Len(u) \in Nat
  BY Concat DEF Results
<1>. HIDE DEF c
<1>2. /\ Len(c) <= Len(u)
      /\ \A i \in 1..Len(c) : c[i] = u[Len(u) - Len(c) + i]
  BY <1>1, SuffixElements DEF c
<1>3. ASSUME NEW i \in 1..Len(t) PROVE t[i] = u[Len(u) - Len(t) + i]
  <2>1. Len(s) + i \in 1..Len(c) /\ Len(u) - Len(c) + (Len(s) + i) = Len(u) - Len(t) + i
    BY <1>1
  <2>. QED  BY <1>1, <1>2, <2>1
<1>. QED  BY <1>1, <1>2, <1>3, SuffixElements

-------------------------------------------------------------------------------
(* What the calls of the store do to sequences in capture order. *)

LEMMA InOrderParts ==
  ASSUME NEW s \in Results, NEW t \in Results, InOrder(s \o t)
  PROVE  InOrder(s) /\ InOrder(t)
<1>. DEFINE c == s \o t
<1>1. /\ Len(c) = Len(s) + Len(t)
      /\ Len(s) \in Nat /\ Len(t) \in Nat
      /\ \A i \in 1..Len(s) : c[i] = s[i]
      /\ \A i \in 1..Len(t) : c[Len(s) + i] = t[i]
  BY Concat
<1>2. InOrder(c)
  OBVIOUS
<1>. HIDE DEF c
<1>3. ASSUME NEW i \in 1..Len(s), NEW j \in 1..Len(s), i < j PROVE s[i] < s[j]
  BY <1>1, <1>2, <1>3 DEF InOrder
<1>4. ASSUME NEW i \in 1..Len(t), NEW j \in 1..Len(t), i < j PROVE t[i] < t[j]
  <2>1. Len(s) + i \in 1..Len(c) /\ Len(s) + j \in 1..Len(c) /\ Len(s) + i < Len(s) + j
    BY <1>1, <1>4
  <2>. QED  BY <1>1, <1>2, <2>1 DEF InOrder
<1>. QED  BY <1>1, <1>2, <1>3, <1>4 DEF InOrder

\* What a save or a load that stops half way leaves.
LEMMA InOrderPrefix ==
  ASSUME NEW s \in Results, InOrder(s), NEW k \in 0..Len(s)
  PROVE  /\ SubSeq(s, 1, k) \in Results
         /\ InOrder(SubSeq(s, 1, k))
         /\ ToSet(SubSeq(s, 1, k)) \subseteq ToSet(s)
<1>. DEFINE p == SubSeq(s, 1, k)
<1>1. /\ p \in Results /\ Len(p) = k
      /\ \A i \in 1..k : p[i] = s[i] /\ i \in 1..Len(s)
      /\ Len(s) \in Nat /\ k <= Len(s)
  BY DEF Results
<1>. HIDE DEF p
<1>2. InOrder(p)
  BY <1>1 DEF InOrder
<1>3. ToSet(p) \subseteq ToSet(s)
  BY <1>1, InToSet
<1>. QED  BY <1>1, <1>2, <1>3 DEF p

\* flush pops a non-empty batch, and batch and rest are the old queue.
LEMMA PopEffect ==
  ASSUME queue \in Results, queue # <<>>, PopBatch
  PROVE  /\ hand' \in Results /\ hand' # <<>>
         /\ queue' \in Results
         /\ hand' \o queue' = queue
<1>. DEFINE n == IF Len(queue) < BatchSize THEN Len(queue) ELSE BatchSize
<1>1. n \in 1..Len(queue) /\ Len(queue) \in Nat
  BY DEF Results
<1>2. hand' = SubSeq(queue, 1, n) /\ queue' = SubSeq(queue, n + 1, Len(queue))
  BY DEF PopBatch
<1>. HIDE DEF n
<1>3. hand' \in Results /\ Len(hand') = n
  BY <1>1, <1>2 DEF Results
<1>4. queue' \in Results
  BY <1>1, <1>2 DEF Results
<1>5. hand' \o queue' = SubSeq(queue, 1, Len(queue))
  <2>1. 1 \in 1..Len(queue) + 1 /\ n \in 1 - 1..Len(queue) /\ Len(queue) \in n..Len(queue)
    BY <1>1
  <2>2. queue \in Seq(Result)
    BY DEF Results
  <2>. QED  BY <1>2, <2>1, <2>2, ConcatAdjacentSubSeq
<1>6. SubSeq(queue, 1, Len(queue)) = queue
  BY SubSeqFull DEF Results
<1>7. hand' # <<>>
  BY <1>1, <1>3
<1>. QED  BY <1>3, <1>4, <1>5, <1>6, <1>7

\* queue() keeps the order, adds the newest result and drops the oldest of a full queue.
LEMMA EnqueueEffect ==
  ASSUME queue \in Results, InOrder(queue), NEW r \in Result,
         \A i \in 1..Len(queue) : queue[i] < r, Enqueue(r)
  PROVE  /\ queue' \in Results /\ InOrder(queue')
         /\ ToSet(queue') \subseteq ToSet(queue) \cup {r}
         /\ r \in ToSet(queue')
         /\ \A q \in ToSet(queue) : q \in ToSet(queue') \/ Overflows(q)
<1>. DEFINE full == Full
            rest == IF full THEN Tail(queue) ELSE queue
            d == IF full THEN 1 ELSE 0
<1>1. Len(queue) \in Nat /\ Len(queue) <= QueueMax
  BY DEF Results, InOrder
<1>2. full => queue # <<>> /\ Len(queue) = QueueMax
  BY <1>1 DEF Full
<1>3. /\ rest \in Results /\ Len(rest) = Len(queue) - d
      /\ \A i \in 1..Len(rest) : rest[i] = queue[i + d]
  <2>1. CASE full
    BY <1>1, <1>2, <2>1, HeadTailProperties DEF Results
  <2>2. CASE ~full
    BY <1>1, <2>2 DEF Results
  <2>. QED  BY <2>1, <2>2
<1>4. queue' = Append(rest, r)
  BY DEF Enqueue, Push
<1>5. d \in {0, 1} /\ Len(rest) \in Nat /\ Len(rest) < QueueMax /\ Len(rest) + d = Len(queue)
      /\ (d = 1 <=> full)
  BY <1>1, <1>2, <1>3 DEF Full
<1>. HIDE DEF rest, d, full
<1>6. /\ queue' \in Results /\ Len(queue') = Len(rest) + 1
      /\ \A i \in 1..Len(rest) : queue'[i] = queue[i + d]
      /\ queue'[Len(rest) + 1] = r
  BY <1>3, <1>4, <1>5 DEF Results
<1>7. ASSUME NEW i \in 1..Len(queue'), NEW j \in 1..Len(queue'), i < j
      PROVE  queue'[i] < queue'[j]
  <2>1. i \in 1..Len(rest) /\ i + d \in 1..Len(queue) /\ queue'[i] = queue[i + d]
    BY <1>5, <1>6, <1>7
  <2>2. CASE j = Len(rest) + 1
    BY <1>6, <2>1, <2>2
  <2>3. CASE j # Len(rest) + 1
    <3>1. j \in 1..Len(rest)
      BY <1>5, <1>6, <2>3
    <3>2. j + d \in 1..Len(queue) /\ i + d < j + d
      BY <1>5, <1>7, <2>1, <3>1
    <3>3. queue'[j] = queue[j + d]
      BY <1>6, <3>1
    <3>4. queue[i + d] < queue[j + d]
      BY <2>1, <3>2 DEF InOrder
    <3>. QED  BY <2>1, <3>3, <3>4
  <2>. QED  BY <2>2, <2>3
<1>8. InOrder(queue')
  BY <1>5, <1>6, <1>7 DEF InOrder
<1>9. ASSUME NEW i \in 1..Len(queue') PROVE queue'[i] \in ToSet(queue) \cup {r}
  <2>1. CASE i = Len(rest) + 1
    BY <1>6, <2>1
  <2>2. CASE i # Len(rest) + 1
    <3>1. i \in 1..Len(rest) /\ i + d \in 1..Len(queue)
      BY <1>5, <1>6, <2>2
    <3>. QED  BY <1>6, <3>1, InToSet
  <2>. QED  BY <2>1, <2>2
<1>10. ToSet(queue') \subseteq ToSet(queue) \cup {r}
  BY <1>6, <1>9, InToSet
<1>11. r \in ToSet(queue')
  <2>1. Len(rest) + 1 \in 1..Len(queue')
    BY <1>5, <1>6
  <2>. QED  BY <1>6, <2>1, InToSet
<1>12. ASSUME NEW i \in 1..Len(queue) PROVE queue[i] \in ToSet(queue') \/ Overflows(queue[i])
  <2>1. CASE i > d
    <3>1. i - d \in 1..Len(rest) /\ i - d + d = i /\ i - d \in 1..Len(queue')
      BY <1>5, <1>6, <2>1
    <3>2. queue'[i - d] = queue[i]
      BY <1>6, <3>1
    <3>. QED  BY <1>6, <3>1, <3>2, InToSet
  <2>2. CASE ~(i > d)
    <3>1. i = 1 /\ full
      BY <1>5, <2>2
    <3>. QED  BY <3>1 DEF Overflows, full
  <2>. QED  BY <2>1, <2>2
<1>. QED  BY <1>6, <1>8, <1>10, <1>11, <1>12, InToSet

-------------------------------------------------------------------------------
(* The inductive invariant, first what the device alone keeps: everything but the typing *)
(* of the backend and what ties its request to a slot.                                    *)

Holding ==
  /\ DeviceOK /\ CapturedInOrder /\ NewestInHand
  /\ StoreInOrder /\ FileInOrder /\ FileUntilSent /\ DiskCoversStore

Kept == ToSet(hand) \cup ToSet(queue) \cup ToSet(disk)
Around == wait \in Slot \cup {NoSlot} /\ online \in BOOLEAN /\ mqtt \in BOOLEAN /\ published \subseteq Result

LEMMA CapturedKept ==
  ASSUME CapturedInOrder, stamp' = stamp, Kept' \subseteq Kept
  PROVE  CapturedInOrder'
<1>1. Captured' = Captured
  BY DEF Captured
<1>. QED  BY <1>1 DEF CapturedInOrder, Kept

LEMMA HoldingTypes ==
  ASSUME DeviceOK
  PROVE  /\ hand \in Results /\ queue \in Results /\ disk \in Results
         /\ pc \in {"probe", "post"} => hand[1] \in Result
         /\ Around
<1>1. hand \in Results /\ queue \in Results /\ disk \in Results
  BY DEF DeviceOK, Results
<1>2. pc \in {"probe", "post"} => hand[1] \in Result
  <2>1. \A i \in 1..Len(hand) : hand[i] \in Result
    BY DEF DeviceOK
  <2>. QED  BY <2>1 DEF DeviceOK
<1>. QED  BY <1>1, <1>2 DEF DeviceOK, Around

\* A step that leaves the store alone, a post included.
LEMMA StoreKept ==
  ASSUME Holding, Around', stamp' = stamp, UNCHANGED <<hand, store, flushed>>,
         pc' = pc \/ (pc = "probe" /\ pc' = "post")
  PROVE  Holding' /\ Kept' \subseteq Kept
<1>1. UNCHANGED <<hand, queue, disk, apart, shed, flushed>>
  BY DEF store
<1>2. Stored' = Stored
  BY <1>1 DEF Stored
<1>3. DeviceOK'
  BY <1>1 DEF Holding, DeviceOK, Around, Pc
<1>4. CapturedInOrder' /\ Kept' \subseteq Kept
  <2>1. Kept' \subseteq Kept
    BY <1>1 DEF Kept
  <2>. QED  BY <1>1, <2>1, CapturedKept DEF Holding
<1>5. StoreInOrder' /\ FileInOrder' /\ FileUntilSent'
  BY <1>1, <1>2 DEF Holding, StoreInOrder, FileInOrder, FileUntilSent, InOrder
<1>6. DiskCoversStore'
  BY <1>1, <1>2 DEF Holding, DiskCoversStore
<1>7. NewestInHand'
  BY <1>1 DEF Holding, NewestInHand
<1>. QED  BY <1>3, <1>4, <1>5, <1>6, <1>7 DEF Holding

\* A new result is newer than everything the device holds, since results come in order.
LEMMA TakeHolding ==
  ASSUME TypeOK, Holding, NEW r \in Result, TakeResult(r)
  PROVE  Holding'
<1>1. /\ pc = "idle" /\ pc' = "probe" /\ hand = <<>> /\ hand' = <<r>>
      /\ UNCHANGED <<queue, disk, apart, shed, flushed, wait, online, mqtt, published>>
      /\ \A q \in Result : q < r => q \in Captured
      /\ r \notin Captured /\ stamp' = [stamp EXCEPT ![r] = clock]
  BY DEF TakeResult, Capture, Captured, Holding, DeviceOK, store, links
<1>2. Captured' = Captured \cup {r}
  BY <1>1 DEF Captured, TypeOK, TablesOK, Time, Uncaptured
<1>3. /\ hand' \in Results /\ Len(hand') = 1 /\ hand'[1] = r /\ ToSet(hand') = {r}
  <2>1. hand' \in Seq(Result) /\ Len(hand') = 1 /\ hand'[1] = r
    BY <1>1
  <2>. QED  BY <2>1, Singleton DEF Results
<1>4. Stored' = Stored
  BY <1>1 DEF Stored
<1>5. DeviceOK'
  BY <1>1, <1>3 DEF Holding, DeviceOK, Pc, Results
<1>6. CapturedInOrder'
  <2>1. ASSUME NEW p \in Result, NEW q \in Result, q \in Captured \cup {r}, p < q
        PROVE  p \in Captured \cup {r}
    BY <1>1, <2>1 DEF Holding, CapturedInOrder
  <2>2. Kept' \subseteq Kept \cup {r}
    BY <1>1, <1>3 DEF Kept
  <2>. QED  BY <1>2, <2>1, <2>2 DEF Holding, CapturedInOrder, Kept
<1>7. NewestInHand'
  <2>. SUFFICES ASSUME NEW i \in 1..Len(queue) PROVE queue[i] < r
    BY <1>1, <1>3 DEF NewestInHand
  <2>1. queue[i] \in ToSet(queue) /\ queue[i] \in Result
    BY HoldingTypes, InToSet DEF Holding
  <2>2. queue[i] \in Captured /\ ~(r < queue[i])
    BY <1>1, <2>1 DEF Holding, CapturedInOrder
  <2>3. queue[i] # r
    BY <1>1, <2>2
  <2>4. queue[i] \in Nat /\ r \in Nat
    BY <2>1, EdgeAssumption
  <2>. QED  BY <2>2, <2>3, <2>4
<1>8. StoreInOrder' /\ FileInOrder' /\ FileUntilSent'
  BY <1>1, <1>4 DEF Holding, StoreInOrder, FileInOrder, FileUntilSent, InOrder
<1>9. DiskCoversStore'
  BY <1>1, <1>4 DEF Holding, DiskCoversStore
<1>. QED  BY <1>5, <1>6, <1>7, <1>8, <1>9 DEF Holding

\* flush starts, after a successful send: batch and rest are the queue, which is on disk.
LEMMA BeginFlushHolding ==
  ASSUME Holding, Around', stamp' = stamp, pc \in {"probe", "post"}, BeginFlush
  PROVE  Holding' /\ Kept' \subseteq Kept
<1>1. /\ UNCHANGED <<disk, apart, shed>> /\ flushed' = FALSE
      /\ Stored = queue /\ (~apart => disk = queue)
  BY DEF BeginFlush, Holding, Stored, DiskCoversStore
<1>2. /\ hand' \in Results /\ queue' \in Results /\ Stored' = queue
      /\ \/ pc' = "idle" /\ hand' = <<>>
         \/ pc' = "flush" /\ hand' # <<>>
      /\ pc' = "idle" => queue' = queue
      /\ ToSet(hand') \cup ToSet(queue') = ToSet(queue)
  <2>1. CASE queue = <<>>
    <3>1. pc' = "idle" /\ hand' = <<>> /\ queue' = queue
      BY <2>1 DEF BeginFlush
    <3>2. hand' \in Results /\ ToSet(hand') = {}
      BY <3>1 DEF Results, ToSet
    <3>. QED  BY <3>1, <3>2, HoldingTypes DEF Holding, Stored
  <2>2. CASE queue # <<>>
    <3>1. PopBatch /\ pc' = "flush"
      BY <2>2 DEF BeginFlush, PopBatch
    <3>2. /\ hand' \in Results /\ hand' # <<>> /\ queue' \in Results
          /\ hand' \o queue' = queue
      BY <2>2, <3>1, PopEffect, HoldingTypes DEF Holding
    <3>3. ToSet(hand') \cup ToSet(queue') = ToSet(queue)
      BY <3>2, ToSetOfConcat
    <3>. QED  BY <3>1, <3>2, <3>3 DEF Stored
  <2>. QED  BY <2>1, <2>2
<1>3. DeviceOK'
  BY <1>1, <1>2 DEF Holding, DeviceOK, Around, Pc, Results
<1>4. CapturedInOrder' /\ Kept' \subseteq Kept
  <2>1. Kept' \subseteq Kept
    BY <1>1, <1>2 DEF Kept
  <2>. QED  BY <1>1, <1>2, <2>1, CapturedKept DEF Holding
<1>5. NewestInHand'
  BY <1>2 DEF NewestInHand
<1>6. StoreInOrder' /\ FileInOrder'
  BY <1>1, <1>2 DEF Holding, StoreInOrder, FileInOrder, InOrder
<1>7. FileUntilSent' /\ DiskCoversStore'
  BY <1>1, <1>2, SuffixSelf, HoldingTypes DEF Holding, FileUntilSent, DiskCoversStore
<1>. QED  BY <1>3, <1>4, <1>5, <1>6, <1>7 DEF Holding

\* A save begins with an empty file, or with the old one when the open raises.
LEMMA SaveBegins ==
  ASSUME Holding, NEW dropped \in SUBSET Result, BeginSave(dropped)
  PROVE  /\ pc' \in {"save", "idle"} /\ apart' \in BOOLEAN /\ shed' \subseteq Result
         /\ pc' = "save" \/ apart'
         /\ disk' \in Results /\ InOrder(disk') /\ ToSet(disk') \subseteq ToSet(disk)
         /\ disk' = <<>> \/ (disk' = disk /\ shed' = shed \cup dropped)
<1>1. /\ disk \in Results /\ InOrder(disk)
      /\ apart \in BOOLEAN /\ shed \subseteq Result
  BY HoldingTypes DEF Holding, FileInOrder, DeviceOK
<1>2. <<>> \in Results /\ ToSet(<<>>) = {} /\ InOrder(<<>>)
  BY DEF Results, ToSet, InOrder
<1>. QED  BY <1>1, <1>2 DEF BeginSave

\* A result that was not sent goes behind the queue it is newer than.
LEMMA EnqueueHolding ==
  ASSUME Holding, Around', stamp' = stamp, flushed' = flushed, pc \in {"probe", "post"},
         Enqueue(hand[1])
  PROVE  Holding' /\ Kept' \subseteq Kept
<1>1. /\ hand[1] \in Result /\ queue \in Results /\ InOrder(queue)
      /\ \A i \in 1..Len(queue) : queue[i] < hand[1]
  BY HoldingTypes DEF Holding, StoreInOrder, Stored, NewestInHand
<1>2. /\ queue' \in Results /\ InOrder(queue') /\ ToSet(queue') \subseteq ToSet(queue) \cup {hand[1]}
  BY <1>1, EnqueueEffect
<1>3. hand' = <<>>
  BY DEF Enqueue, Push
<1>4. /\ pc' \in {"save", "idle"} /\ apart' \in BOOLEAN /\ shed' \subseteq Result
      /\ pc' = "save" \/ apart'
      /\ disk' \in Results /\ InOrder(disk') /\ ToSet(disk') \subseteq ToSet(disk)
  <2>1. Full => queue[1] \in Result
    BY <1>1 DEF Full, Results
  <2>2. (IF Full THEN {queue[1]} ELSE {}) \in SUBSET Result
    BY <2>1
  <2>. QED  BY <2>2, SaveBegins DEF Enqueue
<1>5. hand[1] \in ToSet(hand) /\ <<>> \in Results /\ ToSet(<<>>) = {}
  <2>1. Len(hand) = 1
    BY DEF Holding, DeviceOK
  <2>. QED  BY <2>1, HoldingTypes, InToSet DEF Holding, Results, ToSet
<1>6. DeviceOK'
  BY <1>2, <1>3, <1>4, <1>5 DEF Holding, DeviceOK, Around, Pc, Results
<1>7. CapturedInOrder' /\ Kept' \subseteq Kept
  <2>1. Kept' \subseteq Kept
    BY <1>2, <1>3, <1>4, <1>5 DEF Kept
  <2>. QED  BY <2>1, CapturedKept DEF Holding
<1>8. NewestInHand' /\ FileUntilSent' /\ DiskCoversStore'
  BY <1>4 DEF NewestInHand, FileUntilSent, DiskCoversStore
<1>9. StoreInOrder' /\ FileInOrder'
  BY <1>2, <1>4 DEF StoreInOrder, FileInOrder, Stored, InOrder
<1>. QED  BY <1>6, <1>7, <1>8, <1>9 DEF Holding

\* A batch was accepted: the store is what is left in the queue, the end of the file.
LEMMA AcceptedHolding ==
  ASSUME Holding, Around', BatchAccepted
  PROVE  Holding' /\ Kept' \subseteq Kept
<1>1. /\ pc = "flush" /\ stamp' = stamp /\ flushed' = TRUE
      /\ hand \in Results /\ queue \in Results /\ disk \in Results
      /\ Stored = hand \o queue /\ InOrder(hand \o queue)
  BY HoldingTypes DEF BatchAccepted, Holding, Stored, StoreInOrder
<1>2. InOrder(queue)
  BY <1>1, InOrderParts
<1>3. CASE queue = <<>>
  <2>1. hand' = <<>> /\ queue' = queue /\ BeginSave({})
    BY <1>3 DEF BatchAccepted
  <2>2. /\ pc' \in {"save", "idle"} /\ apart' \in BOOLEAN /\ shed' \subseteq Result
        /\ pc' = "save" \/ apart'
        /\ disk' \in Results /\ InOrder(disk') /\ ToSet(disk') \subseteq ToSet(disk)
    BY <2>1, SaveBegins
  <2>3. DeviceOK'
    BY <1>1, <2>1, <2>2 DEF Holding, DeviceOK, Around, Pc, Results
  <2>4. CapturedInOrder' /\ Kept' \subseteq Kept
    <3>1. Kept' \subseteq Kept
      BY <2>1, <2>2 DEF Kept, ToSet
    <3>. QED  BY <1>1, <3>1, CapturedKept DEF Holding
  <2>5. NewestInHand' /\ FileUntilSent' /\ DiskCoversStore'
    BY <2>2 DEF NewestInHand, FileUntilSent, DiskCoversStore
  <2>6. StoreInOrder' /\ FileInOrder'
    BY <1>2, <2>1, <2>2 DEF StoreInOrder, FileInOrder, Stored, InOrder
  <2>. QED  BY <2>3, <2>4, <2>5, <2>6 DEF Holding
<1>4. CASE queue # <<>>
  <2>1. /\ PopBatch /\ pc' = "flush" /\ UNCHANGED <<disk, apart, shed>>
        /\ hand' \in Results /\ hand' # <<>> /\ queue' \in Results
        /\ hand' \o queue' = queue
    BY <1>1, <1>4, PopEffect DEF BatchAccepted, PopBatch
  <2>2. ToSet(hand') \cup ToSet(queue') = ToSet(queue)
    BY <2>1, ToSetOfConcat
  <2>3. Stored' = queue
    BY <2>1 DEF Stored
  <2>4. DeviceOK'
    BY <1>1, <2>1 DEF Holding, DeviceOK, Around, Pc, Results
  <2>5. CapturedInOrder' /\ Kept' \subseteq Kept
    <3>1. Kept' \subseteq Kept
      BY <1>1, <2>1, <2>2 DEF Kept
    <3>. QED  BY <1>1, <2>1, <2>2, <3>1, CapturedKept DEF Holding
  <2>6. NewestInHand' /\ FileUntilSent'
    BY <1>1, <2>1 DEF NewestInHand, FileUntilSent
  <2>7. StoreInOrder' /\ FileInOrder'
    BY <1>2, <2>1, <2>3 DEF Holding, StoreInOrder, FileInOrder, InOrder
  <2>8. DiskCoversStore'
    BY <1>1, <2>1, <2>3, SuffixRest DEF Holding, DiskCoversStore
  <2>. QED  BY <2>4, <2>5, <2>6, <2>7, <2>8 DEF Holding
<1>. QED  BY <1>3, <1>4

\* A failed batch goes back to the front; nothing was sent, or the file is written again.
LEMMA FailedHolding ==
  ASSUME Holding, Around', BatchFailed
  PROVE  Holding' /\ Kept' \subseteq Kept
<1>1. /\ pc = "flush" /\ stamp' = stamp /\ flushed' = flushed
      /\ queue' = hand \o queue /\ hand' = <<>>
      /\ \/ BeginSave({})
         \/ pc' = "idle" /\ UNCHANGED <<disk, apart, shed>> /\ ~flushed
  BY DEF BatchFailed, BatchFails, PutBack
<1>2. /\ hand \in Results /\ queue \in Results /\ disk \in Results
      /\ queue' \in Results /\ ToSet(queue') = ToSet(hand) \cup ToSet(queue)
      /\ Stored = hand \o queue
  BY <1>1, HoldingTypes, Concat, ToSetOfConcat DEF Holding, Stored
<1>3. /\ pc' \in {"save", "idle"} /\ apart' \in BOOLEAN /\ shed' \subseteq Result
      /\ disk' \in Results /\ InOrder(disk') /\ ToSet(disk') \subseteq ToSet(disk)
      /\ pc' = "save" \/ apart' \/ (~flushed /\ UNCHANGED <<disk, apart>>)
  <2>1. CASE BeginSave({})
    BY <2>1, SaveBegins
  <2>2. CASE pc' = "idle" /\ UNCHANGED <<disk, apart, shed>> /\ ~flushed
    BY <1>2, <2>2 DEF Holding, DeviceOK, FileInOrder
  <2>. QED  BY <1>1, <2>1, <2>2
<1>4. Stored' = Stored
  BY <1>1, <1>2, <1>3 DEF Stored
<1>5. DeviceOK'
  BY <1>1, <1>2, <1>3 DEF Holding, DeviceOK, Around, Pc, Results
<1>6. CapturedInOrder' /\ Kept' \subseteq Kept
  <2>1. Kept' \subseteq Kept
    <3>1. ToSet(<<>>) = {}
      BY DEF ToSet
    <3>. QED  BY <1>1, <1>2, <1>3, <3>1 DEF Kept
  <2>. QED  BY <1>1, <2>1, CapturedKept DEF Holding
<1>7. NewestInHand' /\ FileUntilSent'
  BY <1>3 DEF NewestInHand, FileUntilSent
<1>8. StoreInOrder' /\ FileInOrder'
  BY <1>3, <1>4 DEF Holding, StoreInOrder, FileInOrder, InOrder
<1>9. DiskCoversStore'
  <2>1. ~apart /\ ~flushed => disk = Stored
    BY <1>1 DEF Holding, FileUntilSent
  <2>2. Stored' = queue'
    BY <1>3 DEF Stored
  <2>. QED  BY <1>2, <1>3, <1>4, <2>1, <2>2, SuffixSelf DEF DiskCoversStore
<1>. QED  BY <1>5, <1>6, <1>7, <1>8, <1>9 DEF Holding

\* A save ends: with the whole queue in the file, or with a part of it.
LEMMA SaveHolding ==
  ASSUME Holding, Around', EndSave \/ FailSave
  PROVE  Holding' /\ Kept' \subseteq Kept
<1>1. /\ pc = "save" /\ pc' = "idle" /\ stamp' = stamp /\ UNCHANGED <<hand, queue, shed, flushed>>
      /\ \/ disk' = queue /\ apart' = FALSE
         \/ apart' = TRUE /\ \E k \in 0..(Len(queue) - 1) : disk' = SubSeq(queue, 1, k)
  BY DEF EndSave, FailSave, ingestVars
<1>2. /\ queue \in Results /\ InOrder(queue) /\ Stored = queue /\ Stored' = queue
      /\ Len(queue) \in Nat
  BY <1>1, HoldingTypes DEF Holding, Stored, StoreInOrder, Results
<1>3. disk' \in Results /\ InOrder(disk') /\ ToSet(disk') \subseteq ToSet(queue)
  <2>1. CASE disk' = queue
    BY <1>2, <2>1
  <2>2. ASSUME NEW k \in 0..(Len(queue) - 1), disk' = SubSeq(queue, 1, k)
        PROVE  disk' \in Results /\ InOrder(disk') /\ ToSet(disk') \subseteq ToSet(queue)
    <3>1. k \in 0..Len(queue)
      BY <1>2
    <3>. QED  BY <1>2, <2>2, <3>1, InOrderPrefix
  <2>. QED  BY <1>1, <2>1, <2>2
<1>4. DeviceOK'
  BY <1>1, <1>3 DEF Holding, DeviceOK, Around, Pc, Results
<1>5. CapturedInOrder' /\ Kept' \subseteq Kept
  <2>1. Kept' \subseteq Kept
    BY <1>1, <1>3 DEF Kept
  <2>. QED  BY <1>1, <1>3, <2>1, CapturedKept DEF Holding
<1>6. NewestInHand' /\ FileUntilSent'
  BY <1>1 DEF NewestInHand, FileUntilSent
<1>7. StoreInOrder' /\ FileInOrder'
  BY <1>2, <1>3 DEF StoreInOrder, FileInOrder, InOrder
<1>8. DiskCoversStore'
  BY <1>1, <1>2, SuffixSelf DEF DiskCoversStore
<1>. QED  BY <1>4, <1>5, <1>6, <1>7, <1>8 DEF Holding

\* The process ends, leaving what a save has written or the file as it was.
LEMMA HaltHolding ==
  ASSUME Holding, Around', Kill \/ Shutdown
  PROVE  Holding' /\ Kept' \subseteq Kept
<1>1. /\ pc' = "down" /\ stamp' = stamp /\ flushed' = FALSE
      /\ hand' = <<>> /\ queue' = <<>> /\ apart' = FALSE /\ shed' = {}
      /\ \/ disk' = disk
         \/ disk' = queue
         \/ \E k \in 0..Len(queue) : disk' = SubSeq(queue, 1, k)
  <2>1. Len(queue) \in Nat
    BY HoldingTypes DEF Holding, Results
  <2>2. \A k \in 0..(Len(queue) - 1) : k \in 0..Len(queue)
    BY <2>1
  <2>. QED  BY <2>2 DEF Kill, Shutdown, Halt, ingestVars
<1>2. /\ queue \in Results /\ InOrder(queue) /\ disk \in Results /\ InOrder(disk)
  <2>1. hand \in Results /\ queue \in Results
    BY HoldingTypes DEF Holding
  <2>2. InOrder(queue)
    BY <2>1, InOrderParts DEF Holding, StoreInOrder, Stored
  <2>. QED  BY <2>2, HoldingTypes DEF Holding, FileInOrder
<1>3. disk' \in Results /\ InOrder(disk') /\ ToSet(disk') \subseteq ToSet(queue) \cup ToSet(disk)
  <2>1. CASE disk' = disk \/ disk' = queue
    BY <1>2, <2>1
  <2>2. ASSUME NEW k \in 0..Len(queue), disk' = SubSeq(queue, 1, k)
        PROVE  disk' \in Results /\ InOrder(disk') /\ ToSet(disk') \subseteq ToSet(queue)
    BY <1>2, <2>2, InOrderPrefix
  <2>. QED  BY <1>1, <2>1, <2>2
<1>4. <<>> \in Results /\ ToSet(<<>>) = {} /\ InOrder(<<>>)
  BY DEF Results, ToSet, InOrder
<1>5. DeviceOK'
  BY <1>1, <1>3, <1>4 DEF Holding, DeviceOK, Around, Pc, Results
<1>6. CapturedInOrder' /\ Kept' \subseteq Kept
  <2>1. Kept' \subseteq Kept
    BY <1>1, <1>3, <1>4 DEF Kept
  <2>. QED  BY <1>1, <1>3, <1>4, <2>1, CapturedKept DEF Holding
<1>7. NewestInHand' /\ FileUntilSent' /\ DiskCoversStore'
  BY <1>1 DEF NewestInHand, FileUntilSent, DiskCoversStore
<1>8. StoreInOrder' /\ FileInOrder'
  BY <1>1, <1>3, <1>4 DEF StoreInOrder, FileInOrder, Stored, InOrder
<1>. QED  BY <1>5, <1>6, <1>7, <1>8 DEF Holding

\* A restart loads the file.
LEMMA RestartHolding ==
  ASSUME Holding, Around', Restart
  PROVE  Holding' /\ Kept' \subseteq Kept
<1>1. /\ pc = "down" /\ pc' = "idle" /\ stamp' = stamp
      /\ UNCHANGED <<hand, disk, flushed>>
      /\ disk \in Results /\ InOrder(disk) /\ apart = FALSE /\ shed = {}
  BY HoldingTypes DEF Restart, ingestVars, Holding, FileInOrder, DeviceOK
<1>2. /\ queue' \in Results /\ InOrder(queue') /\ ToSet(queue') \subseteq ToSet(disk)
      /\ queue' = disk \/ apart'
      /\ apart' \in BOOLEAN /\ shed' \subseteq Result
  <2>1. CASE queue' = disk /\ UNCHANGED <<apart, shed>>
    BY <1>1, <2>1
  <2>2. ASSUME NEW k \in 0..(Len(disk) - 1), queue' = SubSeq(disk, 1, k), apart' = TRUE,
               shed' = ToSet(disk) \ ToSet(queue')
        PROVE  /\ queue' \in Results /\ InOrder(queue') /\ ToSet(queue') \subseteq ToSet(disk)
               /\ shed' \subseteq Result
    <3>1. k \in 0..Len(disk)
      BY <1>1 DEF Results
    <3>2. ToSet(disk) \subseteq Result
      BY <1>1, InToSet
    <3>. QED  BY <1>1, <2>2, <3>1, <3>2, InOrderPrefix
  <2>. QED  BY <2>1, <2>2 DEF Restart
<1>3. DeviceOK'
  BY <1>1, <1>2 DEF Holding, DeviceOK, Around, Pc, Results
<1>4. CapturedInOrder' /\ Kept' \subseteq Kept
  <2>1. Kept' \subseteq Kept
    BY <1>1, <1>2 DEF Kept
  <2>. QED  BY <1>1, <2>1, CapturedKept DEF Holding
<1>5. NewestInHand' /\ FileUntilSent'
  BY <1>1 DEF NewestInHand, FileUntilSent
<1>6. StoreInOrder' /\ FileInOrder'
  BY <1>1, <1>2 DEF StoreInOrder, FileInOrder, Stored, InOrder
<1>7. DiskCoversStore'
  <2>1. Stored' = queue'
    BY <1>1 DEF Stored
  <2>. QED  BY <1>1, <1>2, <2>1, SuffixSelf DEF DiskCoversStore
<1>. QED  BY <1>3, <1>4, <1>5, <1>6, <1>7 DEF Holding

-------------------------------------------------------------------------------
(* The device is one of the open clients: what Ingest_proofs shows holds with it. *)

\* Every step of the device and of what is around it is a step of an open client.
LEMMA EdgeStepIsOpen == DeviceInv /\ [EdgeNext]_vars => [OpenNext]_ingestVars
<1>. SUFFICES ASSUME DeviceInv, [EdgeNext]_vars PROVE [OpenNext]_ingestVars
  OBVIOUS
<1>. USE DEF DeviceInv, EdgeTypeOK
<1>1. ASSUME NEW s \in Slot, PostResult(s) \/ PostBatch(s) PROVE Offer(s)
  <2>1. /\ \E k \in {"result", "batch"} : Post(s, k, hand)
        /\ UNCHANGED <<clock, stamp>>
    BY <1>1 DEF PostResult, PostBatch
  <2>2. hand \in Seq(Result) /\ hand # <<>>
    <3>1. pc \in {"probe", "flush"}
      BY <1>1 DEF PostResult, PostBatch
    <3>2. hand \in Seq(Result) /\ (Len(hand) = 1 \/ hand # <<>>)
      BY <3>1 DEF DeviceOK
    <3>3. Len(<<>>) # 1
      OBVIOUS
    <3>. QED  BY <3>2, <3>3
  <2>3. \A i \in 1..Len(hand) : hand[i] \in Captured
    BY <2>2, InToSet DEF CapturedInOrder, Results
  <2>4. Captured' = Captured
    BY <2>1 DEF Captured
  <2>. QED  BY <2>1, <2>2, <2>3, <2>4 DEF Offer, Payloads
<1>2. ASSUME NEW status, Reply(status), UNCHANGED <<clock, stamp>> PROVE \E s \in Slot : Hangup(s)
  BY <1>2 DEF Reply, Hangup, DeviceOK
<1>3. CASE PostAccepted \/ PostFailed \/ BatchAccepted \/ BatchFailed
  <2>1. /\ UNCHANGED <<clock, stamp>>
        /\ \/ Reply("ok") \/ Reply("err")
           \/ UNCHANGED <<dbVars, lastCleanup, reqVars, history>>
    BY <1>3 DEF PostAccepted, PostFailed, BatchAccepted, BatchFailed, BatchFails, GiveUp
  <2>. QED  BY <1>2, <2>1 DEF OpenNext, ingestVars
<1>4. CASE \/ PublishResult \/ StoreResult \/ EndSave \/ FailSave \/ Kill \/ Shutdown
           \/ Restart \/ MqttCallback \/ LinkChange \/ UNCHANGED vars
  BY <1>4 DEF PublishResult, StoreResult, EndSave, FailSave, Kill, Shutdown, Halt, Restart,
              MqttCallback, LinkChange, vars
<1>5. ASSUME NEW r \in Result, TakeResult(r) PROVE Capture(r)
  BY <1>5 DEF TakeResult
<1>6. ASSUME NEW s \in Slot, OrphanReply(s) PROVE Hangup(s)
  BY <1>6 DEF OrphanReply
<1>. QED  BY <1>1, <1>3, <1>4, <1>5, <1>6 DEF EdgeNext, Device, Work, Environment, OpenNext

\* The request the device waits for stays its own.
LEMMA WaitsNext ==
  ASSUME DeviceInv, [EdgeNext]_vars
  PROVE  WaitsForOwn'
<1>. USE DEF DeviceInv, EdgeTypeOK, DeviceOK
<1>1. \A s \in Slot : s # NoSlot
  OBVIOUS
<1>2. ASSUME wait' = NoSlot, pc' # "post" PROVE WaitsForOwn'
  BY <1>2 DEF WaitsForOwn
<1>3. ASSUME UNCHANGED <<pc, hand, wait>>, payload' = payload,
             \A s \in Slot : s = wait /\ st[s] # "free" => st'[s] # "free"
      PROVE  WaitsForOwn'
  BY <1>3 DEF WaitsForOwn
<1>4. ASSUME NEW s \in Slot, PostResult(s) \/ PostBatch(s) PROVE WaitsForOwn'
  <2>1. /\ st'[s] = "recv" /\ payload'[s] = hand /\ wait' = s /\ hand' = hand
        /\ pc' \in {"post", "flush"}
    BY <1>4 DEF PostResult, PostBatch, Post, TypeOK, RequestsOK
  <2>. QED  BY <1>1, <2>1 DEF WaitsForOwn
<1>5. CASE PostAccepted \/ PostFailed \/ BatchAccepted \/ BatchFailed
  <2>1. wait' = NoSlot /\ pc' # "post"
    BY <1>5 DEF PostAccepted, PostFailed, BatchAccepted, BatchFailed, BatchFails, Reply, GiveUp,
                BeginFlush, PopBatch, Enqueue, BeginSave, PutBack
  <2>. QED  BY <1>2, <2>1
<1>6. CASE PublishResult \/ StoreResult \/ EndSave \/ FailSave \/ Kill \/ Shutdown \/ Restart
           \/ \E r \in Result : TakeResult(r)
  <2>1. pc' # "post"
    BY <1>6 DEF PublishResult, StoreResult, EndSave, FailSave, Kill, Shutdown, Halt, Restart,
                TakeResult, BeginFlush, PopBatch, Enqueue, BeginSave, PutBack
  <2>2. wait' = NoSlot
    BY <1>6 DEF PublishResult, StoreResult, EndSave, FailSave, Kill, Shutdown, Halt, Restart,
                TakeResult, WaitsForOwn
  <2>. QED  BY <1>2, <2>1, <2>2
<1>7. CASE MqttCallback \/ LinkChange \/ UNCHANGED vars
  BY <1>3, <1>7 DEF MqttCallback, LinkChange, vars, edgeVars, ingestVars, reqVars
<1>8. ASSUME NEW s \in Slot, OrphanReply(s) PROVE WaitsForOwn'
  <2>1. /\ s # wait /\ UNCHANGED <<pc, hand, wait>>
        /\ \A t \in Slot : t # s => st'[t] = st[t] /\ payload'[t] = payload[t]
    BY <1>8 DEF OrphanReply, Hangup, Release, edgeVars, TypeOK, RequestsOK
  <2>. QED  BY <2>1 DEF WaitsForOwn
<1>9. CASE Backend /\ UNCHANGED edgeVars
  BY <1>3, <1>9, BackendKeeps DEF edgeVars
<1>. QED  BY <1>4, <1>5, <1>6, <1>7, <1>8, <1>9 DEF EdgeNext, Device, Work, Environment

LEMMA HoldingNext ==
  ASSUME DeviceInv, [EdgeNext]_vars
  PROVE  Holding' /\ (Kept' \subseteq Kept \/ \E r \in Result : TakeResult(r))
<1>. USE DEF DeviceInv, EdgeTypeOK
<1>1. Holding /\ Around
  BY HoldingTypes DEF Holding
<1>2. ASSUME NEW s \in Slot, PostResult(s) \/ PostBatch(s) PROVE Holding' /\ Kept' \subseteq Kept
  <2>1. Around'
    BY <1>1, <1>2 DEF PostResult, PostBatch, Around, links
  <2>2. /\ stamp' = stamp /\ UNCHANGED <<hand, store, flushed>>
        /\ pc' = pc \/ (pc = "probe" /\ pc' = "post")
    BY <1>2 DEF PostResult, PostBatch
  <2>. QED  BY <1>1, <2>1, <2>2, StoreKept
<1>3. CASE PublishResult \/ PostAccepted
  <2>1. pc \in {"probe", "post"} /\ BeginFlush /\ stamp' = stamp
    BY <1>3 DEF PublishResult, PostAccepted, ingestVars
  <2>2. Around'
    BY <1>1, <1>3, HoldingTypes DEF PublishResult, PostAccepted, Reply, Around, links, Holding
  <2>. QED  BY <1>1, <2>1, <2>2, BeginFlushHolding
<1>4. CASE StoreResult \/ PostFailed
  <2>1. pc \in {"probe", "post"} /\ Enqueue(hand[1]) /\ stamp' = stamp /\ flushed' = flushed
    BY <1>4 DEF StoreResult, PostFailed, ingestVars
  <2>2. Around'
    BY <1>1, <1>4 DEF StoreResult, PostFailed, Reply, GiveUp, Around, links
  <2>. QED  BY <1>1, <2>1, <2>2, EnqueueHolding
<1>5. CASE BatchAccepted \/ BatchFailed
  <2>1. Around'
    BY <1>1, <1>5 DEF BatchAccepted, BatchFailed, BatchFails, Reply, GiveUp, Around, links
  <2>. QED  BY <1>1, <1>5, <2>1, AcceptedHolding, FailedHolding
<1>6. CASE EndSave \/ FailSave \/ Restart
  <2>1. Around'
    BY <1>1, <1>6 DEF EndSave, FailSave, Restart, Around, links
  <2>. QED  BY <1>1, <1>6, <2>1, SaveHolding, RestartHolding
<1>7. CASE Kill \/ Shutdown
  <2>1. Around'
    BY <1>1, <1>7 DEF Kill, Shutdown, Halt, Around
  <2>. QED  BY <1>1, <1>7, <2>1, HaltHolding
<1>8. CASE MqttCallback \/ LinkChange \/ UNCHANGED vars
  <2>1. Around' /\ stamp' = stamp /\ pc' = pc /\ UNCHANGED <<hand, store, flushed>>
    BY <1>1, <1>8 DEF MqttCallback, LinkChange, vars, edgeVars, ingestVars, Around, links
  <2>. QED  BY <1>1, <2>1, StoreKept
<1>9. CASE (Backend /\ UNCHANGED edgeVars) \/ \E s \in Slot : OrphanReply(s)
  <2>1. Around' /\ stamp' = stamp /\ pc' = pc /\ UNCHANGED <<hand, store, flushed>>
    BY <1>1, <1>9, BackendKeeps DEF OrphanReply, Hangup, edgeVars, Around, links
  <2>. QED  BY <1>1, <2>1, StoreKept
<1>. QED  BY <1>1, <1>2, <1>3, <1>4, <1>5, <1>6, <1>7, <1>8, <1>9, TakeHolding
          DEF EdgeNext, Device, Work, Environment

LEMMA DeviceInvInit == EdgeInit => DeviceInv
<1>. SUFFICES ASSUME EdgeInit PROVE DeviceInv
  OBVIOUS
<1>1. /\ pc = "idle" /\ hand = <<>> /\ queue = <<>> /\ disk = <<>> /\ wait = NoSlot
      /\ apart = FALSE /\ shed = {} /\ flushed = FALSE /\ online \in BOOLEAN /\ mqtt = FALSE /\ published = {}
  BY DEF EdgeInit
<1>2. <<>> \in Seq(Result) /\ <<>> \in Results /\ ToSet(<<>>) = {} /\ InOrder(<<>>)
  BY DEF Results, ToSet, InOrder
<1>3. EdgeTypeOK
  BY <1>1, <1>2, TypeInit DEF EdgeInit, EdgeTypeOK, DeviceOK, Pc
<1>4. CapturedInOrder
  <2>1. Captured = {}
    BY DEF EdgeInit, IngestInit, Captured
  <2>. QED  BY <1>1, <1>2, <2>1 DEF CapturedInOrder
<1>5. WaitsForOwn /\ NewestInHand /\ FileUntilSent
  BY <1>1 DEF WaitsForOwn, NewestInHand, FileUntilSent
<1>6. StoreInOrder /\ FileInOrder
  BY <1>1, <1>2 DEF StoreInOrder, FileInOrder, Stored
<1>7. DiskCoversStore
  BY <1>1, <1>2, SuffixSelf DEF DiskCoversStore, Stored
<1>. QED  BY <1>3, <1>4, <1>5, <1>6, <1>7 DEF DeviceInv

LEMMA DeviceInvNext == DeviceInv /\ [EdgeNext]_vars => DeviceInv'
<1>1. DeviceInv /\ [EdgeNext]_vars => TypeOK'
  BY EdgeStepIsOpen, TypeNext DEF DeviceInv, EdgeTypeOK
<1>. QED  BY <1>1, WaitsNext, HoldingNext DEF DeviceInv, EdgeTypeOK, Holding

\* The device's own part of the invariant needs nothing of the backend but its typing.
LEMMA DeviceHolds == EdgeSpec => []DeviceInv
  BY DeviceInvInit, DeviceInvNext, PTL DEF EdgeSpec

\* The device is one of the clients Ingest_proofs allows: it only sends captured results.
THEOREM DeviceIsClient == EdgeSpec => OpenSpec
<1>1. EdgeInit => IngestInit
  BY DEF EdgeInit
<1>. QED  BY <1>1, EdgeStepIsOpen, DeviceHolds, PTL DEF EdgeSpec, OpenSpec

-------------------------------------------------------------------------------
(* What the device lets go of. With IngestInv, a reply of 200 says that the batch is taken. *)

\* The results of a batch, or of a post, that is answered 200 are taken.
LEMMA AcceptedAreTaken ==
  ASSUME DeviceInv, AckedIsTaken, Reply("ok")
  PROVE  /\ ToSet(hand) \subseteq seen
         /\ seen' = seen
<1>1. wait \in Slot /\ st[wait] = "ok" /\ payload[wait] = hand
  BY DEF Reply, DeviceInv, EdgeTypeOK, DeviceOK, WaitsForOwn
<1>2. \A i \in 1..Len(hand) : hand[i] \in seen
  BY <1>1 DEF AckedIsTaken
<1>3. seen' = seen
  BY DEF Reply, Release, history
<1>. QED  BY <1>2, <1>3, InToSet, HoldingTypes DEF DeviceInv, EdgeTypeOK

LEMMA HandIsOne ==
  ASSUME DeviceOK, pc \in {"probe", "post"}
  PROVE  ToSet(hand) = {hand[1]}
<1>1. hand \in Seq(Result) /\ Len(hand) = 1
  BY DEF DeviceOK
<1>. QED  BY <1>1, Singleton DEF Results

\* Queue and hand before and after a flush begins or goes on.
LEMMA PopKeeps ==
  ASSUME queue \in Results, queue # <<>>, PopBatch
  PROVE  ToSet(hand') \cup ToSet(queue') = ToSet(queue)
  BY PopEffect, ToSetOfConcat

\* What leaves the device in one step, and why.
LEMMA Leaves ==
  ASSUME DeviceInv, FileHeldOrTaken, AckedIsTaken, EdgeNext, pc' # "down",
         NEW r \in Kept, r \notin Kept'
  PROVE  r \in seen \/ r \in published' \/ r \in shed \/ Overflows(r)
<1>. USE DEF DeviceInv, EdgeTypeOK
<1>1. hand \in Results /\ queue \in Results /\ disk \in Results
  BY HoldingTypes
<1>2. pc # "down" /\ r \notin seen \cup shed => r \in ToSet(hand) \cup ToSet(queue)
  <2>1. Stored = queue \/ Stored = hand \o queue
    BY DEF Stored
  <2>. QED  BY <1>1, <2>1, ToSetOfConcat DEF Kept, FileHeldOrTaken
<1>3. pc \in {"probe", "post"} => ToSet(hand) = {hand[1]}
  BY HandIsOne
<1>4. BeginFlush => ToSet(queue) \subseteq Kept' /\ disk' = disk
  <2>1. CASE queue = <<>>
    BY <2>1 DEF BeginFlush, Kept
  <2>2. CASE queue # <<>>
    BY <1>1, <2>2, PopKeeps DEF BeginFlush, Kept
  <2>. QED  BY <2>1, <2>2
<1>5. CASE PublishResult
  BY <1>3, <1>4, <1>5 DEF PublishResult, Kept
<1>6. CASE PostAccepted
  BY <1>4, <1>6, AcceptedAreTaken DEF PostAccepted, Kept
<1>7. CASE StoreResult \/ PostFailed
  <2>1. pc \in {"probe", "post"} /\ Enqueue(hand[1])
    BY <1>7 DEF StoreResult, PostFailed
  <2>2. /\ hand[1] \in Result /\ InOrder(queue)
        /\ \A i \in 1..Len(queue) : queue[i] < hand[1]
    BY <2>1, HoldingTypes DEF StoreInOrder, Stored, NewestInHand
  <2>3. /\ hand[1] \in ToSet(queue')
        /\ \A q \in ToSet(queue) : q \in ToSet(queue') \/ Overflows(q)
    BY <1>1, <2>1, <2>2, EnqueueEffect
  <2>. QED  BY <1>2, <1>3, <2>1, <2>3 DEF Kept
<1>8. CASE BatchAccepted
  <2>1. ToSet(hand) \subseteq seen /\ pc = "flush"
    BY <1>8, AcceptedAreTaken DEF BatchAccepted
  <2>2. ToSet(queue) \subseteq Kept'
    <3>1. CASE queue = <<>>
      BY <3>1 DEF ToSet
    <3>2. CASE queue # <<>>
      BY <1>1, <1>8, <3>2, PopKeeps DEF BatchAccepted, Kept
    <3>. QED  BY <3>1, <3>2
  <2>. QED  BY <1>2, <2>1, <2>2
<1>9. CASE BatchFailed
  <2>1. queue' = hand \o queue /\ pc = "flush"
    BY <1>9 DEF BatchFailed, BatchFails, PutBack
  <2>. QED  BY <1>1, <1>2, <2>1, ToSetOfConcat DEF Kept
<1>10. CASE EndSave \/ FailSave
  BY <1>2, <1>10 DEF EndSave, FailSave, Kept
<1>11. CASE Restart
  <2>1. hand' = hand /\ disk' = disk /\ queue = <<>>
    BY <1>11 DEF Restart, DeviceOK
  <2>2. ToSet(<<>>) = {}
    BY DEF ToSet
  <2>. QED  BY <2>1, <2>2 DEF Kept
<1>12. CASE Kill \/ Shutdown
  BY <1>12 DEF Kill, Shutdown, Halt
<1>13. ASSUME NEW q \in Result, TakeResult(q) PROVE FALSE
  <2>1. queue' = queue /\ disk' = disk /\ hand = <<>>
    BY <1>13 DEF TakeResult, store, DeviceOK
  <2>2. ToSet(<<>>) = {}
    BY DEF ToSet
  <2>. QED  BY <2>1, <2>2 DEF Kept
<1>14. CASE \/ \E s \in Slot : PostResult(s) \/ PostBatch(s) \/ OrphanReply(s)
            \/ MqttCallback \/ LinkChange
            \/ Backend /\ UNCHANGED edgeVars
  BY <1>14 DEF PostResult, PostBatch, OrphanReply, MqttCallback, LinkChange, edgeVars, store, Kept
<1>. QED  BY <1>5, <1>6, <1>7, <1>8, <1>9, <1>10, <1>11, <1>12, <1>13, <1>14
          DEF EdgeNext, Device, Work, Environment

LEMMA FileNext ==
  ASSUME DeviceInv, FileHeldOrTaken, AckedIsTaken, [EdgeNext]_vars, DeviceInv', seen \subseteq seen'
  PROVE  FileHeldOrTaken'
<1>. USE DEF DeviceInv, EdgeTypeOK
<1>. SUFFICES ASSUME pc' # "down" PROVE ToSet(disk') \subseteq ToSet(Stored') \cup seen' \cup shed'
  BY DEF FileHeldOrTaken
<1>1. /\ hand \in Results /\ queue \in Results /\ disk \in Results
      /\ hand' \in Results /\ queue' \in Results
  BY HoldingTypes DEF DeviceOK, Results
<1>2. CASE disk' = <<>>
  BY <1>2 DEF ToSet
<1>3. CASE /\ disk' = disk /\ pc # "down" /\ shed \subseteq shed'
           /\ ToSet(Stored) \subseteq ToSet(Stored') \cup seen \cup shed'
  BY <1>3 DEF FileHeldOrTaken
<1>4. CASE PublishResult \/ PostAccepted
  <2>1. pc \in {"probe", "post"} /\ BeginFlush
    BY <1>4 DEF PublishResult, PostAccepted
  <2>2. Stored = queue /\ disk' = disk /\ shed' = shed
    BY <2>1 DEF Stored, BeginFlush
  <2>3. CASE queue = <<>>
    BY <1>3, <2>1, <2>2, <2>3 DEF ToSet
  <2>4. CASE queue # <<>>
    <3>1. PopBatch /\ pc' = "flush"
      BY <2>1, <2>4 DEF BeginFlush, PopBatch
    <3>2. Stored' = queue
      BY <1>1, <2>4, <3>1, PopEffect DEF Stored
    <3>. QED  BY <1>3, <2>1, <2>2, <3>2
  <2>. QED  BY <2>3, <2>4
<1>5. CASE StoreResult \/ PostFailed
  <2>1. /\ pc \in {"probe", "post"} /\ Enqueue(hand[1])
        /\ Stored = queue /\ hand[1] \in Result /\ InOrder(queue)
        /\ \A i \in 1..Len(queue) : queue[i] < hand[1]
    BY <1>5, HoldingTypes DEF StoreResult, PostFailed, StoreInOrder, Stored, NewestInHand
  <2>2. \A q \in ToSet(queue) : q \in ToSet(queue') \/ Overflows(q)
    BY <1>1, <2>1, EnqueueEffect
  <2>3. CASE disk' # <<>>
    <3>1. /\ pc' = "idle" /\ disk' = disk
          /\ shed' = shed \cup (IF Full THEN {queue[1]} ELSE {})
      BY <2>1, <2>3 DEF Enqueue, BeginSave
    <3>2. Stored' = queue'
      BY <3>1 DEF Stored
    <3>3. \A q : Overflows(q) => q \in shed'
      BY <3>1 DEF Overflows
    <3>. QED  BY <1>3, <2>1, <2>2, <3>1, <3>2, <3>3
  <2>. QED  BY <1>2, <2>3
<1>6. CASE BatchAccepted
  <2>1. ToSet(hand) \subseteq seen /\ pc = "flush" /\ Stored = hand \o queue
    BY <1>6, AcceptedAreTaken DEF BatchAccepted, Stored
  <2>2. ToSet(Stored) \subseteq ToSet(queue) \cup seen
    BY <1>1, <2>1, ToSetOfConcat
  <2>3. CASE queue = <<>>
    <3>1. BeginSave({}) /\ ToSet(queue) = {}
      BY <1>6, <2>3 DEF BatchAccepted, ToSet
    <3>2. disk' = <<>> \/ (disk' = disk /\ shed' = shed)
      BY <3>1 DEF BeginSave
    <3>. QED  BY <1>2, <1>3, <2>1, <2>2, <3>1, <3>2
  <2>4. CASE queue # <<>>
    <3>1. PopBatch /\ disk' = disk /\ shed' = shed /\ pc' = "flush"
      BY <1>6, <2>4 DEF BatchAccepted, PopBatch
    <3>2. Stored' = queue
      BY <1>1, <2>4, <3>1, PopEffect DEF Stored
    <3>. QED  BY <1>3, <2>1, <2>2, <3>1, <3>2
  <2>. QED  BY <2>3, <2>4
<1>7. CASE BatchFailed
  <2>1. /\ pc = "flush" /\ pc' # "flush" /\ queue' = hand \o queue
        /\ disk' = <<>> \/ (disk' = disk /\ shed' = shed)
    BY <1>7 DEF BatchFailed, BatchFails, PutBack, BeginSave
  <2>2. Stored' = Stored
    BY <2>1 DEF Stored
  <2>. QED  BY <1>2, <1>3, <2>1, <2>2
<1>8. CASE EndSave \/ FailSave
  <2>1. Stored' = queue
    BY <1>8 DEF EndSave, FailSave, Stored
  <2>2. ASSUME NEW k \in 0..(Len(queue) - 1), disk' = SubSeq(queue, 1, k)
        PROVE  ToSet(disk') \subseteq ToSet(queue)
    <3>1. Stored = queue /\ k \in 0..Len(queue)
      BY <1>1, <1>8 DEF EndSave, FailSave, Stored, Results
    <3>. QED  BY <1>1, <2>2, <3>1, InOrderPrefix DEF StoreInOrder
  <2>. QED  BY <1>8, <2>1, <2>2 DEF EndSave, FailSave
<1>9. CASE Restart
  <2>1. disk' = disk /\ Stored' = queue'
    BY <1>9 DEF Restart, Stored
  <2>2. queue' = disk \/ shed' = ToSet(disk) \ ToSet(queue')
    BY <1>9 DEF Restart
  <2>. QED  BY <2>1, <2>2
<1>10. CASE Kill \/ Shutdown
  BY <1>10 DEF Kill, Shutdown, Halt
<1>11. ASSUME NEW q \in Result, TakeResult(q)
       PROVE  ToSet(disk') \subseteq ToSet(Stored') \cup seen' \cup shed'
  <2>1. pc = "idle" /\ pc' = "probe" /\ queue' = queue /\ disk' = disk /\ shed' = shed
    BY <1>11 DEF TakeResult, store
  <2>. QED  BY <1>3, <2>1 DEF Stored
<1>12. CASE \/ \E s \in Slot : PostResult(s) \/ PostBatch(s) \/ OrphanReply(s)
            \/ MqttCallback \/ LinkChange
            \/ (Backend /\ UNCHANGED edgeVars)
            \/ UNCHANGED vars
  <2>1. UNCHANGED <<hand, queue, disk, shed>> /\ (pc' = pc \/ (pc = "probe" /\ pc' = "post"))
    BY <1>12 DEF PostResult, PostBatch, OrphanReply, MqttCallback, LinkChange, edgeVars, store, vars
  <2>2. Stored' = Stored
    BY <2>1 DEF Stored
  <2>. QED  BY <1>3, <2>1, <2>2
<1>. QED  BY <1>4, <1>5, <1>6, <1>7, <1>8, <1>9, <1>10, <1>11, <1>12
          DEF EdgeNext, Device, Work, Environment

\* The invariant holds throughout, for any queue and batch size and any number of results,
\* through overflow, failed and given-up requests, saves and loads that raise, kills and
\* restarts.
THEOREM EdgeInvariant == EdgeSpec => []EdgeInv
<1>1. EdgeInit => FileHeldOrTaken /\ TakenWereCaptured
  <2>. SUFFICES ASSUME EdgeInit PROVE FileHeldOrTaken /\ TakenWereCaptured
    OBVIOUS
  <2>1. disk = <<>> /\ seen = {}
    BY DEF EdgeInit, IngestInit
  <2>2. ToSet(disk) = {}
    BY <2>1 DEF ToSet
  <2>. QED  BY <2>1, <2>2 DEF FileHeldOrTaken, TakenWereCaptured
<1>2. DeviceInv /\ TakenWereCaptured /\ [EdgeNext]_vars => TakenWereCaptured' /\ seen \subseteq seen'
  BY EdgeStepIsOpen, TakenNext DEF DeviceInv, EdgeTypeOK
<1>3. /\ DeviceInv /\ DeviceInv' /\ IngestInv
      /\ FileHeldOrTaken /\ TakenWereCaptured /\ [EdgeNext]_vars
      => FileHeldOrTaken' /\ TakenWereCaptured'
  BY <1>2, FileNext DEF IngestInv
<1>4. EdgeSpec => [](FileHeldOrTaken /\ TakenWereCaptured)
  BY <1>1, <1>3, DeviceHolds, DeviceIsClient, OpenInvariant, PTL DEF EdgeSpec
<1>. QED  BY <1>4, DeviceHolds, PTL DEF EdgeInv

\* The store is in capture order without repetition and within its limit.
THEOREM StoreStaysInOrder == EdgeSpec => []StoreInOrder
<1>1. EdgeInv => StoreInOrder
  BY DEF EdgeInv, DeviceInv
<1>. QED  BY <1>1, EdgeInvariant, PTL

\* Outside a save the file brings the store back, unless the last save or load raised.
THEOREM DiskAlwaysCoversStore == EdgeSpec => []DiskCoversStore
<1>1. EdgeInv => DiskCoversStore
  BY DEF EdgeInv, DeviceInv
<1>. QED  BY <1>1, EdgeInvariant, PTL

\* A running device forgets a result only to the backend, to MQTT, to a full queue, or by a
\* load that could not read it.
THEOREM DeviceForgetsOnlyTaken == EdgeSpec => ForgetsOnlyTaken
<1>1. EdgeInv /\ IngestInv /\ [EdgeNext]_vars =>
        [\A r \in Result : Holds(r) /\ ~Holds(r)' =>
           r \in seen \/ r \in published' \/ r \in shed \/ Overflows(r) \/ pc' = "down"]_vars
  BY Leaves DEF EdgeInv, IngestInv, Holds, Kept
<1>. QED  BY <1>1, EdgeInvariant, DeviceIsClient, OpenInvariant, PTL DEF EdgeSpec, ForgetsOnlyTaken

-------------------------------------------------------------------------------
(* Device and backend implement Custody: a new result is created by TakeResult, taken by *)
(* InsertNonce and logged by Mark; every other step loses what nobody owns after it, or   *)
(* nothing.                                                                               *)

Owned(r) == Holds(r) \/ \E s \in Slot : Carries(s, r)

\* The stage of a result, read off.
LEMMA StageOf ==
  ASSUME NEW r \in Result
  PROVE  /\ r \notin Captured => Stage[r] = "new"
         /\ r \in Captured /\ r \in seen => Stage[r] = "taken"
         /\ r \in Captured /\ r \notin seen /\ Owned(r) => Stage[r] = "held"
         /\ r \in Captured /\ r \notin seen /\ ~Owned(r) => Stage[r] = "lost"
  BY DEF Stage, Captured, Owned

LEMMA LoseStep ==
  ASSUME stamp' = stamp, seen' = seen, logs' = logs,
         \A r \in Result : r \in Captured /\ r \notin seen /\ Owned(r)' => Owned(r)
  PROVE  Delivery!Next
<1>1. Captured' = Captured /\ LogRows' = LogRows
  BY DEF Captured, LogRows
<1>2. \A r \in Result :
        /\ Stage'[r] \in {"new", "held", "taken", "lost"}
        /\ Stage'[r] # Stage[r] => Stage[r] = "held" /\ Stage'[r] = "lost"
  <2>. TAKE r \in Result
  <2>1. /\ r \notin Captured => Stage'[r] = "new"
        /\ r \in Captured /\ r \in seen => Stage'[r] = "taken"
        /\ r \in Captured /\ r \notin seen /\ Owned(r)' => Stage'[r] = "held"
        /\ r \in Captured /\ r \notin seen /\ ~Owned(r)' => Stage'[r] = "lost"
    BY <1>1 DEF Stage, Captured, Owned
  <2>. QED  BY <2>1, StageOf
<1>3. Stage' \in [Result -> {"new", "held", "taken", "lost"}]
  BY <1>2 DEF Stage
<1>4. Delivery!Lose
  BY <1>1, <1>2, <1>3 DEF Delivery!Lose
<1>. QED  BY <1>4 DEF Delivery!Next

\* The results of a request that leaves the device were held.
LEMMA PostCarries ==
  ASSUME TypeOK, NEW s \in Slot, NEW k, Post(s, k, hand), hand \in Results
  PROVE  \A t \in Slot : \A r : Carries(t, r)' => Carries(t, r) \/ r \in ToSet(hand)
<1>1. /\ \A t \in Slot : t # s => st'[t] = st[t] /\ pos'[t] = pos[t] /\ payload'[t] = payload[t]
      /\ pos'[s] = 1 /\ payload'[s] = hand
  BY DEF Post, TypeOK, RequestsOK
<1>2. \A t \in Slot : t # s => \A r : Carries(t, r)' => Carries(t, r)
  BY <1>1 DEF Carries
<1>3. \A r : Carries(s, r)' => r \in ToSet(hand)
  BY <1>1, InToSet DEF Carries
<1>. QED  BY <1>2, <1>3

\* The steps of the backend between device and tables.
LEMMA BackendCustody ==
  ASSUME EdgeInv, IngestInv, Backend, UNCHANGED edgeVars
  PROVE  Delivery!Next \/ UNCHANGED Delivery!custodyVars
<1>. USE DEF EdgeInv, DeviceInv, EdgeTypeOK
<1>0. stamp' = stamp /\ (\A r : Holds(r)' <=> Holds(r)) /\ Captured' = Captured
  BY BackendKeeps DEF edgeVars, store, Holds, Captured
<1>1. ASSUME seen' = seen, logs' = logs, \A s \in Slot : \A r : Carries(s, r)' => Carries(s, r)
      PROVE  Delivery!Next
  BY <1>0, <1>1, LoseStep DEF Owned
<1>2. ASSUME NEW s \in Slot, LookupDevice(s) \/ QueryGuard(s) \/ Decide(s) \/ LoseRequest(s)
      PROVE  Delivery!Next
  <2>1. /\ st[s] \in Running /\ seen' = seen /\ logs' = logs
        /\ Advance(s) \/ \E next \in Status : Goto(s, next)
    BY <1>2 DEF LookupDevice, QueryGuard, Decide, LoseRequest, dbVars, history, Running, Status, Replied
  <2>2. \A t \in Slot : \A r : Carries(t, r)' => Carries(t, r)
    BY <2>1, GotoCarries, AdvanceCarries
  <2>. QED  BY <1>1, <2>1, <2>2
<1>3. ASSUME NEW w \in Worker, WorkerDies(w) PROVE Delivery!Next
  <2>1. seen' = seen /\ logs' = logs
    BY <1>3 DEF WorkerDies, dbVars
  <2>2. \A t \in Slot : \A r : Carries(t, r)' => Carries(t, r)
    BY <1>3 DEF WorkerDies, Carries, Running
  <2>. QED  BY <1>1, <2>1, <2>2
<1>4. CASE (\E u \in User : LogAttendance(u)) \/ RegisterDevice \/ Tick
  <2>1. seen' = seen /\ logs' = logs /\ UNCHANGED <<st, pos, payload>>
    BY <1>4 DEF LogAttendance, RegisterDevice, Tick, dbVars, reqVars, history
  <2>. QED  BY <1>1, <2>1 DEF Carries
<1>5. ASSUME NEW s \in Slot, InsertNonce(s) PROVE Delivery!Next
  <2>1. st[s] = "insert" /\ st[s] \in Running /\ logs' = logs
    BY <1>5 DEF InsertNonce, Running
  <2>2. PICK q \in Captured : q = Current(s)
    BY <2>1, CurrentCaptured DEF Running
  <2>3. CASE Goto(s, "err") /\ seen' = seen
    BY <1>1, <2>1, <2>3, GotoCarries
  <2>4. CASE Goto(s, "decide") /\ seen' = seen \cup {q}
    <3>1. \A t \in Slot : \A r : Carries(t, r)' <=> Carries(t, r)
      BY <2>1, <2>4, GotoCarries DEF Running
    <3>2. CASE q \in seen
      BY <1>1, <2>1, <2>4, <3>1, <3>2
    <3>3. CASE q \notin seen
      <4>1. Carries(s, q)
        <5>1. pos[s] \in 1..Len(payload[s]) /\ Len(payload[s]) \in Nat
          BY <2>1 DEF TypeOK, RequestsOK
        <5>2. pos[s] \in pos[s]..Len(payload[s])
          BY <5>1
        <5>. QED  BY <2>1, <2>2, <5>2 DEF Carries, Current
      <4>2. q \in Result /\ Stage[q] = "held"
        BY <2>2, <3>3, <4>1, StageOf DEF Owned, Captured
      <4>3. \A r \in Result : Stage'[r] = IF r = q THEN "taken" ELSE Stage[r]
        BY <1>0, <2>2, <2>4, <3>1 DEF Stage, Captured
      <4>4. Stage' = [Stage EXCEPT ![q] = "taken"]
        BY <4>3 DEF Stage
      <4>5. Delivery!Take(q)
        BY <2>1, <4>2, <4>4 DEF Delivery!Take, LogRows
      <4>. QED  BY <4>2, <4>5 DEF Delivery!Next
    <3>. QED  BY <3>2, <3>3
  <2>. QED  BY <1>5, <2>2, <2>3, <2>4 DEF InsertNonce
<1>6. ASSUME NEW s \in Slot, Mark(s) PROVE Delivery!Next
  <2>1. st[s] = "mark" /\ st[s] \in Running /\ seen' = seen
    BY <1>6 DEF Mark, Running
  <2>2. PICK q \in Captured : q = Current(s)
    BY <2>1, CurrentCaptured DEF Running
  <2>. DEFINE row == [nonce |-> q, user |-> Subject[q], ts |-> stamp[q]]
  <2>3. CASE Goto(s, "err") /\ logs' = logs
    BY <1>1, <2>1, <2>3, GotoCarries
  <2>4. CASE (\A l \in LogRows : l.nonce # q) /\ logs' = Append(logs, row) /\ Advance(s)
    <3>1. q \in Result /\ q \in seen
      BY <2>1, <2>2 DEF IngestInv, HandledAreTaken, Captured
    <3>2. Stage' = Stage
      <4>1. \A r : r # q => \A t \in Slot : Carries(t, r)' <=> Carries(t, r)
        BY <2>1, <2>2, <2>4, AdvanceCarries
      <4>2. \A r \in Result : Stage'[r] = Stage[r]
        BY <1>0, <2>1, <3>1, <4>1 DEF Stage, Captured
      <4>. QED  BY <4>2 DEF Stage
    <3>3. Stage[q] = "taken"
      BY <2>2, <3>1, StageOf
    <3>4. LogRows' = LogRows \cup {row}
      BY <2>4, LogAppended
    <3>5. Delivery!Log(q)
      <4>1. q \notin {l.nonce : l \in LogRows}
        BY <2>4
      <4>2. row.nonce = q
        OBVIOUS
      <4>3. {l.nonce : l \in LogRows'} = {l.nonce : l \in LogRows} \cup {row.nonce}
        BY <3>4
      <4>. QED  BY <3>2, <3>3, <4>1, <4>2, <4>3 DEF Delivery!Log
    <3>. QED  BY <3>1, <3>5 DEF Delivery!Next
  <2>. QED  BY <1>6, <2>2, <2>3, <2>4 DEF Mark
<1>. QED  BY <1>2, <1>3, <1>4, <1>5, <1>6 DEF Backend, Handle

LEMMA CustodyInit == EdgeInit => Delivery!Init
<1>. SUFFICES ASSUME EdgeInit PROVE Delivery!Init
  OBVIOUS
<1>1. \A r \in Result : stamp[r] = Uncaptured
  BY DEF EdgeInit, IngestInit
<1>2. logs = <<>>
  BY DEF EdgeInit, IngestInit
<1>3. LogRows = {}
  BY <1>2 DEF LogRows
<1>. QED  BY <1>1, <1>3 DEF Delivery!Init, Stage

LEMMA CustodyNext ==
  ASSUME EdgeInv, IngestInv, [EdgeNext]_vars
  PROVE  Delivery!Next \/ UNCHANGED Delivery!custodyVars
<1>. USE DEF EdgeInv, DeviceInv, EdgeTypeOK
<1>1. hand \in Results
  BY HoldingTypes
<1>2. \A r : Holds(r) <=> r \in Kept
  BY DEF Holds, Kept
<1>3. CASE Backend /\ UNCHANGED edgeVars
  BY <1>3, BackendCustody
<1>4. CASE UNCHANGED vars
  <2>1. UNCHANGED <<stamp, seen, logs, st, pos, payload, hand, queue, disk>>
    BY <1>4 DEF vars, ingestVars, edgeVars, dbVars, reqVars, history, store
  <2>. QED  BY <2>1, LoseStep DEF Owned, Holds, Carries
<1>5. ASSUME NEW r \in Result, TakeResult(r) PROVE Delivery!Next
  <2>1. /\ hand = <<>> /\ hand' = <<r>>
        /\ UNCHANGED <<queue, disk, seen, logs, st, pos, payload>>
        /\ stamp[r] = Uncaptured /\ stamp' = [stamp EXCEPT ![r] = clock]
    BY <1>5 DEF TakeResult, Capture, DeviceOK, store, dbVars, reqVars, history
  <2>2. r \notin Captured /\ r \notin seen
    BY <2>1 DEF Captured, TakenWereCaptured
  <2>3. ToSet(hand) = {} /\ ToSet(hand') = {r}
    <3>1. ToSet(<<>>) = {}
      BY DEF ToSet
    <3>2. hand' \in Seq(Result) /\ Len(hand') = 1 /\ hand'[1] = r
      BY <2>1
    <3>. QED  BY <2>1, <3>1, <3>2, Singleton DEF Results
  <2>4. clock # Uncaptured
    BY DEF TypeOK, TablesOK, Time, Uncaptured
  <2>5. \A q : /\ \A s \in Slot : Carries(s, q)' <=> Carries(s, q)
               /\ q # r => (Holds(q)' <=> Holds(q))
    BY <2>1, <2>3 DEF Carries, Holds
  <2>6. Holds(r)'
    BY <2>3 DEF Holds
  <2>7. \A q \in Result : stamp'[q] = IF q = r THEN clock ELSE stamp[q]
    BY <2>1 DEF TypeOK, TablesOK
  <2>8. \A q \in Result : Stage'[q] = IF q = r THEN "held" ELSE Stage[q]
    BY <2>1, <2>2, <2>4, <2>5, <2>6, <2>7 DEF Stage
  <2>9. Stage[r] = "new"
    BY <2>2, StageOf
  <2>10. Delivery!Create(r)
    <3>1. Stage' = [Stage EXCEPT ![r] = "held"]
      BY <2>8 DEF Stage
    <3>. QED  BY <2>1, <2>9, <3>1 DEF Delivery!Create, LogRows
  <2>. QED  BY <2>10 DEF Delivery!Next
<1>6. ASSUME \A r : Holds(r)' => Holds(r),
             stamp' = stamp, seen' = seen, logs' = logs,
             \A s \in Slot : \A r : Carries(s, r)' => Carries(s, r) \/ r \in ToSet(hand)
      PROVE  Delivery!Next
  BY <1>6, LoseStep DEF Owned, Holds
<1>7. ASSUME NEW s \in Slot, PostResult(s) \/ PostBatch(s) PROVE Delivery!Next
  <2>1. /\ \E k : Post(s, k, hand)
        /\ UNCHANGED <<stamp, hand, queue, disk, seen, logs>>
    BY <1>7 DEF PostResult, PostBatch, Post, store, dbVars, history
  <2>2. \A t \in Slot : \A r : Carries(t, r)' => Carries(t, r) \/ r \in ToSet(hand)
    BY <1>1, <2>1, PostCarries
  <2>. QED  BY <1>6, <2>1, <2>2 DEF Holds
<1>8. CASE /\ ~ \E r \in Result : TakeResult(r)
           /\ ~ \E s \in Slot : PostResult(s) \/ PostBatch(s)
           /\ ~ (Backend /\ UNCHANGED edgeVars)
           /\ EdgeNext
  <2>1. \A r : Holds(r)' => Holds(r)
    BY <1>2, <1>8, HoldingNext DEF Kept, Holds
  <2>2. /\ stamp' = stamp /\ seen' = seen /\ logs' = logs
        /\ \/ UNCHANGED <<st, pos, payload>>
           \/ \E s \in Slot : Release(s)
    <3>1. ASSUME NEW status, Reply(status)
          PROVE  /\ seen' = seen /\ logs' = logs
                 /\ \E s \in Slot : Release(s)
      BY <3>1 DEF Reply, Release, DeviceOK, dbVars, history
    <3>2. CASE PostAccepted \/ PostFailed \/ BatchAccepted \/ BatchFailed
      <4>1. /\ stamp' = stamp
            /\ \/ Reply("ok") \/ Reply("err")
               \/ UNCHANGED <<dbVars, reqVars, history>>
        BY <3>2 DEF PostAccepted, PostFailed, BatchAccepted, BatchFailed, BatchFails, GiveUp
      <4>. QED  BY <3>1, <4>1 DEF dbVars, reqVars, history
    <3>3. CASE \/ PublishResult \/ StoreResult \/ EndSave \/ FailSave \/ Kill \/ Shutdown
               \/ Restart \/ MqttCallback \/ LinkChange
      <4>1. UNCHANGED ingestVars
        BY <3>3 DEF PublishResult, StoreResult, EndSave, FailSave, Kill, Shutdown, Halt, Restart,
                    MqttCallback, LinkChange
      <4>. QED  BY <4>1 DEF ingestVars, dbVars, reqVars, history
    <3>4. CASE \E s \in Slot : OrphanReply(s)
      BY <3>4 DEF OrphanReply, Hangup, Release, dbVars, history
    <3>. QED  BY <1>8, <3>2, <3>3, <3>4 DEF EdgeNext, Device, Work, Environment
  <2>3. \A s \in Slot : \A r : Carries(s, r)' => Carries(s, r)
    BY <2>2, ReleaseCarries DEF Carries
  <2>. QED  BY <1>6, <2>1, <2>2, <2>3
<1>. QED  BY <1>3, <1>4, <1>5, <1>7, <1>8

\* The refinement: stage by stage no result is taken that was lost, none is taken or
\* logged twice, and none is logged that was not taken.
THEOREM DeviceImplementsCustody == EdgeSpec => ImplementsCustody
<1>1. EdgeInv /\ IngestInv /\ [EdgeNext]_vars => [Delivery!Next]_(Delivery!custodyVars)
  BY CustodyNext
<1>. QED  BY <1>1, CustodyInit, EdgeInvariant, DeviceIsClient, OpenInvariant, PTL
          DEF EdgeSpec, ImplementsCustody, Delivery!Spec

-------------------------------------------------------------------------------
\* The device of EdgeRecovery is this device: calm only takes steps away from it.
THEOREM RecoveringDeviceIsDevice == RecoverySpec => EdgeSpec
<1>1. RecoveryInit => EdgeInit
  BY DEF RecoveryInit
<1>2. [RecoveryNext]_recoveryVars => [EdgeNext]_vars
  BY DEF RecoveryNext, Allowed, CalmDown, recoveryVars
<1>. QED  BY <1>1, <1>2, PTL DEF RecoverySpec, EdgeSpec
===============================================================================
