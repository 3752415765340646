----------------------------- MODULE EdgeDelivery -----------------------------
(***************************************************************************)
(* One edge device (edge/main.py, edge/sync/offline_store.py,              *)
(* edge/comms/sync_client.py) in front of the backend of module Ingest:    *)
(* the main loop hands each result to the backend or to the disk-backed    *)
(* offline queue, and flushes the queue after a successful send.  Requests *)
(* time out while the backend still handles them, replies are lost, the    *)
(* process is killed, shut down by a signal and restarted.                 *)
(***************************************************************************)
EXTENDS Ingest, SequencesExt

CONSTANTS
  QueueMax,     \* offline_queue_max
  BatchSize,    \* results per flushed batch (50 in the code)
  NoSlot,       \* no request outstanding
  MqttInUse,    \* TRUE iff a broker is configured and paho-mqtt is installed
  DiskMayFail   \* TRUE iff reading or writing the queue file may raise

ASSUME EdgeAssumption ==
  /\ Result \subseteq Nat      \* numbered in the order of capture
  /\ QueueMax \in Nat \ {0} /\ BatchSize \in Nat \ {0}
  /\ NoSlot \notin Slot
  /\ MqttInUse \in BOOLEAN /\ DiskMayFail \in BOOLEAN

VARIABLES
  pc,          \* where the device's only thread stands
  hand,        \* results it holds outside the store: the current one, or the popped batch
  queue,       \* OfflineStore._queue
  disk,        \* results in the queue file
  apart,       \* TRUE iff the last save or load raised: file and queue went apart
  shed,        \* results the store has let go of since it last opened the file for writing
  flushed,     \* flush's sent > 0
  wait,        \* slot of the outstanding request
  online,      \* TRUE iff GET /api/health answers 200
  mqtt,        \* SyncClient._connected
  published    \* results handed to the MQTT client, which nothing in the backend reads

store == <<queue, disk, apart, shed>>
links == <<online, mqtt>>
edgeVars == <<pc, hand, store, flushed, wait, links, published>>
vars == <<ingestVars, edgeVars>>

Pc == {"idle", "probe", "post", "flush", "save", "down"}

EdgeInit ==
  /\ IngestInit
  /\ pc = "idle" /\ hand = <<>>
  /\ queue = <<>> /\ disk = <<>> /\ apart = FALSE /\ shed = {}
  /\ flushed = FALSE /\ wait = NoSlot
  /\ online \in BOOLEAN /\ mqtt = FALSE
  /\ published = {}

-------------------------------------------------------------------------------
(* OfflineStore. Its calls end by saving or by returning to the main loop. *)

\* save() opens the file for writing, which empties it before a line is written; an open
\* that raises leaves the old lines, the dropped ones among them. Its errors are logged
\* and swallowed.
BeginSave(dropped) ==
  \/ /\ pc' = "save"
     /\ disk' = <<>> /\ shed' = {}
     /\ UNCHANGED apart
  \/ /\ DiskMayFail
     /\ pc' = "idle"
     /\ apart' = TRUE /\ shed' = shed \cup dropped
     /\ UNCHANGED disk

Full == Len(queue) >= QueueMax

\* queue() before it saves: the oldest result makes room for r.
Push(r) == queue' = Append(IF Full THEN Tail(queue) ELSE queue, r) /\ hand' = <<>>

\* Mutant: queue() forgets to save.
EnqueueUnsaved(r) == Push(r) /\ pc' = "idle" /\ UNCHANGED <<disk, apart, shed>>

Enqueue(r) == Push(r) /\ BeginSave(IF Full THEN {queue[1]} ELSE {})

\* flush() takes the next batch out of the queue, into a local variable.
PopBatch ==
  LET n == IF Len(queue) < BatchSize THEN Len(queue) ELSE BatchSize
  IN /\ pc' = "flush"
     /\ hand' = SubSeq(queue, 1, n)
     /\ queue' = SubSeq(queue, n + 1, Len(queue))

\* flush() entered after a successful send: nothing to do when the queue is empty.
BeginFlush ==
  /\ flushed' = FALSE
  /\ IF queue = <<>> THEN pc' = "idle" /\ hand' = <<>> /\ UNCHANGED queue ELSE PopBatch
  /\ UNCHANGED <<disk, apart, shed>>

\* The whole queue is on disk.
EndSave ==
  /\ pc = "save"
  /\ disk' = queue /\ apart' = FALSE /\ pc' = "idle"
  /\ UNCHANGED <<ingestVars, hand, queue, shed, flushed, wait, links, published>>

\* Writing raises after some lines.
FailSave ==
  /\ pc = "save" /\ DiskMayFail
  /\ \E k \in 0..(Len(queue) - 1) : disk' = SubSeq(queue, 1, k)
  /\ apart' = TRUE /\ pc' = "idle"
  /\ UNCHANGED <<ingestVars, hand, queue, shed, flushed, wait, links, published>>

-------------------------------------------------------------------------------
(* The main loop and _handle_result. *)

\* The pipeline returns a result; it gets its timestamp and nonce.
TakeResult(r) ==
  /\ pc = "idle"
  /\ \A q \in Result : q < r => q \in Captured
  /\ Capture(r)
  /\ pc' = "probe" /\ hand' = <<r>>
  /\ UNCHANGED <<store, flushed, wait, links, published>>

\* is_connected, then send_result over MQTT: publish() returns at once, reported as sent.
PublishResult ==
  /\ pc = "probe" /\ mqtt
  /\ published' = published \cup {hand[1]}
  /\ BeginFlush
  /\ UNCHANGED <<ingestVars, wait, links>>

\* is_connected, then send_result over REST.
PostResult(s) ==
  /\ pc = "probe" /\ online /\ ~mqtt
  /\ Post(s, "result", hand)
  /\ wait' = s /\ pc' = "post"
  /\ UNCHANGED <<clock, stamp, hand, store, flushed, links, published>>

\* Not connected, or the connection fails before the request is sent.
StoreResult ==
  /\ pc = "probe" /\ ~online
  /\ Enqueue(hand[1])
  /\ UNCHANGED <<ingestVars, flushed, wait, links, published>>

\* The reply the device waits for arrives.
Reply(status) ==
  /\ wait # NoSlot /\ online
  /\ st[wait] = status
  /\ Release(wait)
  /\ wait' = NoSlot

\* The device stops waiting, by timeout or broken connection; the handler goes on.
GiveUp ==
  /\ wait # NoSlot
  /\ wait' = NoSlot
  /\ UNCHANGED <<dbVars, lastCleanup, reqVars, history>>

PostAccepted ==
  /\ pc = "post"
  /\ Reply("ok")
  /\ BeginFlush
  /\ UNCHANGED <<clock, stamp, links, published>>

PostFailed ==
  /\ pc = "post"
  /\ Reply("err") \/ GiveUp
  /\ Enqueue(hand[1])
  /\ UNCHANGED <<clock, stamp, flushed, links, published>>

-------------------------------------------------------------------------------
(* flush: one batch after the other until the queue is empty or a batch fails. *)

PostBatch(s) ==
  /\ pc = "flush" /\ wait = NoSlot /\ online
  /\ Post(s, "batch", hand)
  /\ wait' = s
  /\ UNCHANGED <<clock, stamp, pc, hand, store, flushed, links, published>>

BatchAccepted ==
  /\ pc = "flush"
  /\ Reply("ok")
  /\ flushed' = TRUE
  /\ IF queue = <<>> THEN BeginSave({}) /\ hand' = <<>> /\ UNCHANGED queue
                     ELSE PopBatch /\ UNCHANGED <<disk, apart, shed>>
  /\ UNCHANGED <<clock, stamp, links, published>>

\* send_batch returns False: refused, timed out, or no connection at all.
BatchFails ==
  /\ pc = "flush"
  /\ \/ Reply("err")
     \/ GiveUp
     \/ wait = NoSlot /\ ~online /\ UNCHANGED <<dbVars, lastCleanup, reqVars, history, wait>>
  /\ UNCHANGED <<clock, stamp, flushed, links, published>>

\* The batch goes back to the front.
PutBack == queue' = hand \o queue /\ hand' = <<>>

\* Mutant: the failed batch is dropped.
BatchFailedDrops ==
  /\ BatchFails
  /\ hand' = <<>> /\ BeginSave({})
  /\ UNCHANGED queue

\* Mutant: the failed batch is tried again at once.
BatchFailedRetries == BatchFails /\ UNCHANGED <<pc, hand, store>>

\* Mutant: flush returns at the failed batch, before it saves what earlier ones changed.
BatchFailedUnsaved == BatchFails /\ PutBack /\ pc' = "idle" /\ UNCHANGED <<disk, apart, shed>>

\* The file is rewritten only if an earlier batch was sent.
BatchFailed ==
  /\ BatchFails
  /\ PutBack
  /\ IF flushed THEN BeginSave({}) ELSE pc' = "idle" /\ UNCHANGED <<disk, apart, shed>>

-------------------------------------------------------------------------------
(* The process ends and starts again; the links come and go. *)

Halt ==
  /\ pc # "down"
  /\ pc' = "down"
  /\ hand' = <<>> /\ queue' = <<>> /\ wait' = NoSlot /\ flushed' = FALSE
  /\ mqtt' = FALSE /\ apart' = FALSE /\ shed' = {}
  /\ UNCHANGED <<ingestVars, online, published>>

\* SIGKILL or power loss. A save under way leaves the lines written so far.
Kill ==
  /\ Halt
  /\ IF pc = "save" THEN \E k \in 0..Len(queue) : disk' = SubSeq(queue, 1, k)
                    ELSE UNCHANGED disk

\* SIGTERM or SIGINT: _shutdown saves the queue as it stands, as well as the disk lets it,
\* and exits; what the interrupted thread holds in its local variables is in no queue.
Shutdown ==
  /\ Halt
  /\ \/ disk' = queue
     \/ DiskMayFail /\ UNCHANGED disk
     \/ DiskMayFail /\ \E k \in 0..(Len(queue) - 1) : disk' = SubSeq(queue, 1, k)

\* Mutant: _load puts every line in front.
RestartReversed ==
  /\ pc = "down"
  /\ pc' = "idle" /\ queue' = Reverse(disk)
  /\ UNCHANGED <<ingestVars, hand, disk, apart, shed, flushed, wait, links, published>>

\* OfflineStore.__init__ loads the file up to its first torn line. A read that raises, at
\* once or later, is logged and dropped: the rest stays in the file until the next save.
Restart ==
  /\ pc = "down"
  /\ pc' = "idle"
  /\ \/ queue' = disk /\ UNCHANGED <<apart, shed>>
     \/ /\ DiskMayFail
        /\ \E k \in 0..(Len(disk) - 1) : queue' = SubSeq(disk, 1, k)
        /\ apart' = TRUE
        /\ shed' = ToSet(disk) \ ToSet(queue')
  /\ UNCHANGED <<ingestVars, hand, disk, flushed, wait, links, published>>

\* on_connect and on_disconnect, on the MQTT client's thread.
MqttCallback ==
  /\ MqttInUse /\ pc # "down"
  /\ mqtt' = ~mqtt
  /\ UNCHANGED <<ingestVars, pc, hand, store, flushed, wait, online, published>>

LinkChange ==
  /\ online' = ~online
  /\ UNCHANGED <<ingestVars, pc, hand, store, flushed, wait, mqtt, published>>

\* What the thread does of itself once it has a result in hand.
Work ==
  \/ PublishResult \/ StoreResult
  \/ \E s \in Slot : PostResult(s) \/ PostBatch(s)
  \/ PostAccepted \/ PostFailed
  \/ BatchAccepted \/ BatchFailed
  \/ EndSave \/ FailSave

Device == Work \/ \E r \in Result : TakeResult(r)

\* The reply to a request the device no longer waits for goes nowhere.
OrphanReply(s) == s # wait /\ Hangup(s) /\ UNCHANGED edgeVars

Environment ==
  \/ Kill \/ Shutdown \/ Restart
  \/ MqttCallback \/ LinkChange
  \/ \E s \in Slot : OrphanReply(s)

EdgeNext ==
  \/ Device
  \/ Environment
  \/ Backend /\ UNCHANGED edgeVars

EdgeSpec == EdgeInit /\ [][EdgeNext]_vars

-------------------------------------------------------------------------------
(* Properties *)

\* The device holds one result from its capture to its first store or flush, a batch while
\* it flushes, and nothing in between.
DeviceOK ==
  /\ pc \in Pc
  /\ hand \in Seq(Result) /\ queue \in Seq(Result) /\ disk \in Seq(Result)
  /\ apart \in BOOLEAN /\ shed \subseteq Result /\ flushed \in BOOLEAN
  /\ wait \in Slot \cup {NoSlot}
  /\ online \in BOOLEAN /\ mqtt \in BOOLEAN
  /\ published \subseteq Result
  /\ pc \in {"probe", "post"} => Len(hand) = 1
  /\ pc \in {"idle", "save", "down"} => hand = <<>>
  /\ pc = "flush" => hand # <<>>
  /\ pc = "down" => queue = <<>> /\ ~apart /\ shed = {}

EdgeTypeOK == TypeOK /\ DeviceOK

\* What the store is responsible for: its queue, behind the batch flush has popped.
Stored == IF pc = "flush" THEN hand \o queue ELSE queue

InOrder(results) ==
  /\ \A i, j \in 1..Len(results) : i < j => results[i] < results[j]
  /\ Len(results) <= QueueMax

\* The store is in capture order without repetition, through overflow, failed flushes and
\* restarts, and never above its limit: a failed batch goes back to the front, in order.
StoreInOrder == InOrder(Stored)

\* Outside a save, and unless the last save or load raised, the file ends with everything
\* the store is responsible for, in the same order (before it, while batches go out, the
\* results already sent): a kill there loses nothing queued. After a save that raised, a
\* kill may lose what was queued since the last good one, until the next good one.
DiskCoversStore ==
  pc \notin {"save", "down"} /\ ~apart =>
    /\ IsSuffix(Stored, disk)
    /\ pc # "flush" => disk = queue

\* The inductive invariant behind these: only captured results are on the device, and they
\* were captured in order; a request the device waits for is its own and has not left its
\* slot; the result in hand is newer than the queue; the file, whatever a kill leaves of
\* it, is in order, and is still the whole store until a batch has been sent.
CapturedInOrder ==
  /\ \A r \in Result : r \in ToSet(hand) \cup ToSet(queue) \cup ToSet(disk) => r \in Captured
  /\ \A q, r \in Result : r \in Captured /\ q < r => q \in Captured
WaitsForOwn ==
  /\ pc = "post" => wait # NoSlot
  /\ wait # NoSlot => pc \in {"post", "flush"} /\ st[wait] # "free" /\ payload[wait] = hand
NewestInHand == pc \in {"probe", "post"} => \A i \in 1..Len(queue) : queue[i] < hand[1]
FileInOrder == InOrder(disk)
FileUntilSent == pc = "flush" /\ ~flushed /\ ~apart => disk = Stored
DeviceInv ==
  /\ EdgeTypeOK /\ CapturedInOrder /\ WaitsForOwn /\ NewestInHand
  /\ StoreInOrder /\ FileInOrder /\ FileUntilSent /\ DiskCoversStore

\* With the backend's replies: while the process runs, the file holds nothing but the store,
\* what the backend has taken, and what the store had to let go of before a save that
\* raised; and only captured results are taken.
FileHeldOrTaken == pc # "down" => ToSet(disk) \subseteq ToSet(Stored) \cup seen \cup shed
EdgeInv == DeviceInv /\ FileHeldOrTaken /\ TakenWereCaptured

\* The device forgets a result, in memory and on disk, only when the backend has taken its
\* nonce; otherwise it was handed to MQTT, is or was dropped as the oldest in a full queue,
\* could not be read by a load that raised, or went with the process.
Holds(r) == r \in ToSet(hand) \cup ToSet(queue) \cup ToSet(disk)
Overflows(r) == Full /\ r = queue[1]
ForgetsOnlyTaken ==
  [][\A r \in Result : Holds(r) /\ ~Holds(r)' =>
       r \in seen \/ r \in published' \/ r \in shed \/ Overflows(r) \/ pc' = "down"]_vars

\* The device and the backend together implement Custody: a result stays deliverable
\* until the backend takes it or its last holder drops it, and then for ever.
Stage == [r \in Result |->
  IF stamp[r] = Uncaptured THEN "new"
  ELSE IF r \in seen THEN "taken"
  ELSE IF Holds(r) \/ \E s \in Slot : Carries(s, r) THEN "held"
  ELSE "lost"]
Delivery == INSTANCE Custody WITH stage <- Stage, logged <- {l.nonce : l \in LogRows}
ImplementsCustody == Delivery!Spec

\* _shutdown is called graceful: what the store is responsible for is on disk after it.
ShutdownKeepsStore == [][Shutdown => \A i \in 1..Len(Stored) : Stored[i] \in ToSet(disk')]_vars

\* flush always comes to an end, whatever fails, since a failed batch breaks the loop.
FlushEnds == pc = "flush" ~> pc # "flush"
===============================================================================
