---------------------------- MODULE AndroidDelivery ----------------------------
(***************************************************************************)
(* The Android edge client (SyncManager.kt, FrasDatabase.kt) in front of   *)
(* the backend of module Ingest. Every face seen is sent by a coroutine of *)
(* its own, under a nonce of its own; what could not be sent is inserted   *)
(* into the Room database under a second nonce, and a periodic flush sends *)
(* all pending rows in one batch. Flushes are not waited for, so they may  *)
(* overlap; stop() and the end of the process cancel every coroutine.      *)
(***************************************************************************)
EXTENDS Ingest, SequencesExt

CONSTANTS
  Sighting,   \* faces seen by the camera, each a call of sendResult
  Flush,      \* bound: flushes under way at one time
  NoSlot      \* no request outstanding

ASSUME PhoneAssumption == Result = Sighting \X {"sent", "queued"} /\ NoSlot \notin Slot

VARIABLES
  up,          \* the SyncManager's scope is active
  registering, \* registerDevice's coroutine is under way
  send,        \* send[x]: where the coroutines of sendResult(x) stand
  sendSlot,    \* sendSlot[x]: slot of its outstanding request
  row,         \* row[x]: the offline_results row of x
  flush,       \* flush[f]: where flush f stands
  batch,       \* batch[f]: the rows it has read and not yet marked
  flushSlot    \* flushSlot[f]: slot of its outstanding request

\* What has happened, for the properties: no action reads it.
VARIABLE dropped  \* faces whose coroutine was cancelled or whose row Room refused

sendVars == <<send, sendSlot, dropped>>
flushVars == <<flush, batch, flushSlot>>
phoneVars == <<up, registering, sendVars, row, flushVars>>
vars == <<ingestVars, phoneVars>>

Sent(x) == <<x, "sent">>
Queued(x) == <<x, "queued">>
Pending == {x \in Sighting : row[x] = "pending"}

PhoneInit ==
  /\ IngestInit
  /\ up = FALSE /\ registering = FALSE
  /\ send = [x \in Sighting |-> "new"]
  /\ sendSlot = [x \in Sighting |-> NoSlot]
  /\ row = [x \in Sighting |-> "none"]
  /\ flush = [f \in Flush |-> "off"]
  /\ batch = [f \in Flush |-> <<>>]
  /\ flushSlot = [f \in Flush |-> NoSlot]
  /\ dropped = {}

-------------------------------------------------------------------------------
(* sendResult and queueOffline. *)

\* processFrame hands over a face of sufficient quality; the body gets nonce and time.
See(x) == up /\ send[x] = "new" /\ stamp' = [stamp EXCEPT ![Sent(x)] = clock]

PostSighting(x, s) ==
  /\ See(x)
  /\ Post(s, "result", <<Sent(x)>>)
  /\ send' = [send EXCEPT ![x] = "posted"]
  /\ sendSlot' = [sendSlot EXCEPT ![x] = s]
  /\ UNCHANGED <<clock, up, registering, row, flushVars, dropped>>

\* No connection: the exception starts queueOffline's coroutine.
SightingUnsent(x) ==
  /\ See(x)
  /\ send' = [send EXCEPT ![x] = "queueing"]
  /\ UNCHANGED <<clock, dbVars, lastCleanup, reqVars, history>>
  /\ UNCHANGED <<up, registering, sendSlot, row, flushVars, dropped>>

\* The request of slot s is answered, or nobody waits for its answer any longer.
Answered(s, status) == s # NoSlot /\ st[s] = status /\ Release(s)
Abandoned(s) == s # NoSlot /\ UNCHANGED <<dbVars, lastCleanup, reqVars, history>>

SightingAccepted(x) ==
  /\ send[x] = "posted"
  /\ Answered(sendSlot[x], "ok")
  /\ send' = [send EXCEPT ![x] = "over"]
  /\ sendSlot' = [sendSlot EXCEPT ![x] = NoSlot]
  /\ UNCHANGED <<clock, stamp, up, registering, row, flushVars, dropped>>

\* So does any other answer than a success.
SightingRefused(x) ==
  /\ send[x] = "posted"
  /\ Answered(sendSlot[x], "err")
  /\ send' = [send EXCEPT ![x] = "queueing"]
  /\ sendSlot' = [sendSlot EXCEPT ![x] = NoSlot]
  /\ UNCHANGED <<clock, stamp, up, registering, row, flushVars, dropped>>

\* And so does a timeout or a reply that is lost or unreadable.
SightingFails(x) ==
  /\ send[x] = "posted" /\ Abandoned(sendSlot[x])
  /\ send' = [send EXCEPT ![x] = "queueing"]
  /\ sendSlot' = [sendSlot EXCEPT ![x] = NoSlot]
  /\ UNCHANGED <<clock, stamp, up, registering, row, flushVars, dropped>>

\* The row gets a nonce and a time of its own.
InsertRow(x) ==
  /\ send[x] = "queueing"
  /\ Capture(Queued(x))
  /\ row' = [row EXCEPT ![x] = "pending"]
  /\ send' = [send EXCEPT ![x] = "over"]
  /\ UNCHANGED <<up, registering, sendSlot, flushVars, dropped>>

\* Room raises: logged and dropped.
InsertFails(x) ==
  /\ send[x] = "queueing"
  /\ send' = [send EXCEPT ![x] = "over"]
  /\ dropped' = dropped \cup {x}
  /\ UNCHANGED <<ingestVars, up, registering, sendSlot, row, flushVars>>

-------------------------------------------------------------------------------
(* startPeriodicSync and flushOfflineQueue. *)

\* The loop launches a flush, which reads the pending rows in the order of their times;
\* the query says nothing of rows of one time.
ReadPending(f) ==
  /\ up /\ flush[f] = "off" /\ Pending # {}
  /\ flush' = [flush EXCEPT ![f] = "ready"]
  /\ \E b \in SetToSeqs(Pending) :
       /\ \A i, j \in 1..Len(b) : i < j => stamp[Queued(b[i])] <= stamp[Queued(b[j])]
       /\ batch' = [batch EXCEPT ![f] = b]
  /\ UNCHANGED <<ingestVars, up, registering, sendVars, row, flushSlot>>

\* The body of /api/edge/sync.
Body(b) == [i \in 1..Len(b) |-> Queued(b[i])]

PostBatch(f, s) ==
  /\ flush[f] = "ready"
  /\ Post(s, "batch", Body(batch[f]))
  /\ flush' = [flush EXCEPT ![f] = "posted"]
  /\ flushSlot' = [flushSlot EXCEPT ![f] = s]
  /\ UNCHANGED <<clock, stamp, up, registering, sendVars, row, batch>>

BatchAccepted(f) ==
  /\ flush[f] = "posted"
  /\ Answered(flushSlot[f], "ok")
  /\ flush' = [flush EXCEPT ![f] = "marking"]
  /\ flushSlot' = [flushSlot EXCEPT ![f] = NoSlot]
  /\ UNCHANGED <<clock, stamp, up, registering, sendVars, row, batch>>

EndFlush(f) ==
  /\ flush' = [flush EXCEPT ![f] = "off"]
  /\ batch' = [batch EXCEPT ![f] = <<>>]
  /\ flushSlot' = [flushSlot EXCEPT ![f] = NoSlot]

\* The answer is not a success: the rows stay pending.
BatchRefused(f) ==
  /\ flush[f] = "posted"
  /\ Answered(flushSlot[f], "err")
  /\ EndFlush(f)
  /\ UNCHANGED <<clock, stamp, up, registering, sendVars, row>>

\* No connection, a timeout, or a reply that is lost or unreadable.
Interrupted(f) ==
  /\ \/ flush[f] = "ready" /\ UNCHANGED <<dbVars, lastCleanup, reqVars, history>>
     \/ flush[f] = "posted" /\ Abandoned(flushSlot[f])

\* Mutant: the rows are marked whatever became of the request.
BatchFailsMarks(f) ==
  /\ Interrupted(f)
  /\ flush' = [flush EXCEPT ![f] = "marking"]
  /\ flushSlot' = [flushSlot EXCEPT ![f] = NoSlot]
  /\ UNCHANGED <<clock, stamp, up, registering, sendVars, row, batch>>

\* Mutant: a failed flush never says that it is over.
BatchFailsStuck(f) ==
  /\ Interrupted(f)
  /\ flush' = [flush EXCEPT ![f] = "posted"]
  /\ flushSlot' = [flushSlot EXCEPT ![f] = NoSlot]
  /\ UNCHANGED <<clock, stamp, up, registering, sendVars, row, batch>>

BatchFails(f) ==
  /\ Interrupted(f)
  /\ EndFlush(f)
  /\ UNCHANGED <<clock, stamp, up, registering, sendVars, row>>

\* One UPDATE for every row of the batch.
MarkSynced(f) ==
  /\ flush[f] = "marking"
  /\ row' = [row EXCEPT ![Head(batch[f])] = "synced"]
  /\ \/ Len(batch[f]) = 1 /\ EndFlush(f)
     \/ Len(batch[f]) > 1 /\ batch' = [batch EXCEPT ![f] = Tail(@)] /\ UNCHANGED <<flush, flushSlot>>
  /\ UNCHANGED <<ingestVars, up, registering, sendVars>>

-------------------------------------------------------------------------------
(* The life of the SyncManager. *)

\* start(): registration is tried once, failed or not.
Start ==
  /\ ~up
  /\ up' = TRUE /\ registering' = TRUE
  /\ UNCHANGED <<ingestVars, sendVars, row, flushVars>>

Register ==
  /\ registering /\ registering' = FALSE
  /\ RegisterDevice
  /\ UNCHANGED <<up, sendVars, row, flushVars>>

RegistrationFails ==
  /\ registering /\ registering' = FALSE
  /\ UNCHANGED <<ingestVars, up, sendVars, row, flushVars>>

\* stop() from the configuration dialog or onDestroy, or the end of the process: every
\* coroutine is cancelled. A cancelled send still calls queueOffline, whose coroutine the
\* cancelled scope does not start. The Room database stays.
Stop ==
  /\ up
  /\ up' = FALSE /\ registering' = FALSE
  /\ send' = [x \in Sighting |-> IF send[x] = "new" THEN "new" ELSE "over"]
  /\ sendSlot' = [x \in Sighting |-> NoSlot]
  /\ dropped' = dropped \cup {x \in Sighting : send[x] \in {"posted", "queueing"}}
  /\ flush' = [f \in Flush |-> "off"]
  /\ batch' = [f \in Flush |-> <<>>]
  /\ flushSlot' = [f \in Flush |-> NoSlot]
  /\ UNCHANGED <<ingestVars, row>>

\* The reply to a request nobody waits for any more goes nowhere.
OrphanReply(s) ==
  /\ \A x \in Sighting : sendSlot[x] # s
  /\ \A f \in Flush : flushSlot[f] # s
  /\ Hangup(s)
  /\ UNCHANGED phoneVars

\* What the coroutines do by themselves once started.
SendWork(x) ==
  SightingAccepted(x) \/ SightingRefused(x) \/ InsertRow(x)

FlushWork(f) ==
  \/ ReadPending(f)
  \/ \E s \in Slot : PostBatch(f, s)
  \/ BatchAccepted(f) \/ BatchRefused(f) \/ MarkSynced(f)

Fault ==
  \/ \E x \in Sighting : SightingUnsent(x) \/ SightingFails(x) \/ InsertFails(x)
  \/ \E f \in Flush : BatchFails(f)
  \/ Stop \/ RegistrationFails

\* The backend, with no one but the phone to register it.
Served ==
  \/ \E s \in Slot : Handle(s) \/ LoseRequest(s)
  \/ \E w \in Worker : WorkerDies(w)
  \/ Tick

PhoneNext ==
  \/ \E x \in Sighting, s \in Slot : PostSighting(x, s)
  \/ \E x \in Sighting : SendWork(x)
  \/ \E f \in Flush : FlushWork(f)
  \/ Fault
  \/ Start \/ Register
  \/ \E s \in Slot : OrphanReply(s)
  \/ Served /\ UNCHANGED phoneVars

\* Dispatchers.IO keeps the coroutines going, the loop launches flushes for ever, gunicorn
\* runs the handlers. Nothing is assumed of faults, faces, the user or registration.
PhoneSpec ==
  /\ PhoneInit /\ [][PhoneNext]_vars
  /\ \A x \in Sighting : WF_vars(SendWork(x))
  /\ \A f \in Flush : WF_vars(FlushWork(f))
  /\ \A s \in Slot : WF_vars((Handle(s) /\ UNCHANGED phoneVars) \/ OrphanReply(s))

-------------------------------------------------------------------------------
(* Properties *)

\* Every variable has its type, and the coroutines have what their steps need.
PhoneTypeOK ==
  /\ TypeOK
  /\ up \in BOOLEAN /\ registering \in BOOLEAN
  /\ send \in [Sighting -> {"new", "posted", "queueing", "over"}]
  /\ sendSlot \in [Sighting -> Slot \cup {NoSlot}]
  /\ row \in [Sighting -> {"none", "pending", "synced"}]
  /\ dropped \subseteq Sighting
  /\ IsFiniteSet({x \in Sighting : row[x] # "none"})
  /\ flush \in [Flush -> {"off", "ready", "posted", "marking"}]
  /\ batch \in [Flush -> Seq(Sighting)]
  /\ flushSlot \in [Flush -> Slot \cup {NoSlot}]
  /\ \A x \in Sighting : sendSlot[x] # NoSlot <=> send[x] = "posted"
  /\ \A f \in Flush : flushSlot[f] # NoSlot <=> flush[f] = "posted"
  /\ \A f \in Flush : batch[f] = <<>> <=> flush[f] = "off"

\* Who waits for an answer waits for its own: the slot handles its request, and nobody
\* else waits there.
OwnRequests ==
  /\ \A x \in Sighting : sendSlot[x] # NoSlot =>
       /\ st[sendSlot[x]] # "free" /\ payload[sendSlot[x]] = <<Sent(x)>>
       /\ \A y \in Sighting : sendSlot[y] = sendSlot[x] => y = x
  /\ \A f \in Flush : flushSlot[f] # NoSlot =>
       /\ st[flushSlot[f]] # "free" /\ payload[flushSlot[f]] = Body(batch[f])
       /\ \A g \in Flush : flushSlot[g] = flushSlot[f] => g = f
       /\ \A x \in Sighting : sendSlot[x] # flushSlot[f]

\* A nonce has a time exactly when it was given out: the first by sendResult, the second
\* with the row, which only a send that is over has left behind.
NoncesGivenOut ==
  /\ \A x \in Sighting :
       /\ Sent(x) \notin Captured <=> send[x] = "new"
       /\ Queued(x) \notin Captured <=> row[x] = "none"
       /\ row[x] # "none" => send[x] = "over"
  /\ TakenWereCaptured

\* A row is marked synced only when the backend has taken its nonce, however many flushes
\* overlap and whatever part of a batch the backend skipped; a flush holds nothing but
\* rows, and marks none that is not taken.
SyncedIsTaken == \A x \in Sighting : row[x] = "synced" => Queued(x) \in seen
BatchesAreRows ==
  \A f \in Flush : \A i \in 1..Len(batch[f]) :
    /\ row[batch[f][i]] # "none"
    /\ flush[f] = "marking" => Queued(batch[f][i]) \in seen

\* A face whose send is over is taken under its first nonce or has a row of its own,
\* which is pending or taken, unless its coroutine was cancelled or Room refused the row.
FaceIsKept ==
  \A x \in Sighting : send[x] = "over" => Sent(x) \in seen \/ row[x] # "none" \/ x \in dropped

\* The phone's books are in order: who waits for an answer has a request of its own, what
\* the database calls synced the backend has taken, and no face falls between send and
\* queue (sendResult, queueOffline, flushOfflineQueue).
PhoneInv ==
  /\ PhoneTypeOK /\ OwnRequests /\ NoncesGivenOut
  /\ SyncedIsTaken /\ BatchesAreRows /\ FaceIsKept

\* Phone and backend together implement Custody for each nonce given out: it can be
\* delivered until the backend takes it, or is lost with the last request or row that
\* carries it, and it is taken and logged once. (A face has two nonces, which the backend
\* cannot know for one face: it may be taken and logged under both.)
Held(r) == (r[2] = "queued" /\ row[r[1]] = "pending") \/ \E s \in Slot : Carries(s, r)
Stage == [r \in Result |->
  IF r \notin Captured THEN "new"
  ELSE IF r \in seen THEN "taken"
  ELSE IF Held(r) THEN "held"
  ELSE "lost"]
Delivery == INSTANCE Custody WITH stage <- Stage, logged <- {l.nonce : l \in LogRows}
PhoneCustody == Delivery!Spec

\* Once nothing fails any more and the app stays up, every row in the Room database is
\* synced in the end and none is left pending, whatever failed before: a batch whose first
\* nonces were taken by a request that never answered goes through at a later flush.
NothingFails == ~Fault /\ ~(\E w \in Worker : WorkerDies(w)) /\ ~(\E s \in Slot : LoseRequest(s))
Calm == <>[]up /\ <>[][NothingFails]_vars
RowsAreSynced == Calm => <>[](Pending = {})
===============================================================================
