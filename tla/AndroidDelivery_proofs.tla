------------------------- MODULE AndroidDelivery_proofs -------------------------
(***************************************************************************)
(* Proofs about module AndroidDelivery, for any number of faces, flushes   *)
(* and requests and any backend: the phone is one of the open clients of   *)
(* Ingest_proofs, its books stay in order, and with the backend it         *)
(* implements Custody.                                                     *)
(***************************************************************************)
EXTENDS AndroidDelivery, Ingest_proofs, FiniteSetTheorems

USE SubjectAssumption, WorkerAssumption, TimeAssumption, DatabaseAssumption, PhoneAssumption

-------------------------------------------------------------------------------
(* Nonces and bodies *)

LEMMA Nonces ==
  /\ \A x \in Sighting : Sent(x) \in Result /\ Queued(x) \in Result
  /\ \A x, y : Sent(x) # Queued(y)
  /\ \A x, y : Sent(x) = Sent(y) => x = y
  /\ \A x, y : Queued(x) = Queued(y) => x = y
  /\ \A r \in Result : \E x \in Sighting : r = Sent(x) \/ r = Queued(x)
  BY DEF Sent, Queued

LEMMA BodyElements ==
  ASSUME NEW b \in Seq(Sighting)
  PROVE  /\ Body(b) \in Seq(Result) /\ Len(Body(b)) = Len(b) /\ Len(b) \in Nat
         /\ \A i \in 1..Len(b) : b[i] \in Sighting /\ Body(b)[i] = Queued(b[i])
         /\ b # <<>> => Body(b) # <<>>
<1>1. Len(b) \in Nat /\ \A i \in 1..Len(b) : b[i] \in Sighting
  OBVIOUS
<1>2. \A i \in 1..Len(b) : Queued(b[i]) \in Result
  BY <1>1, Nonces
<1>3. Body(b) \in Seq(Result) /\ Len(Body(b)) = Len(b)
  BY <1>1, <1>2 DEF Body
<1>4. b # <<>> => Len(b) # 0
  OBVIOUS
<1>5. Len(<<>>) = 0
  OBVIOUS
<1>. QED  BY <1>1, <1>3, <1>4, <1>5 DEF Body

LEMMA BatchRest ==
  ASSUME NEW b \in Seq(Sighting), b # <<>>
  PROVE  /\ Len(b) \in Nat /\ 1 \in 1..Len(b)
         /\ Head(b) = b[1] /\ Head(b) \in Sighting
         /\ Tail(b) \in Seq(Sighting)
         /\ \A i \in 1..Len(Tail(b)) : i + 1 \in 1..Len(b) /\ Tail(b)[i] = b[i + 1]
         /\ Len(b) > 1 => Tail(b) # <<>>
<1>1. Len(b) \in Nat /\ Len(b) > 0 /\ b[1] \in Sighting
  OBVIOUS
<1>2. Head(b) = b[1]
  OBVIOUS
<1>. DEFINE rest == Tail(b)
<1>3. /\ rest \in Seq(Sighting) /\ Len(rest) = Len(b) - 1
      /\ \A i \in 1..Len(b) - 1 : rest[i] = b[i + 1]
  BY <1>1
<1>4. Len(<<>>) = 0
  OBVIOUS
<1>. HIDE DEF rest
<1>5. rest = <<>> => Len(b) = 1
  <2>1. rest = <<>> => Len(rest) = 0
    BY <1>4
  <2>2. Len(rest) = Len(b) - 1
    BY <1>3
  <2>. QED  BY <1>1, <2>1, <2>2
<1>6. \A i \in 1..Len(rest) : i + 1 \in 1..Len(b) /\ rest[i] = b[i + 1]
  BY <1>1, <1>3
<1>7. rest \in Seq(Sighting) /\ (Len(b) > 1 => rest # <<>>)
  BY <1>1, <1>3, <1>5
<1>8. /\ Tail(b) \in Seq(Sighting)
      /\ \A i \in 1..Len(Tail(b)) : i + 1 \in 1..Len(b) /\ Tail(b)[i] = b[i + 1]
      /\ Len(b) > 1 => Tail(b) # <<>>
  BY <1>6, <1>7, Zenon DEF rest
<1>. QED  BY <1>1, <1>2, <1>8

\* A flush reads rows, and all of them.
LEMMA ReadRows ==
  ASSUME IsFiniteSet(Pending), Pending # {}, NEW b \in SetToSeqs(Pending)
  PROVE  /\ b \in Seq(Sighting) /\ b # <<>>
         /\ \A i \in 1..Len(b) : b[i] \in Pending
<1>1. Cardinality(Pending) \in Nat /\ Cardinality(Pending) # 0
  BY FS_CardinalityType, FS_EmptySet
<1>2. b \in [1..Cardinality(Pending) -> Pending]
  BY DEF SetToSeqs
<1>3. Pending \subseteq Sighting
  BY DEF Pending
<1>4. b \in Seq(Sighting) /\ Len(b) = Cardinality(Pending)
  BY <1>1, <1>2, <1>3
<1>5. Len(<<>>) = 0
  OBVIOUS
<1>. QED  BY <1>1, <1>2, <1>4, <1>5

-------------------------------------------------------------------------------
(* The phone is one of the open clients: what Ingest_proofs shows holds with it. *)

\* A face seen is given its time as its coroutine starts.
LEMMA SeeCaptures ==
  ASSUME TypeOK, NoncesGivenOut, NEW x \in Sighting, See(x)
  PROVE  /\ Sent(x) \in Result /\ stamp[Sent(x)] = Uncaptured
         /\ Captured' = Captured \cup {Sent(x)}
<1>1. Sent(x) \in Result /\ send[x] = "new" /\ stamp' = [stamp EXCEPT ![Sent(x)] = clock]
  BY Nonces DEF See
<1>2. stamp[Sent(x)] = Uncaptured
  BY <1>1 DEF NoncesGivenOut, Captured
<1>3. clock # Uncaptured /\ stamp \in [Result -> Time \cup {Uncaptured}]
  BY DEF TypeOK, TablesOK, Time, Uncaptured
<1>4. \A r \in Result : stamp'[r] = IF r = Sent(x) THEN clock ELSE stamp[r]
  BY <1>1, <1>3
<1>. QED  BY <1>1, <1>2, <1>3, <1>4 DEF Captured

LEMMA InsertCaptures ==
  ASSUME TypeOK, NEW x \in Sighting, InsertRow(x)
  PROVE  Captured' = Captured \cup {Queued(x)}
<1>1. Queued(x) \in Result /\ stamp' = [stamp EXCEPT ![Queued(x)] = clock]
  BY Nonces DEF InsertRow, Capture
<1>2. clock # Uncaptured /\ stamp \in [Result -> Time \cup {Uncaptured}]
  BY DEF TypeOK, TablesOK, Time, Uncaptured
<1>3. \A r \in Result : stamp'[r] = IF r = Queued(x) THEN clock ELSE stamp[r]
  BY <1>1, <1>2
<1>. QED  BY <1>1, <1>2, <1>3 DEF Captured

LEMMA PostSightingOffers ==
  ASSUME PhoneInv, NEW x \in Sighting, NEW s \in Slot, PostSighting(x, s)
  PROVE  Offer(s)
<1>1. /\ Sent(x) \in Result /\ stamp[Sent(x)] = Uncaptured
      /\ Captured' = Captured \cup {Sent(x)}
  BY SeeCaptures DEF PhoneInv, PhoneTypeOK, PostSighting
<1>2. /\ <<Sent(x)>> \in Payloads
      /\ \A i \in 1..Len(<<Sent(x)>>) : <<Sent(x)>>[i] \in Captured'
  <2>1. /\ Len(<<Sent(x)>>) = 1 /\ <<Sent(x)>>[1] = Sent(x) /\ <<Sent(x)>> \in Seq(Result)
        /\ <<Sent(x)>> # <<>>
    BY <1>1
  <2>. QED  BY <1>1, <2>1 DEF Payloads
<1>3. /\ Post(s, "result", <<Sent(x)>>) /\ clock' = clock
      /\ stamp' = [stamp EXCEPT ![Sent(x)] = clock]
  BY DEF PostSighting, See
<1>. QED  BY <1>1, <1>2, <1>3 DEF Offer

LEMMA PostBatchOffers ==
  ASSUME PhoneInv, NEW f \in Flush, NEW s \in Slot, PostBatch(f, s)
  PROVE  Offer(s)
<1>1. batch[f] \in Seq(Sighting) /\ batch[f] # <<>>
  BY DEF PhoneInv, PhoneTypeOK, PostBatch
<1>2. Body(batch[f]) \in Payloads
  BY <1>1, BodyElements DEF Payloads
<1>3. stamp' = stamp /\ clock' = clock /\ Post(s, "batch", Body(batch[f]))
  BY DEF PostBatch
<1>4. \A i \in 1..Len(Body(batch[f])) : Body(batch[f])[i] \in Captured'
  BY <1>1, <1>3, BodyElements DEF PhoneInv, BatchesAreRows, NoncesGivenOut, Captured
<1>. QED  BY <1>2, <1>3, <1>4 DEF Offer

LEMMA PhoneStepIsOpen == PhoneInv /\ [PhoneNext]_vars => [OpenNext]_ingestVars
<1>. SUFFICES ASSUME PhoneInv, [PhoneNext]_vars PROVE [OpenNext]_ingestVars
  OBVIOUS
<1>. USE DEF OpenNext
<1>1. ASSUME NEW x \in Sighting, SightingUnsent(x) PROVE Capture(Sent(x))
  <2>1. stamp[Sent(x)] = Uncaptured
    BY <1>1, SeeCaptures DEF SightingUnsent, PhoneInv, PhoneTypeOK
  <2>. QED  BY <1>1, <2>1 DEF SightingUnsent, See, Capture
<1>2. ASSUME NEW x \in Sighting, SightingAccepted(x) \/ SightingRefused(x)
      PROVE  \E s \in Slot : Hangup(s)
  BY <1>2 DEF SightingAccepted, SightingRefused, Answered, Hangup, PhoneInv, PhoneTypeOK
<1>3. ASSUME NEW f \in Flush, BatchAccepted(f) \/ BatchRefused(f)
      PROVE  \E s \in Slot : Hangup(s)
  BY <1>3 DEF BatchAccepted, BatchRefused, Answered, Hangup, PhoneInv, PhoneTypeOK
<1>4. ASSUME NEW x \in Sighting, InsertRow(x) PROVE Capture(Queued(x))
  BY <1>4 DEF InsertRow
<1>5. ASSUME NEW x \in Sighting, SightingFails(x) \/ InsertFails(x) PROVE UNCHANGED ingestVars
  BY <1>5 DEF SightingFails, InsertFails, Abandoned, ingestVars
<1>6. ASSUME NEW f \in Flush, ReadPending(f) \/ MarkSynced(f) \/ BatchFails(f)
      PROVE  UNCHANGED ingestVars
  BY <1>6 DEF ReadPending, MarkSynced, BatchFails, Interrupted, Abandoned, ingestVars
<1>7. CASE Start \/ Stop \/ RegistrationFails \/ UNCHANGED vars
  BY <1>7 DEF Start, Stop, RegistrationFails, vars
<1>8. CASE Register
  BY <1>8 DEF Register, Backend
<1>9. ASSUME NEW s \in Slot, OrphanReply(s) PROVE Hangup(s)
  BY <1>9 DEF OrphanReply
<1>10. Served => Backend
  BY DEF Served, Backend
<1>. QED  BY <1>1, <1>2, <1>3, <1>4, <1>5, <1>6, <1>7, <1>8, <1>9, <1>10, Nonces,
             PostSightingOffers, PostBatchOffers DEF PhoneNext, SendWork, FlushWork, Fault

-------------------------------------------------------------------------------
(* The phone's books. *)

LEMMA RowAdded ==
  ASSUME NEW S, IsFiniteSet(S), NEW T, NEW x, T = S \cup {x}
  PROVE  IsFiniteSet(T)
  BY FS_AddElement

\* The coroutines keep their types.
LEMMA PhoneTypesNext ==
  ASSUME PhoneInv, [PhoneNext]_vars
  PROVE  PhoneTypeOK'
<1>. USE DEF PhoneInv
<1>1. TypeOK'
  BY PhoneStepIsOpen, TypeNext DEF PhoneTypeOK
<1>2. ASSUME NEW x \in Sighting, NEW s \in Slot, PostSighting(x, s) PROVE PhoneTypeOK'
  BY <1>1, <1>2 DEF PostSighting, See, PhoneTypeOK, flushVars
<1>3. ASSUME NEW x \in Sighting, SightingUnsent(x) PROVE PhoneTypeOK'
  BY <1>1, <1>3 DEF SightingUnsent, See, PhoneTypeOK, flushVars
<1>15. ASSUME NEW x \in Sighting, SightingAccepted(x) \/ SightingRefused(x) \/ SightingFails(x)
      PROVE  PhoneTypeOK'
  <2>1. /\ sendSlot' = [sendSlot EXCEPT ![x] = NoSlot]
        /\ \E v \in {"queueing", "over"} : send' = [send EXCEPT ![x] = v]
        /\ UNCHANGED <<up, registering, row, flushVars, dropped>>
    BY <1>15 DEF SightingAccepted, SightingRefused, SightingFails
  <2>2. PICK v \in {"queueing", "over"} : send' = [send EXCEPT ![x] = v]
    BY <2>1
  <2>. QED  BY <1>1, <2>1, <2>2 DEF PhoneTypeOK, flushVars
<1>4. ASSUME NEW x \in Sighting, InsertRow(x) PROVE PhoneTypeOK'
  <2>1. {y \in Sighting : row'[y] # "none"} = {y \in Sighting : row[y] # "none"} \cup {x}
    BY <1>4 DEF InsertRow, PhoneTypeOK
  <2>2. IsFiniteSet({y \in Sighting : row'[y] # "none"})
    BY <2>1, RowAdded DEF PhoneTypeOK
  <2>. QED  BY <1>1, <1>4, <2>2 DEF InsertRow, PhoneTypeOK, flushVars
<1>5. ASSUME NEW x \in Sighting, InsertFails(x) PROVE PhoneTypeOK'
  BY <1>1, <1>5 DEF InsertFails, PhoneTypeOK, flushVars
<1>6. ASSUME NEW f \in Flush, ReadPending(f) PROVE PhoneTypeOK'
  <2>1. PICK b \in SetToSeqs(Pending) : batch' = [batch EXCEPT ![f] = b]
    BY <1>6 DEF ReadPending
  <2>2. IsFiniteSet(Pending)
    <3>1. Pending \subseteq {x \in Sighting : row[x] # "none"}
      BY DEF Pending
    <3>. QED  BY <3>1, FS_Subset DEF PhoneTypeOK
  <2>3. b \in Seq(Sighting) /\ b # <<>>
    BY <1>6, <2>1, <2>2, ReadRows DEF ReadPending
  <2>. QED  BY <1>1, <1>6, <2>1, <2>3 DEF ReadPending, PhoneTypeOK, sendVars
<1>7. ASSUME NEW f \in Flush, NEW s \in Slot, PostBatch(f, s) PROVE PhoneTypeOK'
  BY <1>1, <1>7 DEF PostBatch, PhoneTypeOK, sendVars
<1>8. ASSUME NEW f \in Flush, BatchAccepted(f) PROVE PhoneTypeOK'
  BY <1>1, <1>8 DEF BatchAccepted, PhoneTypeOK, sendVars
<1>9. ASSUME NEW f \in Flush, BatchRefused(f) \/ BatchFails(f) PROVE PhoneTypeOK'
  <2>1. <<>> \in Seq(Sighting)
    OBVIOUS
  <2>2. EndFlush(f) /\ UNCHANGED <<up, registering, sendVars, row>>
    BY <1>9 DEF BatchRefused, BatchFails
  <2>. QED  BY <1>1, <2>1, <2>2 DEF EndFlush, PhoneTypeOK, sendVars
<1>10. ASSUME NEW f \in Flush, MarkSynced(f) PROVE PhoneTypeOK'
  <2>1. batch[f] \in Seq(Sighting) /\ batch[f] # <<>> /\ flush[f] = "marking"
    BY <1>10 DEF MarkSynced, PhoneTypeOK
  <2>2. /\ Head(batch[f]) \in Sighting /\ Tail(batch[f]) \in Seq(Sighting)
        /\ Len(batch[f]) > 1 => Tail(batch[f]) # <<>>
    BY <2>1, BatchRest
  <2>3. {y \in Sighting : row'[y] # "none"} = {y \in Sighting : row[y] # "none"} \cup {Head(batch[f])}
    BY <1>10, <2>2 DEF MarkSynced, PhoneTypeOK
  <2>4. IsFiniteSet({y \in Sighting : row'[y] # "none"})
    BY <2>3, RowAdded DEF PhoneTypeOK
  <2>5. row' \in [Sighting -> {"none", "pending", "synced"}] /\ UNCHANGED <<up, registering, send, sendSlot, dropped>>
    BY <1>10, <2>2 DEF MarkSynced, PhoneTypeOK, sendVars
  <2>6. CASE EndFlush(f)
    <3>1. <<>> \in Seq(Sighting)
      OBVIOUS
    <3>. QED  BY <1>1, <2>4, <2>5, <2>6, <3>1 DEF EndFlush, PhoneTypeOK
  <2>7. CASE Len(batch[f]) > 1 /\ batch' = [batch EXCEPT ![f] = Tail(@)] /\ UNCHANGED <<flush, flushSlot>>
    BY <1>1, <2>1, <2>2, <2>4, <2>5, <2>7 DEF PhoneTypeOK
  <2>. QED  BY <1>10, <2>6, <2>7 DEF MarkSynced
<1>11. CASE Stop
  <2>1. <<>> \in Seq(Sighting)
    OBVIOUS
  <2>. QED  BY <1>1, <1>11, <2>1 DEF Stop, PhoneTypeOK
<1>12. CASE Start \/ Register \/ RegistrationFails
  BY <1>1, <1>12 DEF Start, Register, RegistrationFails, PhoneTypeOK, sendVars, flushVars
<1>13. CASE UNCHANGED phoneVars
  BY <1>1, <1>13 DEF PhoneTypeOK, phoneVars, sendVars, flushVars
<1>14. (\E s \in Slot : OrphanReply(s)) \/ UNCHANGED vars => UNCHANGED phoneVars
  BY DEF OrphanReply, vars
<1>. QED  BY <1>2, <1>3, <1>4, <1>5, <1>6, <1>7, <1>8, <1>9, <1>10, <1>11, <1>12, <1>13, <1>14, <1>15
          DEF PhoneNext, SendWork, FlushWork, Fault

\* A request that is waited for stays in its slot as long as its slot is left alone.
LEMMA OwnKept ==
  ASSUME PhoneTypeOK, OwnRequests,
         \A x \in Sighting : sendSlot'[x] \in {sendSlot[x], NoSlot},
         \A f \in Flush : /\ flushSlot'[f] \in {flushSlot[f], NoSlot}
                          /\ flushSlot'[f] # NoSlot => batch'[f] = batch[f],
         \A t \in Slot : /\ st[t] # "free"
                         /\ \/ \E x \in Sighting : sendSlot'[x] = t
                            \/ \E f \in Flush : flushSlot'[f] = t
                         => st'[t] # "free" /\ payload'[t] = payload[t]
  PROVE  OwnRequests'
<1>1. /\ \A x \in Sighting : sendSlot[x] \in Slot \cup {NoSlot}
      /\ \A f \in Flush : flushSlot[f] \in Slot \cup {NoSlot}
  BY DEF PhoneTypeOK
<1>2. ASSUME NEW x \in Sighting, sendSlot'[x] # NoSlot
      PROVE  /\ st'[sendSlot'[x]] # "free" /\ payload'[sendSlot'[x]] = <<Sent(x)>>
             /\ \A y \in Sighting : sendSlot'[y] = sendSlot'[x] => y = x
  <2>1. sendSlot'[x] = sendSlot[x] /\ sendSlot[x] \in Slot /\ sendSlot[x] # NoSlot
    BY <1>1, <1>2
  <2>2. st[sendSlot[x]] # "free" /\ payload[sendSlot[x]] = <<Sent(x)>>
    BY <2>1 DEF OwnRequests
  <2>3. \A y \in Sighting : sendSlot[y] = sendSlot[x] => y = x
    BY <2>1 DEF OwnRequests
  <2>4. st'[sendSlot[x]] # "free" /\ payload'[sendSlot[x]] = payload[sendSlot[x]]
    BY <2>1, <2>2
  <2>. QED  BY <2>1, <2>2, <2>3, <2>4
<1>3. ASSUME NEW f \in Flush, flushSlot'[f] # NoSlot
      PROVE  /\ st'[flushSlot'[f]] # "free" /\ payload'[flushSlot'[f]] = Body(batch'[f])
             /\ \A g \in Flush : flushSlot'[g] = flushSlot'[f] => g = f
             /\ \A x \in Sighting : sendSlot'[x] # flushSlot'[f]
  <2>1. /\ flushSlot'[f] = flushSlot[f] /\ flushSlot[f] \in Slot /\ flushSlot[f] # NoSlot
        /\ batch'[f] = batch[f]
    BY <1>1, <1>3
  <2>2. st[flushSlot[f]] # "free" /\ payload[flushSlot[f]] = Body(batch[f])
    BY <2>1 DEF OwnRequests
  <2>3. /\ \A g \in Flush : flushSlot[g] = flushSlot[f] => g = f
        /\ \A x \in Sighting : sendSlot[x] # flushSlot[f]
    BY <2>1 DEF OwnRequests
  <2>4. st'[flushSlot[f]] # "free" /\ payload'[flushSlot[f]] = payload[flushSlot[f]]
    BY <2>1, <2>2
  <2>. QED  BY <2>1, <2>2, <2>3, <2>4
<1>. QED  BY <1>2, <1>3 DEF OwnRequests, Body

\* The reply that leaves a slot nobody waits at afterwards.
LEMMA OwnReleased ==
  ASSUME PhoneTypeOK, OwnRequests, NEW s \in Slot, Release(s),
         \A x \in Sighting : sendSlot'[x] \in {sendSlot[x], NoSlot} /\ sendSlot'[x] # s,
         \A f \in Flush : /\ flushSlot'[f] \in {flushSlot[f], NoSlot} /\ flushSlot'[f] # s
                          /\ flushSlot'[f] # NoSlot => batch'[f] = batch[f]
  PROVE  OwnRequests'
<1>1. \A t \in Slot : t # s => st'[t] = st[t] /\ payload'[t] = payload[t]
  BY DEF Release, PhoneTypeOK, TypeOK, RequestsOK
<1>. QED  BY <1>1, OwnKept

\* Nobody waits at a free slot, so whoever posts there has it to itself.
LEMMA OwnPosted ==
  ASSUME PhoneInv, NEW s \in Slot, NEW k, NEW p, Post(s, k, p)
  PROVE  /\ st'[s] = "recv" /\ payload'[s] = p
         /\ \A t \in Slot : t # s => st'[t] = st[t] /\ payload'[t] = payload[t]
         /\ \A x \in Sighting : sendSlot[x] # s
         /\ \A f \in Flush : flushSlot[f] # s
<1>1. st[s] = "free" /\ s # NoSlot
  BY DEF Post
<1>. QED  BY <1>1 DEF Post, PhoneInv, PhoneTypeOK, TypeOK, RequestsOK, OwnRequests

LEMMA OwnNext ==
  ASSUME PhoneInv, [PhoneNext]_vars
  PROVE  OwnRequests'
<1>. USE DEF PhoneInv
<1>0. /\ sendSlot \in [Sighting -> Slot \cup {NoSlot}] /\ flushSlot \in [Flush -> Slot \cup {NoSlot}]
      /\ batch \in [Flush -> Seq(Sighting)] /\ TypeOK
      /\ \A f \in Flush : flushSlot[f] # NoSlot <=> flush[f] = "posted"
      /\ \A x \in Sighting : sendSlot[x] # NoSlot <=> send[x] = "posted"
  BY DEF PhoneTypeOK
<1>1. ASSUME NEW x \in Sighting, NEW s \in Slot, PostSighting(x, s) PROVE OwnRequests'
  <2>1. /\ st'[s] = "recv" /\ payload'[s] = <<Sent(x)>>
        /\ \A t \in Slot : t # s => st'[t] = st[t] /\ payload'[t] = payload[t]
        /\ \A y \in Sighting : sendSlot[y] # s
        /\ \A f \in Flush : flushSlot[f] # s
    BY <1>1, OwnPosted DEF PostSighting
  <2>2. \A y \in Sighting : sendSlot'[y] = IF y = x THEN s ELSE sendSlot[y]
    BY <1>0, <1>1 DEF PostSighting
  <2>3. flushSlot' = flushSlot /\ batch' = batch
    BY <1>1 DEF PostSighting, flushVars
  <2>4. ASSUME NEW y \in Sighting, sendSlot'[y] # NoSlot
        PROVE  /\ st'[sendSlot'[y]] # "free" /\ payload'[sendSlot'[y]] = <<Sent(y)>>
               /\ \A z \in Sighting : sendSlot'[z] = sendSlot'[y] => z = y
    <3>1. CASE y = x
      BY <2>1, <2>2, <3>1
    <3>2. CASE y # x
      <4>1. sendSlot'[y] = sendSlot[y] /\ sendSlot[y] \in Slot /\ sendSlot[y] # s
        BY <1>0, <2>1, <2>2, <2>4, <3>2
      <4>2. st[sendSlot[y]] # "free" /\ payload[sendSlot[y]] = <<Sent(y)>>
        BY <2>4, <4>1 DEF OwnRequests
      <4>3. \A z \in Sighting : sendSlot[z] = sendSlot[y] => z = y
        BY <2>4, <4>1 DEF OwnRequests
      <4>. QED  BY <2>1, <2>2, <4>1, <4>2, <4>3
    <3>. QED  BY <3>1, <3>2
  <2>5. ASSUME NEW f \in Flush, flushSlot'[f] # NoSlot
        PROVE  /\ st'[flushSlot'[f]] # "free" /\ payload'[flushSlot'[f]] = Body(batch'[f])
               /\ \A g \in Flush : flushSlot'[g] = flushSlot'[f] => g = f
               /\ \A z \in Sighting : sendSlot'[z] # flushSlot'[f]
    <3>1. flushSlot'[f] = flushSlot[f] /\ flushSlot[f] \in Slot /\ flushSlot[f] # s /\ batch'[f] = batch[f]
      BY <1>0, <2>1, <2>3, <2>5
    <3>2. st[flushSlot[f]] # "free" /\ payload[flushSlot[f]] = Body(batch[f])
      BY <2>5, <3>1 DEF OwnRequests
    <3>3. /\ \A g \in Flush : flushSlot[g] = flushSlot[f] => g = f
          /\ \A z \in Sighting : sendSlot[z] # flushSlot[f]
      BY <2>5, <3>1 DEF OwnRequests
    <3>. QED  BY <2>1, <2>2, <2>3, <3>1, <3>2, <3>3
  <2>. QED  BY <2>4, <2>5 DEF OwnRequests, Body
<1>2. ASSUME NEW f \in Flush, NEW s \in Slot, PostBatch(f, s) PROVE OwnRequests'
  <2>1. /\ st'[s] = "recv" /\ payload'[s] = Body(batch[f])
        /\ \A t \in Slot : t # s => st'[t] = st[t] /\ payload'[t] = payload[t]
        /\ \A y \in Sighting : sendSlot[y] # s
        /\ \A g \in Flush : flushSlot[g] # s
    BY <1>2, OwnPosted DEF PostBatch
  <2>2. \A g \in Flush : flushSlot'[g] = IF g = f THEN s ELSE flushSlot[g]
    BY <1>0, <1>2 DEF PostBatch
  <2>3. sendSlot' = sendSlot /\ batch' = batch
    BY <1>2 DEF PostBatch, sendVars
  <2>4. ASSUME NEW y \in Sighting, sendSlot'[y] # NoSlot
        PROVE  /\ st'[sendSlot'[y]] # "free" /\ payload'[sendSlot'[y]] = <<Sent(y)>>
               /\ \A z \in Sighting : sendSlot'[z] = sendSlot'[y] => z = y
    <3>1. sendSlot'[y] = sendSlot[y] /\ sendSlot[y] \in Slot /\ sendSlot[y] # s
      BY <1>0, <2>1, <2>3, <2>4
    <3>2. st[sendSlot[y]] # "free" /\ payload[sendSlot[y]] = <<Sent(y)>>
      BY <2>4, <3>1 DEF OwnRequests
    <3>3. \A z \in Sighting : sendSlot[z] = sendSlot[y] => z = y
      BY <2>4, <3>1 DEF OwnRequests
    <3>. QED  BY <2>1, <2>3, <3>1, <3>2, <3>3
  <2>5. ASSUME NEW g \in Flush, flushSlot'[g] # NoSlot
        PROVE  /\ st'[flushSlot'[g]] # "free" /\ payload'[flushSlot'[g]] = Body(batch'[g])
               /\ \A h \in Flush : flushSlot'[h] = flushSlot'[g] => h = g
               /\ \A z \in Sighting : sendSlot'[z] # flushSlot'[g]
    <3>1. CASE g = f
      BY <2>1, <2>2, <2>3, <3>1
    <3>2. CASE g # f
      <4>1. flushSlot'[g] = flushSlot[g] /\ flushSlot[g] \in Slot /\ flushSlot[g] # s /\ batch'[g] = batch[g]
        BY <1>0, <2>1, <2>2, <2>3, <2>5, <3>2
      <4>2. st[flushSlot[g]] # "free" /\ payload[flushSlot[g]] = Body(batch[g])
        BY <2>5, <4>1 DEF OwnRequests
      <4>3. /\ \A h \in Flush : flushSlot[h] = flushSlot[g] => h = g
            /\ \A z \in Sighting : sendSlot[z] # flushSlot[g]
        BY <2>5, <4>1 DEF OwnRequests
      <4>. QED  BY <2>1, <2>2, <2>3, <4>1, <4>2, <4>3
    <3>. QED  BY <3>1, <3>2
  <2>. QED  BY <2>4, <2>5 DEF OwnRequests, Body
<1>3. ASSUME NEW x \in Sighting, SightingAccepted(x) \/ SightingRefused(x) PROVE OwnRequests'
  <2>1. /\ sendSlot[x] \in Slot /\ Release(sendSlot[x])
        /\ \A y \in Sighting : sendSlot'[y] = IF y = x THEN NoSlot ELSE sendSlot[y]
        /\ flushSlot' = flushSlot /\ batch' = batch
    BY <1>0, <1>3 DEF SightingAccepted, SightingRefused, Answered, flushVars
  <2>2. /\ \A y \in Sighting : sendSlot'[y] # sendSlot[x]
        /\ \A f \in Flush : flushSlot'[f] # sendSlot[x]
    BY <1>0, <2>1 DEF OwnRequests
  <2>. QED  BY <2>1, <2>2, OwnReleased
<1>4. ASSUME NEW f \in Flush, BatchAccepted(f) \/ BatchRefused(f) PROVE OwnRequests'
  <2>1. /\ flushSlot[f] \in Slot /\ Release(flushSlot[f])
        /\ \A g \in Flush : /\ flushSlot'[g] = IF g = f THEN NoSlot ELSE flushSlot[g]
                            /\ g # f => batch'[g] = batch[g]
        /\ sendSlot' = sendSlot
    BY <1>0, <1>4 DEF BatchAccepted, BatchRefused, Answered, EndFlush, sendVars
  <2>2. /\ \A y \in Sighting : sendSlot'[y] # flushSlot[f]
        /\ \A g \in Flush : flushSlot'[g] # flushSlot[f]
    BY <1>0, <2>1 DEF OwnRequests
  <2>. QED  BY <2>1, <2>2, OwnReleased
<1>5. ASSUME NEW s \in Slot, OrphanReply(s) PROVE OwnRequests'
  <2>1. /\ Release(s)
        /\ \A x \in Sighting : sendSlot[x] # s /\ sendSlot'[x] = sendSlot[x]
        /\ \A f \in Flush : flushSlot[f] # s /\ flushSlot'[f] = flushSlot[f] /\ batch'[f] = batch[f]
    BY <1>5 DEF OrphanReply, Hangup, phoneVars, sendVars, flushVars
  <2>. QED  BY <2>1, OwnReleased
<1>6. CASE (Served \/ RegisterDevice) /\ UNCHANGED <<sendVars, flushVars>>
  <2>1. /\ payload' = payload /\ \A t \in Slot : st[t] # "free" => st'[t] # "free"
        /\ sendSlot' = sendSlot /\ flushSlot' = flushSlot /\ batch' = batch
    BY <1>0, <1>6, BackendKeeps DEF Served, Backend, sendVars, flushVars
  <2>. QED  BY <2>1, OwnKept
<1>7. ASSUME UNCHANGED <<st, payload>>,
             \A x \in Sighting : sendSlot'[x] \in {sendSlot[x], NoSlot},
             \A f \in Flush : /\ flushSlot'[f] \in {flushSlot[f], NoSlot}
                              /\ flushSlot'[f] # NoSlot => batch'[f] = batch[f]
      PROVE  OwnRequests'
  BY <1>7, OwnKept
<1>8. ASSUME NEW x \in Sighting,
             SightingUnsent(x) \/ SightingFails(x) \/ InsertRow(x) \/ InsertFails(x)
      PROVE  OwnRequests'
  BY <1>0, <1>7, <1>8 DEF SightingUnsent, SightingFails, Abandoned, InsertRow, Capture, InsertFails,
                          ingestVars, reqVars, flushVars
<1>9. ASSUME NEW f \in Flush, ReadPending(f) \/ BatchFails(f) \/ MarkSynced(f) PROVE OwnRequests'
  <2>1. UNCHANGED <<st, payload>> /\ sendSlot' = sendSlot
    BY <1>9 DEF ReadPending, BatchFails, Interrupted, Abandoned, MarkSynced, ingestVars, reqVars, sendVars
  <2>2. \A g \in Flush : g # f => batch'[g] = batch[g] /\ flushSlot'[g] = flushSlot[g]
    BY <1>0, <1>9 DEF ReadPending, BatchFails, MarkSynced, EndFlush
  <2>3. flushSlot'[f] = NoSlot
    BY <1>0, <1>9 DEF ReadPending, BatchFails, MarkSynced, EndFlush
  <2>. QED  BY <1>7, <2>1, <2>2, <2>3
<1>10. CASE Start \/ Stop \/ RegistrationFails \/ UNCHANGED vars
  BY <1>7, <1>10 DEF Start, Stop, RegistrationFails, vars, phoneVars, ingestVars, reqVars, sendVars, flushVars
<1>11. Register => RegisterDevice /\ UNCHANGED <<sendVars, flushVars>>
  BY DEF Register
<1>12. UNCHANGED phoneVars => UNCHANGED <<sendVars, flushVars>>
  BY DEF phoneVars
<1>. QED  BY <1>1, <1>2, <1>3, <1>4, <1>5, <1>6, <1>8, <1>9, <1>10, <1>11, <1>12
          DEF PhoneNext, SendWork, FlushWork, Fault

\* What the backend answers 200 it has taken.
LEMMA AcceptedIsTaken ==
  ASSUME PhoneInv, AckedIsTaken
  PROVE  /\ \A x \in Sighting : send[x] = "posted" /\ Answered(sendSlot[x], "ok") => Sent(x) \in seen
         /\ \A f \in Flush : flush[f] = "posted" /\ Answered(flushSlot[f], "ok") =>
              \A i \in 1..Len(batch[f]) : Queued(batch[f][i]) \in seen
<1>. USE DEF PhoneInv, PhoneTypeOK
<1>1. ASSUME NEW x \in Sighting, send[x] = "posted", Answered(sendSlot[x], "ok")
      PROVE  Sent(x) \in seen
  <2>1. sendSlot[x] \in Slot /\ sendSlot[x] # NoSlot /\ st[sendSlot[x]] = "ok"
    BY <1>1 DEF Answered
  <2>2. payload[sendSlot[x]] = <<Sent(x)>>
    BY <2>1 DEF OwnRequests
  <2>3. 1 \in 1..Len(<<Sent(x)>>) /\ <<Sent(x)>>[1] = Sent(x)
    OBVIOUS
  <2>4. \A i \in 1..Len(payload[sendSlot[x]]) : payload[sendSlot[x]][i] \in seen
    BY <2>1 DEF AckedIsTaken
  <2>5. 1 \in 1..Len(payload[sendSlot[x]]) /\ payload[sendSlot[x]][1] = Sent(x)
    BY <2>2, <2>3
  <2>. QED  BY <2>4, <2>5
<1>2. ASSUME NEW f \in Flush, flush[f] = "posted", Answered(flushSlot[f], "ok"),
             NEW i \in 1..Len(batch[f])
      PROVE  Queued(batch[f][i]) \in seen
  <2>1. flushSlot[f] \in Slot /\ flushSlot[f] # NoSlot /\ st[flushSlot[f]] = "ok"
    BY <1>2 DEF Answered
  <2>2. payload[flushSlot[f]] = Body(batch[f])
    BY <2>1 DEF OwnRequests
  <2>3. batch[f] \in Seq(Sighting)
    OBVIOUS
  <2>4. Len(Body(batch[f])) = Len(batch[f]) /\ Body(batch[f])[i] = Queued(batch[f][i])
    BY <1>2, <2>3, BodyElements
  <2>. QED  BY <1>2, <2>1, <2>2, <2>4 DEF AckedIsTaken
<1>. QED  BY <1>1, <1>2

\* A step that gives out no nonce, takes no row away and marks none.
Steady ==
  /\ Captured' = Captured /\ seen \subseteq seen' /\ TakenWereCaptured'
  /\ \A x \in Sighting : (send'[x] = "new" <=> send[x] = "new") /\ (send[x] = "over" => send'[x] = "over")
Bookless ==
  /\ row' = row /\ seen \subseteq seen'
  /\ \A f \in Flush : \/ batch'[f] = <<>>
                      \/ batch'[f] = batch[f] /\ (flush'[f] = "marking" => flush[f] = "marking")

LEMMA SteadyNonces ==
  ASSUME NoncesGivenOut, Steady, \A x \in Sighting : row'[x] = "none" <=> row[x] = "none"
  PROVE  NoncesGivenOut'
  BY DEF NoncesGivenOut, Steady

LEMMA BooklessRows ==
  ASSUME SyncedIsTaken, BatchesAreRows, Bookless
  PROVE  SyncedIsTaken' /\ BatchesAreRows'
<1>1. SyncedIsTaken'
  BY DEF Bookless, SyncedIsTaken
<1>2. ASSUME NEW f \in Flush, NEW i \in 1..Len(batch'[f])
      PROVE  /\ row'[batch'[f][i]] # "none"
             /\ flush'[f] = "marking" => Queued(batch'[f][i]) \in seen'
  <2>1. Len(<<>>) = 0
    OBVIOUS
  <2>2. batch'[f] # <<>>
    BY <1>2, <2>1
  <2>. QED  BY <1>2, <2>2 DEF Bookless, BatchesAreRows
<1>. QED  BY <1>1, <1>2 DEF BatchesAreRows

LEMMA BooksNext ==
  ASSUME PhoneInv, AckedIsTaken, [PhoneNext]_vars
  PROVE  NoncesGivenOut' /\ SyncedIsTaken' /\ BatchesAreRows'
<1>. USE DEF PhoneInv, PhoneTypeOK
<1>0. seen \subseteq seen' /\ TakenWereCaptured'
  BY PhoneStepIsOpen, TakenNext DEF NoncesGivenOut
<1>1. ASSUME NEW x \in Sighting, (\E s \in Slot : PostSighting(x, s)) \/ SightingUnsent(x)
      PROVE  NoncesGivenOut' /\ SyncedIsTaken' /\ BatchesAreRows'
  <2>1. Captured' = Captured \cup {Sent(x)}
    BY <1>1, SeeCaptures DEF PostSighting, SightingUnsent
  <2>2. /\ \A y \in Sighting : y # x => send'[y] = send[y]
        /\ send[x] = "new" /\ send'[x] # "new" /\ row' = row
        /\ flush' = flush /\ batch' = batch
    BY <1>1 DEF PostSighting, SightingUnsent, See, flushVars
  <2>3. NoncesGivenOut'
    BY <1>0, <2>1, <2>2, Nonces DEF NoncesGivenOut
  <2>4. Bookless
    BY <1>0, <2>2 DEF Bookless
  <2>. QED  BY <2>3, <2>4, BooklessRows
<1>2. ASSUME NEW x \in Sighting, InsertRow(x)
      PROVE  NoncesGivenOut' /\ SyncedIsTaken' /\ BatchesAreRows'
  <2>1. Captured' = Captured \cup {Queued(x)}
    BY <1>2, InsertCaptures
  <2>2. /\ \A y \in Sighting : y # x => send'[y] = send[y] /\ row'[y] = row[y]
        /\ send[x] = "queueing" /\ send'[x] = "over" /\ row'[x] = "pending"
        /\ flush' = flush /\ batch' = batch
    BY <1>2 DEF InsertRow, flushVars
  <2>3. NoncesGivenOut'
    BY <1>0, <2>1, <2>2, Nonces DEF NoncesGivenOut
  <2>4. SyncedIsTaken'
    BY <1>0, <2>2 DEF SyncedIsTaken
  <2>5. \A f \in Flush : \A i \in 1..Len(batch[f]) : batch[f][i] \in Sighting
    OBVIOUS
  <2>6. BatchesAreRows'
    BY <1>0, <2>2, <2>5 DEF BatchesAreRows
  <2>. QED  BY <2>3, <2>4, <2>6
<1>3. ASSUME NEW f \in Flush, ReadPending(f)
      PROVE  NoncesGivenOut' /\ SyncedIsTaken' /\ BatchesAreRows'
  <2>1. /\ UNCHANGED <<stamp, seen, send, row>>
        /\ flush'[f] = "ready" /\ Pending # {}
        /\ \A g \in Flush : g # f => flush'[g] = flush[g] /\ batch'[g] = batch[g]
    BY <1>3 DEF ReadPending, ingestVars, history, sendVars
  <2>2. Steady
    BY <1>0, <2>1 DEF Steady, Captured
  <2>3. \A i \in 1..Len(batch'[f]) : batch'[f][i] \in Pending
    <3>1. PICK b \in SetToSeqs(Pending) : batch' = [batch EXCEPT ![f] = b]
      BY <1>3 DEF ReadPending
    <3>2. IsFiniteSet(Pending)
      <4>1. Pending \subseteq {x \in Sighting : row[x] # "none"}
        BY DEF Pending
      <4>. QED  BY <4>1, FS_Subset
    <3>. QED  BY <2>1, <3>1, <3>2, ReadRows
  <2>4. \A g \in Flush : \A i \in 1..Len(batch'[g]) :
          row[batch'[g][i]] # "none" /\ (flush'[g] = "marking" => Queued(batch'[g][i]) \in seen)
    BY <2>1, <2>3 DEF BatchesAreRows, Pending
  <2>5. BatchesAreRows'
    BY <2>1, <2>4 DEF BatchesAreRows
  <2>. QED  BY <2>1, <2>2, <2>5, SteadyNonces DEF SyncedIsTaken
<1>4. ASSUME NEW f \in Flush, BatchAccepted(f)
      PROVE  NoncesGivenOut' /\ SyncedIsTaken' /\ BatchesAreRows'
  <2>1. /\ UNCHANGED <<stamp, send, row, batch>> /\ flush'[f] = "marking"
        /\ \A g \in Flush : g # f => flush'[g] = flush[g]
    BY <1>4 DEF BatchAccepted, sendVars
  <2>2. Steady
    BY <1>0, <2>1 DEF Steady, Captured
  <2>3. \A i \in 1..Len(batch[f]) : Queued(batch[f][i]) \in seen
    BY <1>4, AcceptedIsTaken DEF BatchAccepted
  <2>4. BatchesAreRows' /\ SyncedIsTaken'
    BY <1>0, <2>1, <2>3 DEF BatchesAreRows, SyncedIsTaken
  <2>. QED  BY <2>1, <2>2, <2>4, SteadyNonces
<1>5. ASSUME NEW f \in Flush, MarkSynced(f)
      PROVE  NoncesGivenOut' /\ SyncedIsTaken' /\ BatchesAreRows'
  <2>. DEFINE x == Head(batch[f])
  <2>1. /\ batch[f] \in Seq(Sighting) /\ batch[f] # <<>> /\ flush[f] = "marking"
    BY <1>5 DEF MarkSynced
  <2>2. x \in Sighting /\ row[x] # "none" /\ Queued(x) \in seen
    BY <2>1, BatchRest DEF BatchesAreRows
  <2>. HIDE DEF x
  <2>3. /\ UNCHANGED <<stamp, seen, send>> /\ row' = [row EXCEPT ![x] = "synced"]
        /\ \A g \in Flush : g # f => flush'[g] = flush[g] /\ batch'[g] = batch[g]
        /\ batch'[f] = <<>> \/ (batch'[f] = Tail(batch[f]) /\ flush'[f] = flush[f])
    BY <1>5 DEF MarkSynced, EndFlush, ingestVars, history, sendVars, x
  <2>4. \A y \in Sighting : row'[y] = IF y = x THEN "synced" ELSE row[y]
    BY <2>2, <2>3
  <2>5. Steady
    BY <1>0, <2>3 DEF Steady, Captured
  <2>6. SyncedIsTaken'
    BY <2>2, <2>3, <2>4 DEF SyncedIsTaken
  <2>7. ASSUME NEW g \in Flush, NEW i \in 1..Len(batch'[g])
        PROVE  /\ row'[batch'[g][i]] # "none"
               /\ flush'[g] = "marking" => Queued(batch'[g][i]) \in seen'
    <3>1. \A h \in Flush : \A j \in 1..Len(batch[h]) : batch[h][j] \in Sighting
      OBVIOUS
    <3>2. CASE g # f
      BY <2>2, <2>3, <2>4, <2>7, <3>1, <3>2 DEF BatchesAreRows
    <3>3. CASE g = f
      <4>1. Len(<<>>) = 0
        OBVIOUS
      <4>2. batch'[f] = Tail(batch[f])
        BY <2>3, <2>7, <3>3, <4>1
      <4>3. i + 1 \in 1..Len(batch[f]) /\ batch'[f][i] = batch[f][i + 1]
        BY <2>1, <2>7, <3>3, <4>2, BatchRest
      <4>. QED  BY <2>1, <2>2, <2>3, <2>4, <3>1, <3>3, <4>3 DEF BatchesAreRows
    <3>. QED  BY <3>2, <3>3
  <2>8. BatchesAreRows'
    BY <2>7 DEF BatchesAreRows
  <2>. QED  BY <2>2, <2>4, <2>5, <2>6, <2>8, SteadyNonces
<1>6. ASSUME Steady, Bookless PROVE NoncesGivenOut' /\ SyncedIsTaken' /\ BatchesAreRows'
  <2>1. row' = row
    BY <1>6 DEF Bookless
  <2>. QED  BY <1>6, <2>1, SteadyNonces, BooklessRows
<1>7. ASSUME NEW x \in Sighting,
             \/ SightingAccepted(x) \/ SightingRefused(x) \/ SightingFails(x) \/ InsertFails(x)
      PROVE  Steady /\ Bookless
  <2>1. /\ stamp' = stamp /\ send[x] \in {"posted", "queueing"}
        /\ send' = [send EXCEPT ![x] = "queueing"] \/ send' = [send EXCEPT ![x] = "over"]
        /\ UNCHANGED <<row, flush, batch>>
    BY <1>7 DEF SightingAccepted, SightingRefused, SightingFails, InsertFails, ingestVars, flushVars
  <2>. QED  BY <1>0, <2>1 DEF Steady, Bookless, Captured
<1>8. ASSUME NEW f \in Flush,
             (\E s \in Slot : PostBatch(f, s)) \/ BatchRefused(f) \/ BatchFails(f)
      PROVE  Steady /\ Bookless
  <2>1. /\ UNCHANGED <<stamp, send, row>>
        /\ \A g \in Flush : \/ batch'[g] = <<>>
                            \/ batch'[g] = batch[g] /\ (flush'[g] = "marking" => flush[g] = "marking")
    BY <1>8 DEF PostBatch, BatchRefused, BatchFails, EndFlush, sendVars
  <2>. QED  BY <1>0, <2>1 DEF Steady, Bookless, Captured
<1>9. CASE Stop
  <2>1. /\ UNCHANGED <<stamp, row>> /\ \A f \in Flush : batch'[f] = <<>>
        /\ \A x \in Sighting : send'[x] = IF send[x] = "new" THEN "new" ELSE "over"
    BY <1>9 DEF Stop, ingestVars
  <2>2. Steady /\ Bookless
    BY <1>0, <2>1 DEF Steady, Bookless, Captured
  <2>. QED  BY <1>6, <2>2
<1>10. CASE stamp' = stamp /\ UNCHANGED <<send, row, flush, batch>>
  <2>1. Steady /\ Bookless
    BY <1>0, <1>10 DEF Steady, Bookless, Captured
  <2>. QED  BY <1>6, <2>1
<1>11. CASE \/ Start \/ Register \/ RegistrationFails \/ (\E s \in Slot : OrphanReply(s))
            \/ (Served /\ UNCHANGED phoneVars) \/ UNCHANGED vars
  <2>1. Served \/ RegisterDevice => stamp' = stamp
    BY BackendKeeps DEF Served, Backend
  <2>2. stamp' = stamp /\ UNCHANGED <<send, row, flush, batch>>
    BY <1>11, <2>1 DEF Start, Register, RegistrationFails, OrphanReply, Hangup, vars, ingestVars,
                       phoneVars, sendVars, flushVars
  <2>. QED  BY <1>10, <2>2
<1>. QED  BY <1>1, <1>2, <1>3, <1>4, <1>5, <1>6, <1>7, <1>8, <1>9, <1>11
          DEF PhoneNext, SendWork, FlushWork, Fault

\* A send comes to its end by an answer that takes the face, by its row, or by giving it up.
LEMMA KeptNext ==
  ASSUME PhoneInv, AckedIsTaken, [PhoneNext]_vars
  PROVE  FaceIsKept'
<1>. USE DEF PhoneInv, PhoneTypeOK
<1>0. seen \subseteq seen'
  BY PhoneStepIsOpen, TakenNext DEF NoncesGivenOut
<1>1. ASSUME dropped \subseteq dropped',
             \A x \in Sighting : row[x] # "none" => row'[x] # "none",
             \A x \in Sighting : send'[x] = "over" =>
               \/ send[x] = "over" \/ Sent(x) \in seen \/ row'[x] # "none" \/ x \in dropped'
      PROVE  FaceIsKept'
  BY <1>0, <1>1 DEF FaceIsKept
<1>2. ASSUME NEW x \in Sighting, SightingAccepted(x) PROVE FaceIsKept'
  <2>1. Sent(x) \in seen
    BY <1>2, AcceptedIsTaken DEF SightingAccepted
  <2>2. UNCHANGED <<row, dropped>> /\ \A y \in Sighting : y # x => send'[y] = send[y]
    BY <1>2 DEF SightingAccepted
  <2>. QED  BY <1>1, <2>1, <2>2
<1>3. ASSUME NEW x \in Sighting, InsertRow(x) \/ InsertFails(x) PROVE FaceIsKept'
  <2>1. /\ \A y \in Sighting : y # x => send'[y] = send[y] /\ row'[y] = row[y]
        /\ row'[x] = "pending" \/ (row'[x] = row[x] /\ x \in dropped')
        /\ dropped \subseteq dropped'
    BY <1>3 DEF InsertRow, InsertFails
  <2>. QED  BY <1>1, <2>1
<1>4. CASE Stop
  <2>1. /\ row' = row /\ dropped \subseteq dropped'
        /\ \A x \in Sighting : send[x] \in {"posted", "queueing"} => x \in dropped'
        /\ \A x \in Sighting : send[x] = "new" => send'[x] = "new"
    BY <1>4 DEF Stop
  <2>. QED  BY <1>1, <2>1
<1>5. ASSUME NEW x \in Sighting,
             (\E s \in Slot : PostSighting(x, s)) \/ SightingUnsent(x) \/ SightingRefused(x) \/ SightingFails(x)
      PROVE  FaceIsKept'
  <2>1. /\ UNCHANGED <<row, dropped>> /\ send'[x] # "over"
        /\ \A y \in Sighting : y # x => send'[y] = send[y]
    BY <1>5 DEF PostSighting, SightingUnsent, SightingRefused, SightingFails
  <2>. QED  BY <1>1, <2>1
<1>6. ASSUME NEW f \in Flush, FlushWork(f) \/ BatchFails(f) PROVE FaceIsKept'
  <2>1. UNCHANGED <<send, dropped>>
    BY <1>6 DEF FlushWork, ReadPending, PostBatch, BatchAccepted, BatchRefused, MarkSynced, BatchFails, sendVars
  <2>2. \A x \in Sighting : row[x] # "none" => row'[x] # "none"
    BY <1>6 DEF FlushWork, ReadPending, PostBatch, BatchAccepted, BatchRefused, MarkSynced, BatchFails
  <2>. QED  BY <1>1, <2>1, <2>2
<1>7. CASE \/ Start \/ Register \/ RegistrationFails \/ (\E s \in Slot : OrphanReply(s))
           \/ (Served /\ UNCHANGED phoneVars) \/ UNCHANGED vars
  <2>1. UNCHANGED <<send, dropped, row>>
    BY <1>7 DEF Start, Register, RegistrationFails, OrphanReply, vars, phoneVars, sendVars
  <2>. QED  BY <1>1, <2>1
<1>. QED  BY <1>2, <1>3, <1>4, <1>5, <1>6, <1>7 DEF PhoneNext, SendWork, Fault

LEMMA PhoneInvInit == PhoneInit => PhoneInv
<1>. SUFFICES ASSUME PhoneInit PROVE PhoneInv
  OBVIOUS
<1>1. TypeOK /\ Captured = {} /\ seen = {}
  BY TypeInit DEF PhoneInit, IngestInit, Captured
<1>2. {x \in Sighting : row[x] # "none"} = {}
  BY DEF PhoneInit
<1>3. IsFiniteSet({x \in Sighting : row[x] # "none"})
  BY <1>2, FS_EmptySet
<1>4. <<>> \in Seq(Sighting) /\ Len(<<>>) = 0
  OBVIOUS
<1>5. PhoneTypeOK
  BY <1>1, <1>3, <1>4 DEF PhoneInit, PhoneTypeOK
<1>6. OwnRequests
  BY DEF PhoneInit, OwnRequests
<1>7. NoncesGivenOut
  BY <1>1 DEF PhoneInit, NoncesGivenOut, TakenWereCaptured
<1>8. SyncedIsTaken /\ BatchesAreRows
  BY <1>4 DEF PhoneInit, SyncedIsTaken, BatchesAreRows
<1>9. FaceIsKept
  BY DEF PhoneInit, FaceIsKept
<1>. QED  BY <1>5, <1>6, <1>7, <1>8, <1>9 DEF PhoneInv

LEMMA PhoneInvNext == PhoneInv /\ Tables /\ Requests /\ [PhoneNext]_vars => PhoneInv' /\ Tables' /\ Requests'
<1>. SUFFICES ASSUME PhoneInv, Tables, Requests, [PhoneNext]_vars
              PROVE  PhoneInv' /\ Tables' /\ Requests'
  OBVIOUS
<1>1. Tables' /\ Requests'
  BY PhoneStepIsOpen, InvNext DEF PhoneInv, PhoneTypeOK
<1>2. PhoneInv'
  BY PhoneTypesNext, OwnNext, BooksNext, KeptNext DEF PhoneInv, Requests
<1>. QED  BY <1>1, <1>2

LEMMA PhoneHolds == PhoneSpec => [](PhoneInv /\ Tables /\ Requests)
<1>1. PhoneInit => PhoneInv /\ Tables /\ Requests
  BY PhoneInvInit, InvInit DEF PhoneInit
<1>. QED  BY <1>1, PhoneInvNext, PTL DEF PhoneSpec

\* The phone's books are in order in every state, for any number of faces, of flushes under
\* way and of requests the backend handles at a time: whoever waits for an answer has a
\* request of its own, a row is synced only when its nonce is taken, and a face whose send
\* is over is taken or has a row, unless its coroutine was cancelled or Room refused it.
THEOREM PhoneInvariant == PhoneSpec => []PhoneInv
<1>1. PhoneInv /\ Tables /\ Requests => PhoneInv
  OBVIOUS
<1>. QED  BY <1>1, PhoneHolds, PTL

\* The phone is a client of the backend like any other, so whatever module Ingest promises
\* to all clients it promises the phone.
THEOREM PhoneIsClient == PhoneSpec => OpenSpec
<1>1. PhoneInit => IngestInit
  BY DEF PhoneInit
<1>2. PhoneInv /\ [PhoneNext]_vars => [OpenNext]_ingestVars
  BY PhoneStepIsOpen
<1>. QED  BY <1>1, <1>2, PhoneInvariant, PTL DEF PhoneSpec, OpenSpec

-------------------------------------------------------------------------------
(* Phone and backend implement Custody for each nonce: the first of a face is created by   *)
(* PostSighting or lost at once by SightingUnsent, the second is created by InsertRow; a    *)
(* nonce is taken by InsertNonce and logged by Mark; every other step loses the nonces that *)
(* nobody holds after it, or none.                                                          *)

\* The stage of a nonce, read off.
LEMMA NonceStage ==
  ASSUME NEW r \in Result
  PROVE  /\ r \notin Captured => Stage[r] = "new"
         /\ r \in Captured /\ r \in seen => Stage[r] = "taken"
         /\ r \in Captured /\ r \notin seen /\ Held(r) => Stage[r] = "held"
         /\ r \in Captured /\ r \notin seen /\ ~Held(r) => Stage[r] = "lost"
  BY DEF Stage

LEMMA NoncesLost ==
  ASSUME seen' = seen, logs' = logs, TakenWereCaptured, Captured \subseteq Captured',
         \A r \in Result : r \in Captured' /\ r \notin seen /\ Held(r)' => r \in Captured /\ Held(r)
  PROVE  Delivery!Next
<1>1. LogRows' = LogRows
  BY DEF LogRows
<1>2. \A r \in Result :
        /\ Stage'[r] \in {"new", "held", "taken", "lost"}
        /\ Stage'[r] # Stage[r] => Stage[r] \in {"new", "held"} /\ Stage'[r] = "lost"
  <2>. TAKE r \in Result
  <2>1. /\ r \notin Captured' => Stage'[r] = "new"
        /\ r \in Captured' /\ r \in seen => Stage'[r] = "taken"
        /\ r \in Captured' /\ r \notin seen /\ Held(r)' => Stage'[r] = "held"
        /\ r \in Captured' /\ r \notin seen /\ ~Held(r)' => Stage'[r] = "lost"
    BY DEF Stage
  <2>. QED  BY <2>1, NonceStage DEF TakenWereCaptured
<1>3. Stage' \in [Result -> {"new", "held", "taken", "lost"}]
  BY <1>2 DEF Stage
<1>4. Delivery!Lose
  BY <1>1, <1>2, <1>3 DEF Delivery!Lose
<1>. QED  BY <1>4 DEF Delivery!Next

LEMMA NonceCreated ==
  ASSUME seen' = seen, logs' = logs, TakenWereCaptured, NEW q \in Result, q \notin Captured,
         Captured' = Captured \cup {q}, Held(q)',
         \A r \in Result : r # q => (Held(r)' <=> Held(r))
  PROVE  Delivery!Next
<1>1. q \notin seen /\ LogRows' = LogRows
  BY DEF TakenWereCaptured, LogRows
<1>2. \A r \in Result : Stage'[r] = IF r = q THEN "held" ELSE Stage[r]
  BY <1>1 DEF Stage
<1>3. Stage' = [Stage EXCEPT ![q] = "held"]
  BY <1>2 DEF Stage
<1>4. Stage[q] = "new"
  BY NonceStage
<1>5. Delivery!Create(q)
  BY <1>1, <1>3, <1>4 DEF Delivery!Create
<1>. QED  BY <1>5 DEF Delivery!Next

\* What a posted request carries: its results, and what the others carry.
LEMMA PostCarries ==
  ASSUME TypeOK, NEW s \in Slot, NEW k, NEW p, Post(s, k, p)
  PROVE  \A t \in Slot : \A r : /\ Carries(t, r) => Carries(t, r)'
                                /\ Carries(t, r)' => Carries(t, r) \/ \E i \in 1..Len(p) : p[i] = r
<1>1. /\ \A t \in Slot : t # s => st'[t] = st[t] /\ pos'[t] = pos[t] /\ payload'[t] = payload[t]
      /\ st[s] = "free" /\ pos'[s] = 1 /\ payload'[s] = p
  BY DEF Post, TypeOK, RequestsOK
<1>. QED  BY <1>1 DEF Carries, Running

\* The steps of the backend.
LEMMA ServedCustody ==
  ASSUME PhoneInv, IngestInv, Served \/ RegisterDevice, row' = row
  PROVE  Delivery!Next
<1>. USE DEF PhoneInv, PhoneTypeOK
<1>0. stamp' = stamp /\ Captured' = Captured /\ TakenWereCaptured
  BY BackendKeeps DEF Served, Backend, Captured, NoncesGivenOut
<1>1. ASSUME seen' = seen, logs' = logs, \A s \in Slot : \A r : Carries(s, r)' => Carries(s, r)
      PROVE  Delivery!Next
  BY <1>0, <1>1, NoncesLost DEF Held
<1>2. ASSUME NEW s \in Slot, LookupDevice(s) \/ QueryGuard(s) \/ Decide(s) \/ LoseRequest(s)
      PROVE  Delivery!Next
  <2>1. /\ st[s] \in Running /\ seen' = seen /\ logs' = logs
        /\ Advance(s) \/ \E next \in Status : Goto(s, next)
    BY <1>2 DEF LookupDevice, QueryGuard, Decide, LoseRequest, dbVars, history, Running, Status, Replied
  <2>2. \A t \in Slot : \A r : Carries(t, r)' => Carries(t, r)
    BY <2>1, GotoCarries, AdvanceCarries
  <2>. QED  BY <1>1, <2>1, <2>2
<1>3. ASSUME NEW w \in Worker, WorkerDies(w) PROVE Delivery!Next
  <2>1. seen' = seen /\ logs' = logs
    BY <1>3 DEF WorkerDies, dbVars
  <2>2. \A t \in Slot : \A r : Carries(t, r)' => Carries(t, r)
    BY <1>3 DEF WorkerDies, Carries, Running
  <2>. QED  BY <1>1, <2>1, <2>2
<1>4. CASE RegisterDevice \/ Tick
  <2>1. seen' = seen /\ logs' = logs /\ UNCHANGED <<st, pos, payload>>
    BY <1>4 DEF RegisterDevice, Tick, dbVars, reqVars, history
  <2>. QED  BY <1>1, <2>1 DEF Carries
<1>5. ASSUME NEW s \in Slot, InsertNonce(s) PROVE Delivery!Next
  <2>1. st[s] = "insert" /\ st[s] \in Running /\ logs' = logs
    BY <1>5 DEF InsertNonce, Running
  <2>2. PICK q \in Captured : q = Current(s)
    BY <2>1, CurrentCaptured
  <2>3. CASE Goto(s, "err") /\ seen' = seen
    BY <1>1, <2>1, <2>3, GotoCarries
  <2>4. CASE Goto(s, "decide") /\ seen' = seen \cup {q}
    <3>1. \A t \in Slot : \A r : Carries(t, r)' <=> Carries(t, r)
      BY <2>1, <2>4, GotoCarries DEF Running
    <3>2. CASE q \in seen
      BY <1>1, <2>1, <2>4, <3>1, <3>2
    <3>3. CASE q \notin seen
      <4>1. Carries(s, q)
        <5>1. pos[s] \in 1..Len(payload[s]) /\ Len(payload[s]) \in Nat
          BY <2>1 DEF TypeOK, RequestsOK
        <5>2. pos[s] \in pos[s]..Len(payload[s])
          BY <5>1
        <5>. QED  BY <2>1, <2>2, <5>2 DEF Carries, Current
      <4>2. q \in Result /\ Stage[q] = "held"
        BY <2>2, <3>3, <4>1, NonceStage DEF Held, Captured
      <4>3. \A r \in Result : Stage'[r] = IF r = q THEN "taken" ELSE Stage[r]
        BY <1>0, <2>2, <2>4, <3>1 DEF Stage, Held
      <4>4. Stage' = [Stage EXCEPT ![q] = "taken"]
        BY <4>3 DEF Stage
      <4>5. Delivery!Take(q)
        BY <2>1, <4>2, <4>4 DEF Delivery!Take, LogRows
      <4>. QED  BY <4>2, <4>5 DEF Delivery!Next
    <3>. QED  BY <3>2, <3>3
  <2>. QED  BY <1>5, <2>2, <2>3, <2>4 DEF InsertNonce
<1>6. ASSUME NEW s \in Slot, Mark(s) PROVE Delivery!Next
  <2>1. st[s] = "mark" /\ st[s] \in Running /\ seen' = seen
    BY <1>6 DEF Mark, Running
  <2>2. PICK q \in Captured : q = Current(s)
    BY <2>1, CurrentCaptured
  <2>. DEFINE new == [nonce |-> q, user |-> Subject[q], ts |-> stamp[q]]
  <2>3. CASE Goto(s, "err") /\ logs' = logs
    BY <1>1, <2>1, <2>3, GotoCarries
  <2>4. CASE (\A l \in LogRows : l.nonce # q) /\ logs' = Append(logs, new) /\ Advance(s)
    <3>1. q \in Result /\ q \in seen
      BY <2>1, <2>2 DEF IngestInv, HandledAreTaken, Captured
    <3>2. Stage' = Stage
      <4>1. \A r : r # q => \A t \in Slot : Carries(t, r)' <=> Carries(t, r)
        BY <2>1, <2>2, <2>4, AdvanceCarries
      <4>2. \A r \in Result : Stage'[r] = Stage[r]
        BY <1>0, <2>1, <3>1, <4>1 DEF Stage, Held
      <4>. QED  BY <4>2 DEF Stage
    <3>3. Stage[q] = "taken"
      BY <2>2, <3>1, NonceStage
    <3>4. LogRows' = LogRows \cup {new}
      BY <2>4, LogAppended
    <3>5. Delivery!Log(q)
      <4>1. q \notin {l.nonce : l \in LogRows}
        BY <2>4
      <4>2. new.nonce = q
        OBVIOUS
      <4>. HIDE DEF new
      <4>3. {l.nonce : l \in LogRows'} = {l.nonce : l \in LogRows} \cup {new.nonce}
        BY <3>4
      <4>. QED  BY <3>2, <3>3, <4>1, <4>2, <4>3 DEF Delivery!Log
    <3>. QED  BY <3>1, <3>5 DEF Delivery!Next
  <2>. QED  BY <1>6, <2>2, <2>3, <2>4 DEF Mark
<1>. QED  BY <1>2, <1>3, <1>4, <1>5, <1>6 DEF Served, Handle

LEMMA PhoneCustodyInit == PhoneInit => Delivery!Init
<1>. SUFFICES ASSUME PhoneInit PROVE Delivery!Init
  OBVIOUS
<1>1. Captured = {}
  BY DEF PhoneInit, IngestInit, Captured
<1>2. logs = <<>>
  BY DEF PhoneInit, IngestInit
<1>3. LogRows = {}
  BY <1>2 DEF LogRows
<1>. QED  BY <1>1, <1>3 DEF Delivery!Init, Stage

LEMMA PhoneCustodyNext ==
  ASSUME PhoneInv, IngestInv, [PhoneNext]_vars
  PROVE  Delivery!Next
<1>. USE DEF PhoneInv, PhoneTypeOK
<1>0. TakenWereCaptured
  BY DEF NoncesGivenOut
<1>1. ASSUME NEW x \in Sighting, NEW s \in Slot, PostSighting(x, s) PROVE Delivery!Next
  <2>1. /\ UNCHANGED <<seen, logs, row>> /\ See(x) /\ Post(s, "result", <<Sent(x)>>)
    BY <1>1 DEF PostSighting, Post, dbVars, history
  <2>2. Sent(x) \in Result /\ Sent(x) \notin Captured /\ Captured' = Captured \cup {Sent(x)}
    BY <2>1, SeeCaptures DEF Captured
  <2>3. \A i \in 1..Len(<<Sent(x)>>) : <<Sent(x)>>[i] = Sent(x)
    OBVIOUS
  <2>4. \A t \in Slot : \A r : r # Sent(x) => (Carries(t, r)' <=> Carries(t, r))
    BY <2>1, <2>3, PostCarries
  <2>5. Held(Sent(x))'
    <3>1. st'[s] = "recv" /\ pos'[s] = 1 /\ payload'[s] = <<Sent(x)>>
      BY <2>1 DEF Post, TypeOK, RequestsOK
    <3>2. 1 \in 1..Len(<<Sent(x)>>) /\ <<Sent(x)>>[1] = Sent(x)
      OBVIOUS
    <3>3. Carries(s, Sent(x))'
      BY <3>1, <3>2 DEF Carries, Running
    <3>. QED  BY <3>3 DEF Held
  <2>. QED  BY <1>0, <2>1, <2>2, <2>4, <2>5, NonceCreated DEF Held
<1>2. ASSUME NEW x \in Sighting, SightingUnsent(x) PROVE Delivery!Next
  <2>1. See(x) /\ UNCHANGED <<seen, logs, row, st, pos, payload>>
    BY <1>2 DEF SightingUnsent, dbVars, reqVars, history
  <2>2. Sent(x) \in Result /\ Sent(x) \notin Captured /\ Captured' = Captured \cup {Sent(x)}
    BY <2>1, SeeCaptures DEF Captured
  <2>3. \A r : Held(r)' <=> Held(r)
    BY <2>1 DEF Held, Carries
  <2>4. \A s \in Slot : ~Carries(s, Sent(x))
    <3>. SUFFICES ASSUME NEW s \in Slot, Carries(s, Sent(x)) PROVE FALSE
      OBVIOUS
    <3>1. PICK i \in pos[s]..Len(payload[s]) : st[s] \in Running /\ payload[s][i] = Sent(x)
      BY DEF Carries
    <3>2. st[s] # "free" /\ pos[s] \in 1..Len(payload[s]) /\ Len(payload[s]) \in Nat
      BY <3>1 DEF Running, TypeOK, RequestsOK
    <3>3. i \in 1..Len(payload[s])
      BY <3>1, <3>2
    <3>4. stamp[Sent(x)] \in Time
      BY <3>1, <3>2, <3>3 DEF TypeOK, RequestsOK
    <3>. QED  BY <2>2, <3>4 DEF Captured, Time, Uncaptured
  <2>5. ~Held(Sent(x))
    BY <2>4 DEF Held, Sent
  <2>. QED  BY <1>0, <2>1, <2>2, <2>3, <2>5, NoncesLost
<1>3. ASSUME NEW x \in Sighting, InsertRow(x) PROVE Delivery!Next
  <2>1. /\ UNCHANGED <<seen, logs, st, pos, payload>>
        /\ send[x] = "queueing" /\ row' = [row EXCEPT ![x] = "pending"]
    BY <1>3 DEF InsertRow, Capture, dbVars, reqVars, history
  <2>2. Captured' = Captured \cup {Queued(x)} /\ Queued(x) \in Result
    BY <1>3, InsertCaptures, Nonces
  <2>3. Queued(x) \notin Captured
    BY <2>1 DEF NoncesGivenOut
  <2>4. Held(Queued(x))'
    BY <2>1 DEF Held, Queued
  <2>5. \A r \in Result : r # Queued(x) => (Held(r)' <=> Held(r))
    <3>. TAKE r \in Result
    <3>1. \A s \in Slot : Carries(s, r)' <=> Carries(s, r)
      BY <2>1 DEF Carries
    <3>2. r # Queued(x) => r[2] # "queued" \/ (r[1] \in Sighting /\ r[1] # x)
      BY DEF Queued
    <3>. QED  BY <2>1, <3>1, <3>2 DEF Held
  <2>. QED  BY <1>0, <2>1, <2>2, <2>3, <2>4, <2>5, NonceCreated
<1>4. ASSUME UNCHANGED <<stamp, seen, logs>>,
             \A t \in Slot : \A r : Carries(t, r)' => Carries(t, r),
             \A x \in Sighting : row'[x] = "pending" => row[x] = "pending"
      PROVE  Delivery!Next
  <2>1. \A r \in Result : Held(r)' => Held(r)
    BY <1>4 DEF Held
  <2>2. Captured' = Captured
    BY <1>4 DEF Captured
  <2>. QED  BY <1>0, <1>4, <2>1, <2>2, NoncesLost
<1>5. ASSUME NEW f \in Flush, NEW s \in Slot, PostBatch(f, s) PROVE Delivery!Next
  <2>1. /\ UNCHANGED <<stamp, seen, logs, row>> /\ Post(s, "batch", Body(batch[f]))
        /\ batch[f] \in Seq(Sighting)
    BY <1>5 DEF PostBatch, Post, dbVars, history
  <2>2. \A t \in Slot : \A r : Carries(t, r)' =>
          Carries(t, r) \/ \E i \in 1..Len(Body(batch[f])) : Body(batch[f])[i] = r
    BY <2>1, PostCarries
  <2>3. \A i \in 1..Len(Body(batch[f])) : \E x \in Sighting :
          Body(batch[f])[i] = Queued(x) /\ row[x] # "none"
    BY <2>1, BodyElements DEF BatchesAreRows
  <2>4. \A x \in Sighting : row[x] # "none" => Queued(x) \in seen \/ Held(Queued(x))
    BY DEF SyncedIsTaken, Held, Queued
  <2>5. ASSUME NEW r \in Result, r \notin seen, Held(r)' PROVE Held(r)
    <3>1. CASE r[2] = "queued" /\ row'[r[1]] = "pending"
      BY <2>1, <3>1 DEF Held
    <3>2. ASSUME NEW t \in Slot, Carries(t, r)' PROVE Held(r)
      <4>1. CASE Carries(t, r)
        BY <4>1 DEF Held
      <4>2. CASE \E i \in 1..Len(Body(batch[f])) : Body(batch[f])[i] = r
        <5>1. PICK x \in Sighting : r = Queued(x) /\ row[x] # "none"
          BY <2>3, <4>2
        <5>. QED  BY <2>4, <2>5, <5>1
      <4>. QED  BY <2>2, <3>2, <4>1, <4>2
    <3>. QED  BY <2>5, <3>1, <3>2 DEF Held
  <2>6. Captured' = Captured
    BY <2>1 DEF Captured
  <2>. QED  BY <1>0, <2>1, <2>5, <2>6, NoncesLost
<1>6. ASSUME NEW x \in Sighting,
             SightingAccepted(x) \/ SightingRefused(x) \/ SightingFails(x) \/ InsertFails(x)
      PROVE  Delivery!Next
  <2>1. /\ UNCHANGED <<stamp, seen, logs, row>>
        /\ UNCHANGED <<st, pos, payload>> \/ \E s \in Slot : Release(s)
    <3>1. CASE SightingFails(x) \/ InsertFails(x)
      BY <3>1 DEF SightingFails, Abandoned, InsertFails, ingestVars, dbVars, reqVars, history
    <3>2. CASE SightingAccepted(x) \/ SightingRefused(x)
      <4>1. sendSlot[x] \in Slot /\ Release(sendSlot[x]) /\ UNCHANGED <<stamp, row>>
        BY <3>2 DEF SightingAccepted, SightingRefused, Answered
      <4>. QED  BY <4>1 DEF Release, dbVars, history
    <3>. QED  BY <1>6, <3>1, <3>2
  <2>2. \A t \in Slot : \A r : Carries(t, r)' => Carries(t, r)
    BY <2>1, ReleaseCarries DEF Carries
  <2>. QED  BY <1>4, <2>1, <2>2
<1>7. ASSUME NEW f \in Flush,
             ReadPending(f) \/ BatchAccepted(f) \/ BatchRefused(f) \/ BatchFails(f) \/ MarkSynced(f)
      PROVE  Delivery!Next
  <2>1. /\ UNCHANGED <<stamp, seen, logs>>
        /\ UNCHANGED <<st, pos, payload>> \/ \E s \in Slot : Release(s)
    <3>1. CASE ReadPending(f) \/ MarkSynced(f) \/ BatchFails(f)
      BY <3>1 DEF ReadPending, MarkSynced, BatchFails, Interrupted, Abandoned, ingestVars, dbVars,
                  reqVars, history
    <3>2. CASE BatchAccepted(f) \/ BatchRefused(f)
      <4>1. flushSlot[f] \in Slot /\ Release(flushSlot[f]) /\ stamp' = stamp
        BY <3>2 DEF BatchAccepted, BatchRefused, Answered
      <4>. QED  BY <4>1 DEF Release, dbVars, history
    <3>. QED  BY <1>7, <3>1, <3>2
  <2>2. \A x \in Sighting : row'[x] = "pending" => row[x] = "pending"
    BY <1>7 DEF ReadPending, BatchAccepted, BatchRefused, BatchFails, MarkSynced
  <2>3. \A t \in Slot : \A r : Carries(t, r)' => Carries(t, r)
    BY <2>1, ReleaseCarries DEF Carries
  <2>. QED  BY <1>4, <2>1, <2>2, <2>3
<1>8. ASSUME NEW s \in Slot, OrphanReply(s) PROVE Delivery!Next
  <2>1. UNCHANGED <<stamp, seen, logs, row>> /\ Release(s)
    BY <1>8 DEF OrphanReply, Hangup, Release, dbVars, history, phoneVars
  <2>2. \A t \in Slot : \A r : Carries(t, r)' => Carries(t, r)
    BY <2>1, ReleaseCarries
  <2>. QED  BY <1>4, <2>1, <2>2
<1>9. CASE Stop \/ Start \/ RegistrationFails \/ UNCHANGED vars
  <2>1. UNCHANGED <<stamp, seen, logs, st, pos, payload, row>>
    BY <1>9 DEF Stop, Start, RegistrationFails, vars, phoneVars, ingestVars, dbVars, reqVars, history
  <2>2. \A t \in Slot : \A r : Carries(t, r)' => Carries(t, r)
    BY <2>1 DEF Carries
  <2>. QED  BY <1>4, <2>1, <2>2
<1>10. CASE Register \/ (Served /\ UNCHANGED phoneVars)
  BY <1>10, ServedCustody DEF Register, phoneVars
<1>. QED  BY <1>1, <1>2, <1>3, <1>5, <1>6, <1>7, <1>8, <1>9, <1>10
          DEF PhoneNext, SendWork, FlushWork, Fault

\* The refinement, nonce by nonce, also for the two nonces of one face: none is taken twice
\* or after it was lost, none is logged twice or without being taken, and one that can
\* still be delivered is held.
THEOREM PhoneImplementsCustody == PhoneSpec => PhoneCustody
<1>1. PhoneInv /\ IngestInv /\ [PhoneNext]_vars => [Delivery!Next]_(Delivery!custodyVars)
  BY PhoneCustodyNext
<1>. QED  BY <1>1, PhoneCustodyInit, PhoneInvariant, PhoneIsClient, OpenInvariant, PTL
          DEF PhoneSpec, PhoneCustody, Delivery!Spec
===============================================================================
