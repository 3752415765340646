----------------------------- MODULE Ingest_proofs -----------------------------
(***************************************************************************)
(* Proofs about module Ingest, for any results, users, workers, databases  *)
(* and number of concurrent requests: typing, the inductive invariant      *)
(* behind LoggedOnce, ProcessedOnce, AckedIsTaken and TakenIsAnswered, and *)
(* what overlapping handlers can do to the deduplication.                  *)
(***************************************************************************)
EXTENDS Ingest, TLAPS

USE SubjectAssumption, WorkerAssumption, TimeAssumption, DatabaseAssumption

-------------------------------------------------------------------------------
(* The clients of the proofs: a request may carry any number of captured results, where *)
(* Send, which TLC has to enumerate, stops at two, and one captured as it is sent.       *)

Offer(s) ==
  /\ \E k \in {"result", "batch"}, p \in Payloads :
       (\A i \in 1..Len(p) : p[i] \in Captured') /\ Post(s, k, p)
  /\ clock' = clock
  /\ \/ stamp' = stamp
     \/ \E r \in Result : stamp[r] = Uncaptured /\ stamp' = [stamp EXCEPT ![r] = clock]

OpenNext ==
  \/ Backend
  \/ \E r \in Result : Capture(r)
  \/ \E s \in Slot : Offer(s) \/ Hangup(s)

OpenSpec == IngestInit /\ [][OpenNext]_ingestVars

LEMMA SendOffers ==
  ASSUME NEW s \in Slot, Send(s)
  PROVE  Offer(s)
<1>1. PICK q \in Captured, r \in Captured :
        \E k \in {"result", "batch"}, p \in {<<r>>, <<q, r>>} : Post(s, k, p)
  BY DEF Send
<1>2. q \in Result /\ r \in Result
  BY DEF Captured
<1>3. <<r>> \in Payloads /\ \A i \in 1..Len(<<r>>) : <<r>>[i] \in Captured
  <2>1. Len(<<r>>) = 1 /\ <<r>>[1] = r /\ <<r>> \in Seq(Result)
    BY <1>2
  <2>. QED  BY <2>1 DEF Payloads
<1>4. <<q, r>> \in Payloads /\ \A i \in 1..Len(<<q, r>>) : <<q, r>>[i] \in Captured
  <2>1. /\ Len(<<q, r>>) = 2 /\ <<q, r>>[1] = q /\ <<q, r>>[2] = r
        /\ <<q, r>> \in Seq(Result)
    BY <1>2
  <2>. QED  BY <2>1 DEF Payloads
<1>5. stamp' = stamp /\ clock' = clock /\ Captured' = Captured
  BY DEF Send, Captured
<1>. QED  BY <1>1, <1>3, <1>4, <1>5 DEF Offer

\* What holds of these clients holds of the clients of Spec.
LEMMA ClientsAreOpen == Spec => OpenSpec
<1>1. [Next]_ingestVars => [OpenNext]_ingestVars
  BY SendOffers DEF Next, Client, OpenNext
<1>. QED  BY <1>1, PTL DEF Spec, OpenSpec

-------------------------------------------------------------------------------
(* Typing *)

\* The result at hand is one of Result, captured.
LEMMA CurrentType ==
  ASSUME RequestsOK, NEW s \in Slot, st[s] # "free"
  PROVE  Current(s) \in Result /\ stamp[Current(s)] \in Time
  BY DEF RequestsOK, Current

\* A handler that changes its step without moving on keeps the requests typed.
LEMMA GotoType ==
  ASSUME RequestsOK, NEW s \in Slot, st[s] # "free", stamp' = stamp,
         NEW next \in Status, next = "mark" => Subject[Current(s)] \in User,
         Goto(s, next)
  PROVE  RequestsOK'
<1>1. \A t \in Slot : st'[t] = IF t = s THEN next ELSE st[t]
  BY DEF RequestsOK, Goto
<1>2. \A t \in Slot : Current(t)' = Current(t)
  BY DEF Current, Goto
<1>3. st' \in [Slot -> Status] /\ UNCHANGED <<kind, payload, pos>>
  BY DEF RequestsOK, Goto
<1>. QED  BY <1>1, <1>2, <1>3 DEF RequestsOK

\* So does a handler that moves on to the next result, or replies.
LEMMA AdvanceType ==
  ASSUME RequestsOK, NEW s \in Slot, st[s] # "free", stamp' = stamp, Advance(s)
  PROVE  RequestsOK'
<1>1. CASE pos[s] = Len(payload[s])
  <2>1. Goto(s, "ok")
    BY <1>1 DEF Advance
  <2>. QED  BY <2>1, GotoType DEF Status, Replied
<1>2. CASE pos[s] # Len(payload[s])
  <2>1. /\ st' = [st EXCEPT ![s] = "check"]
        /\ pos' = [pos EXCEPT ![s] = pos[s] + 1]
        /\ kind' = kind /\ payload' = payload
    BY <1>2 DEF Advance
  <2>2. pos[s] \in 1..Len(payload[s]) /\ Len(payload[s]) \in Nat
    BY DEF RequestsOK
  <2>3. pos[s] + 1 \in 1..Len(payload[s])
    BY <1>2, <2>2
  <2>4. st' \in [Slot -> Status] /\ pos' \in [Slot -> Nat]
    BY <2>1, <2>2 DEF RequestsOK, Status, Running
  <2>5. \A t \in Slot : st'[t] = "mark" => st[t] = "mark" /\ Current(t)' = Current(t)
    BY <2>1, <2>4 DEF RequestsOK, Current
  <2>. QED  BY <2>1, <2>3, <2>4, <2>5 DEF RequestsOK
<1>. QED  BY <1>1, <1>2

LEMMA TypeInit == IngestInit => TypeOK
<1>. SUFFICES ASSUME IngestInit PROVE TypeOK
  OBVIOUS
<1>1. clock \in Time /\ stamp \in [Result -> Time \cup {Uncaptured}]
  BY DEF IngestInit, Time
<1>2. lastCleanup \in [Worker -> Time \cup {NeverCleaned}]
  BY DEF IngestInit
<1>3. /\ st \in [Slot -> Status] /\ payload \in [Slot -> Seq(Result)]
      /\ \A s \in Slot : st[s] = "free"
  BY DEF IngestInit, Status
<1>4. RequestsOK
  BY <1>3 DEF IngestInit, RequestsOK
<1>5. logs \in Seq(LogRow)
  BY DEF IngestInit
<1>. QED  BY <1>1, <1>2, <1>4, <1>5 DEF IngestInit, TypeOK, TablesOK

LEMMA HandleType ==
  ASSUME TypeOK, NEW s \in Slot, Handle(s)
  PROVE  TypeOK'
<1>. USE DEF TypeOK, Status, Running, Replied
<1>1. CASE LookupDevice(s)
  <2>1. RequestsOK'
    BY <1>1, GotoType DEF LookupDevice
  <2>. QED  BY <1>1, <2>1 DEF LookupDevice, TablesOK, dbVars, history
<1>2. CASE QueryGuard(s)
  <2>1. RequestsOK'
    BY <1>2, GotoType, AdvanceType DEF QueryGuard
  <2>. QED  BY <1>2, <2>1 DEF QueryGuard, TablesOK, dbVars, history
<1>3. CASE InsertNonce(s)
  <2>1. RequestsOK'
    BY <1>3, GotoType DEF InsertNonce
  <2>2. Current(s) \in Result
    BY <1>3, CurrentType DEF InsertNonce
  <2>3. guard' \subseteq GuardRow /\ expired' \subseteq Result /\ seen' \subseteq Result
    BY <1>3, <2>2 DEF InsertNonce, TablesOK, GuardRow, Stale
  <2>4. lastCleanup' \in [Worker -> Time \cup {NeverCleaned}]
    BY <1>3 DEF InsertNonce, TablesOK
  <2>. QED  BY <1>3, <2>1, <2>3, <2>4 DEF InsertNonce, TablesOK
<1>4. CASE Decide(s)
  <2>1. RequestsOK'
    BY <1>4, GotoType, AdvanceType DEF Decide
  <2>2. Current(s) \in Result
    BY <1>4, CurrentType DEF Decide
  <2>. QED  BY <1>4, <2>1, <2>2 DEF Decide, TablesOK, dbVars
<1>5. CASE Mark(s)
  <2>1. RequestsOK'
    BY <1>5, GotoType, AdvanceType DEF Mark
  <2>2. /\ Current(s) \in Result /\ stamp[Current(s)] \in Time
        /\ Subject[Current(s)] \in User
    BY <1>5, CurrentType DEF Mark, RequestsOK
  <2>3. [nonce |-> Current(s), user |-> Subject[Current(s)], ts |-> stamp[Current(s)]] \in LogRow
    BY <2>2 DEF LogRow
  <2>4. logs' \in Seq(LogRow)
    BY <1>5, <2>3 DEF Mark, TablesOK
  <2>5. overtaken' \subseteq Slot
    BY <1>5 DEF Mark, Overtakes, TablesOK
  <2>. QED  BY <1>5, <2>1, <2>2, <2>4, <2>5 DEF Mark, TablesOK
<1>. QED  BY <1>1, <1>2, <1>3, <1>4, <1>5 DEF Handle

\* The other endpoints, the network and the clock.
LEMMA ServiceType ==
  ASSUME TypeOK,
         \/ \E u \in User : LogAttendance(u)
         \/ \E w \in Worker : WorkerDies(w)
         \/ \E s \in Slot : LoseRequest(s)
         \/ RegisterDevice
         \/ Tick
  PROVE  TypeOK'
<1>. USE DEF TypeOK
<1>1. ASSUME NEW u \in User, LogAttendance(u) PROVE TypeOK'
  <2>1. RequestsOK'
    BY <1>1 DEF LogAttendance, RequestsOK, Current, reqVars
  <2>2. overtaken' \subseteq Slot /\ manual' \subseteq ManualRow
    BY <1>1 DEF LogAttendance, Overtakes, ManualRow, TablesOK
  <2>. QED  BY <1>1, <2>1, <2>2 DEF LogAttendance, TablesOK
<1>2. ASSUME NEW w \in Worker, WorkerDies(w) PROVE TypeOK'
  <2>1. RequestsOK'
    BY <1>2 DEF WorkerDies, RequestsOK, Status, Running, Replied, Current
  <2>2. TablesOK'
    BY <1>2 DEF WorkerDies, TablesOK, dbVars
  <2>. QED  BY <2>1, <2>2
<1>3. ASSUME NEW s \in Slot, LoseRequest(s) PROVE TypeOK'
  <2>1. RequestsOK'
    BY <1>3, GotoType DEF LoseRequest, Status, Replied
  <2>. QED  BY <1>3, <2>1 DEF LoseRequest, TablesOK, dbVars, history
<1>4. CASE RegisterDevice
  BY <1>4 DEF RegisterDevice, TablesOK, RequestsOK, Current, reqVars, history
<1>5. CASE Tick
  BY <1>5 DEF Tick, TablesOK, RequestsOK, Time, Current, dbVars, reqVars, history
<1>. QED  BY <1>1, <1>2, <1>3, <1>4, <1>5

\* A request of captured results posted by a client, and a reply that leaves.
LEMMA PostType ==
  ASSUME TypeOK, clock' = clock, stamp' \in [Result -> Time \cup {Uncaptured}],
         \A r \in Result : stamp[r] \in Time => stamp'[r] \in Time,
         NEW s \in Slot, NEW k \in {"result", "batch"},
         NEW p \in Payloads, \A i \in 1..Len(p) : stamp'[p[i]] \in Time, Post(s, k, p)
  PROVE  TypeOK'
<1>. USE DEF TypeOK
<1>1. 1 \in 1..Len(p) /\ p \in Seq(Result)
  BY DEF Payloads
<1>2. RequestsOK'
  <2>1. /\ st'[s] = "recv" /\ payload'[s] = p /\ pos'[s] = 1
        /\ \A t \in Slot : t # s => /\ st'[t] = st[t] /\ payload'[t] = payload[t]
                                    /\ pos'[t] = pos[t] /\ Current(t)' = Current(t)
    BY DEF Post, RequestsOK, Current
  <2>2. /\ st' \in [Slot -> Status] /\ kind' \in [Slot -> {"result", "batch"}]
        /\ payload' \in [Slot -> Seq(Result)] /\ pos' \in [Slot -> Nat]
    BY <1>1 DEF Post, RequestsOK, Status, Running
  <2>3. \A t \in Slot : \A i \in 1..Len(payload[t]) : payload[t][i] \in Result
    BY DEF RequestsOK
  <2>. QED  BY <1>1, <2>1, <2>2, <2>3 DEF RequestsOK
<1>3. TablesOK'
  BY DEF Post, TablesOK, dbVars, history
<1>. QED  BY <1>2, <1>3

LEMMA ReleaseType ==
  ASSUME TypeOK, clock' = clock, stamp' = stamp, NEW s \in Slot, Release(s)
  PROVE  TypeOK'
<1>. USE DEF TypeOK
<1>1. RequestsOK'
  BY DEF Release, RequestsOK, Status, Replied, Current
<1>2. TablesOK'
  BY DEF Release, TablesOK, dbVars, history
<1>. QED  BY <1>1, <1>2

LEMMA CaptureType ==
  ASSUME TypeOK, NEW r \in Result, Capture(r)
  PROVE  TypeOK'
<1>. USE DEF TypeOK
<1>1. stamp' \in [Result -> Time \cup {Uncaptured}] /\ \A q \in Result : stamp[q] \in Time => stamp'[q] \in Time
  BY DEF Capture, TablesOK
<1>2. RequestsOK'
  <2>1. \A s \in Slot : \A i \in 1..Len(payload[s]) : payload[s][i] \in Result
    BY DEF RequestsOK
  <2>. QED  BY <1>1, <2>1 DEF Capture, RequestsOK, Current, reqVars
<1>. QED  BY <1>1, <1>2 DEF Capture, TablesOK, dbVars, history

LEMMA OfferType ==
  ASSUME TypeOK, NEW s \in Slot, Offer(s)
  PROVE  TypeOK'
<1>1. /\ clock' = clock /\ stamp' \in [Result -> Time \cup {Uncaptured}]
      /\ \A r \in Result : stamp[r] \in Time => stamp'[r] \in Time
  BY DEF Offer, TypeOK, TablesOK
<1>2. \A r \in Captured' : stamp'[r] \in Time
  BY <1>1 DEF Captured
<1>. QED  BY <1>1, <1>2, PostType DEF Offer

LEMMA StutterType == TypeOK /\ UNCHANGED ingestVars => TypeOK'
  BY DEF TypeOK, TablesOK, RequestsOK, Current, ingestVars, dbVars, reqVars, history

LEMMA TypeNext == TypeOK /\ [OpenNext]_ingestVars => TypeOK'
<1>. SUFFICES ASSUME TypeOK, [OpenNext]_ingestVars PROVE TypeOK'
  OBVIOUS
<1>1. CASE Backend
  BY <1>1, HandleType, ServiceType DEF Backend
<1>2. ASSUME NEW r \in Result, Capture(r) PROVE TypeOK'
  BY <1>2, CaptureType
<1>3. ASSUME NEW s \in Slot, Offer(s) \/ Hangup(s) PROVE TypeOK'
  BY <1>3, OfferType, ReleaseType DEF Hangup
<1>. QED  BY <1>1, <1>2, <1>3, StutterType DEF OpenNext

LEMMA OpenTypes == OpenSpec => []TypeOK
  BY TypeInit, TypeNext, PTL DEF OpenSpec

\* Types are kept by every step: all variables of the backend stay what they are declared
\* to be, and no handler runs past the end of its request.
THEOREM IngestTypes == Spec => []TypeOK
  BY ClientsAreOpen, OpenTypes, PTL

-------------------------------------------------------------------------------
(* The inductive invariant. Tables concerns what is in the database and who holds which *)
(* nonce, Requests what lies behind each handler in its request.                        *)

Tables == GuardsAreTaken /\ AnswersAreTaken /\ LoggedOnce /\ ProcessedOnce /\ TakenIsAnswered
Requests == HandledAreTaken /\ AckedIsTaken
Fate == <<seen, expired, decided, stranded>>

\* What Goto and Advance do to the handlers.
LEMMA GotoEffect ==
  ASSUME RequestsOK, NEW s \in Slot, NEW next, Goto(s, next)
  PROVE  /\ \A t \in Slot : st'[t] = IF t = s THEN next ELSE st[t]
         /\ \A t \in Slot : Current(t)' = Current(t)
         /\ pos' = pos /\ payload' = payload
  BY DEF RequestsOK, Goto, Current

LEMMA AdvanceEffect ==
  ASSUME RequestsOK, NEW s \in Slot, Advance(s)
  PROVE  /\ \A t \in Slot : t # s => st'[t] = st[t] /\ pos'[t] = pos[t] /\ Current(t)' = Current(t)
         /\ payload' = payload
         /\ \/ st'[s] = "ok" /\ pos[s] = Len(payload[s]) /\ pos'[s] = pos[s]
            \/ st'[s] = "check" /\ pos'[s] = pos[s] + 1
  BY DEF RequestsOK, Advance, Goto, Current

\* A handler that moves on leaves a taken nonce behind.
LEMMA AdvanceRequests ==
  ASSUME TypeOK, Requests, NEW s \in Slot, st[s] # "free", seen \subseteq seen',
         Current(s) \in seen', Advance(s)
  PROVE  Requests'
<1>. USE DEF Requests, TypeOK
<1>1. pos[s] \in 1..Len(payload[s]) /\ Len(payload[s]) \in Nat
  BY DEF RequestsOK
<1>2. \A i \in 1..pos[s] : payload[s][i] \in seen'
  BY <1>1 DEF HandledAreTaken, Current
<1>3. HandledAreTaken'
  BY <1>1, <1>2, AdvanceEffect DEF HandledAreTaken
<1>4. AckedIsTaken'
  BY <1>1, <1>2, AdvanceEffect DEF AckedIsTaken
<1>. QED  BY <1>3, <1>4

\* A handler that only changes its step keeps what lies behind it.
LEMMA GotoRequests ==
  ASSUME TypeOK, Requests, NEW s \in Slot, st[s] # "free", seen \subseteq seen',
         NEW next, next # "ok", next \in {"decide", "mark"} => Current(s) \in seen',
         Goto(s, next)
  PROVE  Requests'
<1>. USE DEF Requests, TypeOK
<1>1. HandledAreTaken'
  BY GotoEffect DEF HandledAreTaken
<1>2. AckedIsTaken'
  BY GotoEffect DEF AckedIsTaken
<1>. QED  BY <1>1, <1>2

\* A step that leaves the tables alone and moves no nonce between handlers.
LEMMA QuietTables ==
  ASSUME Tables, UNCHANGED <<guard, logs, Fate>>,
         \A t \in Slot : \A r \in Result : Processing(t, r)' <=> Processing(t, r),
         TypeOK
  PROVE  Tables'
<1>1. GuardsAreTaken' /\ AnswersAreTaken' /\ LoggedOnce'
  BY DEF Tables, GuardsAreTaken, AnswersAreTaken, LogRows, LoggedOnce, Guarded, Fate
<1>2. ProcessedOnce'
  BY DEF Tables, ProcessedOnce, Fate
<1>3. TakenIsAnswered'
  BY DEF Tables, TakenIsAnswered, Fate, TypeOK, TablesOK
<1>. QED  BY <1>1, <1>2, <1>3 DEF Tables

LEMMA LookupInv ==
  ASSUME TypeOK, Tables, Requests, NEW s \in Slot, LookupDevice(s) \/ LoseRequest(s)
  PROVE  Tables' /\ Requests'
<1>1. PICK next \in {"err", "check"} : Goto(s, next)
  BY DEF LookupDevice, LoseRequest
<1>2. st[s] = "recv" /\ UNCHANGED <<guard, logs, Fate>>
  BY DEF LookupDevice, LoseRequest, dbVars, history, Fate
<1>3. \A t \in Slot : \A r \in Result : Processing(t, r)' <=> Processing(t, r)
  BY <1>1, <1>2, GotoEffect DEF Processing, TypeOK
<1>4. Requests'
  BY <1>1, <1>2, GotoRequests DEF history, Fate
<1>. QED  BY <1>2, <1>3, <1>4, QuietTables

LEMMA QueryInv ==
  ASSUME TypeOK, Tables, Requests, NEW s \in Slot, QueryGuard(s)
  PROVE  Tables' /\ Requests'
<1>1. st[s] = "check" /\ UNCHANGED <<guard, logs, Fate>>
  BY DEF QueryGuard, dbVars, history, Fate
<1>2. CASE \E next \in {"insert", "err"} : Goto(s, next)
  <2>1. \A t \in Slot : \A r \in Result : Processing(t, r)' <=> Processing(t, r)
    BY <1>1, <1>2, GotoEffect DEF Processing, TypeOK
  <2>2. Requests'
    BY <1>1, <1>2, GotoRequests DEF history, Fate
  <2>. QED  BY <1>1, <2>1, <2>2, QuietTables
<1>3. CASE Advance(s) /\ Guarded(Current(s))
  <2>1. \A t \in Slot : \A r \in Result : Processing(t, r)' <=> Processing(t, r)
    BY <1>1, <1>3, AdvanceEffect DEF Processing, TypeOK
  <2>2. Current(s) \in seen
    BY <1>3 DEF Tables, GuardsAreTaken, Guarded
  <2>3. Requests'
    BY <1>1, <1>3, <2>2, AdvanceRequests DEF history, Fate
  <2>. QED  BY <1>1, <2>1, <2>3, QuietTables
<1>. QED  BY <1>2, <1>3 DEF QueryGuard

\* The insert: a nonce that is not guarded and has not expired was never taken, so no
\* handler holds it and nothing has answered it.
LEMMA InsertInv ==
  ASSUME TypeOK, Tables, Requests, NEW s \in Slot, InsertNonce(s)
  PROVE  Tables' /\ Requests'
<1>. USE DEF TypeOK
<1>1. st[s] = "insert" /\ logs' = logs /\ decided' = decided /\ stranded' = stranded
  BY DEF InsertNonce
<1>2. Current(s) \in Result
  BY <1>1, CurrentType
<1>3. CASE Goto(s, "err") /\ UNCHANGED <<guard, lastCleanup, seen, expired>>
  <2>1. \A t \in Slot : \A r \in Result : Processing(t, r)' <=> Processing(t, r)
    BY <1>1, <1>3, GotoEffect DEF Processing
  <2>2. Requests'
    BY <1>1, <1>3, GotoRequests
  <2>. QED  BY <1>1, <1>3, <2>1, <2>2, QuietTables DEF history, Fate
<1>4. CASE ~Guarded(Current(s)) /\ Goto(s, "decide")
  <2>. DEFINE r == Current(s)
              row == [nonce |-> r, ts |-> clock]
  <2>1. PICK swept \in SUBSET guard :
          /\ guard' = (guard \ swept) \cup {row}
          /\ expired' = expired \cup {g.nonce : g \in swept}
          /\ seen' = seen \cup {r}
    BY <1>1, <1>4 DEF InsertNonce, Stale, Guarded
  <2>2. /\ \A t \in Slot : t # s => \A q \in Result : Processing(t, q)' <=> Processing(t, q)
        /\ \A q \in Result : Processing(s, q)' <=> q = r
        /\ \A q \in Result : ~Processing(s, q)
    BY <1>1, <1>4, GotoEffect DEF Processing
  <2>3. GuardsAreTaken'
    <3>1. \A g \in guard' : g.nonce \in seen'
      BY <2>1 DEF Tables, GuardsAreTaken
    <3>2. ASSUME NEW q \in seen' PROVE Guarded(q)' \/ q \in expired'
      <4>1. CASE q = r
        <5>1. row \in guard' /\ row.nonce = r
          BY <2>1
        <5>2. \E g \in guard' : g.nonce = q
          BY <5>1, <4>1
        <5>. QED  BY <5>2 DEF Guarded
      <4>2. CASE q \in expired
        BY <2>1, <4>2
      <4>3. CASE q # r /\ q \notin expired
        <5>1. PICK g \in guard : g.nonce = q
          BY <2>1, <4>3 DEF Tables, GuardsAreTaken, Guarded
        <5>. QED  BY <2>1, <5>1 DEF Guarded
      <4>. QED  BY <4>1, <4>2, <4>3
    <3>. QED  BY <3>1, <3>2 DEF GuardsAreTaken
  <2>4. AnswersAreTaken' /\ LoggedOnce'
    BY <1>1, <2>1 DEF Tables, AnswersAreTaken, LogRows, LoggedOnce
  <2>5. r \notin expired => r \notin seen
    BY <1>4 DEF Tables, GuardsAreTaken
  <2>6. r \notin seen => r \notin decided /\ \A t \in Slot : ~Processing(t, r)
    BY DEF Tables, AnswersAreTaken, Requests, HandledAreTaken, Processing
  <2>7. expired \subseteq expired'
    BY <2>1
  <2>8. ProcessedOnce'
    BY <1>1, <2>2, <2>5, <2>6, <2>7 DEF Tables, ProcessedOnce
  <2>9. TakenIsAnswered'
    <3>1. \A q \in seen : q \in Result
      BY DEF TablesOK
    <3>. QED  BY <1>1, <1>2, <2>1, <2>2, <3>1 DEF Tables, TakenIsAnswered
  <2>10. Requests'
    BY <1>1, <1>4, <2>1, GotoRequests
  <2>. QED  BY <2>3, <2>4, <2>8, <2>9, <2>10 DEF Tables
<1>. QED  BY <1>3, <1>4 DEF InsertNonce

\* A handler answers the result it holds and lets go of it.
LEMMA AnswerTables ==
  ASSUME TypeOK, Tables, NEW s \in Slot, NEW r \in Result, Processing(s, r), r \in seen,
         UNCHANGED <<guard, seen, expired, stranded>>, decided' = decided \cup {r},
         (\A l \in LogRows : l.nonce \in decided)', LoggedOnce',
         \A q \in Result : ~Processing(s, q)',
         \A t \in Slot : t # s => \A q \in Result : Processing(t, q)' <=> Processing(t, q)
  PROVE  Tables'
<1>1. GuardsAreTaken' /\ AnswersAreTaken'
  BY DEF Tables, GuardsAreTaken, AnswersAreTaken, Guarded
<1>2. ProcessedOnce'
  BY DEF Tables, ProcessedOnce
<1>3. TakenIsAnswered'
  <2>1. \A q \in seen : q \in Result
    BY DEF TypeOK, TablesOK
  <2>2. \A q \in Result : Processing(s, q) => q = r
    BY DEF Processing
  <2>. QED  BY <2>1, <2>2 DEF Tables, TakenIsAnswered
<1>. QED  BY <1>1, <1>2, <1>3 DEF Tables

\* A handler that raises strands the result it holds, unless that was answered before.
LEMMA RaiseTables ==
  ASSUME TypeOK, Tables, NEW s \in Slot, NEW r \in Result, Processing(s, r),
         UNCHANGED <<guard, logs, seen, expired, decided>>,
         stranded' = stranded \cup ({r} \ decided),
         \A q \in Result : ~Processing(s, q)',
         \A t \in Slot : t # s => \A q \in Result : Processing(t, q)' <=> Processing(t, q)
  PROVE  Tables'
<1>1. GuardsAreTaken' /\ AnswersAreTaken' /\ LoggedOnce'
  BY DEF Tables, GuardsAreTaken, AnswersAreTaken, Guarded, LogRows, LoggedOnce
<1>2. ProcessedOnce'
  BY DEF Tables, ProcessedOnce
<1>3. TakenIsAnswered'
  <2>1. \A q \in seen : q \in Result
    BY DEF TypeOK, TablesOK
  <2>2. \A q \in Result : Processing(s, q) => q = r
    BY DEF Processing
  <2>. QED  BY <2>1, <2>2 DEF Tables, TakenIsAnswered
<1>. QED  BY <1>1, <1>2, <1>3 DEF Tables

LEMMA DecideInv ==
  ASSUME TypeOK, Tables, Requests, NEW s \in Slot, Decide(s)
  PROVE  Tables' /\ Requests'
<1>. USE DEF TypeOK
<1>1. st[s] = "decide" /\ UNCHANGED <<guard, logs, seen, expired>>
  BY DEF Decide, dbVars
<1>2. Current(s) \in Result /\ Current(s) \in seen /\ Processing(s, Current(s))
  BY <1>1, CurrentType DEF Requests, HandledAreTaken, Processing
<1>3. CASE Goto(s, "mark") /\ UNCHANGED <<decided, stranded>>
  <2>1. \A t \in Slot : \A r \in Result : Processing(t, r)' <=> Processing(t, r)
    BY <1>1, <1>3, GotoEffect DEF Processing
  <2>2. Requests'
    BY <1>1, <1>2, <1>3, GotoRequests
  <2>. QED  BY <1>1, <1>3, <2>1, <2>2, QuietTables DEF Fate
<1>4. CASE /\ Advance(s) \/ Goto(s, "err")
           /\ decided' = decided \cup {Current(s)} /\ stranded' = stranded
  <2>1. /\ \A q \in Result : ~Processing(s, q)'
        /\ \A t \in Slot : t # s => \A q \in Result : Processing(t, q)' <=> Processing(t, q)
    BY <1>1, <1>4, AdvanceEffect, GotoEffect DEF Processing
  <2>2. LoggedOnce' /\ (\A l \in LogRows : l.nonce \in decided)'
    BY <1>1, <1>4 DEF Tables, LoggedOnce, AnswersAreTaken, LogRows
  <2>3. Tables'
    BY <1>1, <1>2, <1>4, <2>1, <2>2, AnswerTables
  <2>4. Requests'
    BY <1>1, <1>2, <1>4, AdvanceRequests, GotoRequests
  <2>. QED  BY <2>3, <2>4
<1>5. CASE /\ Goto(s, "err") /\ decided' = decided
           /\ stranded' = stranded \cup ({Current(s)} \ decided)
  <2>1. /\ \A q \in Result : ~Processing(s, q)'
        /\ \A t \in Slot : t # s => \A q \in Result : Processing(t, q)' <=> Processing(t, q)
    BY <1>1, <1>5, GotoEffect DEF Processing
  <2>2. Tables'
    BY <1>1, <1>2, <1>5, <2>1, RaiseTables
  <2>3. Requests'
    BY <1>1, <1>5, GotoRequests
  <2>. QED  BY <2>2, <2>3
<1>. QED  BY <1>3, <1>4, <1>5 DEF Decide

\* The unique index: a second log of one nonce fails, and the nonce was answered before.
LEMMA MarkInv ==
  ASSUME TypeOK, Tables, Requests, NEW s \in Slot, Mark(s)
  PROVE  Tables' /\ Requests'
<1>. USE DEF TypeOK
<1>. DEFINE r == Current(s)
<1>1. st[s] = "mark" /\ UNCHANGED <<guard, seen, expired, stranded>>
  BY DEF Mark
<1>2. r \in Result /\ r \in seen /\ Processing(s, r)
  BY <1>1, CurrentType DEF Requests, HandledAreTaken, Processing
<1>3. CASE (\E l \in LogRows : l.nonce = r) /\ Goto(s, "err") /\ UNCHANGED <<logs, decided>>
  <2>1. /\ \A q \in Result : ~Processing(s, q)'
        /\ \A t \in Slot : t # s => \A q \in Result : Processing(t, q)' <=> Processing(t, q)
    BY <1>1, <1>3, GotoEffect DEF Processing
  <2>2. r \in decided
    BY <1>3 DEF Tables, AnswersAreTaken
  <2>3. LoggedOnce' /\ (\A l \in LogRows : l.nonce \in decided)' /\ decided' = decided \cup {r}
    BY <1>3, <2>2 DEF Tables, LoggedOnce, AnswersAreTaken, LogRows
  <2>4. Tables'
    BY <1>1, <1>2, <2>1, <2>3, AnswerTables
  <2>5. Requests'
    BY <1>1, <1>3, GotoRequests
  <2>. QED  BY <2>4, <2>5
<1>4. CASE /\ \A l \in LogRows : l.nonce # r
           /\ logs' = Append(logs, [nonce |-> r, user |-> Subject[r], ts |-> stamp[r]])
           /\ decided' = decided \cup {r}
           /\ Advance(s)
  <2>1. /\ \A q \in Result : ~Processing(s, q)'
        /\ \A t \in Slot : t # s => \A q \in Result : Processing(t, q)' <=> Processing(t, q)
    BY <1>1, <1>4, AdvanceEffect DEF Processing
  <2>2. LoggedOnce' /\ (\A l \in LogRows : l.nonce \in decided)'
    BY <1>4 DEF Tables, LoggedOnce, AnswersAreTaken, LogRows
  <2>3. Tables'
    BY <1>1, <1>2, <1>4, <2>1, <2>2, AnswerTables
  <2>4. Requests'
    BY <1>1, <1>2, <1>4, AdvanceRequests
  <2>. QED  BY <2>3, <2>4
<1>. QED  BY <1>3, <1>4 DEF Mark

\* A dying worker strands what its handlers held.
LEMMA DiesInv ==
  ASSUME TypeOK, Tables, Requests, NEW w \in Worker, WorkerDies(w)
  PROVE  Tables' /\ Requests'
<1>. USE DEF TypeOK
<1>. DEFINE mine == {s \in Slot : WorkerOf[s] = w /\ st[s] \in Running}
            held == {r \in Result : \E s \in mine : Processing(s, r)}
<1>1. /\ UNCHANGED <<guard, logs, seen, expired, decided, pos, payload>>
      /\ stranded' = stranded \cup (held \ decided)
      /\ \A s \in Slot : st'[s] = IF s \in mine THEN "err" ELSE st[s]
  BY DEF WorkerDies, dbVars
<1>2. \A s \in Slot : Current(s)' = Current(s)
  BY <1>1 DEF Current
<1>3. \A s \in Slot : \A r \in Result : Processing(s, r)' <=> Processing(s, r) /\ s \notin mine
  BY <1>1, <1>2 DEF Processing
<1>4. GuardsAreTaken' /\ AnswersAreTaken' /\ LoggedOnce'
  BY <1>1 DEF Tables, GuardsAreTaken, AnswersAreTaken, LogRows, LoggedOnce, Guarded
<1>5. ProcessedOnce'
  BY <1>1, <1>3 DEF Tables, ProcessedOnce
<1>6. TakenIsAnswered'
  <2>. SUFFICES ASSUME NEW r \in seen
                PROVE  r \in decided' \cup stranded' \/ \E s \in Slot : Processing(s, r)'
    BY <1>1 DEF TakenIsAnswered
  <2>1. r \in Result
    BY DEF TablesOK
  <2>2. CASE \E s \in mine : Processing(s, r)
    BY <1>1, <2>1, <2>2
  <2>3. CASE ~ \E s \in mine : Processing(s, r)
    BY <1>1, <1>3, <2>1, <2>3 DEF Tables, TakenIsAnswered
  <2>. QED  BY <2>2, <2>3
<1>7. Requests'
  <2>1. \A s \in mine : st[s] # "free"
    BY DEF Running
  <2>2. HandledAreTaken'
    BY <1>1, <1>2, <2>1 DEF Requests, HandledAreTaken
  <2>3. AckedIsTaken'
    BY <1>1 DEF Requests, AckedIsTaken
  <2>. QED  BY <2>2, <2>3 DEF Requests
<1>. QED  BY <1>4, <1>5, <1>6, <1>7 DEF Tables

\* The steps that touch neither the nonces nor the handlers.
LEMMA QuietInv ==
  ASSUME TypeOK, Tables, Requests, UNCHANGED <<guard, logs, reqVars, Fate>>
  PROVE  Tables' /\ Requests'
<1>1. \A t \in Slot : \A r \in Result : Processing(t, r)' <=> Processing(t, r)
  BY DEF Processing, Current, reqVars
<1>2. Requests'
  BY DEF Requests, HandledAreTaken, AckedIsTaken, Current, reqVars, Fate
<1>. QED  BY <1>1, <1>2, QuietTables

\* A request that arrives has nothing behind it; a reply that leaves holds nothing.
LEMMA WireInv ==
  ASSUME TypeOK, Tables, Requests, NEW s \in Slot,
         Release(s) \/ \E k \in {"result", "batch"}, p \in Payloads : Post(s, k, p)
  PROVE  Tables' /\ Requests'
<1>1. /\ UNCHANGED <<guard, logs, Fate>>
      /\ st[s] \notin {"decide", "mark"} /\ st'[s] \in {"free", "recv"} /\ pos'[s] = 1
      /\ \A t \in Slot : t # s => /\ st'[t] = st[t] /\ pos'[t] = pos[t]
                                  /\ payload'[t] = payload[t]
  BY DEF Post, Release, TypeOK, RequestsOK, dbVars, Replied, history, Fate
<1>2. \A t \in Slot : t # s => Current(t)' = Current(t)
  BY <1>1 DEF Current
<1>3. \A t \in Slot : \A r \in Result : Processing(t, r)' <=> Processing(t, r)
  BY <1>1, <1>2 DEF Processing
<1>4. HandledAreTaken'
  <2>1. \A i \in 1..(pos'[s] - 1) : payload'[s][i] \in seen'
    BY <1>1
  <2>2. seen' = seen
    BY <1>1 DEF history, Fate
  <2>. QED  BY <1>1, <1>2, <2>1, <2>2 DEF Requests, HandledAreTaken
<1>5. AckedIsTaken'
  BY <1>1 DEF Requests, AckedIsTaken, Fate
<1>. QED  BY <1>1, <1>3, <1>4, <1>5, QuietTables DEF Requests

LEMMA InvInit == IngestInit => Tables /\ Requests
<1>. SUFFICES ASSUME IngestInit PROVE Tables /\ Requests
  OBVIOUS
<1>1. seen = {} /\ guard = {} /\ logs = <<>> /\ decided = {}
  BY DEF IngestInit
<1>2. \A s \in Slot : st[s] = "free"
  BY DEF IngestInit
<1>3. \A s \in Slot : pos[s] = 1
  BY DEF IngestInit
<1>4. Tables
  BY <1>1, <1>2 DEF Tables, GuardsAreTaken, AnswersAreTaken, LogRows, LoggedOnce, ProcessedOnce,
                    TakenIsAnswered, Processing
<1>5. Requests
  BY <1>2, <1>3 DEF Requests, HandledAreTaken, AckedIsTaken
<1>. QED  BY <1>4, <1>5

LEMMA InvNext == TypeOK /\ Tables /\ Requests /\ [OpenNext]_ingestVars => Tables' /\ Requests'
<1>. SUFFICES ASSUME TypeOK, Tables, Requests, [OpenNext]_ingestVars PROVE Tables' /\ Requests'
  OBVIOUS
<1>1. ASSUME NEW s \in Slot, Handle(s) \/ LoseRequest(s) PROVE Tables' /\ Requests'
  BY <1>1, LookupInv, QueryInv, InsertInv, DecideInv, MarkInv DEF Handle
<1>2. CASE (\E u \in User : LogAttendance(u)) \/ RegisterDevice \/ Tick
  BY <1>2, QuietInv DEF LogAttendance, RegisterDevice, Tick, dbVars, history, Fate
<1>3. ASSUME NEW r \in Result, Capture(r) PROVE Tables' /\ Requests'
  BY <1>3, QuietInv DEF Capture, dbVars, history, Fate
<1>4. ASSUME NEW s \in Slot, Offer(s) \/ Hangup(s) PROVE Tables' /\ Requests'
  BY <1>4, WireInv DEF Offer, Hangup
<1>5. CASE UNCHANGED ingestVars
  BY <1>5, QuietInv DEF ingestVars, dbVars, history, Fate
<1>. QED  BY <1>1, <1>2, <1>3, <1>4, <1>5, DiesInv DEF OpenNext, Backend

-------------------------------------------------------------------------------
(* The duplicate query and the insert behind it. *)

\* What a log appended does to the rows of the table.
LEMMA LogAppended ==
  ASSUME TypeOK, NEW l, logs' = Append(logs, l)
  PROVE  LogRows' = LogRows \cup {l}
<1>1. Len(logs) \in Nat /\ logs \in Seq(LogRow)
  BY DEF TypeOK, TablesOK
<1>2. /\ Len(logs') = Len(logs) + 1
      /\ \A i \in 1..Len(logs) : logs'[i] = logs[i]
      /\ logs'[Len(logs) + 1] = l
  BY <1>1
<1>. QED  BY <1>1, <1>2 DEF LogRows

\* No handler comes to the insert but from the query, and only a new log makes a user recent.
LEMMA QueryKept ==
  ASSUME TypeOK, QueryHolds, UNCHANGED <<logs, manual>>, clock' \in {clock, clock + 1},
         \A s \in Slot : st'[s] = "mark" =>
           \/ st[s] = "mark" /\ Current(s)' = Current(s) /\ (s \in overtaken => s \in overtaken')
           \/ ~Recent(Subject[Current(s)']) 
  PROVE  QueryHolds'
<1>1. \A u : Recent(u)' => Recent(u)
  <2>1. LogRows' = LogRows
    BY DEF LogRows
  <2>2. \A l \in LogRows \cup manual : l.ts \in Int
    <3>1. \A i \in 1..Len(logs) : logs[i] \in LogRow
      BY DEF TypeOK, TablesOK
    <3>. QED  BY <3>1 DEF TypeOK, TablesOK, LogRows, LogRow, ManualRow, Time
  <2>3. clock \in Int
    BY DEF TypeOK, TablesOK, Time
  <2>. QED  BY <2>1, <2>2, <2>3 DEF Recent
<1>. QED  BY <1>1 DEF QueryHolds

LEMMA QueryHoldsNext ==
  ASSUME TypeOK, QueryHolds, [OpenNext]_ingestVars
  PROVE  QueryHolds'
<1>. USE DEF TypeOK
<1>1. CASE UNCHANGED ingestVars
  BY <1>1, QueryKept DEF ingestVars, dbVars, reqVars, history, Current
<1>2. ASSUME NEW s \in Slot, LookupDevice(s) \/ QueryGuard(s) \/ InsertNonce(s) \/ LoseRequest(s)
      PROVE  QueryHolds'
  <2>1. st[s] # "mark" /\ UNCHANGED <<logs, manual, clock, overtaken>>
    BY <1>2 DEF LookupDevice, QueryGuard, InsertNonce, LoseRequest, dbVars, history
  <2>2. Advance(s) \/ \E next \in Status \ {"mark"} : Goto(s, next)
    BY <1>2 DEF LookupDevice, QueryGuard, InsertNonce, LoseRequest, Status, Running, Replied
  <2>3. \A t \in Slot : st'[t] = "mark" => st[t] = "mark" /\ Current(t)' = Current(t)
    BY <2>1, <2>2, AdvanceEffect, GotoEffect
  <2>. QED  BY <2>1, <2>3, QueryKept
<1>3. ASSUME NEW s \in Slot, Decide(s) PROVE QueryHolds'
  <2>1. st[s] = "decide" /\ UNCHANGED <<logs, manual, clock, overtaken>>
    BY <1>3 DEF Decide, dbVars
  <2>2. \/ Advance(s) \/ Goto(s, "err")
        \/ Goto(s, "mark") /\ ~Recent(Subject[Current(s)])
    BY <1>3 DEF Decide
  <2>3. \A t \in Slot : st'[t] = "mark" =>
          \/ st[t] = "mark" /\ Current(t)' = Current(t)
          \/ ~Recent(Subject[Current(t)'])
    BY <2>1, <2>2, AdvanceEffect, GotoEffect
  <2>. QED  BY <2>1, <2>3, QueryKept
<1>4. ASSUME NEW s \in Slot, Mark(s) PROVE QueryHolds'
  <2>. DEFINE r == Current(s)
  <2>1. st[s] = "mark" /\ UNCHANGED <<clock, manual>>
    BY <1>4 DEF Mark
  <2>2. CASE Goto(s, "err") /\ logs' = logs /\ overtaken' = overtaken \ {s}
    <3>1. \A t \in Slot : st'[t] = "mark" => t # s /\ st[t] = "mark" /\ Current(t)' = Current(t)
      BY <2>2, GotoEffect
    <3>. QED  BY <2>1, <2>2, <3>1, QueryKept
  <2>3. CASE /\ logs' = Append(logs, [nonce |-> r, user |-> Subject[r], ts |-> stamp[r]])
             /\ overtaken' = (overtaken \cup Overtakes(Subject[r])) \ {s}
             /\ Advance(s)
    <3>1. \A t \in Slot : st'[t] = "mark" => t # s /\ st[t] = "mark" /\ Current(t)' = Current(t)
      BY <2>3, AdvanceEffect
    <3>2. LogRows' = LogRows \cup {[nonce |-> r, user |-> Subject[r], ts |-> stamp[r]]}
      BY <2>3, LogAppended
    <3>3. \A u : u # Subject[r] /\ Recent(u)' => Recent(u)
      BY <2>1, <3>2 DEF Recent
    <3>. QED  BY <2>3, <3>1, <3>3 DEF QueryHolds, Overtakes
  <2>. QED  BY <1>4, <2>2, <2>3 DEF Mark
<1>5. ASSUME NEW u \in User, LogAttendance(u) PROVE QueryHolds'
  <2>1. /\ logs' = logs /\ clock' = clock /\ manual' = manual \cup {[user |-> u, ts |-> clock]}
        /\ overtaken' = overtaken \cup Overtakes(u)
        /\ \A t \in Slot : st'[t] = st[t] /\ Current(t)' = Current(t)
    BY <1>5 DEF LogAttendance, reqVars, Current
  <2>2. \A v : v # u /\ Recent(v)' => Recent(v)
    BY <2>1 DEF Recent, LogRows
  <2>. QED  BY <2>1, <2>2 DEF QueryHolds, Overtakes
<1>6. ASSUME NEW w \in Worker, WorkerDies(w) PROVE QueryHolds'
  <2>1. UNCHANGED <<logs, manual, clock, payload, pos>>
    BY <1>6 DEF WorkerDies, dbVars
  <2>2. \A t \in Slot : st'[t] = "mark" => st[t] = "mark" /\ (t \in overtaken => t \in overtaken')
    BY <1>6 DEF WorkerDies, RequestsOK, Running
  <2>. QED  BY <2>1, <2>2, QueryKept DEF Current
<1>7. CASE RegisterDevice \/ Tick \/ \E r \in Result : Capture(r)
  <2>1. UNCHANGED <<logs, manual, reqVars, overtaken>> /\ clock' \in {clock, clock + 1}
    BY <1>7 DEF RegisterDevice, Tick, Capture, dbVars, history
  <2>. QED  BY <2>1, QueryKept DEF reqVars, Current
<1>8. ASSUME NEW s \in Slot, Offer(s) \/ Hangup(s) PROVE QueryHolds'
  <2>1. Release(s) \/ \E k \in {"result", "batch"}, p \in Payloads : Post(s, k, p)
    BY <1>8 DEF Hangup, Offer
  <2>2. UNCHANGED <<logs, manual, clock, overtaken>>
    BY <1>8 DEF Offer, Hangup, Post, Release, dbVars, history
  <2>3. \A t \in Slot : st'[t] = "mark" => st[t] = "mark" /\ Current(t)' = Current(t)
    BY <2>1 DEF Post, Release, RequestsOK, Current
  <2>. QED  BY <2>2, <2>3, QueryKept
<1>. QED  BY <1>1, <1>2, <1>3, <1>4, <1>5, <1>6, <1>7, <1>8 DEF OpenNext, Backend, Handle

LEMMA OpenInvariant == OpenSpec => []IngestInv
<1>1. OpenSpec => [](Tables /\ Requests)
  BY OpenTypes, InvInit, InvNext, PTL DEF OpenSpec
<1>2. OpenSpec => []QueryHolds
  <2>1. IngestInit => QueryHolds
    BY DEF IngestInit, QueryHolds
  <2>2. TypeOK /\ QueryHolds /\ [OpenNext]_ingestVars => QueryHolds'
    BY QueryHoldsNext
  <2>. QED  BY OpenTypes, <2>1, <2>2, PTL DEF OpenSpec
<1>3. TypeOK /\ Tables /\ Requests /\ QueryHolds => IngestInv
  BY DEF IngestInv, Tables, Requests
<1>. QED  BY <1>1, <1>2, <1>3, OpenTypes, PTL

\* The invariant holds throughout, for any number of results, users, workers and requests.
THEOREM IngestInvariant == Spec => []IngestInv
  BY ClientsAreOpen, OpenInvariant, PTL

\* A user with a log within the cooldown is logged again only by an overtaken handler.
THEOREM DuplicatesNeedOverlap == Spec => DuplicateNeedsOverlap
<1>1. IngestInv /\ [Next]_ingestVars =>
        [\A s \in Slot, l \in LogRows' \ LogRows :
           /\ Mark(s)
           /\ \E o \in LogRows \cup manual : o.user = l.user /\ o.ts > clock - Cooldown
           => s \in overtaken]_ingestVars
  <2>. SUFFICES ASSUME IngestInv, NEW s \in Slot, NEW l \in LogRows' \ LogRows, Mark(s),
                       Recent(l.user)
                PROVE  s \in overtaken
    BY DEF Recent
  <2>. DEFINE row == [nonce |-> Current(s), user |-> Subject[Current(s)], ts |-> stamp[Current(s)]]
  <2>1. st[s] = "mark" /\ (logs' = logs \/ logs' = Append(logs, row))
    BY DEF Mark
  <2>2. Len(logs) \in Nat /\ logs \in Seq(LogRow)
    BY DEF IngestInv, TypeOK, TablesOK
  <2>3. l = row
    <3>1. logs' = Append(logs, row)
      BY <2>1 DEF LogRows
    <3>2. PICK i \in 1..(Len(logs) + 1) : l = Append(logs, row)[i]
      BY <2>2, <3>1 DEF LogRows
    <3>3. i \notin 1..Len(logs)
      BY <2>2, <3>2 DEF LogRows
    <3>. QED  BY <2>2, <3>2, <3>3
  <2>. QED  BY <2>1, <2>3 DEF IngestInv, QueryHolds
<1>. QED  BY <1>1, IngestInvariant, PTL DEF Spec, DuplicateNeedsOverlap

\* A nonce is logged at most once, whatever the clients send and the clean-up forgets.
THEOREM NonceLoggedOnce == Spec => []LoggedOnce
<1>1. IngestInv => LoggedOnce
  BY DEF IngestInv
<1>. QED  BY <1>1, IngestInvariant, PTL

\* A nonce is processed by at most one handler and only once while its guard row lives.
THEOREM NonceProcessedOnce == Spec => []ProcessedOnce
<1>1. IngestInv => ProcessedOnce
  BY DEF IngestInv
<1>. QED  BY <1>1, IngestInvariant, PTL

\* What the backend has answered 200 to, it has taken.
THEOREM AckedResultsAreTaken == Spec => []AckedIsTaken
<1>1. IngestInv => AckedIsTaken
  BY DEF IngestInv
<1>. QED  BY <1>1, IngestInvariant, PTL

\* What the backend has taken is answered unless its worker died or its handler raised.
THEOREM TakenResultsAreAnswered == Spec => []TakenIsAnswered
<1>1. IngestInv => TakenIsAnswered
  BY DEF IngestInv
<1>. QED  BY <1>1, IngestInvariant, PTL

-------------------------------------------------------------------------------
(* What a client can rely on: its request stays in its slot until it reads the reply, the *)
(* backend takes only what is captured, and a handler lets go of a result for good.       *)

\* What the device's request and everybody's handlers do to the slots.
LEMMA BackendKeeps ==
  ASSUME TypeOK, Backend
  PROVE  /\ stamp' = stamp /\ payload' = payload
         /\ \A s \in Slot : st[s] # "free" => st'[s] # "free"
<1>. USE DEF TypeOK
<1>1. ASSUME NEW s \in Slot, Handle(s) \/ LoseRequest(s)
      PROVE  /\ stamp' = stamp /\ payload' = payload
             /\ \A t \in Slot : st[t] # "free" => st'[t] # "free"
  <2>1. stamp' = stamp /\ (Advance(s) \/ \E next \in Status \ {"free"} : Goto(s, next))
    BY <1>1 DEF Handle, LookupDevice, QueryGuard, InsertNonce, Decide, Mark, LoseRequest,
                Status, Running, Replied
  <2>2. CASE Advance(s)
    BY <2>1, <2>2, AdvanceEffect
  <2>3. ASSUME NEW next \in Status \ {"free"}, Goto(s, next)
        PROVE  payload' = payload /\ \A t \in Slot : st[t] # "free" => st'[t] # "free"
    BY <2>3, GotoEffect
  <2>. QED  BY <2>1, <2>2, <2>3
<1>2. ASSUME NEW w \in Worker, WorkerDies(w)
      PROVE  /\ stamp' = stamp /\ payload' = payload
             /\ \A t \in Slot : st[t] # "free" => st'[t] # "free"
  BY <1>2 DEF WorkerDies
<1>3. CASE (\E u \in User : LogAttendance(u)) \/ RegisterDevice \/ Tick
  BY <1>3 DEF LogAttendance, RegisterDevice, Tick, reqVars
<1>. QED  BY <1>1, <1>2, <1>3 DEF Backend

LEMMA CurrentCaptured ==
  ASSUME TypeOK, NEW s \in Slot, st[s] # "free"
  PROVE  Current(s) \in Captured
<1>1. Current(s) \in Result /\ stamp[Current(s)] \in Time
  BY CurrentType DEF TypeOK
<1>2. \A t \in Time : t # Uncaptured
  BY DEF Time, Uncaptured
<1>. QED  BY <1>1, <1>2 DEF Captured

\* The backend takes only what is captured, and what is taken stays taken.
LEMMA TakenNext ==
  ASSUME TypeOK, [OpenNext]_ingestVars
  PROVE  /\ seen \subseteq seen'
         /\ TakenWereCaptured => TakenWereCaptured'
<1>. USE DEF TypeOK
<1>1. Captured \subseteq Captured'
  <2>1. \/ stamp' = stamp
        \/ \E r \in Result : stamp[r] = Uncaptured /\ stamp' = [stamp EXCEPT ![r] = clock]
    BY DEF OpenNext, Backend, Handle, LookupDevice, QueryGuard, InsertNonce, Decide, Mark,
           LoseRequest, LogAttendance, WorkerDies, RegisterDevice, Tick, Capture, Offer, Hangup,
           ingestVars
  <2>2. ASSUME NEW r \in Result, stamp' = [stamp EXCEPT ![r] = clock] PROVE Captured \subseteq Captured'
    BY <2>2 DEF Captured, TablesOK, Time, Uncaptured
  <2>3. CASE stamp' = stamp
    BY <2>3 DEF Captured
  <2>. QED  BY <2>1, <2>2, <2>3
<1>2. \/ seen' = seen
      \/ \E s \in Slot : st[s] = "insert" /\ seen' = seen \cup {Current(s)}
  BY DEF OpenNext, Backend, Handle, LookupDevice, QueryGuard, InsertNonce, Decide, Mark,
         LoseRequest, LogAttendance, WorkerDies, RegisterDevice, Tick, Capture, Offer, Hangup,
         Post, Release, history, ingestVars
<1>3. \A s \in Slot : st[s] = "insert" => Current(s) \in Captured
  BY CurrentCaptured
<1>. QED  BY <1>1, <1>2, <1>3 DEF TakenWereCaptured

\* What a handler still has to deliver after it has changed its step, or moved on.
LEMMA GotoCarries ==
  ASSUME TypeOK, NEW s \in Slot, st[s] \in Running, NEW next, Goto(s, next)
  PROVE  \A t \in Slot : \A r : /\ Carries(t, r)' => Carries(t, r)
                                /\ next \in Running => (Carries(t, r)' <=> Carries(t, r))
  BY GotoEffect DEF TypeOK, Carries

LEMMA AdvanceCarries ==
  ASSUME TypeOK, NEW s \in Slot, st[s] \in Running, Advance(s)
  PROVE  \A t \in Slot : \A r : /\ Carries(t, r)' => Carries(t, r)
                                /\ r # Current(s) => (Carries(t, r)' <=> Carries(t, r))
<1>. USE DEF TypeOK
<1>1. pos[s] \in 1..Len(payload[s]) /\ Len(payload[s]) \in Nat
  BY DEF RequestsOK, Running
<1>2. \A t \in Slot : t # s => \A r : Carries(t, r)' <=> Carries(t, r)
  BY AdvanceEffect DEF Carries
<1>3. CASE st'[s] = "ok" /\ pos[s] = Len(payload[s])
  <2>1. \A r : ~Carries(s, r)'
    BY <1>3 DEF Carries, Running
  <2>2. \A r : Carries(s, r) => r = Current(s)
    BY <1>1, <1>3 DEF Carries, Current
  <2>. QED  BY <1>2, <2>1, <2>2
<1>4. CASE st'[s] = "check" /\ pos'[s] = pos[s] + 1 /\ payload' = payload
  <2>1. \A r : Carries(s, r)' <=> \E i \in (pos[s] + 1)..Len(payload[s]) : payload[s][i] = r
    BY <1>4 DEF Carries, Running
  <2>2. \A r : Carries(s, r) <=> \E i \in pos[s]..Len(payload[s]) : payload[s][i] = r
    BY DEF Carries
  <2>3. pos[s]..Len(payload[s]) = {pos[s]} \cup ((pos[s] + 1)..Len(payload[s]))
    BY <1>1
  <2>4. \A r : Carries(s, r) <=> Carries(s, r)' \/ r = Current(s)
    BY <2>1, <2>2, <2>3 DEF Current
  <2>. QED  BY <1>2, <2>4
<1>. QED  BY <1>3, <1>4, AdvanceEffect

\* A reply that leaves its slot carries nothing.
LEMMA ReleaseCarries ==
  ASSUME TypeOK, NEW s \in Slot, Release(s)
  PROVE  \A t \in Slot : \A r : Carries(t, r)' => Carries(t, r)
<1>1. /\ st'[s] = "free"
      /\ \A t \in Slot : t # s => st'[t] = st[t] /\ pos'[t] = pos[t] /\ payload'[t] = payload[t]
  BY DEF Release, TypeOK, RequestsOK
<1>. QED  BY <1>1 DEF Carries, Running
===============================================================================
