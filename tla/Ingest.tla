-------------------------------- MODULE Ingest --------------------------------
(***************************************************************************)
(* The IoT backend (backend/app.py) ingesting recognition results: the     *)
(* handlers of /api/edge/result and /api/edge/sync, check_replay with its  *)
(* clean-up, _process_result, /api/log_attendance and device registration. *)
(* Several gunicorn workers run handlers at one time over one database;    *)
(* every database round trip another handler can tell apart is a step of   *)
(* its own (the clean-up goes with the insert it follows).                 *)
(* Clients are left open here: any request may arrive at any time.         *)
(***************************************************************************)
EXTENDS Integers, Sequences, FiniteSets

CONSTANTS
  Result,           \* results clients send; each has its own nonce and stands for it
  User,             \* enrolled users
  NoUser,           \* "matches nobody"
  Subject,          \* Subject[r]: whose face r shows, NoUser when not live or too poor
  Slot,             \* requests the workers can handle at one time
  Worker,           \* gunicorn worker processes
  WorkerOf,         \* WorkerOf[s]: the worker that runs slot s
  Cooldown,         \* DEDUP_COOLDOWN, in ticks
  ReplayTTL,        \* lifetime of a ReplayGuard row (one hour), in ticks
  CleanupInterval,  \* REPLAY_CLEANUP_INTERVAL, in ticks
  Databases,        \* what DATABASE_URL may name: "sqlite", "postgresql"
  MaxClock,         \* bound: ticks explored
  MaxManual         \* bound: rows logged by /api/log_attendance

ASSUME SubjectAssumption == NoUser \notin User /\ Subject \in [Result -> User \cup {NoUser}]
ASSUME WorkerAssumption == WorkerOf \in [Slot -> Worker]
ASSUME TimeAssumption ==
  /\ Cooldown \in Nat /\ ReplayTTL \in Nat /\ CleanupInterval \in Nat
  /\ MaxClock \in Nat /\ MaxManual \in Nat

ASSUME DatabaseAssumption == Databases \subseteq {"sqlite", "postgresql"}

VARIABLES
  clock,       \* now, the same for all machines
  stamp,       \* stamp[r]: the capture time r carries, Uncaptured before capture
  registered,  \* TRUE iff the devices table has the sending device
  database,    \* the database of this deployment, chosen once
  guard,       \* the replay_guard table
  logs,        \* attendance_logs rows that carry a nonce, in the order of their ids
  manual,      \* attendance_logs rows without one
  lastCleanup, \* _last_replay_cleanup of each worker process
  st,          \* st[s]: where the handler in slot s stands
  kind,        \* kind[s]: "result" or "batch"
  payload,     \* payload[s]: the results of the request
  pos          \* pos[s]: the result being handled

\* What has happened, for the properties: no action reads these five.
VARIABLES
  seen,        \* nonces ever committed to replay_guard
  expired,     \* nonces whose row a clean-up deleted
  decided,     \* results _process_result answered: rejected, unknown, duplicate or marked
  stranded,    \* results guarded and not answered by a worker that died or a handler that raised
  overtaken    \* handlers about to log a user whom another has logged since their query

dbVars == <<database, registered, guard, logs, manual>>
reqVars == <<st, kind, payload, pos>>
history == <<seen, expired, decided, stranded, overtaken>>
ingestVars == <<clock, stamp, dbVars, lastCleanup, reqVars, history>>

Time == 0..MaxClock
Uncaptured == MaxClock + 1
NeverCleaned == -CleanupInterval
GuardRow == [nonce: Result, ts: Time]
LogRow == [nonce: Result, user: User, ts: Time]
ManualRow == [user: User, ts: Time]

\* Steps of a handler: received, about to query the guard, about to insert the nonce,
\* about to match and deduplicate, about to insert the log, replied 200, replied otherwise.
Running == {"recv", "check", "insert", "decide", "mark"}
Replied == {"ok", "err"}
Status == {"free"} \cup Running \cup Replied
Payloads == Seq(Result) \ {<<>>}

Current(s) == payload[s][pos[s]]
\* The handler holds the nonce of its current result and has not answered it yet.
Processing(s, r) == st[s] \in {"decide", "mark"} /\ Current(s) = r
\* The handler has not dealt with r yet.
Carries(s, r) == st[s] \in Running /\ \E i \in pos[s]..Len(payload[s]) : payload[s][i] = r
LogRows == {logs[i] : i \in 1..Len(logs)}
Guarded(r) == \E g \in guard : g.nonce = r
Captured == {r \in Result : stamp[r] # Uncaptured}

-------------------------------------------------------------------------------
IngestInit ==
  /\ clock = 0
  /\ stamp = [r \in Result |-> Uncaptured]
  /\ registered = FALSE
  /\ database \in Databases
  /\ guard = {}
  /\ logs = <<>> /\ manual = {}
  /\ lastCleanup = [w \in Worker |-> NeverCleaned]
  /\ st = [s \in Slot |-> "free"]
  /\ kind = [s \in Slot |-> "result"]
  /\ payload = [s \in Slot |-> <<>>]
  /\ pos = [s \in Slot |-> 1]
  /\ seen = {} /\ expired = {} /\ decided = {} /\ stranded = {}
  /\ overtaken = {}

\* A request of kind k with results p leaves a client for a free slot.
Post(s, k, p) ==
  /\ st[s] = "free"
  /\ st' = [st EXCEPT ![s] = "recv"]
  /\ kind' = [kind EXCEPT ![s] = k]
  /\ payload' = [payload EXCEPT ![s] = p]
  /\ pos' = [pos EXCEPT ![s] = 1]
  /\ UNCHANGED <<dbVars, lastCleanup, history>>

\* The reply leaves the slot, read by its client or by nobody.
Release(s) ==
  /\ st[s] \in Replied
  /\ st' = [st EXCEPT ![s] = "free"]
  /\ payload' = [payload EXCEPT ![s] = <<>>]
  /\ pos' = [pos EXCEPT ![s] = 1]
  /\ kind' = [kind EXCEPT ![s] = "result"]
  /\ UNCHANGED <<dbVars, lastCleanup, history>>

-------------------------------------------------------------------------------
(* Steps of a handler. *)

Goto(s, next) == st' = [st EXCEPT ![s] = next] /\ UNCHANGED <<kind, payload, pos>>

\* Mutant: /sync returns from inside its loop.
AdvanceStops(s) == Goto(s, "ok")

\* The current result is dealt with: the batch loop goes on, or the reply is 200.
Advance(s) ==
  IF pos[s] = Len(payload[s])
  THEN Goto(s, "ok")
  ELSE /\ st' = [st EXCEPT ![s] = "check"]
       /\ pos' = [pos EXCEPT ![s] = @ + 1]
       /\ UNCHANGED <<kind, payload>>

\* Only /api/edge/result looks the device up; /api/edge/sync takes any device_id.
LookupDevice(s) ==
  /\ st[s] = "recv"
  /\ Goto(s, IF kind[s] = "result" /\ ~registered THEN "err" ELSE "check")
  /\ UNCHANGED <<clock, stamp, dbVars, lastCleanup, history>>

\* Mutant: /sync trusts the device's queue and leaves check_replay out.
QueryTrustsBatch(s) ==
  /\ st[s] = "check"
  /\ \/ kind[s] = "batch" /\ Goto(s, "decide")
     \/ kind[s] = "result" /\ Goto(s, IF Guarded(Current(s)) THEN "err" ELSE "insert")
  /\ UNCHANGED <<clock, stamp, dbVars, lastCleanup, history>>


\* check_replay's query. A known nonce is refused by /result and skipped by /sync.
QueryGuard(s) ==
  /\ st[s] = "check"
  /\ \/ ~Guarded(Current(s)) /\ Goto(s, "insert")
     \/ Guarded(Current(s)) /\ kind[s] = "result" /\ Goto(s, "err")
     \/ Guarded(Current(s)) /\ kind[s] = "batch" /\ Advance(s)
  /\ UNCHANGED <<clock, stamp, dbVars, lastCleanup, history>>

Stale == {g \in guard : g.ts < clock - ReplayTTL}

\* Mutant: replay_guard without a primary key on the nonce.
InsertUnindexed(s) ==
  /\ st[s] = "insert"
  /\ Goto(s, "decide")
  /\ guard' = guard \cup {[nonce |-> Current(s), ts |-> clock]}
  /\ seen' = seen \cup {Current(s)}
  /\ UNCHANGED <<clock, stamp, database, registered, logs, manual, lastCleanup, expired, decided, stranded, overtaken>>

\* Mutant: an error of the clean-up is not caught.
InsertCleanupRaises(s) ==
  /\ st[s] = "insert" /\ ~Guarded(Current(s))
  /\ Goto(s, IF clock - lastCleanup[WorkerOf[s]] >= CleanupInterval THEN "err" ELSE "decide")
  /\ guard' = guard \cup {[nonce |-> Current(s), ts |-> clock]}
  /\ seen' = seen \cup {Current(s)}
  /\ UNCHANGED <<clock, stamp, database, registered, logs, manual, lastCleanup, expired, decided, stranded, overtaken>>

\* check_replay's insert and commit, then the clean-up when this worker's is due.
\* A row inserted meanwhile by another handler breaks the primary key: 500. An error of
\* the clean-up is dropped: no row goes, and the clean-up counts as done. (Nor is it rolled
\* back: over PostgreSQL that leaves Decide the outcomes SearchAborts leaves it anyway.)
InsertNonce(s) ==
  LET r == Current(s)
      due == clock - lastCleanup[WorkerOf[s]] >= CleanupInterval
  IN /\ st[s] = "insert"
     /\ \/ /\ Guarded(r)
           /\ Goto(s, "err")
           /\ UNCHANGED <<guard, lastCleanup, seen, expired>>
        \/ /\ ~Guarded(r)
           /\ Goto(s, "decide")
           /\ \E swept \in {{}, Stale} :
                /\ due \/ swept = {}
                /\ guard' = (guard \ swept) \cup {[nonce |-> r, ts |-> clock]}
                /\ expired' = expired \cup {g.nonce : g \in swept}
           /\ lastCleanup' = [lastCleanup EXCEPT ![WorkerOf[s]] = IF due THEN clock ELSE @]
           /\ seen' = seen \cup {r}
     /\ UNCHANGED <<clock, stamp, database, registered, logs, manual, decided, stranded, overtaken>>

\* Mutant: the comparison with the cutoff the wrong way round.
RecentOlder(u) == \E l \in LogRows \cup manual : l.user = u /\ l.ts < clock - Cooldown

\* A log of u counts as recent by its capture time against the server's now.
Recent(u) == \E l \in LogRows \cup manual : l.user = u /\ l.ts > clock - Cooldown

\* Over PostgreSQL _match_pgvector selects by a column that no table has. It drops the
\* error without a rollback, and every later statement of the request fails.
SearchAborts == database = "postgresql"

\* _process_result up to the duplicate query. match_embedding may miss a face it knows:
\* a worker's embedding cache is empty while it reloads and stale after another's enrolment.
Decide(s) ==
  LET r == Current(s)
      u == Subject[r]
  IN /\ st[s] = "decide"
     /\ \/ /\ u \in User /\ ~Recent(u) /\ ~SearchAborts
           /\ Goto(s, "mark")
           /\ UNCHANGED <<decided, stranded>>
        \/ /\ Advance(s)          \* rejected, unknown or duplicate
           /\ decided' = decided \cup {r}
           /\ UNCHANGED stranded
        \/ /\ SearchAborts        \* matched: the duplicate query raises
           /\ u \in User
           /\ Goto(s, "err")
           /\ stranded' = stranded \cup ({r} \ decided)
           /\ UNCHANGED decided
        \/ /\ SearchAborts        \* unknown: the next result's check_replay raises
           /\ pos[s] < Len(payload[s])
           /\ Goto(s, "err")
           /\ decided' = decided \cup {r}
           /\ UNCHANGED stranded
     /\ UNCHANGED <<clock, stamp, dbVars, lastCleanup, seen, expired, overtaken>>

\* Handlers past the duplicate query for user u, who is being logged by someone else.
Overtakes(u) == {t \in Slot : st[t] = "mark" /\ Subject[Current(t)] = u}

\* Mutant: attendance_logs.nonce is indexed but not unique.
MarkNotUnique(s) ==
  /\ st[s] = "mark"
  /\ logs' = Append(logs, [nonce |-> Current(s), user |-> Subject[Current(s)], ts |-> stamp[Current(s)]])
  /\ decided' = decided \cup {Current(s)}
  /\ overtaken' = (overtaken \cup Overtakes(Subject[Current(s)])) \ {s}
  /\ Advance(s)
  /\ UNCHANGED <<clock, stamp, database, registered, guard, manual, lastCleanup, seen, expired, stranded>>

\* _process_result's insert and commit; attendance_logs.nonce is unique.
Mark(s) ==
  LET r == Current(s)
  IN /\ st[s] = "mark"
     /\ \/ /\ \E l \in LogRows : l.nonce = r
           /\ Goto(s, "err")
           /\ overtaken' = overtaken \ {s}
           /\ UNCHANGED <<logs, decided>>
        \/ /\ \A l \in LogRows : l.nonce # r
           /\ logs' = Append(logs, [nonce |-> r, user |-> Subject[r], ts |-> stamp[r]])
           /\ decided' = decided \cup {r}
           /\ overtaken' = (overtaken \cup Overtakes(Subject[r])) \ {s}
           /\ Advance(s)
     /\ UNCHANGED <<clock, stamp, database, registered, guard, manual, lastCleanup,
                    seen, expired, stranded>>

Handle(s) == LookupDevice(s) \/ QueryGuard(s) \/ InsertNonce(s) \/ Decide(s) \/ Mark(s)

-------------------------------------------------------------------------------
(* The other endpoints, and what the environment does. *)

\* register_device: the row is created or refreshed.
RegisterDevice ==
  /\ registered' = TRUE
  /\ UNCHANGED <<clock, stamp, database, guard, logs, manual, lastCleanup, reqVars, history>>

\* log_attendance writes a row with no nonce and asks nothing.
LogAttendance(u) ==
  /\ Cardinality(manual) < MaxManual
  /\ manual' = manual \cup {[user |-> u, ts |-> clock]}
  /\ overtaken' = overtaken \cup Overtakes(u)
  /\ UNCHANGED <<clock, stamp, database, registered, guard, logs, lastCleanup, reqVars,
                 seen, expired, decided, stranded>>

\* A worker process dies: its handlers never answer and its globals start over.
WorkerDies(w) ==
  LET mine == {s \in Slot : WorkerOf[s] = w /\ st[s] \in Running}
      held == {r \in Result : \E s \in mine : Processing(s, r)}
  IN /\ mine # {}
     /\ st' = [s \in Slot |-> IF s \in mine THEN "err" ELSE st[s]]
     /\ lastCleanup' = [lastCleanup EXCEPT ![w] = NeverCleaned]
     /\ stranded' = stranded \cup (held \ decided)
     /\ overtaken' = overtaken \ mine
     /\ UNCHANGED <<clock, stamp, dbVars, kind, payload, pos, seen, expired, decided>>

\* A request that is still on the wire is lost; its client sees a broken connection.
LoseRequest(s) ==
  /\ st[s] = "recv"
  /\ Goto(s, "err")
  /\ UNCHANGED <<clock, stamp, dbVars, lastCleanup, history>>

Tick ==
  /\ clock < MaxClock
  /\ clock' = clock + 1
  /\ UNCHANGED <<stamp, dbVars, lastCleanup, reqVars, history>>

Backend ==
  \/ \E s \in Slot : Handle(s) \/ LoseRequest(s)
  \/ \E u \in User : LogAttendance(u)
  \/ \E w \in Worker : WorkerDies(w)
  \/ RegisterDevice
  \/ Tick

-------------------------------------------------------------------------------
(* Open clients: a result is stamped when it is captured and may then be sent any *)
(* number of times, alone or in a batch, whatever became of the earlier requests. *)

Capture(r) ==
  /\ stamp[r] = Uncaptured
  /\ stamp' = [stamp EXCEPT ![r] = clock]
  /\ UNCHANGED <<clock, dbVars, lastCleanup, reqVars, history>>

Send(s) ==
  /\ \E q, r \in Captured :
       \/ Post(s, "result", <<r>>)
       \/ Post(s, "batch", <<r>>)
       \/ q # r /\ Post(s, "batch", <<q, r>>)
  /\ UNCHANGED <<clock, stamp>>

Hangup(s) == Release(s) /\ UNCHANGED <<clock, stamp>>

Client ==
  \/ \E r \in Result : Capture(r)
  \/ \E s \in Slot : Send(s) \/ Hangup(s)

Next == Backend \/ Client

Spec == IngestInit /\ [][Next]_ingestVars

-------------------------------------------------------------------------------
(* Properties *)

\* Every variable has its type; a busy slot stands at a captured result of its payload,
\* and only a result that shows a user is about to be logged.
TablesOK ==
  /\ clock \in Time
  /\ stamp \in [Result -> Time \cup {Uncaptured}]
  /\ registered \in BOOLEAN /\ database \in Databases
  /\ guard \subseteq GuardRow
  /\ logs \in Seq(LogRow)
  /\ manual \subseteq ManualRow
  /\ lastCleanup \in [Worker -> Time \cup {NeverCleaned}]
  /\ seen \subseteq Result /\ expired \subseteq Result
  /\ decided \subseteq Result /\ stranded \subseteq Result
  /\ overtaken \subseteq Slot

RequestsOK ==
  /\ st \in [Slot -> Status]
  /\ kind \in [Slot -> {"result", "batch"}]
  /\ payload \in [Slot -> Seq(Result)]
  /\ pos \in [Slot -> Nat]
  /\ \A s \in Slot : st[s] # "free" =>
       /\ pos[s] \in 1..Len(payload[s])
       /\ \A i \in 1..Len(payload[s]) : stamp[payload[s][i]] \in Time
  /\ \A s \in Slot : st[s] = "mark" => Subject[Current(s)] \in User

TypeOK == TablesOK /\ RequestsOK

\* However often and however concurrently a result is sent, its nonce is logged at most
\* once, also after the clean-up has forgotten the nonce (unique index on the nonce).
LoggedOnce == \A i, j \in 1..Len(logs) : logs[i].nonce = logs[j].nonce => i = j

\* As long as the guard row lives, no two handlers process one nonce, and a nonce that
\* was answered is never processed again: check_replay commits before _process_result.
ProcessedOnce ==
  \A r \in Result \ expired :
    /\ \A s, t \in Slot : Processing(s, r) /\ Processing(t, r) => s = t
    /\ \A s \in Slot : Processing(s, r) => r \notin decided

\* A client that is answered 200 may forget the results it sent: the backend has taken
\* the nonce of each. (/sync answers 200 whatever became of its items.)
AckedIsTaken ==
  \A s \in Slot : st[s] = "ok" => \A i \in 1..Len(payload[s]) : payload[s][i] \in seen

\* A nonce the backend has taken is answered or being processed, unless the worker that
\* took it died or its handler raised before it had an answer: no other path leaves a
\* result guarded against its own retry.
TakenIsAnswered ==
  \A r \in seen : r \in decided \cup stranded \/ \E s \in Slot : Processing(s, r)

\* The inductive invariant behind the five: a taken nonce keeps its guard row until a
\* clean-up deletes it, the other way round every guard row, answer, log and handler past
\* the insert belongs to a taken nonce, and a handler leaves only taken nonces behind it.
GuardsAreTaken ==
  /\ \A g \in guard : g.nonce \in seen
  /\ \A r \in seen : Guarded(r) \/ r \in expired
AnswersAreTaken ==
  /\ decided \subseteq seen
  /\ \A l \in LogRows : l.nonce \in decided
HandledAreTaken ==
  \A s \in Slot :
    /\ st[s] \in {"decide", "mark"} => Current(s) \in seen
    /\ st[s] # "free" => \A i \in 1..(pos[s] - 1) : payload[s][i] \in seen

\* Only captured results are taken.
TakenWereCaptured == seen \subseteq Captured

\* What the duplicate query has established still holds at the insert, unless another
\* handler has logged the same user meanwhile.
QueryHolds ==
  \A s \in Slot : st[s] = "mark" /\ s \notin overtaken => ~Recent(Subject[Current(s)])

IngestInv ==
  /\ TypeOK /\ GuardsAreTaken /\ AnswersAreTaken /\ HandledAreTaken
  /\ LoggedOnce /\ ProcessedOnce /\ AckedIsTaken /\ TakenIsAnswered /\ QueryHolds

\* _process_result's deduplication: a user who has a log within the cooldown is logged
\* again only by a handler that another one overtook between its query and its insert.
DuplicateNeedsOverlap ==
  [][\A s \in Slot, l \in LogRows' \ LogRows :
       /\ Mark(s)
       /\ \E o \in LogRows \cup manual : o.user = l.user /\ o.ts > clock - Cooldown
       => s \in overtaken]_ingestVars

\* A handler that has matched a face lives to answer: searching the embeddings leaves the
\* request able to go on, whichever database the backend runs over.
MatchingAnswers == [][\A s \in Slot : Decide(s) => stranded' = stranded]_ingestVars
===============================================================================
