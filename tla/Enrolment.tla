------------------------------- MODULE Enrolment -------------------------------
(***************************************************************************)
(* Enrolment in the IoT backend (backend/app.py): register_user writes a   *)
(* user and an embedding to the database and reloads the embedding cache   *)
(* of its own worker process, which match_embedding searches. A load       *)
(* empties the process's one cache, waits for a connection and the rows,   *)
(* and fills whatever the cache has become by then; requests of the same   *)
(* worker go on meanwhile. Other workers are told nothing.                 *)
(***************************************************************************)
EXTENDS FiniteSets

CONSTANTS
  Enrol,      \* requests to enrol somebody, each with an embedding good enough
  Person,     \* external ids
  Of,         \* Of[e]: the person whose embedding e is
  Slot,       \* requests handled at one time
  Worker,     \* gunicorn worker processes
  WorkerOf,   \* WorkerOf[s]: the worker that runs slot s
  None        \* no request

ASSUME EnrolmentAssumption ==
  Of \in [Enrol -> Person] /\ WorkerOf \in [Slot -> Worker] /\ None \notin Enrol

VARIABLES
  users,    \* external ids in the users table
  rows,     \* face_embeddings
  cache,    \* cache[w]: embeddings in _embedding_cache
  loaded,   \* loaded[w]: _cache_loaded
  st,       \* st[s]: where the handler stands
  req,      \* req[s]: what it enrols, None for a lookup
  found     \* found[s]: its query for the user found a row

\* What has happened, for the property: no action reads these two.
VARIABLES
  promised,  \* promised[w]: rows that were there when a load of w last began
  failed     \* failed[w]: the last load of w to end failed

reqVars == <<st, req, found>>
cacheVars == <<cache, loaded>>
vars == <<users, rows, cacheVars, reqVars, promised, failed>>

\* Every worker starts with a load.
Init ==
  /\ users = {} /\ rows = {}
  /\ cache = [w \in Worker |-> {}]
  /\ loaded = [w \in Worker |-> TRUE]
  /\ st = [s \in Slot |-> "idle"]
  /\ req = [s \in Slot |-> None]
  /\ found = [s \in Slot |-> FALSE]
  /\ promised = [w \in Worker |-> {}]
  /\ failed = [w \in Worker |-> FALSE]

-------------------------------------------------------------------------------
\* register_user's query for the user.
FindUser(s, e) ==
  /\ st[s] = "idle"
  /\ st' = [st EXCEPT ![s] = "insert"]
  /\ req' = [req EXCEPT ![s] = e]
  /\ found' = [found EXCEPT ![s] = Of[e] \in users]
  /\ UNCHANGED <<users, rows, cacheVars, promised, failed>>

Answer(s) ==
  /\ st' = [st EXCEPT ![s] = "idle"]
  /\ req' = [req EXCEPT ![s] = None]
  /\ found' = [found EXCEPT ![s] = FALSE]

\* User and embedding are committed together.
InsertFace(s) ==
  /\ st[s] = "insert"
  /\ found[s] \/ Of[req[s]] \notin users
  /\ users' = users \cup {Of[req[s]]}
  /\ rows' = rows \cup {req[s]}
  /\ st' = [st EXCEPT ![s] = "clear"]
  /\ UNCHANGED <<cacheVars, req, found, promised, failed>>

\* users.external_id is unique, or the database fails: 500.
InsertRaises(s) ==
  /\ st[s] = "insert"
  /\ Answer(s)
  /\ UNCHANGED <<users, rows, cacheVars, promised, failed>>

\* match_embedding of a verification or a result loads first when nothing ever has.
Lookup(s) ==
  /\ st[s] = "idle" /\ ~loaded[WorkerOf[s]]
  /\ st' = [st EXCEPT ![s] = "clear"]
  /\ UNCHANGED <<users, rows, cacheVars, req, found, promised, failed>>

\* Mutant: a cache that was loaded once is never loaded again.
ClearOnce(s) ==
  /\ st[s] = "clear"
  /\ IF loaded[WorkerOf[s]]
     THEN Answer(s) /\ UNCHANGED cache
     ELSE /\ cache' = [cache EXCEPT ![WorkerOf[s]] = {}]
          /\ st' = [st EXCEPT ![s] = "fill"]
          /\ UNCHANGED <<req, found>>
  /\ promised' = [promised EXCEPT ![WorkerOf[s]] = rows]
  /\ UNCHANGED <<users, rows, loaded, failed>>

\* load_embeddings binds an empty cache, before it has the rows.
Clear(s) ==
  /\ st[s] = "clear"
  /\ cache' = [cache EXCEPT ![WorkerOf[s]] = {}]
  /\ st' = [st EXCEPT ![s] = "fill"]
  /\ promised' = [promised EXCEPT ![WorkerOf[s]] = rows]
  /\ UNCHANGED <<users, rows, loaded, req, found, failed>>

\* The rows arrive and are appended to the cache of now, another load's perhaps.
Fill(s) ==
  /\ st[s] = "fill"
  /\ cache' = [cache EXCEPT ![WorkerOf[s]] = @ \cup rows]
  /\ loaded' = [loaded EXCEPT ![WorkerOf[s]] = TRUE]
  /\ failed' = [failed EXCEPT ![WorkerOf[s]] = FALSE]
  /\ Answer(s)
  /\ UNCHANGED <<users, rows, promised>>

\* Mutant: a failed load counts as one that found nothing.
FillFailsUnseen(s) ==
  /\ st[s] = "fill"
  /\ loaded' = [loaded EXCEPT ![WorkerOf[s]] = TRUE]
  /\ Answer(s)
  /\ UNCHANGED <<users, rows, cache, promised, failed>>

\* The query raises: a warning, the cache as it is, and no further attempt once loaded.
FillFails(s) ==
  /\ st[s] = "fill"
  /\ failed' = [failed EXCEPT ![WorkerOf[s]] = TRUE]
  /\ Answer(s)
  /\ UNCHANGED <<users, rows, cacheVars, promised>>

\* A worker dies and is started again; its first load comes before its first request.
Restart(w) ==
  LET mine == {s \in Slot : WorkerOf[s] = w}
  IN /\ st' = [s \in Slot |-> IF s \in mine THEN "idle" ELSE st[s]]
     /\ req' = [s \in Slot |-> IF s \in mine THEN None ELSE req[s]]
     /\ found' = [s \in Slot |-> IF s \in mine THEN FALSE ELSE found[s]]
     /\ promised' = [promised EXCEPT ![w] = rows]
     /\ \E ok \in BOOLEAN :
          /\ cache' = [cache EXCEPT ![w] = IF ok THEN rows ELSE {}]
          /\ loaded' = [loaded EXCEPT ![w] = ok]
          /\ failed' = [failed EXCEPT ![w] = ~ok]
     /\ UNCHANGED <<users, rows>>

Load(s) == Clear(s) \/ Fill(s) \/ FillFails(s)

Next ==
  \/ \E s \in Slot :
       \/ \E e \in Enrol : FindUser(s, e)
       \/ InsertFace(s) \/ InsertRaises(s) \/ Lookup(s) \/ Load(s)
  \/ \E w \in Worker : Restart(w)

\* gunicorn and the database let a handler go on until it answers.
Spec == Init /\ [][Next]_vars /\ \A s \in Slot : WF_vars(Load(s))

-------------------------------------------------------------------------------
(* Properties *)

\* Every variable has its type; an embedding belongs to a user in the table, and a cache
\* holds only what has been committed.
TypeOK ==
  /\ users \subseteq Person /\ rows \subseteq Enrol
  /\ \A e \in rows : Of[e] \in users
  /\ cache \in [Worker -> SUBSET rows] /\ loaded \in [Worker -> BOOLEAN]
  /\ st \in [Slot -> {"idle", "insert", "clear", "fill"}]
  /\ req \in [Slot -> Enrol \cup {None}] /\ found \in [Slot -> BOOLEAN]
  /\ \A s \in Slot : st[s] = "insert" => req[s] \in Enrol
  /\ promised \in [Worker -> SUBSET rows] /\ failed \in [Worker -> BOOLEAN]

\* A worker with no load under way, and whose last load did not fail, knows every face that
\* was enrolled before its last load began, however its loads have overlapped: the faces it
\* has enrolled itself among them.
Filling(w) == \E s \in Slot : WorkerOf[s] = w /\ st[s] = "fill"
CacheComplete ==
  \A w \in Worker : Filling(w) \/ failed[w] \/ promised[w] \subseteq cache[w]

\* Tables and caches are in order: no embedding without its user, none in a cache that was
\* never committed, and none missing that a load of the worker had to find (register_user,
\* load_embeddings).
EnrolmentInv == TypeOK /\ CacheComplete

\* Such a face is known to the worker in the end, unless loads go on failing or the last one
\* has failed: nothing loads again by itself.
Steady(w) == <>[](~failed[w])
EnrolledIsKnown ==
  \A w \in Worker, e \in Enrol : Steady(w) => (e \in promised[w] ~> e \in cache[w])
===============================================================================
