----------------------------- MODULE InferencePool -----------------------------
(***************************************************************************)
(* The inference slots of /api/attendance/recognize in one worker process  *)
(* (app/api/attendance.py): a semaphore taken without waiting, a thread    *)
(* pool with an unbounded queue behind it, and a request that waits for    *)
(* its job no longer than 30 seconds and releases the semaphore either way.*)
(* Under gevent (gunicorn.conf.py) the pool's threads are greenlets: while *)
(* a job computes without yielding, nothing else in the process runs, not  *)
(* even a timeout. Under real threads (run.py) no job holds the process.   *)
(***************************************************************************)
EXTENDS Integers, Sequences, FiniteSets

CONSTANTS
  Request,     \* recognize requests; a client that tries again sends another one
  Permits,     \* value of _inference_semaphore
  Threads,     \* max_workers of _thread_pool
  Nobody       \* no job

ASSUME PoolAssumption ==
  /\ Permits \in Nat \ {0} /\ Threads \in Nat \ {0}
  /\ Permits <= Threads   \* two of each
  /\ IsFiniteSet(Request) /\ Nobody \notin Request

VARIABLES
  permits,   \* what the semaphore has left
  req,       \* req[r]: what became of the request
  job,       \* job[r]: what became of its job
  queue,     \* the pool's queue of jobs not started
  holder     \* the job that computes without yielding, or Nobody

poolVars == <<permits, req, job, queue, holder>>
Yielded == holder = Nobody

ReqState == {"new", "waiting", "ok", "busy", "late"}
JobState == {"none", "queued", "running", "done"}

Waiting == {r \in Request : req[r] = "waiting"}
Running == {r \in Request : job[r] = "running"}
Live == {r \in Request : job[r] \in {"queued", "running"}}

PoolInit ==
  /\ permits = Permits
  /\ req = [r \in Request |-> "new"]
  /\ job = [r \in Request |-> "none"]
  /\ queue = <<>>
  /\ holder = Nobody

\* Mutant: the semaphore is asked, never taken.
AcceptFreely(r) ==
  /\ Yielded /\ req[r] = "new" /\ permits > 0
  /\ req' = [req EXCEPT ![r] = "waiting"]
  /\ job' = [job EXCEPT ![r] = "queued"]
  /\ queue' = Append(queue, r)
  /\ UNCHANGED <<permits, holder>>

\* acquire(blocking=False) succeeds and the job is submitted.
Accept(r) ==
  /\ Yielded /\ req[r] = "new" /\ permits > 0
  /\ permits' = permits - 1
  /\ req' = [req EXCEPT ![r] = "waiting"]
  /\ job' = [job EXCEPT ![r] = "queued"]
  /\ queue' = Append(queue, r)
  /\ UNCHANGED holder

\* It fails: 429.
Refuse(r) ==
  /\ Yielded /\ req[r] = "new" /\ permits = 0
  /\ req' = [req EXCEPT ![r] = "busy"]
  /\ UNCHANGED <<permits, job, queue, holder>>

\* Mutant: the job stays in the queue.
StartJobStays ==
  /\ Yielded /\ queue # <<>> /\ Cardinality(Running) < Threads
  /\ job' = [job EXCEPT ![Head(queue)] = "running"]
  /\ UNCHANGED <<permits, req, queue, holder>>

\* A free thread takes the first job of the queue.
StartJob ==
  /\ Yielded /\ queue # <<>> /\ Cardinality(Running) < Threads
  /\ job' = [job EXCEPT ![Head(queue)] = "running"]
  /\ queue' = Tail(queue)
  /\ UNCHANGED <<permits, req, holder>>

\* A job decodes, infers or waits for the database in native code, and yields again.
Compute(r) ==
  /\ Yielded /\ job[r] = "running"
  /\ holder' = r
  /\ UNCHANGED <<permits, req, job, queue>>

Yield ==
  /\ ~Yielded
  /\ holder' = Nobody
  /\ UNCHANGED <<permits, req, job, queue>>

\* _process_frame returns or raises.
EndJob(r) ==
  /\ job[r] = "running" /\ holder \in {r, Nobody}
  /\ job' = [job EXCEPT ![r] = "done"]
  /\ holder' = Nobody
  /\ UNCHANGED <<permits, req, queue>>

\* Mutant: the wait is timed from the start of the job.
TimeOutRunning(r) ==
  /\ Yielded /\ req[r] = "waiting" /\ job[r] = "running"
  /\ req' = [req EXCEPT ![r] = "late"]
  /\ permits' = permits + 1
  /\ UNCHANGED <<job, queue, holder>>

\* future.result has an answer; finally releases the semaphore.
Answer(r) ==
  /\ Yielded /\ req[r] = "waiting" /\ job[r] = "done"
  /\ req' = [req EXCEPT ![r] = "ok"]
  /\ permits' = permits + 1
  /\ UNCHANGED <<job, queue, holder>>

\* Its timeout; finally releases the semaphore, and the job stays where it is.
TimeOut(r) ==
  /\ Yielded /\ req[r] = "waiting" /\ job[r] # "done"
  /\ req' = [req EXCEPT ![r] = "late"]
  /\ permits' = permits + 1
  /\ UNCHANGED <<job, queue, holder>>

Finish(r) == Answer(r) \/ TimeOut(r)

PoolNext ==
  \/ StartJob \/ Yield
  \/ \E r \in Request : Accept(r) \/ Refuse(r) \/ Compute(r) \/ EndJob(r) \/ Finish(r)

PoolSpec == PoolInit /\ [][PoolNext]_poolVars

\* Whenever jobs yield, threads take jobs, and a wait ends by its timeout at the latest.
\* Nothing makes a job yield or end: it may hang, alone or with the whole process.
Fairness == SF_poolVars(StartJob) /\ \A r \in Request : SF_poolVars(Finish(r))
FairPoolSpec == PoolSpec /\ Fairness

-------------------------------------------------------------------------------
(* Properties *)

\* Every variable has its type, and the queue holds exactly the jobs not started.
PoolTypeOK ==
  /\ permits \in Nat
  /\ req \in [Request -> ReqState]
  /\ job \in [Request -> JobState]
  /\ queue \in Seq(Request)
  /\ holder = Nobody \/ (holder \in Request /\ job[holder] = "running")
  /\ \A i \in 1..Len(queue) : job[queue[i]] = "queued"
  /\ \A i, j \in 1..Len(queue) : queue[i] = queue[j] => i = j

\* The permits are where they belong: each is in the semaphore or with a request that
\* waits, through answers, errors and timeouts. None leaks, none is released twice.
PermitsBalanced == permits + Cardinality(Waiting) = Permits

\* Never more jobs at one time than the pool has threads ("to prevent OOM"), however
\* many requests have timed out meanwhile.
MemoryBounded == Cardinality(Running) <= Threads

\* A job waits in the queue only because a thread works for a request that has timed out:
\* as long as none does, an accepted frame is never held up by another.
QueuesBehindLate ==
  queue # <<>> => \/ Cardinality(Running) < Threads
                  \/ \E r \in Running : req[r] = "late"

\* Why: requests still waiting, ahead of a job in the queue, are fewer than the permits.
\* That is so when the job is submitted, and the jobs ahead only get fewer.
Ahead(i) == Running \cup {queue[j] : j \in 1..(i - 1)}
AheadBounded == \A i \in 1..Len(queue) : Cardinality(Waiting \cap Ahead(i)) < Permits

\* A request has a job from its acceptance on, and is answered after its job.
JobsMatch ==
  \A r \in Request : /\ req[r] \in {"new", "busy"} <=> job[r] = "none"
                     /\ req[r] = "ok" => job[r] = "done"

PoolInv == PoolTypeOK /\ JobsMatch /\ PermitsBalanced /\ MemoryBounded /\ AheadBounded

\* As long as no job keeps the process for good, a request is answered in the end, its
\* timeout seeing to it that a job that waits for ever, or one queued behind such a job,
\* does not hold it. (A job that never yields holds everyone until gunicorn kills the
\* process, and the requests are never answered.)
JobsYield == []<>Yielded
Answered == JobsYield => \A r \in Request : req[r] = "waiting" ~> req[r] # "waiting"
===============================================================================
