------------------------------ MODULE Attendance ------------------------------
(***************************************************************************)
(* Attendance sessions and marks of the web application, during one day:   *)
(* app/services/attendance.py behind the routes of app/api/attendance.py.  *)
(* Requests of several teachers are handled at one time, in gevent         *)
(* greenlets and worker processes over one database: every query and every *)
(* commit is a step of its own.                                            *)
(***************************************************************************)
EXTENDS Integers, Sequences, FiniteSets

CONSTANTS
  Teacher,      \* users who may start sessions
  Student,      \* students registered when the day begins, all active
  Handler,      \* requests handled at one time
  None,         \* no session, the NULL session_id of a manual mark; nobody
  Frame,        \* what recognition may find in a frame: sequences of live, known students
  MaxSessions,  \* bound: sessions started
  Leaver        \* bound: students who may be deleted

ASSUME FrameAssumption == Frame \subseteq Seq(Student)
ASSUME BoundAssumption == MaxSessions \in Nat /\ Leaver \subseteq Student /\ None \notin Nat \cup Teacher

VARIABLES
  enrolled,   \* the students table
  sessions,   \* attendance_sessions, by id
  records,    \* today's attendance_records, copies of one student and session told apart
  pc,         \* pc[h]: what handler h does next
  who,        \* who[h]: the teacher who started a session in h
  sid,        \* sid[h]: the session h works on
  old,        \* old[h]: sessions start_session found active
  held,       \* held[h]: its database session holds the session, as active
  todo,       \* todo[h]: students still to be marked by h
  newly,      \* newly[h]: newly_marked so far
  gone,       \* gone[h]: the request was answered by its timeout, its job goes on
  told,       \* history: marks of enrolled students reported as new to some client
  raced       \* history: teachers and students two requests worked on at one time

tables == <<enrolled, sessions, records>>
request == <<who, sid, old, held, todo, newly, gone>>
history == <<told, raced>>
vars == <<tables, pc, request, history>>

Session == [by : Teacher, active : BOOLEAN]
SessionId == 1..Len(sessions)
Record == [student : Student, session : Nat \cup {None}, copy : Nat]
Steps == {"idle", "start", "stop", "check", "insert", "manual", "file"}
MarkSteps == {"check", "insert"}

Active == {i \in SessionId : sessions[i].active}
Marks(s, i) == {r \in records : r.student = s /\ r.session = i}
MarkedIn(s, i) == Marks(s, i) # {}
MarkedToday(s) == \E r \in records : r.student = s
-------------------------------------------------------------------------------
Init ==
  /\ enrolled = Student /\ sessions = <<>> /\ records = {}
  /\ pc = [h \in Handler |-> "idle"]
  /\ who = [h \in Handler |-> None]
  /\ sid = [h \in Handler |-> None]
  /\ old = [h \in Handler |-> {}]
  /\ held = [h \in Handler |-> FALSE]
  /\ todo = [h \in Handler |-> <<>>]
  /\ newly = [h \in Handler |-> {}]
  /\ gone = [h \in Handler |-> FALSE]
  /\ told = {} /\ raced = {}

Goto(h, next) == pc' = [pc EXCEPT ![h] = next]

\* The request is over; nothing of it is left.
Finish(h) ==
  /\ Goto(h, "idle")
  /\ sid' = [sid EXCEPT ![h] = None]
  /\ old' = [old EXCEPT ![h] = {}]
  /\ held' = [held EXCEPT ![h] = FALSE]
  /\ todo' = [todo EXCEPT ![h] = <<>>]
  /\ newly' = [newly EXCEPT ![h] = {}]
  /\ gone' = [gone EXCEPT ![h] = FALSE]
  /\ who' = [who EXCEPT ![h] = None]

-------------------------------------------------------------------------------
(* start_session and stop_session *)

\* The query for the user's active sessions. (Starts are bounded here, not at the commit.)
BeginStart(h, t) ==
  /\ pc[h] = "idle"
  /\ Len(sessions) + Cardinality({g \in Handler : pc[g] = "start"}) < MaxSessions
  /\ Goto(h, "start")
  /\ who' = [who EXCEPT ![h] = t]
  /\ old' = [old EXCEPT ![h] = {i \in Active : sessions[i].by = t}]
  /\ raced' = raced \cup {x \in {t} : \E g \in Handler : pc[g] = "start" /\ who[g] = x}
  /\ UNCHANGED <<tables, sid, held, todo, newly, gone, told>>

End(ids) == [i \in SessionId |-> [sessions[i] EXCEPT !.active = @ /\ i \notin ids]]

\* Mutant: the old sessions are ended only in memory.
CommitStartOnly(h) ==
  /\ pc[h] = "start"
  /\ sessions' = Append(sessions, [by |-> who[h], active |-> TRUE])
  /\ Finish(h)
  /\ UNCHANGED <<enrolled, records, history>>

\* One commit ends what the query found and adds the new session.
CommitStart(h) ==
  /\ pc[h] = "start"
  /\ sessions' = Append(End(old[h]), [by |-> who[h], active |-> TRUE])
  /\ Finish(h)
  /\ UNCHANGED <<enrolled, records, history>>

\* get_active_session: any active session, whoever started it.
BeginStop(h) ==
  /\ pc[h] = "idle"
  /\ \E i \in Active : sid' = [sid EXCEPT ![h] = i]
  /\ Goto(h, "stop")
  /\ UNCHANGED <<tables, who, old, held, todo, newly, gone, history>>

\* Mutant: stop_session toggles the session.
CommitStopToggles(h) ==
  /\ pc[h] = "stop"
  /\ sessions' = [sessions EXCEPT ![sid[h]].active = ~@]
  /\ Finish(h)
  /\ UNCHANGED <<enrolled, records, history>>

CommitStop(h) ==
  /\ pc[h] = "stop"
  /\ sessions' = End({sid[h]})
  /\ Finish(h)
  /\ UNCHANGED <<enrolled, records, history>>

-------------------------------------------------------------------------------
(* recognize: a job marks the students of a frame one after the other *)

\* Mutant: no "No active session" answer.
BeginFrameUnasked(h, f) ==
  /\ pc[h] = "idle"
  /\ todo' = [todo EXCEPT ![h] = f]
  /\ Goto(h, "check")
  /\ UNCHANGED <<tables, who, sid, old, held, newly, gone, history>>

\* get_active_session, the frame's faces, and the job is submitted.
BeginFrame(h, f) ==
  /\ pc[h] = "idle"
  /\ \E i \in Active : sid' = [sid EXCEPT ![h] = i]
  /\ todo' = [todo EXCEPT ![h] = f]
  /\ Goto(h, "check")
  /\ UNCHANGED <<tables, who, old, held, newly, gone, history>>

\* The face is done with; its database session holds the attendance session or not.
NextFace(h, holds) ==
  /\ Goto(h, "check")
  /\ todo' = [todo EXCEPT ![h] = Tail(@)]
  /\ held' = [held EXCEPT ![h] = holds]

\* mark_attendance up to its duplicate query: the session may have ended, the student may
\* be marked; either way the job goes on with the next face. A session that was active is
\* not read again before the next commit.
CheckMark(h) ==
  LET active == held[h] \/ sessions[sid[h]].active
  IN /\ pc[h] = "check" /\ todo[h] # <<>>
     /\ IF active /\ ~MarkedIn(Head(todo[h]), sid[h])
        THEN Goto(h, "insert") /\ UNCHANGED <<todo, held>>
        ELSE NextFace(h, active)
     /\ UNCHANGED <<tables, who, sid, old, newly, gone, history>>

\* Every mark is filed with a session or none, perhaps while another handler has found the
\* student unmarked. (SQLite files it for a student deleted meanwhile as well.)
NewRecord(h, s, i) ==
  /\ records' = records \cup {[student |-> s, session |-> i, copy |-> Cardinality(Marks(s, i))]}
  /\ raced' = raced \cup {x \in {s} : \E g \in Handler \ {h} : pc[g] = "file" /\ Head(todo[g]) = x}

\* Mutant: the broken constraint is taken for success.
InsertMarkAnyhow(h) ==
  LET s == Head(todo[h])
  IN /\ pc[h] = "insert"
     /\ IF MarkedIn(s, sid[h]) THEN UNCHANGED <<records, raced>> ELSE NewRecord(h, s, sid[h])
     /\ newly' = [newly EXCEPT ![h] = @ \cup {s}]
     /\ NextFace(h, FALSE)
     /\ UNCHANGED <<enrolled, sessions, who, sid, old, gone, told>>

\* The insert that fails: a record inserted meanwhile breaks uq_student_session, and where
\* foreign keys are enforced so does a student deleted meanwhile.
Refused(s, i) == (i # None /\ MarkedIn(s, i)) \/ s \notin enrolled

\* Its insert and commit. An error ends the job and the request: what it marked before is
\* never reported.
InsertMark(h) ==
  LET s == Head(todo[h])
  IN /\ pc[h] = "insert"
     /\ \/ /\ Refused(s, sid[h])
           /\ Finish(h)
           /\ UNCHANGED <<records, raced>>
        \/ /\ ~MarkedIn(s, sid[h])
           /\ NewRecord(h, s, sid[h])
           /\ newly' = [newly EXCEPT ![h] = @ \cup {s}]
           /\ NextFace(h, FALSE)
           /\ UNCHANGED <<who, sid, old, gone>>
     /\ UNCHANGED <<enrolled, sessions, told>>

\* The job is done; its result reaches the client unless the request timed out.
EndFrame(h) ==
  /\ pc[h] = "check" /\ todo[h] = <<>>
  /\ told' = IF gone[h] THEN told ELSE told \cup {<<s, sid[h]>> : s \in newly[h] \cap enrolled}
  /\ Finish(h)
  /\ UNCHANGED <<tables, raced>>

\* future.result(timeout=30): the client gets an error, the job runs on.
TimeOut(h) ==
  /\ pc[h] \in MarkSteps /\ ~gone[h]
  /\ gone' = [gone EXCEPT ![h] = TRUE]
  /\ UNCHANGED <<tables, pc, who, sid, old, held, todo, newly, history>>

\* The job raises: the database fails, or there is no application context in its thread.
JobFails(h) ==
  /\ pc[h] \in MarkSteps
  /\ Finish(h)
  /\ UNCHANGED <<tables, history>>

-------------------------------------------------------------------------------
(* mark_manual *)

\* Its query for an active session; there need not be one.
BeginManual(h, s) ==
  /\ pc[h] = "idle"
  /\ \E i \in IF Active = {} THEN {None} ELSE Active : sid' = [sid EXCEPT ![h] = i]
  /\ todo' = [todo EXCEPT ![h] = <<s>>]
  /\ Goto(h, "manual")
  /\ UNCHANGED <<tables, who, old, held, newly, gone, history>>

\* Mutant: the query asks for the session, as mark_attendance does.
CheckManualInSession(h) ==
  /\ pc[h] = "manual"
  /\ IF MarkedIn(Head(todo[h]), sid[h])
     THEN Finish(h)
     ELSE Goto(h, "file") /\ UNCHANGED request
  /\ UNCHANGED <<tables, history>>

\* "Check if already marked today", in any session or none.
CheckManual(h) ==
  /\ pc[h] = "manual"
  /\ IF MarkedToday(Head(todo[h]))
     THEN Finish(h)
     ELSE Goto(h, "file") /\ UNCHANGED request
  /\ UNCHANGED <<tables, history>>

\* The insert; the constraint never holds against a NULL session.
InsertManual(h) ==
  /\ pc[h] = "file"
  /\ \/ /\ Refused(Head(todo[h]), sid[h])
        /\ UNCHANGED <<records, raced>>
     \/ /\ sid[h] = None \/ ~MarkedIn(Head(todo[h]), sid[h])
        /\ NewRecord(h, Head(todo[h]), sid[h])
  /\ Finish(h)
  /\ UNCHANGED <<enrolled, sessions, told>>

\* delete_student: the records go with the student, in one commit. (Their faces are module
\* FaceCache's; a deletion that fails leaves both.)
DeleteStudent(s) ==
  /\ s \in enrolled
  /\ enrolled' = enrolled \ {s}
  /\ records' = {r \in records : r.student # s}
  /\ told' = {x \in told : x[1] # s}
  /\ UNCHANGED <<sessions, pc, request, raced>>

-------------------------------------------------------------------------------
StartStop(h) ==
  \/ \E t \in Teacher : BeginStart(h, t)
  \/ CommitStart(h)
  \/ BeginStop(h) \/ CommitStop(h)

Recognize(h) ==
  \/ \E f \in Frame : BeginFrame(h, f)
  \/ CheckMark(h) \/ InsertMark(h)
  \/ EndFrame(h) \/ TimeOut(h) \/ JobFails(h)

Manual(h) ==
  \/ \E s \in Student : BeginManual(h, s)
  \/ CheckManual(h) \/ InsertManual(h)

Next ==
  \/ \E h \in Handler : StartStop(h) \/ Recognize(h) \/ Manual(h)
  \/ \E s \in Leaver : DeleteStudent(s)

Spec == Init /\ [][Next]_vars

-------------------------------------------------------------------------------
(* Properties *)

\* Every variable has its type; a handler that marks stands at a session and a student.
TypeOK ==
  /\ enrolled \subseteq Student /\ sessions \in Seq(Session)
  /\ records \subseteq Record
  /\ pc \in [Handler -> Steps]
  /\ who \in [Handler -> Teacher \cup {None}]
  /\ sid \in [Handler -> Nat \cup {None}]
  /\ old \in [Handler -> SUBSET Nat]
  /\ held \in [Handler -> BOOLEAN]
  /\ todo \in [Handler -> Seq(Student)]
  /\ newly \in [Handler -> SUBSET Student]
  /\ gone \in [Handler -> BOOLEAN]
  /\ told \subseteq Student \X Nat /\ raced \subseteq Teacher \cup Student
  /\ \A h \in Handler :
       /\ pc[h] = "start" => who[h] # None
       /\ pc[h] \in MarkSteps \cup {"stop"} => sid[h] \in SessionId
       /\ pc[h] \in {"insert", "manual", "file"} => todo[h] # <<>>
       /\ pc[h] \notin MarkSteps => newly[h] = {}

\* "One record per student per session", however many handlers mark at one time.
OneRecordPerSession ==
  \A q, r \in records :
    q.session # None /\ q.student = r.student /\ q.session = r.session => q = r

\* As long as a student is not deleted, a mark is reported as new to at most one client,
\* and only when its record exists: no two jobs hold the same new mark, and none holds one
\* a client has been told.
ReportedOnce ==
  /\ \A h \in Handler : \A s \in newly[h] \cap enrolled :
       MarkedIn(s, sid[h]) /\ <<s, sid[h]>> \notin told
  /\ \A g, h \in Handler : g # h /\ sid[g] = sid[h] => newly[g] \cap newly[h] \cap enrolled = {}
  /\ \A x \in told : MarkedIn(x[1], x[2])

\* However many handlers mark at one time, a mark is one record and one report
\* (mark_attendance, and recognize, whose timeout leaves its job behind).
MarksInOrder == OneRecordPerSession /\ ReportedOnce

\* A session that has ended never becomes active again, though handlers write over rows they
\* read earlier, and a record is taken back only together with its student.
EndedForGood ==
  [][/\ \A i \in SessionId : ~sessions[i].active => ~sessions'[i].active
     /\ \A r \in records \ records' : r.student \in enrolled \ enrolled']_vars

\* start_session ends "any existing active sessions for this user": no user ever has two,
\* unless two starts of theirs overlapped.
OneActivePerTeacher ==
  \A i, j \in Active : sessions[i].by = sessions[j].by => i = j \/ sessions[i].by \in raced

\* mark_manual asks "already marked today": a manual mark is never a second record for a
\* student, unless another was filed between its query and its insert.
ManualOncePerDay ==
  [][\A h \in Handler :
       LET s == Head(todo[h])
       IN pc[h] = "file" /\ pc'[h] = "idle" /\ records' # records /\ MarkedToday(s)
            => s \in raced]_vars
===============================================================================
