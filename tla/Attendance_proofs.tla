--------------------------- MODULE Attendance_proofs ---------------------------
(***************************************************************************)
(* Proofs about module Attendance: for any number of teachers, students,   *)
(* sessions and handlers, a mark is one record and one report, sessions    *)
(* stay ended, and second active sessions and second manual marks come     *)
(* only from requests that overlap.                                        *)
(***************************************************************************)
EXTENDS Attendance, TLAPS, FiniteSetTheorems, SequenceTheorems

USE FrameAssumption, BoundAssumption

\* start_session ends every active session of its user that has been added since its query,
\* unless another start of the user's overlaps it.
StartsSeeAll ==
  /\ \A h \in Handler : pc[h] = "start" /\ who[h] \notin raced =>
       \A i \in Active : sessions[i].by = who[h] => i \in old[h]
  /\ \A g, h \in Handler : g # h /\ pc[g] = "start" /\ pc[h] = "start" /\ who[g] = who[h]
       => who[g] \in raced

\* What mark_manual's query has established holds at its insert, unless another handler
\* has filed a mark of the student meanwhile.
FilesAreFirst ==
  \A h \in Handler : pc[h] = "file" /\ MarkedToday(Head(todo[h])) => Head(todo[h]) \in raced

Types == TypeOK /\ IsFiniteSet(records)

\* The inductive invariant.
AttendanceInv == Types /\ MarksInOrder /\ OneActivePerTeacher /\ StartsSeeAll /\ FilesAreFirst
--------------------------------------------------------------------------------
(* What the steps are built from *)

\* Ending sessions changes their activity and nothing else.
LEMMA EndSessions ==
  ASSUME TypeOK, NEW ids
  PROVE  /\ End(ids) \in Seq(Session) /\ Len(End(ids)) = Len(sessions)
         /\ \A i \in SessionId : /\ End(ids)[i].by = sessions[i].by
                                 /\ End(ids)[i].active <=> (sessions[i].active /\ i \notin ids)
<1>1. sessions \in Seq(Session)
  BY DEF TypeOK
<1>2. Len(sessions) \in Nat /\ \A i \in SessionId : sessions[i] \in Session
  BY <1>1 DEF SessionId
<1>3. \A i \in SessionId : [sessions[i] EXCEPT !.active = @ /\ i \notin ids] \in Session
  <2>1. TAKE i \in SessionId
  <2>2. (sessions[i].active /\ i \notin ids) \in BOOLEAN
    OBVIOUS
  <2> QED BY <1>2, <2>2 DEF Session
<1>4. End(ids) \in [1..Len(sessions) -> Session]
  BY <1>3 DEF End, SessionId
<1>5. End(ids) \in Seq(Session) /\ Len(End(ids)) = Len(sessions)
  BY <1>2, <1>4, SeqDef, LenProperties
<1>6. ASSUME NEW i \in SessionId
      PROVE  /\ End(ids)[i].by = sessions[i].by
             /\ End(ids)[i].active <=> (sessions[i].active /\ i \notin ids)
  <2>1. End(ids)[i] = [sessions[i] EXCEPT !.active = @ /\ i \notin ids]
    BY DEF End
  <2>2. sessions[i] \in [by : Teacher, active : BOOLEAN]
    BY <1>2 DEF Session
  <2> QED BY <2>1, <2>2
<1> QED BY <1>5, <1>6

\* A start ends what it found active, and its session is the last.
LEMMA StartedSession ==
  ASSUME TypeOK, NEW h \in Handler, CommitStart(h)
  PROVE  /\ sessions' \in Seq(Session)
         /\ Len(sessions') = Len(sessions) + 1 /\ Len(sessions) \in Nat
         /\ \A i \in SessionId : /\ sessions'[i].by = sessions[i].by
                                 /\ sessions'[i].active <=> (sessions[i].active /\ i \notin old[h])
         /\ sessions'[Len(sessions) + 1].by = who[h]
<1> DEFINE last == [by |-> who[h], active |-> TRUE]
<1>1. who[h] \in Teacher
  BY DEF CommitStart, TypeOK
<1>2. last \in Session /\ last.by = who[h]
  BY <1>1 DEF Session
<1>3. End(old[h]) \in Seq(Session) /\ Len(End(old[h])) = Len(sessions) /\ Len(sessions) \in Nat
  BY EndSessions DEF TypeOK
<1>4. sessions' = Append(End(old[h]), last)
  BY DEF CommitStart
<1> HIDE DEF last
<1>5. /\ sessions' \in Seq(Session) /\ Len(sessions') = Len(sessions) + 1
      /\ \A i \in 1..Len(sessions) : sessions'[i] = End(old[h])[i]
      /\ sessions'[Len(sessions) + 1] = last
  BY <1>2, <1>3, <1>4, AppendProperties
<1>6. \A i \in SessionId : /\ sessions'[i].by = sessions[i].by
                           /\ sessions'[i].active <=> (sessions[i].active /\ i \notin old[h])
  BY <1>5, EndSessions DEF SessionId
<1> QED BY <1>2, <1>3, <1>5, <1>6

\* A finished request leaves its handler idle, and the other handlers alone.
LEMMA FinishTypes ==
  ASSUME TypeOK, NEW h \in Handler, Finish(h)
  PROVE  /\ pc' \in [Handler -> Steps]
         /\ who' \in [Handler -> Teacher \cup {None}]
         /\ sid' \in [Handler -> Nat \cup {None}]
         /\ old' \in [Handler -> SUBSET Nat]
         /\ held' \in [Handler -> BOOLEAN]
         /\ todo' \in [Handler -> Seq(Student)]
         /\ newly' \in [Handler -> SUBSET Student]
         /\ gone' \in [Handler -> BOOLEAN]
         /\ pc'[h] = "idle" /\ newly'[h] = {}
         /\ \A g \in Handler : g # h =>
              /\ pc'[g] = pc[g] /\ who'[g] = who[g] /\ sid'[g] = sid[g] /\ old'[g] = old[g]
              /\ todo'[g] = todo[g] /\ newly'[g] = newly[g]
BY EmptySeq DEF TypeOK, Finish, Goto, Steps

\* The records of a student and a session can be counted.
LEMMA CopyIsNumber ==
  ASSUME Types, NEW s, NEW i PROVE Cardinality(Marks(s, i)) \in Nat
BY FS_Subset, FS_CardinalityType DEF Types, Marks

\* Filing a mark adds one record, and the races it starts.
LEMMA NewRecordTypes ==
  ASSUME Types, NEW h \in Handler, NEW s \in Student, NEW i \in Nat \cup {None}, NewRecord(h, s, i)
  PROVE  /\ records' \subseteq Record /\ IsFiniteSet(records')
         /\ raced' \subseteq Teacher \cup Student /\ raced \subseteq raced'
         /\ records \subseteq records'
         /\ \A r \in records' : r \in records \/ (r.student = s /\ r.session = i)
         /\ \E r \in records' : r.student = s /\ r.session = i
         /\ \A q, r \in records' \ records : q = r
<1> DEFINE new == [student |-> s, session |-> i, copy |-> Cardinality(Marks(s, i))]
<1>1. new \in Record
  BY CopyIsNumber DEF Record
<1>2. new.student = s /\ new.session = i
  OBVIOUS
<1>3. records' = records \cup {new}
  BY DEF NewRecord
<1>4. raced' \subseteq Teacher \cup Student /\ raced \subseteq raced'
  BY DEF Types, TypeOK, NewRecord
<1> HIDE DEF new
<1>5. IsFiniteSet(records')
  BY <1>3, FS_AddElement DEF Types
<1> QED BY <1>1, <1>2, <1>3, <1>4, <1>5 DEF Types, TypeOK

LEMMA AttendanceStarts == Init => AttendanceInv
<1> SUFFICES ASSUME Init PROVE AttendanceInv
  OBVIOUS
<1>1. TypeOK
  BY EmptySeq DEF Init, TypeOK, Steps, MarkSteps
<1>2. IsFiniteSet(records)
  BY FS_EmptySet DEF Init
<1>3. MarksInOrder
  BY DEF Init, MarksInOrder, OneRecordPerSession, ReportedOnce
<1>4. Active = {}
  BY DEF Init, Active, SessionId
<1> QED
  BY <1>1, <1>2, <1>3, <1>4
  DEF Init, AttendanceInv, Types, OneActivePerTeacher, StartsSeeAll, FilesAreFirst

--------------------------------------------------------------------------------
(* Types *)

LEMMA TypesStep == Types /\ [Next]_vars => Types'
<1> SUFFICES ASSUME Types, [Next]_vars PROVE Types'
  OBVIOUS
<1> USE DEF Types
<1>1. ASSUME NEW h \in Handler, NEW t \in Teacher, BeginStart(h, t) PROVE Types'
  <2>1. Active \subseteq Nat
    BY DEF Active, SessionId, TypeOK
  <2>2. SessionId' = SessionId
    BY <1>1 DEF BeginStart, tables, SessionId
  <2> QED BY <1>1, <2>1, <2>2 DEF BeginStart, Goto, TypeOK, tables, Steps, MarkSteps
<1>2. ASSUME NEW h \in Handler, CommitStart(h) PROVE Types'
  <2>1. sessions' \in Seq(Session) /\ SessionId \subseteq SessionId'
    BY <1>2, StartedSession DEF SessionId
  <2> QED BY <1>2, <2>1, FinishTypes DEF CommitStart, TypeOK, history, Steps, MarkSteps
<1>3. ASSUME NEW h \in Handler, BeginStop(h) PROVE Types'
  <2>1. SessionId' = SessionId
    BY <1>3 DEF BeginStop, tables, SessionId
  <2>2. SessionId \subseteq Nat
    BY DEF SessionId
  <2> QED BY <1>3, <2>1, <2>2 DEF BeginStop, Goto, TypeOK, tables, history, Steps, MarkSteps, Active
<1>4. ASSUME NEW h \in Handler, CommitStop(h) PROVE Types'
  <2>1. sessions' \in Seq(Session) /\ SessionId' = SessionId
    BY <1>4, EndSessions DEF CommitStop, SessionId
  <2> QED BY <1>4, <2>1, FinishTypes DEF CommitStop, TypeOK, history, Steps, MarkSteps
<1>5. ASSUME NEW h \in Handler, NEW f \in Frame, BeginFrame(h, f) PROVE Types'
  <2>1. SessionId' = SessionId
    BY <1>5 DEF BeginFrame, tables, SessionId
  <2>2. SessionId \subseteq Nat /\ f \in Seq(Student)
    BY DEF SessionId
  <2> QED BY <1>5, <2>1, <2>2 DEF BeginFrame, Goto, TypeOK, tables, history, Steps, MarkSteps, Active
<1>6. ASSUME NEW h \in Handler, CheckMark(h) PROVE Types'
  <2>1. SessionId' = SessionId
    BY <1>6 DEF CheckMark, tables, SessionId
  <2>2. Tail(todo[h]) \in Seq(Student)
    BY <1>6, HeadTailProperties DEF CheckMark, TypeOK
  <2>3. \/ Goto(h, "insert") /\ UNCHANGED <<todo, held>>
        \/ \E holds \in BOOLEAN : NextFace(h, holds)
    <3>1. (held[h] \/ sessions[sid[h]].active) \in BOOLEAN
      OBVIOUS
    <3> QED BY <1>6, <3>1, Zenon DEF CheckMark
  <2>4. /\ pc[h] = "check" /\ todo[h] # <<>>
        /\ UNCHANGED <<tables, who, sid, old, newly, gone, history>>
    BY <1>6 DEF CheckMark
  <2>5. CASE Goto(h, "insert") /\ UNCHANGED <<todo, held>>
    BY <2>1, <2>4, <2>5 DEF Goto, TypeOK, tables, history, Steps, MarkSteps
  <2>6. CASE \E holds \in BOOLEAN : NextFace(h, holds)
    <3>1. PICK holds \in BOOLEAN : NextFace(h, holds)
      BY <2>6
    <3>2. held' \in [Handler -> BOOLEAN]
      BY <3>1 DEF NextFace, TypeOK
    <3>3. todo' \in [Handler -> Seq(Student)] /\ \A g \in Handler : g # h => todo'[g] = todo[g]
      BY <2>2, <3>1 DEF NextFace, TypeOK
    <3>4. pc' \in [Handler -> Steps] /\ pc'[h] = "check" /\ \A g \in Handler : g # h => pc'[g] = pc[g]
      BY <3>1 DEF NextFace, Goto, TypeOK, Steps
    <3> QED BY <2>1, <2>4, <3>2, <3>3, <3>4 DEF TypeOK, tables, history, MarkSteps
  <2> QED BY <2>3, <2>5, <2>6
<1>7. ASSUME NEW h \in Handler, InsertMark(h) PROVE Types'
  <2>1. /\ Head(todo[h]) \in Student /\ Tail(todo[h]) \in Seq(Student)
        /\ sid[h] \in SessionId /\ sid[h] \in Nat /\ SessionId' = SessionId
    BY <1>7, HeadTailProperties DEF InsertMark, TypeOK, SessionId, MarkSteps
  <2>2. CASE Finish(h) /\ UNCHANGED <<enrolled, sessions, records, raced, told>>
    BY <2>1, <2>2, FinishTypes DEF TypeOK, Steps, MarkSteps
  <2>3. CASE /\ NewRecord(h, Head(todo[h]), sid[h]) /\ NextFace(h, FALSE)
             /\ newly' = [newly EXCEPT ![h] = @ \cup {Head(todo[h])}]
             /\ UNCHANGED <<enrolled, sessions, who, old, sid, gone, told>>
    <3>1. /\ records' \subseteq Record /\ IsFiniteSet(records')
          /\ raced' \subseteq Teacher \cup Student
      BY <2>1, <2>3, NewRecordTypes
    <3> QED BY <1>7, <2>1, <2>3, <3>1 DEF InsertMark, NextFace, Goto, TypeOK, Steps, MarkSteps
  <2> QED BY <1>7, <2>2, <2>3 DEF InsertMark
<1>8. ASSUME NEW h \in Handler, EndFrame(h) PROVE Types'
  <2>1. SessionId' = SessionId /\ sid[h] \in Nat
    BY <1>8 DEF EndFrame, tables, SessionId, TypeOK, MarkSteps
  <2>2. told' \subseteq Student \X Nat
    BY <1>8, <2>1 DEF EndFrame, TypeOK
  <2> QED BY <1>8, <2>1, <2>2, FinishTypes DEF EndFrame, TypeOK, tables, Steps, MarkSteps
<1>9. ASSUME NEW h \in Handler, TimeOut(h) PROVE Types'
  <2>1. SessionId' = SessionId
    BY <1>9 DEF TimeOut, tables, SessionId
  <2> QED BY <1>9, <2>1 DEF TimeOut, TypeOK, tables, history
<1>10. ASSUME NEW h \in Handler, JobFails(h) PROVE Types'
  <2>1. SessionId' = SessionId
    BY <1>10 DEF JobFails, tables, SessionId
  <2> QED BY <1>10, <2>1, FinishTypes DEF JobFails, TypeOK, tables, history, Steps, MarkSteps
<1>11. ASSUME NEW h \in Handler, NEW s \in Student, BeginManual(h, s) PROVE Types'
  <2>1. SessionId' = SessionId
    BY <1>11 DEF BeginManual, tables, SessionId
  <2>2. sid' \in [Handler -> Nat \cup {None}] /\ \A g \in Handler : g # h => sid'[g] = sid[g]
    <3>1. PICK i \in IF Active = {} THEN {None} ELSE Active : sid' = [sid EXCEPT ![h] = i]
      BY <1>11 DEF BeginManual
    <3>2. i \in Nat \cup {None}
      BY DEF Active, SessionId
    <3> QED BY <3>1, <3>2 DEF TypeOK
  <2>3. <<s>> \in Seq(Student) /\ <<s>> # <<>>
    OBVIOUS
  <2>4. todo' \in [Handler -> Seq(Student)] /\ todo'[h] # <<>>
        /\ \A g \in Handler : g # h => todo'[g] = todo[g]
    BY <1>11, <2>3 DEF BeginManual, TypeOK
  <2> QED BY <1>11, <2>1, <2>2, <2>4
      DEF BeginManual, Goto, TypeOK, tables, history, Steps, MarkSteps
<1>12. ASSUME NEW h \in Handler, CheckManual(h) PROVE Types'
  <2>1. SessionId' = SessionId
    BY <1>12 DEF CheckManual, tables, SessionId
  <2>2. CASE MarkedToday(Head(todo[h]))
    BY <1>12, <2>1, <2>2, FinishTypes DEF CheckManual, TypeOK, tables, history, Steps, MarkSteps
  <2>3. CASE ~MarkedToday(Head(todo[h]))
    BY <1>12, <2>1, <2>3 DEF CheckManual, Goto, TypeOK, tables, request, history, Steps, MarkSteps
  <2> QED BY <2>2, <2>3
<1>13. ASSUME NEW h \in Handler, InsertManual(h) PROVE Types'
  <2>1. Head(todo[h]) \in Student /\ sid[h] \in Nat \cup {None} /\ SessionId' = SessionId
    BY <1>13, HeadTailProperties DEF InsertManual, TypeOK, SessionId
  <2>2. /\ records' \subseteq Record /\ IsFiniteSet(records')
        /\ raced' \subseteq Teacher \cup Student
    BY <1>13, <2>1, NewRecordTypes DEF InsertManual, TypeOK
  <2> QED BY <1>13, <2>1, <2>2, FinishTypes DEF InsertManual, TypeOK, Steps, MarkSteps
<1>14. ASSUME NEW s \in Leaver, DeleteStudent(s) PROVE Types'
  <2>1. SessionId' = SessionId /\ records' \subseteq records /\ told' \subseteq told
    BY <1>14 DEF DeleteStudent, SessionId
  <2>2. IsFiniteSet(records')
    BY <2>1, FS_Subset
  <2> QED BY <1>14, <2>1, <2>2 DEF DeleteStudent, TypeOK, request
<1>15. CASE UNCHANGED vars
  BY <1>15 DEF vars, tables, request, history, TypeOK, SessionId
<1> QED
  BY <1>1, <1>2, <1>3, <1>4, <1>5, <1>6, <1>7, <1>8, <1>9, <1>10, <1>11, <1>12, <1>13, <1>14,
     <1>15
  DEF Next, StartStop, Recognize, Manual
--------------------------------------------------------------------------------
(* Marks *)

\* A step that files and reports nothing keeps marks in order.
LEMMA MarksKept ==
  ASSUME MarksInOrder, enrolled' = enrolled, records' = records, told' = told,
         \A h \in Handler : newly'[h] = {} \/ (newly'[h] = newly[h] /\ sid'[h] = sid[h])
  PROVE  MarksInOrder'
BY DEF MarksInOrder, OneRecordPerSession, ReportedOnce, MarkedIn, Marks

\* A new record in a session is the only one of its student there.
LEMMA RecordsKept ==
  ASSUME Types, OneRecordPerSession, NEW h \in Handler, NEW s \in Student,
         NEW i \in Nat \cup {None}, NewRecord(h, s, i), i = None \/ ~MarkedIn(s, i)
  PROVE  OneRecordPerSession' /\ MarkedIn(s, i)' /\ \A t, j : MarkedIn(t, j) => MarkedIn(t, j)'
<1>1. /\ records \subseteq records'
      /\ \A r \in records' : r \in records \/ (r.student = s /\ r.session = i)
      /\ \E r \in records' : r.student = s /\ r.session = i
      /\ \A q, r \in records' \ records : q = r
  BY NewRecordTypes
<1>2. i = None \/ \A r \in records : ~(r.student = s /\ r.session = i)
  BY DEF MarkedIn, Marks
<1>3. MarkedIn(s, i)' /\ \A t, j : MarkedIn(t, j) => MarkedIn(t, j)'
  BY <1>1 DEF MarkedIn, Marks
<1>4. OneRecordPerSession'
  BY <1>1, <1>2 DEF OneRecordPerSession
<1> QED BY <1>3, <1>4

LEMMA MarksStep == AttendanceInv /\ [Next]_vars => MarksInOrder'
<1> SUFFICES ASSUME AttendanceInv, [Next]_vars PROVE MarksInOrder'
  OBVIOUS
<1> USE DEF AttendanceInv
<1>a. \A h \in Handler : pc[h] \notin MarkSteps => newly[h] = {}
  BY DEF Types, TypeOK
<1>b. ASSUME NEW h \in Handler, Finish(h)
      PROVE  \A g \in Handler : newly'[g] = {} \/ (newly'[g] = newly[g] /\ sid'[g] = sid[g])
  BY <1>b, FinishTypes DEF Types
<1>1. ASSUME NEW h \in Handler, NEW t \in Teacher, BeginStart(h, t) PROVE MarksInOrder'
  BY <1>1, MarksKept DEF BeginStart, tables
<1>2. ASSUME NEW h \in Handler, CommitStart(h) \/ CommitStop(h) PROVE MarksInOrder'
  BY <1>2, <1>b, MarksKept DEF CommitStart, CommitStop, history
<1>3. ASSUME NEW h \in Handler, BeginStop(h) PROVE MarksInOrder'
  BY <1>3, <1>a, MarksKept DEF BeginStop, tables, history, MarkSteps, Types, TypeOK
<1>4. ASSUME NEW h \in Handler, NEW f \in Frame, BeginFrame(h, f) PROVE MarksInOrder'
  BY <1>4, <1>a, MarksKept DEF BeginFrame, tables, history, MarkSteps, Types, TypeOK
<1>5. ASSUME NEW h \in Handler, CheckMark(h) PROVE MarksInOrder'
  BY <1>5, MarksKept DEF CheckMark, tables, history
<1>6. ASSUME NEW h \in Handler, InsertMark(h) PROVE MarksInOrder'
  <2> PICK s \in Student, i \in Nat : s = Head(todo[h]) /\ i = sid[h]
    BY <1>6, HeadTailProperties DEF InsertMark, Types, TypeOK, SessionId, MarkSteps
  <2>2. CASE Finish(h) /\ UNCHANGED <<enrolled, records, told>>
    BY <1>b, <2>2, MarksKept
  <2>3. CASE /\ ~MarkedIn(s, i) /\ NewRecord(h, s, i)
             /\ newly' = [newly EXCEPT ![h] = @ \cup {s}]
             /\ UNCHANGED <<enrolled, sid, told>>
    <3>2. OneRecordPerSession' /\ MarkedIn(s, i)' /\ \A t, j : MarkedIn(t, j) => MarkedIn(t, j)'
      BY <2>3, RecordsKept DEF MarksInOrder
    <3>3. /\ newly'[h] = newly[h] \cup {s}
          /\ \A g \in Handler : g # h => newly'[g] = newly[g]
      BY <2>3 DEF Types, TypeOK
    <3>4. <<s, i>> \notin told /\ \A g \in Handler : sid[g] = i => s \notin newly[g] \cap enrolled
      <4>1. ~MarkedIn(s, i)
        BY <2>3
      <4> QED BY <4>1 DEF MarksInOrder, ReportedOnce
    <3>5. \A g \in Handler : \A t \in newly'[g] \cap enrolled :
            MarkedIn(t, sid[g])' /\ <<t, sid'[g]>> \notin told'
      BY <2>3, <3>2, <3>3, <3>4 DEF MarksInOrder, ReportedOnce
    <3>6. \A f, g \in Handler :
            f # g /\ sid'[f] = sid'[g] => newly'[f] \cap newly'[g] \cap enrolled = {}
      BY <2>3, <3>3, <3>4 DEF MarksInOrder, ReportedOnce
    <3>7. \A x \in told' : MarkedIn(x[1], x[2])'
      BY <2>3, <3>2 DEF MarksInOrder, ReportedOnce
    <3> QED BY <2>3, <3>2, <3>5, <3>6, <3>7 DEF MarksInOrder, ReportedOnce
  <2> QED BY <1>6, <2>2, <2>3 DEF InsertMark, NextFace
<1>7. ASSUME NEW h \in Handler, EndFrame(h) PROVE MarksInOrder'
  <2>1. /\ enrolled' = enrolled /\ records' = records /\ newly'[h] = {}
        /\ \A g \in Handler : g # h => newly'[g] = newly[g] /\ sid'[g] = sid[g]
        /\ \A x \in told' : x \in told \/ \E s \in newly[h] \cap enrolled : x = <<s, sid[h]>>
    BY <1>7, FinishTypes DEF EndFrame, tables, Types
  <2>2. \A g \in Handler : \A t \in newly'[g] \cap enrolled :
          MarkedIn(t, sid[g])' /\ <<t, sid'[g]>> \notin told'
    BY <2>1 DEF MarksInOrder, ReportedOnce, MarkedIn, Marks
  <2>3. \A f, g \in Handler :
          f # g /\ sid'[f] = sid'[g] => newly'[f] \cap newly'[g] \cap enrolled = {}
    BY <2>1 DEF MarksInOrder, ReportedOnce
  <2>4. \A x \in told' : MarkedIn(x[1], x[2])'
    BY <2>1 DEF MarksInOrder, ReportedOnce, MarkedIn, Marks
  <2>5. OneRecordPerSession'
    BY <2>1 DEF MarksInOrder, OneRecordPerSession
  <2> QED BY <2>1, <2>2, <2>3, <2>4, <2>5 DEF MarksInOrder, ReportedOnce
<1>8. ASSUME NEW h \in Handler, TimeOut(h) PROVE MarksInOrder'
  BY <1>8, MarksKept DEF TimeOut, tables, history
<1>9. ASSUME NEW h \in Handler, JobFails(h) PROVE MarksInOrder'
  BY <1>9, <1>b, MarksKept DEF JobFails, tables, history
<1>10. ASSUME NEW h \in Handler, NEW s \in Student, BeginManual(h, s) PROVE MarksInOrder'
  BY <1>10, <1>a, MarksKept DEF BeginManual, tables, history, MarkSteps, Types, TypeOK
<1>11. ASSUME NEW h \in Handler, CheckManual(h) PROVE MarksInOrder'
  BY <1>11, <1>b, MarksKept DEF CheckManual, tables, request, history
<1>12. ASSUME NEW h \in Handler, InsertManual(h) PROVE MarksInOrder'
  <2>1. /\ Head(todo[h]) \in Student /\ sid[h] \in Nat \cup {None}
        /\ told' = told /\ enrolled' = enrolled
        /\ \A g \in Handler : newly'[g] = {} \/ (newly'[g] = newly[g] /\ sid'[g] = sid[g])
    BY <1>12, <1>b, HeadTailProperties DEF InsertManual, Types, TypeOK
  <2>2. CASE records' = records
    BY <2>1, <2>2, MarksKept
  <2>3. CASE /\ sid[h] = None \/ ~MarkedIn(Head(todo[h]), sid[h])
             /\ NewRecord(h, Head(todo[h]), sid[h])
    <3>1. OneRecordPerSession' /\ \A t, j : MarkedIn(t, j) => MarkedIn(t, j)'
      BY <2>1, <2>3, RecordsKept DEF MarksInOrder
    <3> QED BY <2>1, <3>1 DEF MarksInOrder, ReportedOnce
  <2> QED BY <1>12, <2>2, <2>3 DEF InsertManual
<1>13. ASSUME NEW s \in Leaver, DeleteStudent(s) PROVE MarksInOrder'
  <2>1. /\ enrolled' = enrolled \ {s} /\ records' \subseteq records
        /\ newly' = newly /\ sid' = sid
        /\ told' \subseteq told /\ \A x \in told' : x[1] # s
    BY <1>13 DEF DeleteStudent, request
  <2>2. \A t, i : t # s /\ MarkedIn(t, i) => MarkedIn(t, i)'
    BY <1>13 DEF DeleteStudent, MarkedIn, Marks
  <2>3. OneRecordPerSession'
    BY <2>1 DEF MarksInOrder, OneRecordPerSession
  <2>4. ReportedOnce'
    BY <2>1, <2>2 DEF MarksInOrder, ReportedOnce
  <2> QED BY <2>3, <2>4 DEF MarksInOrder
<1>14. CASE UNCHANGED vars
  BY <1>14, MarksKept DEF vars, tables, request, history
<1> QED
  BY <1>1, <1>2, <1>3, <1>4, <1>5, <1>6, <1>7, <1>8, <1>9, <1>10, <1>11, <1>12, <1>13, <1>14
  DEF Next, StartStop, Recognize, Manual
--------------------------------------------------------------------------------
(* Sessions *)

StartsInOrder == OneActivePerTeacher /\ StartsSeeAll

\* A step that begins no start and adds no session keeps starts in order, whatever it ends.
LEMMA StartsKept ==
  ASSUME StartsInOrder, raced \subseteq raced', Len(sessions') = Len(sessions),
         \A i \in SessionId : /\ sessions'[i].by = sessions[i].by
                              /\ sessions'[i].active => sessions[i].active,
         \A h \in Handler : pc'[h] = "start" =>
           pc[h] = "start" /\ who'[h] = who[h] /\ old'[h] = old[h]
  PROVE  StartsInOrder'
<1>1. Active' \subseteq Active /\ \A i \in Active' : sessions'[i].by = sessions[i].by
  BY DEF Active, SessionId
<1>2. OneActivePerTeacher'
  BY <1>1 DEF StartsInOrder, OneActivePerTeacher
<1>3. StartsSeeAll'
  BY <1>1 DEF StartsInOrder, StartsSeeAll
<1> QED BY <1>2, <1>3 DEF StartsInOrder

LEMMA StartsStep == Types /\ StartsInOrder /\ [Next]_vars => StartsInOrder'
<1> SUFFICES ASSUME Types, StartsInOrder, [Next]_vars PROVE StartsInOrder'
  OBVIOUS
<1>1. ASSUME NEW h \in Handler, NEW t \in Teacher, BeginStart(h, t) PROVE StartsInOrder'
  <2>1. /\ sessions' = sessions /\ Active' = Active /\ raced \subseteq raced'
        /\ pc'[h] = "start" /\ who'[h] = t
        /\ old'[h] = {i \in Active : sessions[i].by = t}
        /\ \A g \in Handler : g # h => pc'[g] = pc[g] /\ who'[g] = who[g] /\ old'[g] = old[g]
    BY <1>1 DEF BeginStart, Goto, tables, Active, SessionId, Types, TypeOK
  <2>2. \A g \in Handler : g # h /\ pc[g] = "start" /\ who[g] = t => t \in raced'
    BY <1>1 DEF BeginStart
  <2>3. OneActivePerTeacher'
    BY <2>1 DEF StartsInOrder, OneActivePerTeacher
  <2>4. StartsSeeAll'
    BY <2>1, <2>2 DEF StartsInOrder, StartsSeeAll
  <2> QED BY <2>3, <2>4 DEF StartsInOrder
<1>2. ASSUME NEW h \in Handler, CommitStart(h) PROVE StartsInOrder'
  <2>1. pc[h] = "start" /\ raced' = raced /\ who[h] \in Teacher
    BY <1>2 DEF CommitStart, history, Types, TypeOK
  <2>2. /\ pc'[h] = "idle"
        /\ \A g \in Handler : g # h => pc'[g] = pc[g] /\ who'[g] = who[g] /\ old'[g] = old[g]
    BY <1>2, FinishTypes DEF CommitStart, Types
  <2>3. /\ Len(sessions') = Len(sessions) + 1 /\ Len(sessions) \in Nat
        /\ \A i \in SessionId : /\ sessions'[i].by = sessions[i].by
                                /\ sessions'[i].active => sessions[i].active /\ i \notin old[h]
        /\ sessions'[Len(sessions) + 1].by = who[h]
    BY <1>2, StartedSession DEF Types
  <2>4. \A i \in Active' : \/ i \in Active \ old[h] /\ sessions'[i].by = sessions[i].by
                           \/ i = Len(sessions) + 1 /\ sessions'[i].by = who[h]
    BY <2>3 DEF Active, SessionId
  <2>5. \A i \in Active \ old[h] : sessions[i].by = who[h] => who[h] \in raced
    BY <2>1 DEF StartsInOrder, StartsSeeAll
  <2>6. OneActivePerTeacher'
    BY <2>1, <2>4, <2>5 DEF StartsInOrder, OneActivePerTeacher
  <2>7. \A g \in Handler : pc'[g] = "start" /\ who'[g] \notin raced => who'[g] # who[h]
    BY <2>1, <2>2 DEF StartsInOrder, StartsSeeAll
  <2>8. StartsSeeAll'
    BY <2>1, <2>2, <2>4, <2>7 DEF StartsInOrder, StartsSeeAll
  <2> QED BY <2>6, <2>8 DEF StartsInOrder
<1>3. ASSUME NEW h \in Handler, CommitStop(h) PROVE StartsInOrder'
  <2>1. /\ Len(sessions') = Len(sessions)
        /\ \A i \in SessionId : /\ sessions'[i].by = sessions[i].by
                                /\ sessions'[i].active => sessions[i].active
    BY <1>3, EndSessions DEF CommitStop, Types
  <2> QED BY <1>3, <2>1, FinishTypes, StartsKept DEF CommitStop, history, Types
<1>4. ASSUME sessions' = sessions, raced \subseteq raced',
             \A h \in Handler : pc'[h] = "start" =>
               pc[h] = "start" /\ who'[h] = who[h] /\ old'[h] = old[h]
      PROVE  StartsInOrder'
  BY <1>4, StartsKept
<1>5. ASSUME NEW h \in Handler, NEW next \in Steps \ {"start"}, Goto(h, next)
      PROVE  \A g \in Handler : pc'[g] = "start" => pc[g] = "start"
  BY <1>5 DEF Goto, Types, TypeOK
<1>6. ASSUME NEW h \in Handler, Finish(h)
      PROVE  \A g \in Handler : pc'[g] = "start" =>
               pc[g] = "start" /\ who'[g] = who[g] /\ old'[g] = old[g]
  BY <1>6, FinishTypes DEF Types
<1>7. ASSUME NEW h \in Handler, BeginStop(h) PROVE StartsInOrder'
  BY <1>7, <1>4, <1>5 DEF BeginStop, tables, history, Steps
<1>8. ASSUME NEW h \in Handler, NEW f \in Frame, BeginFrame(h, f) PROVE StartsInOrder'
  BY <1>8, <1>4, <1>5 DEF BeginFrame, tables, history, Steps
<1>9. ASSUME NEW h \in Handler, CheckMark(h) PROVE StartsInOrder'
  <2>1. Goto(h, "insert") \/ Goto(h, "check")
    BY <1>9 DEF CheckMark, NextFace
  <2> QED BY <1>9, <2>1, <1>4, <1>5 DEF CheckMark, tables, history, Steps
<1>10. ASSUME NEW h \in Handler, InsertMark(h) PROVE StartsInOrder'
  <2>1. sessions' = sessions /\ raced \subseteq raced'
    BY <1>10 DEF InsertMark, NewRecord
  <2> QED BY <1>10, <2>1, <1>4, <1>5, <1>6 DEF InsertMark, NextFace, Steps
<1>11. ASSUME NEW h \in Handler, EndFrame(h) PROVE StartsInOrder'
  BY <1>11, <1>4, <1>6 DEF EndFrame, tables
<1>12. ASSUME NEW h \in Handler, TimeOut(h) PROVE StartsInOrder'
  BY <1>12, <1>4 DEF TimeOut, tables, history
<1>13. ASSUME NEW h \in Handler, JobFails(h) PROVE StartsInOrder'
  BY <1>13, <1>4, <1>6 DEF JobFails, tables, history
<1>14. ASSUME NEW h \in Handler, NEW s \in Student, BeginManual(h, s) PROVE StartsInOrder'
  BY <1>14, <1>4, <1>5 DEF BeginManual, tables, history, Steps
<1>15. ASSUME NEW h \in Handler, CheckManual(h) PROVE StartsInOrder'
  BY <1>15, <1>4, <1>5, <1>6 DEF CheckManual, tables, request, history, Steps
<1>16. ASSUME NEW h \in Handler, InsertManual(h) PROVE StartsInOrder'
  <2>1. sessions' = sessions /\ raced \subseteq raced'
    BY <1>16 DEF InsertManual, NewRecord
  <2> QED BY <1>16, <2>1, <1>4, <1>6 DEF InsertManual
<1>17. ASSUME NEW s \in Leaver, DeleteStudent(s) PROVE StartsInOrder'
  BY <1>17, <1>4 DEF DeleteStudent, request
<1>18. CASE UNCHANGED vars
  BY <1>18, <1>4 DEF vars, tables, request, history
<1> QED
  BY <1>1, <1>2, <1>3, <1>7, <1>8, <1>9, <1>10, <1>11, <1>12, <1>13, <1>14, <1>15, <1>16, <1>17,
     <1>18
  DEF Next, StartStop, Recognize, Manual
--------------------------------------------------------------------------------
(* Manual marks *)

\* A step that files nothing and sends nobody to file keeps them, whatever it deletes.
LEMMA FilesKept ==
  ASSUME FilesAreFirst, records' \subseteq records, raced \subseteq raced',
         \A h \in Handler : pc'[h] = "file" => pc[h] = "file" /\ todo'[h] = todo[h]
  PROVE  FilesAreFirst'
BY DEF FilesAreFirst, MarkedToday

\* A mark is filed: who else is about to file one of the student is in a race.
LEMMA FilesRace ==
  ASSUME Types, FilesAreFirst, NEW h \in Handler, NEW s \in Student, NEW i \in Nat \cup {None},
         NewRecord(h, s, i), pc'[h] # "file",
         \A g \in Handler : g # h => pc'[g] = pc[g] /\ todo'[g] = todo[g]
  PROVE  FilesAreFirst'
<1>1. /\ \A r \in records' : r \in records \/ r.student = s
      /\ raced \subseteq raced'
  BY NewRecordTypes
<1>2. ASSUME NEW g \in Handler, pc'[g] = "file", \E r \in records' : r.student = Head(todo'[g])
      PROVE  Head(todo'[g]) \in raced'
  <2>1. g # h /\ pc[g] = "file" /\ todo'[g] = todo[g]
    BY <1>2
  <2>2. CASE Head(todo[g]) = s
    BY <2>1, <2>2 DEF NewRecord
  <2>3. CASE Head(todo[g]) # s
    BY <1>1, <1>2, <2>1, <2>3 DEF FilesAreFirst, MarkedToday
  <2> QED BY <2>2, <2>3
<1> QED BY <1>2 DEF FilesAreFirst, MarkedToday

LEMMA FilesStep == Types /\ FilesAreFirst /\ [Next]_vars => FilesAreFirst'
<1> SUFFICES ASSUME Types, FilesAreFirst, [Next]_vars PROVE FilesAreFirst'
  OBVIOUS
<1>1. ASSUME NEW h \in Handler, Finish(h)
      PROVE  /\ pc'[h] # "file"
             /\ \A g \in Handler : g # h => pc'[g] = pc[g] /\ todo'[g] = todo[g]
             /\ \A g \in Handler : pc'[g] = "file" => pc[g] = "file" /\ todo'[g] = todo[g]
  BY <1>1, FinishTypes DEF Types
<1>2. ASSUME NEW h \in Handler, NEW next \in Steps \ {"file"}, Goto(h, next)
      PROVE  /\ pc'[h] # "file"
             /\ \A g \in Handler : g # h => pc'[g] = pc[g]
  BY <1>2 DEF Goto, Types, TypeOK
<1>3. ASSUME NEW h \in Handler, NEW t \in Teacher, BeginStart(h, t) PROVE FilesAreFirst'
  <2>1. raced \subseteq raced' /\ records' = records /\ todo' = todo /\ Goto(h, "start")
    BY <1>3 DEF BeginStart, tables
  <2> QED BY <2>1, <1>2, FilesKept DEF Steps
<1>4. ASSUME NEW h \in Handler, CommitStart(h) \/ CommitStop(h) PROVE FilesAreFirst'
  BY <1>4, <1>1, FilesKept DEF CommitStart, CommitStop, history
<1>5. ASSUME NEW h \in Handler, BeginStop(h) PROVE FilesAreFirst'
  BY <1>5, <1>2, FilesKept DEF BeginStop, tables, history, Steps
<1>6. ASSUME NEW h \in Handler, NEW f \in Frame, BeginFrame(h, f) PROVE FilesAreFirst'
  <2>1. \A g \in Handler : g # h => todo'[g] = todo[g]
    BY <1>6 DEF BeginFrame, Types, TypeOK
  <2> QED BY <1>6, <2>1, <1>2, FilesKept DEF BeginFrame, tables, history, Steps
<1>7. ASSUME NEW h \in Handler, CheckMark(h) PROVE FilesAreFirst'
  <2>1. Goto(h, "insert") \/ Goto(h, "check")
    BY <1>7 DEF CheckMark, NextFace
  <2>2. \A g \in Handler : g # h => todo'[g] = todo[g]
    BY <1>7 DEF CheckMark, NextFace, Types, TypeOK
  <2> QED BY <1>7, <2>1, <2>2, <1>2, FilesKept DEF CheckMark, tables, history, Steps
<1>8. ASSUME NEW h \in Handler, InsertMark(h) PROVE FilesAreFirst'
  <2>1. Head(todo[h]) \in Student /\ sid[h] \in Nat
    BY <1>8, HeadTailProperties DEF InsertMark, Types, TypeOK, SessionId, MarkSteps
  <2>2. CASE Finish(h) /\ UNCHANGED <<records, raced>>
    BY <1>1, <2>2, FilesKept
  <2>3. CASE NewRecord(h, Head(todo[h]), sid[h]) /\ NextFace(h, FALSE)
    <3>1. \A g \in Handler : g # h => todo'[g] = todo[g]
      BY <2>3 DEF NextFace, Types, TypeOK
    <3> QED BY <2>1, <2>3, <3>1, <1>2, FilesRace DEF NextFace, Steps
  <2> QED BY <1>8, <2>2, <2>3 DEF InsertMark
<1>9. ASSUME NEW h \in Handler, EndFrame(h) PROVE FilesAreFirst'
  BY <1>9, <1>1, FilesKept DEF EndFrame, tables
<1>10. ASSUME NEW h \in Handler, TimeOut(h) PROVE FilesAreFirst'
  BY <1>10, FilesKept DEF TimeOut, tables, history
<1>11. ASSUME NEW h \in Handler, JobFails(h) PROVE FilesAreFirst'
  BY <1>11, <1>1, FilesKept DEF JobFails, tables, history
<1>12. ASSUME NEW h \in Handler, NEW s \in Student, BeginManual(h, s) PROVE FilesAreFirst'
  <2>1. \A g \in Handler : g # h => todo'[g] = todo[g]
    BY <1>12 DEF BeginManual, Types, TypeOK
  <2> QED BY <1>12, <2>1, <1>2, FilesKept DEF BeginManual, tables, history, Steps
<1>13. ASSUME NEW h \in Handler, CheckManual(h) PROVE FilesAreFirst'
  <2>1. records' = records /\ raced' = raced
    BY <1>13 DEF CheckManual, tables, history
  <2>2. CASE MarkedToday(Head(todo[h]))
    BY <1>13, <1>1, <2>1, <2>2, FilesKept DEF CheckManual
  <2>3. CASE ~MarkedToday(Head(todo[h]))
    <3>1. todo' = todo /\ \A g \in Handler : g # h => pc'[g] = pc[g]
      BY <1>13, <2>3 DEF CheckManual, Goto, request, Types, TypeOK
    <3> QED BY <2>1, <2>3, <3>1 DEF FilesAreFirst, MarkedToday
  <2> QED BY <2>2, <2>3
<1>14. ASSUME NEW h \in Handler, InsertManual(h) PROVE FilesAreFirst'
  <2>1. Head(todo[h]) \in Student /\ sid[h] \in Nat \cup {None} /\ Finish(h)
    BY <1>14, HeadTailProperties DEF InsertManual, Types, TypeOK
  <2>2. CASE UNCHANGED <<records, raced>>
    BY <1>1, <2>1, <2>2, FilesKept
  <2>3. CASE NewRecord(h, Head(todo[h]), sid[h])
    BY <1>1, <2>1, <2>3, FilesRace
  <2> QED BY <1>14, <2>2, <2>3 DEF InsertManual
<1>15. ASSUME NEW s \in Leaver, DeleteStudent(s) PROVE FilesAreFirst'
  BY <1>15, FilesKept DEF DeleteStudent, request
<1>16. CASE UNCHANGED vars
  BY <1>16, FilesKept DEF vars, tables, request, history
<1> QED
  BY <1>3, <1>4, <1>5, <1>6, <1>7, <1>8, <1>9, <1>10, <1>11, <1>12, <1>13, <1>14, <1>15, <1>16
  DEF Next, StartStop, Recognize, Manual

--------------------------------------------------------------------------------
(* The theorems *)

\* The inductive invariant holds in every state, however many requests overlap.
THEOREM AttendanceInvariant == Spec => []AttendanceInv
<1>1. AttendanceInv /\ [Next]_vars => AttendanceInv'
  BY TypesStep, MarksStep, StartsStep, FilesStep DEF AttendanceInv, StartsInOrder
<1> QED BY <1>1, AttendanceStarts, PTL DEF Spec

\* Every variable keeps its type (Attendance.TypeOK).
THEOREM AttendanceTypes == Spec => []TypeOK
<1>1. AttendanceInv => TypeOK
  BY DEF AttendanceInv, Types
<1> QED BY <1>1, AttendanceInvariant, PTL

\* A mark is one record of its session, and reported as new to one client at most
\* (mark_attendance, recognize and its timeout).
THEOREM MarksStayInOrder == Spec => []MarksInOrder
<1>1. AttendanceInv => MarksInOrder
  BY DEF AttendanceInv
<1> QED BY <1>1, AttendanceInvariant, PTL

\* A user has two active sessions only after two starts that overlapped (start_session).
THEOREM SecondSessionNeedsRace == Spec => []OneActivePerTeacher
<1>1. AttendanceInv => OneActivePerTeacher
  BY DEF AttendanceInv
<1> QED BY <1>1, AttendanceInvariant, PTL

\* A manual mark is a second record of the day only when another mark of the student was
\* filed between its query and its insert (mark_manual).
THEOREM SecondManualNeedsRace == Spec => ManualOncePerDay
<1>1. ASSUME AttendanceInv, [Next]_vars
      PROVE  [\A h \in Handler :
                LET s == Head(todo[h])
                IN pc[h] = "file" /\ pc'[h] = "idle" /\ records' # records /\ MarkedToday(s)
                     => s \in raced]_vars
  BY <1>1 DEF AttendanceInv, FilesAreFirst
<1> QED BY <1>1, AttendanceInvariant, PTL DEF Spec, ManualOncePerDay

\* No step makes an ended session active, or takes a record back but with its student.
LEMMA EndedStep ==
  ASSUME Types, [Next]_vars
  PROVE  /\ \A i \in SessionId : ~sessions[i].active => ~sessions'[i].active
         /\ \A r \in records \ records' : r.student \in enrolled \ enrolled'
<1>1. ASSUME NEW h \in Handler, CommitStart(h) PROVE \A i \in SessionId : sessions'[i].active => sessions[i].active
  BY <1>1, StartedSession DEF Types
<1>2. ASSUME NEW h \in Handler, CommitStop(h) PROVE \A i \in SessionId : sessions'[i].active => sessions[i].active
  BY <1>2, EndSessions DEF CommitStop, Types
<1>3. \/ \E h \in Handler : CommitStart(h) \/ CommitStop(h)
      \/ sessions' = sessions
  BY DEF Next, StartStop, Recognize, Manual, BeginStart, BeginStop, BeginFrame, CheckMark,
         InsertMark, EndFrame, TimeOut, JobFails, BeginManual, CheckManual, InsertManual,
         DeleteStudent, vars, tables
<1>4. records \subseteq records' \/ \E s \in Leaver : DeleteStudent(s)
  BY DEF Next, StartStop, Recognize, Manual, BeginStart, CommitStart, BeginStop, CommitStop,
         BeginFrame, CheckMark, InsertMark, EndFrame, TimeOut, JobFails, BeginManual,
         CheckManual, InsertManual, NewRecord, vars, tables
<1>5. ASSUME NEW s \in Leaver, DeleteStudent(s)
      PROVE  \A r \in records \ records' : r.student \in enrolled \ enrolled'
  BY <1>5 DEF DeleteStudent
<1> QED BY <1>1, <1>2, <1>3, <1>4, <1>5

\* A session that has ended stays ended, and no record is taken back but with its student
\* (start_session, stop_session, mark_attendance, delete_student).
THEOREM SessionsEndForGood == Spec => EndedForGood
<1>1. ASSUME AttendanceInv, [Next]_vars
      PROVE  [/\ \A i \in SessionId : ~sessions[i].active => ~sessions'[i].active
              /\ \A r \in records \ records' : r.student \in enrolled \ enrolled']_vars
  BY <1>1, EndedStep DEF AttendanceInv
<1> QED BY <1>1, AttendanceInvariant, PTL DEF Spec, EndedForGood
================================================================================
