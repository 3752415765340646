------------------------------- MODULE Timetable -------------------------------
(***************************************************************************)
(* Schedules of the web application (app/api/schedules.py) and the status  *)
(* they give a mark (_compute_status in app/services/attendance.py).       *)
(* Administrators create, edit and delete schedules at one time. An edit   *)
(* loads a row, assigns the fields of its body in turn and commits at the  *)
(* end: SQLAlchemy then writes the columns that differ from what it loaded *)
(* and nothing else. A refused body leaves the handler before the commit.  *)
(* Times are minutes of a day, moments minutes since some midnight (UTC);  *)
(* names and departments are left out.                                     *)
(***************************************************************************)
EXTENDS Integers

CONSTANTS
  Sid,       \* ids of schedules (bound)
  Editor,    \* requests handled at one time
  Body,      \* JSON bodies: records of some of the fields, as they were sent
  Moment,    \* moments at which students are marked
  Bad,       \* a time not in HH:MM form, a threshold int() refuses, days that are no numbers
  NoRow

Field == {"start", "end", "late", "grace", "days", "active"}
DayLength == 1440
MaxThreshold == 480

\* Schedules are judged by moments since the epoch; int() makes an integer or refuses, and
\* bool() makes a Boolean.
ASSUME TimetableAssumption ==
  /\ Moment \subseteq Nat
  /\ \A b \in Body :
       /\ DOMAIN b \subseteq Field
       /\ \A f \in {"late", "grace"} \cap DOMAIN b : b[f] \in Int \cup {Bad}
       /\ "active" \in DOMAIN b => b["active"] \in BOOLEAN

VARIABLES
  rows,   \* rows[s]: the schedule, NoRow when there is none
  edit    \* edit[h]: what handler h works on, NoRow when idle

timetableVars == <<rows, edit>>

Time == 0..DayLength - 1
Minutes == 0..MaxThreshold
Weekday == 0..6
-------------------------------------------------------------------------------
(* What becomes of the fields of a body *)

ClampThreshold(v) ==
  LET n == IF v = Bad THEN 10 ELSE v
  IN  IF n < 0 THEN 0 ELSE IF n > MaxThreshold THEN MaxThreshold ELSE n

\* Mutant: a threshold is stored as it was sent, unless it is no number.
StoredUnclamped(f, v) == IF f \in {"late", "grace"} /\ v = Bad THEN 10 ELSE v

Stored(f, v) == IF f \in {"late", "grace"} THEN ClampThreshold(v) ELSE v

Refused(b) == \E f \in {"start", "end"} \cap DOMAIN b : b[f] \notin Time

\* days_list: what is read back from the stored text.
DaysList(row) == IF row.days = Bad THEN {} ELSE row.days \cap Weekday

NewSchedule == [late |-> 10, grace |-> 5, days |-> {0, 1, 2, 3}, active |-> TRUE]

NewRow(b) ==
  [f \in Field |->
     IF f = "active" \/ f \notin DOMAIN b \/ (f = "days" /\ b[f] = {})
     THEN NewSchedule[f] ELSE Stored(f, b[f])]

Changed(seen, b) == {f \in DOMAIN b : Stored(f, b[f]) # seen[f]}
-------------------------------------------------------------------------------
(* The status of a mark *)

ClassStart(row, t) == (t \div DayLength) * DayLength + row.start

ComputeStatus(row, t) ==
  LET late == ClassStart(row, t) + row.late
  IN  IF row.start = Bad \/ t <= late THEN "present"
      ELSE IF t <= late + row.grace THEN "late"
      ELSE "absent"

\* A mark in a session: by the session's schedule, if it has one.
StatusBy(row, t) == IF row = NoRow THEN "present" ELSE ComputeStatus(row, t)

\* mark_manual: by an active schedule, the first the database returns.
ManualSchedules ==
  LET active == {s \in Sid : rows[s] # NoRow /\ rows[s].active}
  IN  IF active = {} THEN {NoRow} ELSE {rows[s] : s \in active}

Severity(status) == CASE status = "present" -> 0 [] status = "late" -> 1 [] status = "absent" -> 2
-------------------------------------------------------------------------------
(* The handlers *)

TimetableInit == rows = [s \in Sid |-> NoRow] /\ edit = [h \in Editor |-> NoRow]

Create(b) ==
  /\ {"start", "end"} \subseteq DOMAIN b /\ ~Refused(b)
  /\ \E s \in Sid : rows[s] = NoRow /\ rows' = [rows EXCEPT ![s] = NewRow(b)]
  /\ UNCHANGED edit

\* update_schedule up to the row's fetch.
FetchForUpdate(h, s, b) ==
  /\ edit[h] = NoRow /\ rows[s] # NoRow
  /\ edit' = [edit EXCEPT ![h] = [op |-> "update", sid |-> s, seen |-> rows[s], body |-> b]]
  /\ UNCHANGED rows

\* delete_schedule up to the row's fetch.
FetchForDelete(h, s) ==
  /\ edit[h] = NoRow /\ rows[s] # NoRow
  /\ edit' = [edit EXCEPT ![h] = [op |-> "delete", sid |-> s]]
  /\ UNCHANGED rows

\* Mutant: the whole row is written back, as it was read.
CommitUpdateWhole(h) ==
  /\ edit[h] # NoRow /\ edit[h].op = "update" /\ ~Refused(edit[h].body)
  /\ LET e == edit[h]
     IN  rows' = IF rows[e.sid] = NoRow THEN rows
                 ELSE [rows EXCEPT ![e.sid] =
                        [f \in Field |-> IF f \in DOMAIN e.body THEN Stored(f, e.body[f])
                                         ELSE e.seen[f]]]
  /\ edit' = [edit EXCEPT ![h] = NoRow]

\* The changed columns are written, and nothing when the row has gone (the answer is 500).
CommitUpdate(h) ==
  /\ edit[h] # NoRow /\ edit[h].op = "update" /\ ~Refused(edit[h].body)
  /\ LET e == edit[h]
     IN  rows' = IF rows[e.sid] = NoRow THEN rows
                 ELSE [rows EXCEPT ![e.sid] =
                        [f \in Field |-> IF f \in Changed(e.seen, e.body)
                                         THEN Stored(f, e.body[f]) ELSE @[f]]]
  /\ edit' = [edit EXCEPT ![h] = NoRow]

\* A field is refused after others were assigned: the session is dropped with the request.
RefuseUpdate(h) ==
  /\ edit[h] # NoRow /\ edit[h].op = "update" /\ Refused(edit[h].body)
  /\ edit' = [edit EXCEPT ![h] = NoRow]
  /\ UNCHANGED rows

CommitDelete(h) ==
  /\ edit[h] # NoRow /\ edit[h].op = "delete"
  /\ rows' = [rows EXCEPT ![edit[h].sid] = NoRow]
  /\ edit' = [edit EXCEPT ![h] = NoRow]

TimetableNext ==
  \/ \E b \in Body : Create(b)
  \/ \E h \in Editor, s \in Sid :
        \/ \E b \in Body : FetchForUpdate(h, s, b)
        \/ FetchForDelete(h, s)
  \/ \E h \in Editor : CommitUpdate(h) \/ RefuseUpdate(h) \/ CommitDelete(h)

TimetableSpec == TimetableInit /\ [][TimetableNext]_timetableVars
-------------------------------------------------------------------------------
(* Properties *)

DaysSent == {b["days"] : b \in {c \in Body : "days" \in DOMAIN c}} \cup {NewSchedule.days}

ValidRow(row) ==
  /\ DOMAIN row = Field
  /\ row["start"] \in Time /\ row["end"] \in Time
  /\ row["late"] \in Minutes /\ row["grace"] \in Minutes
  /\ row["days"] \in DaysSent /\ row["active"] \in BOOLEAN

\* Whatever is created, edited and refused half-way, the fields of a stored schedule have
\* their types and its thresholds their range. Nothing asks whether a class ends after it
\* begins or whether its days are days of the week.
RowsValid == \A s \in Sid : rows[s] # NoRow => ValidRow(rows[s])

\* A schedule judges fairly: who comes by the start of the class is present, and on one
\* day a later mark is never better than an earlier one.
Fair(row) ==
  /\ \A t \in Moment : t <= ClassStart(row, t) => ComputeStatus(row, t) = "present"
  /\ \A t, u \in Moment :
        t <= u /\ t \div DayLength = u \div DayLength
        => Severity(ComputeStatus(row, t)) <= Severity(ComputeStatus(row, u))

\* After any sequence of edits the fields of every stored schedule have their types and
\* range, and marks of a session and manual marks are judged fairly by it
\* (create_schedule, update_schedule, _compute_status).
ScheduleSound ==
  /\ RowsValid
  /\ \A row \in {rows[s] : s \in Sid} \cup ManualSchedules : row # NoRow => Fair(row)

\* A field of a schedule changes only to what the request that commits sent for it: an
\* edit that is refused, and one that another edit overtook, change nothing else
\* (update_schedule, whose fields are assigned before the later ones are checked).
OnlyAsked ==
  [][\A s \in Sid : rows[s] # NoRow /\ rows'[s] # NoRow =>
       \A f \in Field : rows'[s][f] # rows[s][f] =>
         \E h \in Editor :
           /\ edit[h] # NoRow /\ edit'[h] = NoRow
           /\ edit[h].op = "update" /\ edit[h].sid = s
           /\ ~Refused(edit[h].body) /\ f \in DOMAIN edit[h].body
           /\ rows'[s][f] = Stored(f, edit[h].body[f])]_timetableVars
===============================================================================
