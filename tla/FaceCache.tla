------------------------------- MODULE FaceCache -------------------------------
(***************************************************************************)
(* The face encodings of the web application: the table face_encodings and *)
(* the copy each worker process keeps in memory (services/face_engine.py), *)
(* changed by register_face and delete_student (api/students.py) and       *)
(* reloaded by start_session.  The Redis copy is left out: create_app      *)
(* closes the client at the end of the first application context, after    *)
(* which every Redis branch returns at once.                               *)
(***************************************************************************)
EXTENDS Integers, FiniteSets

CONSTANTS
  Photo,       \* encodings, each from one photo
  Student,
  PhotoOf,     \* PhotoOf[p]: the student on p
  Worker,      \* worker processes
  Handler,     \* requests handled at one time
  WorkerOf     \* WorkerOf[h]: the process of handler h

ASSUME PhotoAssumption == PhotoOf \in [Photo -> Student]
ASSUME HandlerAssumption == WorkerOf \in [Handler -> Worker]

VARIABLES
  students,   \* rows of students
  count,      \* count[s]: photo_count
  rows,       \* encodings in the table face_encodings
  known,      \* known[w]: _known_encodings of worker w
  pc,         \* pc[h]: what handler h does next
  photo,      \* photo[h]: the encoding it registers
  target,     \* target[h]: the student it deletes
  index,      \* index[h]: photo_count + 1 as it was read
  loaded,     \* loaded[h]: the rows its query returned
  number,     \* number[p]: the number in photo_path of p's row
  used,       \* photos registered before: each is posted once
  clean,      \* history: handlers whose load nothing has overlapped so far
  behind,     \* history: workers that the table has changed without since their last load,
              \*   or that a failed request has left apart from it
  raced       \* history: a request began while another was under way

db == <<students, count, rows, number>>
request == <<photo, target, index, loaded>>
history == <<used, clean, behind, raced>>
vars == <<db, known, pc, request, history>>

Steps == {"idle", "save", "insert", "forget", "purge", "remove", "query", "fill"}
Of(s) == {p \in Photo : PhotoOf[p] = s}
Goto(h, next) == pc' = [pc EXCEPT ![h] = next]
Quiet == \A h \in Handler : pc[h] = "idle"
\* A request begins: loads is the handler when it is a load.
Begins(loads) ==
  /\ clean' = IF Quiet THEN loads ELSE {}
  /\ raced' = (raced \/ ~Quiet)
\* h changes the table, and no other worker is told.
Changes(h) ==
  /\ behind' = behind \cup (Worker \ {WorkerOf[h]})
  /\ UNCHANGED <<used, clean, raced>>
\* h fails, and its worker's memory is not what the table is.
Fails(h) ==
  /\ behind' = behind \cup {WorkerOf[h]}
  /\ UNCHANGED <<used, clean, raced>>

\* Every worker has created its engine, over a table that is still empty.
Init ==
  /\ students = Student
  /\ count = [s \in Student |-> 0]
  /\ rows = {}
  /\ known = [w \in Worker |-> {}]
  /\ pc = [h \in Handler |-> "idle"]
  /\ photo \in [Handler -> Photo] /\ target \in [Handler -> Student]
  /\ index = [h \in Handler |-> 0]
  /\ loaded = [h \in Handler |-> {}]
  /\ number = [p \in Photo |-> 0]
  /\ used = {} /\ clean = {} /\ behind = {} /\ raced = FALSE

-------------------------------------------------------------------------------
(* register_face *)

\* The student exists; the photo's number is read and its face encoded.
BeginRegister(h, p) ==
  /\ pc[h] = "idle"
  /\ p \notin used /\ PhotoOf[p] \in students
  /\ used' = used \cup {p}
  /\ Begins({})
  /\ photo' = [photo EXCEPT ![h] = p]
  /\ index' = [index EXCEPT ![h] = count[PhotoOf[p]] + 1]
  /\ Goto(h, "save")
  /\ UNCHANGED <<db, known, target, loaded, behind>>

\* save_encoding: into this worker's memory, before it is in the table.
SaveEncoding(h) ==
  /\ pc[h] = "save"
  /\ known' = [known EXCEPT ![WorkerOf[h]] = @ \cup {photo[h]}]
  /\ Goto(h, "insert")
  /\ UNCHANGED <<db, request, history>>

\* Mutant: the photo is not counted.
CommitRegisterUncounted(h) ==
  /\ pc[h] = "insert"
  /\ rows' = rows \cup {photo[h]}
  /\ number' = [number EXCEPT ![photo[h]] = index[h]]
  /\ Goto(h, "idle")
  /\ Changes(h)
  /\ UNCHANGED <<students, count, known, request>>

\* Mutant: the row needs no student.
CommitRegisterOrphan(h) ==
  /\ pc[h] = "insert"
  /\ rows' = rows \cup {photo[h]}
  /\ number' = [number EXCEPT ![photo[h]] = index[h]]
  /\ count' = [count EXCEPT ![PhotoOf[photo[h]]] = index[h]]
  /\ Goto(h, "idle")
  /\ Changes(h)
  /\ UNCHANGED <<students, known, request>>

\* Row and photo_count in one commit. When it fails, as it does when the student is gone by
\* now, the encoding stays in the memory.
CommitRegister(h) ==
  LET s == PhotoOf[photo[h]]
  IN /\ pc[h] = "insert"
     /\ \/ /\ s \in students
           /\ rows' = rows \cup {photo[h]}
           /\ number' = [number EXCEPT ![photo[h]] = index[h]]
           /\ count' = [count EXCEPT ![s] = index[h]]
           /\ Changes(h)
        \/ Fails(h) /\ UNCHANGED <<rows, number, count>>
     /\ Goto(h, "idle")
     /\ UNCHANGED <<students, known, request>>

-------------------------------------------------------------------------------
(* delete_student *)

BeginDelete(h, s) ==
  /\ pc[h] = "idle"
  /\ s \in students
  /\ target' = [target EXCEPT ![h] = s]
  /\ Goto(h, "forget")
  /\ Begins({})
  /\ UNCHANGED <<db, known, photo, index, loaded, used, behind>>

\* delete_student_encodings: out of this worker's memory, then out of the table.
Forget(h) ==
  /\ pc[h] = "forget"
  /\ known' = [known EXCEPT ![WorkerOf[h]] = @ \ Of(target[h])]
  /\ Goto(h, "purge")
  /\ UNCHANGED <<db, request, history>>

\* Mutant: delete_student_encodings leaves the table to the cascade, which never comes
\* when the second commit fails.
PurgeNothing(h) ==
  /\ pc[h] = "purge"
  /\ Goto(h, "remove")
  /\ UNCHANGED <<db, known, request, history>>

\* An error there ends the request, the rows still in the table.
Purge(h) ==
  /\ pc[h] = "purge"
  /\ \/ rows' = rows \ Of(target[h]) /\ Changes(h) /\ Goto(h, "remove")
     \/ UNCHANGED rows /\ Fails(h) /\ Goto(h, "idle")
  /\ UNCHANGED <<students, count, number, known, request>>

\* The second commit deletes the student, and by cascade the rows added meanwhile; it
\* fails when another request was faster, or with the database.
Remove(h) ==
  /\ pc[h] = "remove"
  /\ \/ /\ target[h] \in students
        /\ students' = students \ {target[h]}
        /\ rows' = rows \ Of(target[h])
        /\ Changes(h)
     \/ UNCHANGED <<students, rows, history>>
  /\ Goto(h, "idle")
  /\ UNCHANGED <<count, number, known, request>>

-------------------------------------------------------------------------------
(* load_all_encodings, of start_session and of a worker's first use of the engine *)

\* Mutant: the memory is not cleared first.
BeginLoadUncleared(h) ==
  /\ pc[h] = "idle"
  /\ Goto(h, "query")
  /\ Begins({h})
  /\ behind' = behind \ {WorkerOf[h]}
  /\ UNCHANGED <<db, known, request, used>>

BeginLoad(h) ==
  /\ pc[h] = "idle"
  /\ known' = [known EXCEPT ![WorkerOf[h]] = {}]
  /\ Goto(h, "query")
  /\ Begins({h})
  /\ behind' = behind \ {WorkerOf[h]}
  /\ UNCHANGED <<db, request, used>>

\* An error of the query is logged, and the memory stays empty.
QueryRows(h) ==
  /\ pc[h] = "query"
  /\ \/ loaded' = [loaded EXCEPT ![h] = rows] /\ Goto(h, "fill") /\ UNCHANGED history
     \/ UNCHANGED loaded /\ Goto(h, "idle") /\ Fails(h)
  /\ UNCHANGED <<db, known, photo, target, index>>

\* The rows are added, one by one, to what the memory holds by now.
Fill(h) ==
  /\ pc[h] = "fill"
  /\ known' = [known EXCEPT ![WorkerOf[h]] = @ \cup loaded[h]]
  /\ loaded' = [loaded EXCEPT ![h] = {}]
  /\ Goto(h, "idle")
  /\ UNCHANGED <<db, photo, target, index, history>>

Next == \E h \in Handler :
  \/ \E p \in Photo : BeginRegister(h, p)
  \/ SaveEncoding(h) \/ CommitRegister(h)
  \/ \E s \in Student : BeginDelete(h, s)
  \/ Forget(h) \/ Purge(h) \/ Remove(h)
  \/ BeginLoad(h) \/ QueryRows(h) \/ Fill(h)

Spec == Init /\ [][Next]_vars

-------------------------------------------------------------------------------
(* Properties *)

\* Every variable has its type, and a registration under way has its photo's number.
TypeOK ==
  /\ students \subseteq Student
  /\ count \in [Student -> Nat]
  /\ rows \subseteq Photo
  /\ number \in [Photo -> Nat]
  /\ known \in [Worker -> SUBSET Photo]
  /\ pc \in [Handler -> Steps]
  /\ photo \in [Handler -> Photo] /\ target \in [Handler -> Student]
  /\ index \in [Handler -> Nat]
  /\ loaded \in [Handler -> SUBSET Photo]
  /\ used \subseteq Photo /\ clean \subseteq Handler
  /\ behind \subseteq Worker /\ raced \in BOOLEAN
  /\ \A h \in Handler : pc[h] \in {"save", "insert"} => photo[h] \in used /\ index[h] > 0

\* No encoding outlives its student in the table, also when the photo was registered
\* while the student was being deleted.
RowsHaveStudents == \A p \in rows : PhotoOf[p] \in students

Busy(h) == pc[h] # "idle"

\* What the memory of h's worker holds while h is the only request.
Expected(h) ==
  CASE pc[h] = "insert" -> rows \cup {photo[h]}
    [] pc[h] = "purge" -> rows \ Of(target[h])
    [] pc[h] \in {"query", "fill"} -> {}
    [] OTHER -> rows

\* The request under way is alone, and its student is still there.
OneAtATime ==
  /\ \A g, h \in Handler : Busy(g) /\ Busy(h) => g = h
  /\ \A h \in Handler :
       /\ pc[h] \in {"save", "insert"} => PhotoOf[photo[h]] \in students
       /\ pc[h] = "fill" => loaded[h] = rows
       /\ pc[h] = "remove" => rows \cap Of(target[h]) = {}

\* A worker that knows of every change, and whose requests did not fail between memory and
\* table, holds the table, but for what its request is about.
MemoryInStep ==
  \A w \in Worker \ behind :
    /\ \A h \in Handler : Busy(h) /\ WorkerOf[h] = w => known[w] = Expected(h)
    /\ (\A h \in Handler : Busy(h) => WorkerOf[h] # w) => known[w] = rows

\* photo_count is the highest number given, and a registration holds the next.
NumbersInStep ==
  /\ \A p \in rows : number[p] <= count[PhotoOf[p]]
  /\ \A p, q \in rows : PhotoOf[p] = PhotoOf[q] /\ number[p] = number[q] => p = q
  /\ \A h \in Handler :
       pc[h] \in {"save", "insert"} => index[h] = count[PhotoOf[photo[h]]] + 1

\* A load that nothing has overlapped is alone, and works on an empty memory and on the
\* table as it is.
CleanInStep ==
  \A g \in clean :
    /\ pc[g] \in {"idle", "query", "fill"}
    /\ \A h \in Handler : Busy(h) => h = g
    /\ pc[g] \in {"query", "fill"} => known[WorkerOf[g]] = {}
    /\ pc[g] = "fill" => loaded[g] = rows

\* The table and the requests on it are in order while registrations and deletions of one
\* student overlap (register_face, delete_student); memory, table and numbers are in step
\* until two requests do. This is inductive.
FacesInv ==
  /\ TypeOK /\ RowsHaveStudents /\ CleanInStep
  /\ raced \/ (OneAtATime /\ MemoryInStep /\ NumbersInStep)

\* Whatever earlier races and failures left in a worker's memory, a load that nothing
\* overlaps, and whose query answers, leaves exactly the table there.
LoadHeals ==
  [][\A h \in Handler : Fill(h) /\ h \in clean => known'[WorkerOf[h]] = rows]_vars

\* As long as no two requests have overlapped, the memory of a worker holds exactly the
\* table between requests: a registered face is known, a deleted student is not. Other
\* workers learn of it by their next load, and so does a worker whose request failed
\* between memory and table; a deletion failing at its second commit leaves both in step.
CacheIsTable == Quiet /\ ~raced => \A w \in Worker \ behind : known[w] = rows

\* Nor do two encodings of a student then name one photo file: the number is read when
\* the request begins and stored when it commits.
PhotosNumbered ==
  \A p, q \in rows :
    p # q /\ PhotoOf[p] = PhotoOf[q] /\ number[p] = number[q] => raced
===============================================================================
