--------------------------- MODULE Recognition_proofs ---------------------------
(***************************************************************************)
(* Proofs about what a worker of the web application recognises faces      *)
(* with: its memory of encodings (FaceCache), for any number of photos,    *)
(* students, workers and handlers, and its inference slots                 *)
(* (InferencePool), for any number of requests, permits and threads. In    *)
(* both the run's invariant is inductive as it stands.                     *)
(***************************************************************************)
EXTENDS FaceCache, InferencePool, FiniteSetTheorems, TLAPS

\* What a request does when it begins, and what it does at its later steps.
Begun(h) ==
  \/ \E p \in Photo : BeginRegister(h, p)
  \/ \E s \in Student : BeginDelete(h, s)
  \/ BeginLoad(h)
Continued(h) ==
  \/ SaveEncoding(h) \/ CommitRegister(h)
  \/ Forget(h) \/ Purge(h) \/ Remove(h)
  \/ QueryRows(h) \/ Fill(h)

-------------------------------------------------------------------------------
(* Types, and the rows of the table *)

\* Every step is of one of the two kinds.
LEMMA NextSplits == Next <=> \E h \in Handler : Begun(h) \/ Continued(h)
  BY Zenon DEF Next, Begun, Continued

LEMMA TypeInit == Init => TypeOK
<1> SUFFICES ASSUME Init PROVE TypeOK
  OBVIOUS
<1>1. /\ students \subseteq Student /\ rows \subseteq Photo
      /\ photo \in [Handler -> Photo] /\ target \in [Handler -> Student]
      /\ used \subseteq Photo /\ clean \subseteq Handler
      /\ behind \subseteq Worker /\ raced \in BOOLEAN
  BY Zenon DEF Init
<1>2. /\ count \in [Student -> Nat] /\ number \in [Photo -> Nat]
      /\ known \in [Worker -> SUBSET Photo] /\ loaded \in [Handler -> SUBSET Photo]
      /\ pc \in [Handler -> Steps] /\ index \in [Handler -> Nat]
      /\ \A h \in Handler : pc[h] = "idle"
  BY DEF Init, Steps
<1>3. QED
  BY <1>1, <1>2 DEF TypeOK

\* Every step keeps the types.
LEMMA TypeNext == TypeOK /\ [Next]_vars => TypeOK'
<1> SUFFICES ASSUME TypeOK, [Next]_vars PROVE TypeOK'
  OBVIOUS
<1> USE HandlerAssumption, PhotoAssumption DEF TypeOK, Steps, Goto, Of
<1>1. CASE UNCHANGED vars
  BY <1>1 DEF vars, db, request, history
<1>2. ASSUME NEW h \in Handler, NEW p \in Photo, BeginRegister(h, p) PROVE TypeOK'
  BY <1>2 DEF BeginRegister, Begins, db
<1>3. ASSUME NEW h \in Handler, SaveEncoding(h) PROVE TypeOK'
  BY <1>3 DEF SaveEncoding, db, request, history
<1>4. ASSUME NEW h \in Handler, CommitRegister(h) PROVE TypeOK'
  BY <1>4 DEF CommitRegister, Changes, Fails, request
<1>5. ASSUME NEW h \in Handler, NEW s \in Student, BeginDelete(h, s) PROVE TypeOK'
  BY <1>5 DEF BeginDelete, Begins, db
<1>6. ASSUME NEW h \in Handler, Forget(h) PROVE TypeOK'
  BY <1>6 DEF Forget, db, request, history
<1>7. ASSUME NEW h \in Handler, Purge(h) PROVE TypeOK'
  BY <1>7 DEF Purge, Changes, Fails, request
<1>8. ASSUME NEW h \in Handler, Remove(h) PROVE TypeOK'
  BY <1>8 DEF Remove, Changes, request, history
<1>9. ASSUME NEW h \in Handler, BeginLoad(h) PROVE TypeOK'
  BY <1>9 DEF BeginLoad, Begins, db, request
<1>10. ASSUME NEW h \in Handler, QueryRows(h) PROVE TypeOK'
  BY <1>10 DEF QueryRows, Fails, db, history
<1>11. ASSUME NEW h \in Handler, Fill(h) PROVE TypeOK'
  BY <1>11 DEF Fill, db, history
<1>12. QED
  BY <1>1, <1>2, <1>3, <1>4, <1>5, <1>6, <1>7, <1>8, <1>9, <1>10, <1>11 DEF Next

\* Every step leaves the table with the rows of students only.
LEMMA RowsNext == TypeOK /\ RowsHaveStudents /\ [Next]_vars => RowsHaveStudents'
<1> SUFFICES ASSUME TypeOK, RowsHaveStudents, [Next]_vars PROVE RowsHaveStudents'
  OBVIOUS
<1>1. ASSUME NEW h \in Handler, CommitRegister(h) PROVE RowsHaveStudents'
  BY <1>1 DEF RowsHaveStudents, CommitRegister
<1>2. ASSUME NEW h \in Handler, Purge(h) PROVE RowsHaveStudents'
  BY <1>2 DEF RowsHaveStudents, Purge
<1>3. ASSUME NEW h \in Handler, Remove(h) PROVE RowsHaveStudents'
  BY <1>3 DEF RowsHaveStudents, Remove, Of, TypeOK
<1>4. ASSUME UNCHANGED <<rows, students>> PROVE RowsHaveStudents'
  BY <1>4 DEF RowsHaveStudents
<1>5. QED
  BY <1>1, <1>2, <1>3, <1>4
  DEF Next, vars, db, BeginRegister, SaveEncoding, BeginDelete, Forget, BeginLoad, QueryRows, Fill

-------------------------------------------------------------------------------
(* A load that nothing overlaps *)

\* Such a load stays alone with the table until it ends, whatever raced before it.
LEMMA CleanNext == TypeOK /\ CleanInStep /\ [Next]_vars => CleanInStep'
<1> SUFFICES ASSUME TypeOK, CleanInStep, [Next]_vars PROVE CleanInStep'
  OBVIOUS
<1>1. CASE UNCHANGED vars
  BY <1>1 DEF CleanInStep, Busy, vars, db, request, history
<1>2. ASSUME NEW h \in Handler, Begun(h) PROVE CleanInStep'
  <2>1. CASE BeginLoad(h)
    <3>1. /\ clean' = IF Quiet THEN {h} ELSE {}
          /\ known'[WorkerOf[h]] = {}
          /\ pc'[h] = "query" /\ \A g \in Handler : g # h => pc'[g] = pc[g]
      BY <2>1, HandlerAssumption DEF BeginLoad, Begins, Goto, TypeOK
    <3>2. QED
      BY <3>1 DEF CleanInStep, Quiet, Busy
  <2>2. CASE ~BeginLoad(h)
    <3>1. clean' = {}
      BY <1>2, <2>2 DEF Begun, BeginRegister, BeginDelete, Begins
    <3>2. QED
      BY <3>1 DEF CleanInStep
  <2>3. QED
    BY <2>1, <2>2
<1>3. ASSUME NEW h \in Handler, Continued(h) PROVE CleanInStep'
  <2>1. /\ clean' = clean /\ Busy(h)
        /\ pc' \in [Handler -> Steps]
        /\ \A g \in Handler : g # h => pc'[g] = pc[g]
    BY <1>3 DEF Continued, SaveEncoding, CommitRegister, Forget, Purge, Remove, QueryRows, Fill,
                Changes, Fails, history, Busy, Goto, TypeOK, Steps
  <2>2. CASE clean = {}
    BY <2>1, <2>2 DEF CleanInStep
  <2>3. CASE clean # {}
    <3>1. clean = {h}
      BY <2>1, <2>3 DEF CleanInStep, TypeOK
    <3>2. CASE QueryRows(h)
      <4>1. /\ pc'[h] = "idle" \/ (pc'[h] = "fill" /\ loaded'[h] = rows')
            /\ known' = known /\ known[WorkerOf[h]] = {}
            /\ \A g \in Handler : g # h => ~Busy(g)
        BY <2>1, <3>1, <3>2 DEF CleanInStep, QueryRows, Goto, db, TypeOK
      <4>2. QED
        BY <2>1, <3>1, <4>1 DEF CleanInStep, Busy
    <3>3. CASE Fill(h)
      BY <2>1, <3>1, <3>3 DEF CleanInStep, Fill, Goto, Busy, TypeOK
    <3>4. CASE ~QueryRows(h) /\ ~Fill(h)
      <4>1. pc[h] \in {"save", "insert", "forget", "purge", "remove"}
        BY <1>3, <3>4 DEF Continued, SaveEncoding, CommitRegister, Forget, Purge, Remove
      <4>2. pc[h] \in {"idle", "query", "fill"}
        BY <3>1 DEF CleanInStep
      <4>3. QED
        BY <4>1, <4>2
    <3>5. QED
      BY <3>2, <3>3, <3>4
  <2>4. QED
    BY <2>2, <2>3
<1>4. QED
  BY <1>1, <1>2, <1>3, NextSplits

-------------------------------------------------------------------------------
(* Until two requests overlap *)

InStep == OneAtATime /\ MemoryInStep /\ NumbersInStep

\* photo_count bounds the numbers given, and they differ.
Numbered ==
  /\ \A p \in rows : number[p] <= count[PhotoOf[p]]
  /\ \A p, q \in rows : PhotoOf[p] = PhotoOf[q] /\ number[p] = number[q] => p = q

\* What must hold of the one request that may be under way, and of the workers.
Order(h) ==
  /\ pc[h] \in {"save", "insert"} =>
       PhotoOf[photo[h]] \in students /\ index[h] = count[PhotoOf[photo[h]]] + 1
  /\ pc[h] = "fill" => loaded[h] = rows
  /\ pc[h] = "remove" => rows \cap Of(target[h]) = {}
  /\ \A w \in Worker \ behind :
       known[w] = IF Busy(h) /\ WorkerOf[h] = w THEN Expected(h) ELSE rows

\* All that InStep says is what it says of the only handler that is busy.
LEMMA OrderOfOne ==
  ASSUME InStep, NEW h \in Handler, \A g \in Handler : g # h => ~Busy(g)
  PROVE  Numbered /\ Order(h)
<1>1. Numbered
  BY DEF InStep, NumbersInStep, Numbered
<1>2. ASSUME NEW w \in Worker \ behind
      PROVE  known[w] = IF Busy(h) /\ WorkerOf[h] = w THEN Expected(h) ELSE rows
  BY DEF InStep, MemoryInStep
<1>3. QED
  BY <1>1, <1>2 DEF InStep, OneAtATime, NumbersInStep, Order

\* The converse, for the state that a step leads to.
LEMMA InStepOfOne ==
  ASSUME NEW h \in Handler, \A g \in Handler : g # h => ~Busy(g)', Numbered', Order(h)'
  PROVE  InStep'
<1>1. \A g \in Handler : g # h => pc'[g] = "idle"
  BY DEF Busy
<1>2. OneAtATime'
  BY <1>1 DEF OneAtATime, Order, Busy
<1>3. NumbersInStep'
  BY <1>1 DEF NumbersInStep, Numbered, Order
<1>4. ASSUME NEW w \in Worker \ behind'
      PROVE  /\ \A g \in Handler : Busy(g)' /\ WorkerOf[g] = w => known'[w] = Expected(g)'
             /\ (\A g \in Handler : Busy(g)' => WorkerOf[g] # w) => known'[w] = rows'
  <2>1. known'[w] = IF Busy(h)' /\ WorkerOf[h] = w THEN Expected(h)' ELSE rows'
    BY DEF Order
  <2>2. \A g \in Handler : Busy(g)' => g = h
    OBVIOUS
  <2>3. QED
    BY <2>1, <2>2
<1>5. QED
  BY <1>2, <1>3, <1>4 DEF InStep, MemoryInStep

\* A request begins when none is under way.
LEMMA BegunInStep ==
  ASSUME TypeOK, raced \/ InStep, NEW h \in Handler, Begun(h), ~raced'
  PROVE  InStep'
<1>1. Quiet /\ InStep
  BY Zenon DEF Begun, BeginRegister, BeginDelete, BeginLoad, Begins, TypeOK
<1>2. /\ \A g \in Handler : ~Busy(g)
      /\ Numbered /\ Order(h) /\ ~Busy(h)
  <2>1. \A g \in Handler : ~Busy(g)
    BY <1>1 DEF Quiet, Busy
  <2>2. QED
    BY <1>1, <2>1, OrderOfOne
<1>3. \A w \in Worker \ behind : known[w] = rows
  BY <1>2 DEF Order
<1>4. UNCHANGED db
  BY DEF Begun, BeginRegister, BeginDelete, BeginLoad
<1>5. Numbered'
  BY <1>2, <1>4 DEF Numbered, db
<1>6. \A g \in Handler : g # h => ~Busy(g)'
  BY <1>2 DEF Begun, BeginRegister, BeginDelete, BeginLoad, Goto, Busy, TypeOK
<1>7. Order(h)'
  <2>1. ASSUME NEW p \in Photo, BeginRegister(h, p) PROVE Order(h)'
    <3>1. /\ pc'[h] = "save" /\ photo'[h] = p /\ index'[h] = count[PhotoOf[p]] + 1
          /\ known' = known /\ behind' = behind /\ PhotoOf[p] \in students
      BY <2>1 DEF BeginRegister, Goto, TypeOK
    <3>2. QED
      BY <1>3, <1>4, <3>1 DEF Order, Expected, db
  <2>2. ASSUME NEW s \in Student, BeginDelete(h, s) PROVE Order(h)'
    <3>1. pc'[h] = "forget" /\ known' = known /\ behind' = behind
      BY <2>2 DEF BeginDelete, Goto, TypeOK
    <3>2. QED
      BY <1>3, <1>4, <3>1 DEF Order, Expected, db
  <2>3. CASE BeginLoad(h)
    <3>1. /\ pc'[h] = "query" /\ behind' = behind \ {WorkerOf[h]}
          /\ \A w \in Worker : known'[w] = IF WorkerOf[h] = w THEN {} ELSE known[w]
      BY <2>3 DEF BeginLoad, Goto, TypeOK
    <3>2. QED
      BY <1>3, <1>4, <3>1 DEF Order, Expected, Busy, db
  <2>4. QED
    BY <2>1, <2>2, <2>3 DEF Begun
<1>8. QED
  BY <1>5, <1>6, <1>7, InStepOfOne

\* The steps of the only request keep table, memory and numbers in step.
LEMMA ContinuedInStep ==
  ASSUME TypeOK, raced \/ InStep, NEW h \in Handler, Continued(h), ~raced'
  PROVE  InStep'
<1>1. InStep /\ Busy(h)
  <2>1. raced' = raced /\ Busy(h)
    BY DEF Continued, SaveEncoding, CommitRegister, Forget, Purge, Remove, QueryRows, Fill,
           Changes, Fails, history, Busy
  <2>2. QED
    BY <2>1
<1>2. \A g \in Handler : g # h => ~Busy(g)
  BY <1>1 DEF InStep, OneAtATime
<1>3. Numbered /\ Order(h)
  BY <1>1, <1>2, OrderOfOne
<1>4. \A g \in Handler : g # h => ~Busy(g)'
  BY <1>2 DEF Continued, SaveEncoding, CommitRegister, Forget, Purge, Remove, QueryRows, Fill,
              Busy, Goto, TypeOK
<1>5. SUFFICES Numbered' /\ Order(h)'
  BY <1>4, InStepOfOne
<1>6. ASSUME pc'[h] \notin {"save", "insert"}, rows' \subseteq rows, UNCHANGED <<number, count>>
      PROVE  Numbered'
  BY <1>3, <1>6 DEF Numbered
\* A request that fails leaves its worker apart from the table, and the others as they were.
<1>a. ASSUME Fails(h), pc[h] \in {"insert", "purge", "query"}, pc'[h] = "idle",
             UNCHANGED <<rows, number, count, known>>
      PROVE  Numbered' /\ Order(h)'
  <2>1. \A w \in Worker \ behind' : w # WorkerOf[h] /\ w \notin behind
    BY <1>a DEF Fails
  <2>2. \A w \in Worker \ behind' : known'[w] = rows'
    BY <1>3, <1>a, <2>1 DEF Order
  <2>. QED  BY <1>6, <1>a, <2>2 DEF Order, Busy
<1>7. CASE SaveEncoding(h)
  <2>1. /\ pc[h] = "save" /\ pc'[h] = "insert" /\ UNCHANGED <<db, request, behind>>
        /\ \A w \in Worker :
             known'[w] = IF WorkerOf[h] = w THEN known[w] \cup {photo[h]} ELSE known[w]
    BY <1>7 DEF SaveEncoding, Goto, history, TypeOK
  <2>2. \A w \in Worker \ behind : known[w] = rows
    BY <1>3, <2>1 DEF Order, Expected
  <2>3. QED
    BY <1>3, <2>1, <2>2 DEF Order, Numbered, Expected, Busy, db, request
<1>8. ASSUME CommitRegister(h), Changes(h), rows' = rows \cup {photo[h]},
             number' = [number EXCEPT ![photo[h]] = index[h]],
             count' = [count EXCEPT ![PhotoOf[photo[h]]] = index[h]]
      PROVE  Numbered' /\ Order(h)'
  <2> DEFINE p == photo[h]
  <2>1. /\ pc[h] = "insert" /\ pc'[h] = "idle" /\ PhotoOf[p] \in students
        /\ index[h] = count[PhotoOf[p]] + 1
    BY <1>3, <1>8 DEF CommitRegister, Goto, Order, TypeOK
  <2>2. /\ rows' = rows \cup {p} /\ number' = [number EXCEPT ![p] = index[h]]
        /\ count' = [count EXCEPT ![PhotoOf[p]] = index[h]]
        /\ behind' = behind \cup (Worker \ {WorkerOf[h]}) /\ known' = known
    BY <1>8 DEF CommitRegister, Changes
  <2>3. \A w \in Worker \ behind' : WorkerOf[h] = w /\ w \notin behind
    BY <2>2
  <2>4. Order(h)'
    <3>1. \A w \in Worker \ behind' : known'[w] = rows'
      BY <1>1, <1>3, <2>1, <2>2, <2>3 DEF Order, Expected
    <3>2. QED
      BY <2>1, <3>1 DEF Order, Busy
  <2>5. Numbered'
    <3>1. p \in Photo /\ rows \subseteq Photo /\ PhotoOf \in [Photo -> Student]
          /\ number \in [Photo -> Nat] /\ count \in [Student -> Nat]
      BY PhotoAssumption DEF TypeOK
    <3>2. \A q \in rows : PhotoOf[q] = PhotoOf[p] => number[q] < index[h]
      BY <1>3, <2>1, <3>1 DEF Numbered
    <3>3. /\ number'[p] = index[h] /\ \A q \in Photo : q # p => number'[q] = number[q]
          /\ count'[PhotoOf[p]] = index[h]
          /\ \A s \in Student : s # PhotoOf[p] => count'[s] = count[s]
      BY <2>2, <3>1
    <3>4. \A q \in rows' : number'[q] <= count'[PhotoOf[q]]
      BY <1>3, <2>1, <2>2, <3>1, <3>2, <3>3 DEF Numbered
    <3>5. \A q, r \in rows' : PhotoOf[q] = PhotoOf[r] /\ number'[q] = number'[r] => q = r
      BY <1>3, <2>2, <3>1, <3>2, <3>3 DEF Numbered
    <3>6. QED
      BY <3>4, <3>5 DEF Numbered
  <2>6. QED
    BY <2>4, <2>5
<1>9. CASE Forget(h)
  <2>1. /\ pc[h] = "forget" /\ pc'[h] = "purge" /\ UNCHANGED <<db, request, behind>>
        /\ \A w \in Worker :
             known'[w] = IF WorkerOf[h] = w THEN known[w] \ Of(target[h]) ELSE known[w]
    BY <1>9 DEF Forget, Goto, history, TypeOK
  <2>2. \A w \in Worker \ behind : known[w] = rows
    BY <1>3, <2>1 DEF Order, Expected
  <2>3. QED
    BY <1>3, <2>1, <2>2 DEF Order, Numbered, Expected, Busy, db, request, Of
<1>10. ASSUME Purge(h), Changes(h), rows' = rows \ Of(target[h]), Goto(h, "remove")
       PROVE  Numbered' /\ Order(h)'
  <2>1. /\ pc[h] = "purge" /\ pc'[h] = "remove"
        /\ rows' = rows \ Of(target[h]) /\ UNCHANGED <<number, count, known, target>>
        /\ behind' = behind \cup (Worker \ {WorkerOf[h]})
    BY <1>10 DEF Purge, Goto, Changes, request, TypeOK
  <2>2. \A w \in Worker \ behind' : WorkerOf[h] = w /\ w \notin behind
    BY <2>1
  <2>3. \A w \in Worker \ behind' : known'[w] = rows'
    BY <1>1, <1>3, <2>1, <2>2 DEF Order, Expected
  <2>4. rows' \cap Of(target'[h]) = {} /\ Of(target[h])' = Of(target[h])
    BY <2>1 DEF Of
  <2>5. QED
    BY <1>6, <2>1, <2>3, <2>4 DEF Order, Expected
<1>11. CASE Remove(h)
  <2>1. /\ pc[h] = "remove" /\ pc'[h] = "idle" /\ rows' = rows
        /\ UNCHANGED <<number, count, known>> /\ behind \subseteq behind'
    BY <1>3, <1>11 DEF Remove, Goto, Changes, history, Order, TypeOK
  <2>2. \A w \in Worker \ behind' : known'[w] = rows'
    BY <1>3, <2>1 DEF Order, Expected
  <2>3. QED
    BY <1>6, <2>1, <2>2 DEF Order, Busy
<1>12. ASSUME QueryRows(h), loaded' = [loaded EXCEPT ![h] = rows], Goto(h, "fill"),
              UNCHANGED history
       PROVE  Numbered' /\ Order(h)'
  <2>1. /\ pc[h] = "query" /\ pc'[h] = "fill" /\ loaded'[h] = rows
        /\ UNCHANGED <<rows, number, count, known, behind>>
    BY <1>12 DEF QueryRows, Goto, db, history, TypeOK
  <2>2. QED
    BY <1>3, <1>6, <2>1 DEF Order, Expected, Busy
<1>13. CASE Fill(h)
  <2>1. /\ pc[h] = "fill" /\ pc'[h] = "idle" /\ loaded[h] = rows
        /\ UNCHANGED <<rows, number, count, behind>>
        /\ \A w \in Worker :
             known'[w] = IF WorkerOf[h] = w THEN known[w] \cup loaded[h] ELSE known[w]
    BY <1>3, <1>13 DEF Fill, Goto, db, history, Order, TypeOK
  <2>2. \A w \in Worker \ behind' : known'[w] = rows'
    BY <1>1, <1>3, <2>1 DEF Order, Expected
  <2>3. QED
    BY <1>6, <2>1, <2>2 DEF Order, Busy
<1>14. ASSUME Fails(h), Goto(h, "idle"), UNCHANGED <<rows, number, count, known>>,
              pc[h] \in {"insert", "purge", "query"}
       PROVE  Numbered' /\ Order(h)'
  <2>1. pc'[h] = "idle"
    BY <1>14 DEF Goto, TypeOK
  <2>. QED  BY <1>a, <1>14, <2>1
<1>15. CommitRegister(h) => Numbered' /\ Order(h)'
  BY <1>8, <1>14 DEF CommitRegister
<1>16. Purge(h) => Numbered' /\ Order(h)'
  BY <1>10, <1>14 DEF Purge
<1>17. QueryRows(h) => Numbered' /\ Order(h)'
  BY <1>12, <1>14 DEF QueryRows, db
<1>18. QED
  BY <1>7, <1>9, <1>11, <1>13, <1>15, <1>16, <1>17 DEF Continued

-------------------------------------------------------------------------------
(* The theorems *)

LEMMA FacesInit == Init => FacesInv
<1> SUFFICES ASSUME Init PROVE FacesInv
  OBVIOUS
<1>1. /\ TypeOK /\ rows = {} /\ clean = {} /\ \A h \in Handler : pc[h] = "idle"
      /\ \A w \in Worker : known[w] = {}
  BY TypeInit DEF Init
<1>2. OneAtATime /\ MemoryInStep /\ NumbersInStep
  BY <1>1 DEF OneAtATime, MemoryInStep, NumbersInStep, Busy, Expected
<1>3. QED
  BY <1>1, <1>2 DEF FacesInv, RowsHaveStudents, CleanInStep

LEMMA FacesNext == FacesInv /\ [Next]_vars => FacesInv'
<1> SUFFICES ASSUME FacesInv, [Next]_vars PROVE FacesInv'
  OBVIOUS
<1>1. TypeOK' /\ RowsHaveStudents' /\ CleanInStep'
  BY TypeNext, RowsNext, CleanNext DEF FacesInv
<1>2. TypeOK /\ (raced \/ InStep)
  BY DEF FacesInv, InStep
<1>3. raced' \/ InStep'
  <2>1. CASE Next
    BY <1>2, <2>1, NextSplits, BegunInStep, ContinuedInStep
  <2>2. CASE UNCHANGED vars
    BY <1>2, <2>2 DEF InStep, OneAtATime, MemoryInStep, NumbersInStep, Busy, Expected, Of,
                      vars, db, request, history
  <2>3. QED
    BY <2>1, <2>2
<1>4. QED
  BY <1>1, <1>3 DEF FacesInv, InStep

\* The table keeps no encoding whose student is gone, and memory, table and photo numbers
\* stay in step until two requests overlap (register_face, delete_student,
\* load_all_encodings).
THEOREM FacesInvariant == Spec => []FacesInv
<1>1. Init => FacesInv
  BY FacesInit
<1>2. FacesInv /\ [Next]_vars => FacesInv'
  BY FacesNext
<1>3. QED
  BY <1>1, <1>2, PTL DEF Spec

\* Between requests that never overlapped, a worker that every change to the table went
\* through, or that has loaded it since, holds exactly the table.
THEOREM MemoryIsTable == Spec => []CacheIsTable
<1>1. FacesInv => CacheIsTable
  <2> SUFFICES ASSUME FacesInv, Quiet, ~raced, NEW w \in Worker \ behind
               PROVE  known[w] = rows
    BY DEF CacheIsTable
  <2>1. MemoryInStep
    BY DEF FacesInv
  <2>2. QED
    BY <2>1 DEF MemoryInStep, Busy, Quiet
<1>2. QED
  BY <1>1, FacesInvariant, PTL

\* Two encodings of one student have one photo number only after two requests overlapped.
THEOREM NumbersNeedRace == Spec => []PhotosNumbered
<1>1. FacesInv => PhotosNumbered
  BY DEF FacesInv, NumbersInStep, PhotosNumbered
<1>2. QED
  BY <1>1, FacesInvariant, PTL

\* A load that nothing overlaps heals the memory of its worker, whatever raced before.
THEOREM LoadsHeal == Spec => LoadHeals
<1>1. FacesInv /\ [Next]_vars =>
        [\A h \in Handler : Fill(h) /\ h \in clean => known'[WorkerOf[h]] = rows]_vars
  <2> SUFFICES ASSUME FacesInv, NEW h \in Handler, Fill(h), h \in clean
               PROVE  known'[WorkerOf[h]] = rows
    OBVIOUS
  <2>1. known[WorkerOf[h]] = {} /\ loaded[h] = rows
    BY DEF FacesInv, CleanInStep, Fill
  <2>2. QED
    BY <2>1, HandlerAssumption DEF Fill, FacesInv, TypeOK
<1>2. QED
  BY <1>1, FacesInvariant, PTL DEF Spec, LoadHeals

-------------------------------------------------------------------------------
(* The inference slots *)

USE PoolAssumption

-------------------------------------------------------------------------------
(* Cardinalities *)

\* The sets counted by the invariant are sets of requests, and so finite.
LEMMA CountsAreNumbers ==
  /\ IsFiniteSet(Waiting) /\ Cardinality(Waiting) \in Nat
  /\ IsFiniteSet(Running) /\ Cardinality(Running) \in Nat
  /\ \A S : IsFiniteSet(Waiting \cap S) /\ Cardinality(Waiting \cap S) \in Nat
<1>1. \A T \in SUBSET Request : IsFiniteSet(T) /\ Cardinality(T) \in Nat
  BY FS_Subset, FS_CardinalityType
<1>. QED  BY <1>1 DEF Waiting, Running

\* Fewer jobs ahead: no more of them wait.
LEMMA FewerAhead ==
  ASSUME NEW S, NEW T, IsFiniteSet(S), T \subseteq S, Cardinality(S) < Permits
  PROVE  Cardinality(T) < Permits
<1>1. Cardinality(T) <= Cardinality(S) /\ IsFiniteSet(T)
  BY FS_Subset
<1>2. Cardinality(T) \in Nat /\ Cardinality(S) \in Nat
  BY <1>1, FS_CardinalityType
<1>. QED  BY <1>1, <1>2

-------------------------------------------------------------------------------
(* Preservation, one lemma per conjunct of the invariant *)

LEMMA PoolTypeInductive == PoolTypeOK /\ JobsMatch /\ [PoolNext]_poolVars => PoolTypeOK' /\ JobsMatch'
<1>. SUFFICES ASSUME PoolTypeOK, JobsMatch, [PoolNext]_poolVars PROVE PoolTypeOK' /\ JobsMatch'
  OBVIOUS
<1>. USE DEF PoolTypeOK, JobsMatch, ReqState, JobState, Yielded
<1>1. ASSUME NEW r \in Request, Accept(r) PROVE PoolTypeOK' /\ JobsMatch'
  <2>1. job[r] = "none"
    BY <1>1 DEF Accept
  <2>2. \A i \in 1..Len(queue) : queue[i] # r
    BY <2>1
  <2>3. queue' \in Seq(Request) /\ Len(queue') = Len(queue) + 1
    BY <1>1 DEF Accept
  <2>4. \A i \in 1..Len(queue') : queue'[i] = IF i = Len(queue) + 1 THEN r ELSE queue[i]
    BY <1>1, <2>3 DEF Accept
  <2>5. \A i \in 1..Len(queue') : i = Len(queue) + 1 \/ i \in 1..Len(queue)
    BY <2>3
  <2>6. job'[r] = "queued" /\ \A q \in Request \ {r} : job'[q] = job[q]
    BY <1>1 DEF Accept
  <2>7. \A i \in 1..Len(queue') : job'[queue'[i]] = "queued"
    BY <2>2, <2>4, <2>5, <2>6
  <2>8. ASSUME NEW i \in 1..Len(queue'), NEW j \in 1..Len(queue'), queue'[i] = queue'[j]
        PROVE  i = j
    <3>1. \A k \in 1..Len(queue') : k # Len(queue) + 1 =>
            k \in 1..Len(queue) /\ queue'[k] = queue[k] /\ queue'[k] # r
      BY <2>2, <2>4, <2>5
    <3>2. \A k \in 1..Len(queue') : k = Len(queue) + 1 => queue'[k] = r
      BY <2>4
    <3>3. CASE i # Len(queue) + 1 /\ j # Len(queue) + 1
      BY <2>8, <3>1, <3>3
    <3>. QED  BY <2>8, <3>1, <3>2, <3>3
  <2>9. permits' \in Nat /\ req' \in [Request -> ReqState] /\ job' \in [Request -> JobState]
    BY <1>1 DEF Accept
  <2>10. JobsMatch'
    BY <1>1 DEF Accept
  <2>. QED  BY <1>1, <2>3, <2>7, <2>8, <2>9, <2>10 DEF Accept
<1>2. ASSUME NEW r \in Request, Refuse(r) PROVE PoolTypeOK' /\ JobsMatch'
  BY <1>2 DEF Refuse
<1>3. ASSUME StartJob PROVE PoolTypeOK' /\ JobsMatch'
  <2>1. queue' \in Seq(Request) /\ Len(queue') = Len(queue) - 1
    BY <1>3 DEF StartJob
  <2>2. \A i \in 1..Len(queue') : i + 1 \in 1..Len(queue) /\ queue'[i] = queue[i + 1]
    BY <1>3, <2>1 DEF StartJob
  <2>3. 1 \in 1..Len(queue) /\ Head(queue) = queue[1] /\ queue[1] \in Request
    BY <1>3 DEF StartJob
  <2>4. \A i \in 1..Len(queue') : queue'[i] # Head(queue)
    BY <2>2, <2>3
  <2>5. job' = [job EXCEPT ![Head(queue)] = "running"] /\ job[Head(queue)] = "queued"
    BY <1>3, <2>3 DEF StartJob
  <2>6. \A i \in 1..Len(queue') : job'[queue'[i]] = "queued"
    BY <2>2, <2>4, <2>5
  <2>7. ASSUME NEW i \in 1..Len(queue'), NEW j \in 1..Len(queue'), queue'[i] = queue'[j]
        PROVE  i = j
    <3>1. i + 1 \in 1..Len(queue) /\ j + 1 \in 1..Len(queue) /\ queue[i + 1] = queue[j + 1]
      BY <2>2, <2>7
    <3>2. i + 1 = j + 1
      BY <3>1
    <3>. QED  BY <3>2
  <2>8. JobsMatch' /\ job' \in [Request -> JobState]
    BY <1>3, <2>3, <2>5 DEF StartJob
  <2>. QED  BY <1>3, <2>1, <2>6, <2>7, <2>8 DEF StartJob
<1>4. ASSUME NEW r \in Request, EndJob(r) PROVE PoolTypeOK' /\ JobsMatch'
  BY <1>4 DEF EndJob
<1>5. ASSUME NEW r \in Request, Answer(r) PROVE PoolTypeOK' /\ JobsMatch'
  BY <1>5 DEF Answer
<1>6. ASSUME NEW r \in Request, TimeOut(r) PROVE PoolTypeOK' /\ JobsMatch'
  BY <1>6 DEF TimeOut
<1>7. CASE Yield \/ (\E r \in Request : Compute(r))
  BY <1>7 DEF Yield, Compute
<1>8. CASE UNCHANGED poolVars
  BY <1>8 DEF poolVars
<1>. QED  BY <1>1, <1>2, <1>3, <1>4, <1>5, <1>6, <1>7, <1>8 DEF PoolNext, Finish

LEMMA PermitsInductive == PoolTypeOK /\ PermitsBalanced /\ [PoolNext]_poolVars => PermitsBalanced'
<1>. SUFFICES ASSUME PoolTypeOK, PermitsBalanced, [PoolNext]_poolVars PROVE PermitsBalanced'
  OBVIOUS
<1>. USE DEF PermitsBalanced
<1>1. ASSUME NEW r \in Request, Accept(r) PROVE PermitsBalanced'
  <2>1. r \notin Waiting /\ Waiting' = Waiting \cup {r}
    BY <1>1 DEF Accept, PoolTypeOK, Waiting
  <2>2. Cardinality(Waiting') = Cardinality(Waiting) + 1
    BY <2>1, CountsAreNumbers, FS_AddElement
  <2>. QED  BY <1>1, <2>2, CountsAreNumbers DEF Accept, PoolTypeOK
<1>2. ASSUME NEW r \in Request, Finish(r) PROVE PermitsBalanced'
  <2>1. r \in Waiting /\ Waiting' = Waiting \ {r} /\ permits' = permits + 1
    BY <1>2 DEF Finish, Answer, TimeOut, PoolTypeOK, Waiting
  <2>2. Cardinality(Waiting') = Cardinality(Waiting) - 1
    BY <2>1, CountsAreNumbers, FS_RemoveElement
  <2>. QED  BY <2>1, <2>2, CountsAreNumbers DEF PoolTypeOK
<1>3. CASE \/ StartJob \/ Yield \/ UNCHANGED poolVars
           \/ \E r \in Request : Refuse(r) \/ Compute(r) \/ EndJob(r)
  <2>1. Waiting' = Waiting /\ permits' = permits
    BY <1>3 DEF StartJob, Yield, Compute, Refuse, EndJob, poolVars, PoolTypeOK, Waiting
  <2>. QED  BY <2>1
<1>. QED  BY <1>1, <1>2, <1>3 DEF PoolNext

LEMMA ThreadsInductive == PoolTypeOK /\ MemoryBounded /\ [PoolNext]_poolVars => MemoryBounded'
<1>. SUFFICES ASSUME PoolTypeOK, MemoryBounded, [PoolNext]_poolVars PROVE MemoryBounded'
  OBVIOUS
<1>1. CASE StartJob
  <2>1. Running' = Running \cup {Head(queue)}
    BY <1>1 DEF StartJob, PoolTypeOK, Running
  <2>2. Cardinality(Running \cup {Head(queue)}) =
          IF Head(queue) \in Running THEN Cardinality(Running) ELSE Cardinality(Running) + 1
    BY CountsAreNumbers, FS_AddElement
  <2>3. Cardinality(Running') \in {Cardinality(Running), Cardinality(Running) + 1}
    BY <2>1, <2>2
  <2>. QED  BY <1>1, <2>3, CountsAreNumbers DEF StartJob, MemoryBounded
<1>2. CASE ~StartJob
  <2>1. Running' \subseteq Running
    BY <1>2 DEF PoolNext, Accept, Refuse, Compute, Yield, EndJob, Finish, Answer, TimeOut, poolVars,
               PoolTypeOK, Running
  <2>2. Cardinality(Running') <= Cardinality(Running) /\ IsFiniteSet(Running')
    BY <2>1, CountsAreNumbers, FS_Subset
  <2>3. Cardinality(Running') \in Nat
    BY <2>2, FS_CardinalityType
  <2>. QED  BY <2>2, <2>3, CountsAreNumbers DEF MemoryBounded
<1>. QED  BY <1>1, <1>2

LEMMA AheadInductive ==
  PoolTypeOK /\ JobsMatch /\ PermitsBalanced /\ AheadBounded /\ [PoolNext]_poolVars => AheadBounded'
<1>. SUFFICES ASSUME PoolTypeOK, JobsMatch, PermitsBalanced, AheadBounded, [PoolNext]_poolVars,
                     NEW i \in 1..Len(queue')
              PROVE  Cardinality(Waiting' \cap Ahead(i)') < Permits
  BY DEF AheadBounded
\* The last place of the queue is taken by a request that has just got a permit.
<1>1. ASSUME NEW r \in Request, Accept(r)
      PROVE  Cardinality(Waiting' \cap Ahead(i)') < Permits
  <2>1. queue' = Append(queue, r) /\ Len(queue') = Len(queue) + 1
    BY <1>1 DEF Accept, PoolTypeOK
  <2>2. Running' = Running /\ Waiting' = Waiting \cup {r} /\ r \notin Running
    BY <1>1 DEF Accept, PoolTypeOK, JobsMatch, Waiting, Running
  <2>3. Cardinality(Waiting) < Permits
    BY <1>1, CountsAreNumbers DEF PermitsBalanced, Accept, PoolTypeOK
  <2>4. \A j \in 1..(i - 1) : queue'[j] = queue[j] /\ queue[j] # r
    BY <1>1, <2>1 DEF Accept, PoolTypeOK, JobsMatch
  <2>5. Ahead(i)' = Ahead(i) /\ r \notin Ahead(i)
    BY <2>2, <2>4 DEF Ahead
  <2>6. Waiting' \cap Ahead(i)' = Waiting \cap Ahead(i)
    BY <2>2, <2>5
  <2>. QED  BY <2>3, <2>6, CountsAreNumbers, FewerAhead
\* The head of the queue goes from the jobs ahead to the jobs ahead.
<1>2. ASSUME StartJob PROVE Cardinality(Waiting' \cap Ahead(i)') < Permits
  <2>1. /\ queue # <<>> /\ queue' = Tail(queue)
        /\ Running' = Running \cup {queue[1]} /\ Waiting' = Waiting
    BY <1>2 DEF StartJob, PoolTypeOK, Running, Waiting
  <2>2. i + 1 \in 1..Len(queue) /\ \A j \in 1..(i - 1) : queue'[j] = queue[j + 1]
    BY <2>1 DEF PoolTypeOK
  <2>3. \A j \in 1..(i - 1) : j + 1 \in 1..i
    OBVIOUS
  <2>4. 1 \in 1..i /\ (i + 1) - 1 = i
    OBVIOUS
  <2>5. Ahead(i)' \subseteq Ahead(i + 1)
    BY <2>1, <2>2, <2>3, <2>4 DEF Ahead
  <2>6. Waiting' \cap Ahead(i)' \subseteq Waiting \cap Ahead(i + 1)
    BY <2>1, <2>5
  <2>. QED  BY <2>2, <2>6, CountsAreNumbers, FewerAhead DEF AheadBounded
\* Every other step only ends jobs and waits.
<1>3. CASE ~StartJob /\ ~\E r \in Request : Accept(r)
  <2>1. queue' = queue
    BY <1>3 DEF PoolNext, Refuse, Compute, Yield, EndJob, Finish, Answer, TimeOut, poolVars
  <2>2. Running' \subseteq Running /\ Waiting' \subseteq Waiting
    BY <1>3 DEF PoolNext, Refuse, Compute, Yield, EndJob, Finish, Answer, TimeOut, poolVars,
               PoolTypeOK, Running, Waiting
  <2>3. Waiting' \cap Ahead(i)' \subseteq Waiting \cap Ahead(i)
    BY <2>1, <2>2 DEF Ahead
  <2>. QED  BY <2>1, <2>3, CountsAreNumbers, FewerAhead DEF AheadBounded
<1>. QED  BY <1>1, <1>2, <1>3

-------------------------------------------------------------------------------
(* The inductive invariant *)

LEMMA PoolStarts == PoolInit => PoolInv
<1>. SUFFICES ASSUME PoolInit PROVE PoolInv
  OBVIOUS
<1>1. PoolTypeOK /\ JobsMatch /\ AheadBounded
  BY DEF PoolInit, PoolTypeOK, JobsMatch, AheadBounded, ReqState, JobState
<1>2. Waiting = {} /\ Running = {}
  BY DEF PoolInit, Waiting, Running
<1>. QED  BY <1>1, <1>2, FS_EmptySet DEF PoolInit, PoolInv, PermitsBalanced, MemoryBounded

\* The invariant holds in every reachable state: typed, permits and threads accounted for,
\* and less than the permits' number of waiting requests ahead of any queued job.
THEOREM PoolInvariant == PoolSpec => []PoolInv
<1>1. PoolInv /\ [PoolNext]_poolVars => PoolInv'
  BY PoolTypeInductive, PermitsInductive, ThreadsInductive, AheadInductive DEF PoolInv
<1>. QED  BY <1>1, PoolStarts, PTL DEF PoolSpec

\* No permit leaks and none is released twice, whatever times out.
THEOREM NoPermitLost == PoolSpec => []PermitsBalanced
<1>1. PoolInv => PermitsBalanced
  BY DEF PoolInv
<1>. QED  BY <1>1, PoolInvariant, PTL

\* Never more jobs at one time than threads.
THEOREM ThreadsBoundMemory == PoolSpec => []MemoryBounded
<1>1. PoolInv => MemoryBounded
  BY DEF PoolInv
<1>. QED  BY <1>1, PoolInvariant, PTL

\* A queued job waits only behind one whose request has timed out: were all running jobs
\* waited for, they and the permits would leave the first of the queue a thread.
THEOREM OnlyLateJobsHoldUp == PoolSpec => []QueuesBehindLate
<1>1. PoolInv => QueuesBehindLate
  <2>. SUFFICES ASSUME PoolInv, queue # <<>>, ~\E r \in Running : req[r] = "late"
                PROVE  Cardinality(Running) < Threads
    BY DEF QueuesBehindLate
  <2>1. 1 \in 1..Len(queue)
    BY DEF PoolInv, PoolTypeOK
  <2>2. Running \subseteq Waiting
    BY DEF PoolInv, PoolTypeOK, JobsMatch, ReqState, Running, Waiting
  <2>3. Waiting \cap Ahead(1) = Running
    BY <2>2 DEF Ahead
  <2>4. Cardinality(Running) < Permits
    BY <2>1, <2>3 DEF PoolInv, AheadBounded
  <2>. QED  BY <2>4, CountsAreNumbers
<1>. QED  BY <1>1, PoolInvariant, PTL
===============================================================================
