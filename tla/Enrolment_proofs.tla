---------------------------- MODULE Enrolment_proofs ----------------------------
(***************************************************************************)
(* Proofs about module Enrolment: for any workers, requests and persons,   *)
(* overlapping loads of a worker lose no face enrolled before the last of  *)
(* them began. EnrolmentInv is inductive as it stands.                     *)
(***************************************************************************)
EXTENDS Enrolment, TLAPS

LEMMA EnrolmentStarts == Init => EnrolmentInv
<1> SUFFICES ASSUME Init PROVE EnrolmentInv
  OBVIOUS
<1> USE DEF Init
<1>1. TypeOK
  BY EnrolmentAssumption DEF TypeOK
<1>2. CacheComplete
  BY DEF CacheComplete
<1> QED BY <1>1, <1>2 DEF EnrolmentInv

\* A handler that answers becomes idle and holds nothing.
LEMMA AnswerTypes ==
  ASSUME TypeOK, NEW s \in Slot, Answer(s)
  PROVE  /\ st' \in [Slot -> {"idle", "insert", "clear", "fill"}]
         /\ req' \in [Slot -> Enrol \cup {None}] /\ found' \in [Slot -> BOOLEAN]
         /\ \A t \in Slot : st'[t] = "insert" => req'[t] \in Enrol
         /\ \A t \in Slot : t # s => st'[t] = st[t]
BY DEF TypeOK, Answer

LEMMA TypesStep == TypeOK /\ [Next]_vars => TypeOK'
<1> SUFFICES ASSUME TypeOK, [Next]_vars PROVE TypeOK'
  OBVIOUS
<1> USE EnrolmentAssumption
<1>1. ASSUME NEW s \in Slot, NEW e \in Enrol, FindUser(s, e) PROVE TypeOK'
  BY <1>1 DEF FindUser, TypeOK, cacheVars
<1>2. ASSUME NEW s \in Slot, InsertFace(s) PROVE TypeOK'
  <2>1. req[s] \in Enrol /\ Of[req[s]] \in Person
    BY <1>2 DEF InsertFace, TypeOK
  <2>2. users' \subseteq Person /\ rows' \subseteq Enrol /\ \A e \in rows' : Of[e] \in users'
    BY <1>2, <2>1 DEF InsertFace, TypeOK
  <2>3. cache' \in [Worker -> SUBSET rows'] /\ promised' \in [Worker -> SUBSET rows']
    BY <1>2 DEF InsertFace, TypeOK, cacheVars
  <2>4. /\ st' \in [Slot -> {"idle", "insert", "clear", "fill"}]
        /\ \A t \in Slot : st'[t] = "insert" => req'[t] \in Enrol
    BY <1>2 DEF InsertFace, TypeOK
  <2> QED BY <1>2, <2>2, <2>3, <2>4 DEF InsertFace, TypeOK, cacheVars
<1>3. ASSUME NEW s \in Slot, InsertRaises(s) PROVE TypeOK'
  BY <1>3, AnswerTypes DEF InsertRaises, TypeOK, cacheVars
<1>4. ASSUME NEW s \in Slot, Lookup(s) PROVE TypeOK'
  BY <1>4 DEF Lookup, TypeOK, cacheVars
<1>5. ASSUME NEW s \in Slot, Clear(s) PROVE TypeOK'
  BY <1>5 DEF Clear, TypeOK
<1>6. ASSUME NEW s \in Slot, Fill(s) PROVE TypeOK'
  BY <1>6, AnswerTypes DEF Fill, TypeOK
<1>7. ASSUME NEW s \in Slot, FillFails(s) PROVE TypeOK'
  BY <1>7, AnswerTypes DEF FillFails, TypeOK, cacheVars
<1>8. ASSUME NEW w \in Worker, Restart(w) PROVE TypeOK'
  <2>1. /\ st' \in [Slot -> {"idle", "insert", "clear", "fill"}]
        /\ req' \in [Slot -> Enrol \cup {None}] /\ found' \in [Slot -> BOOLEAN]
        /\ \A t \in Slot : st'[t] = "insert" => req'[t] \in Enrol
    BY <1>8 DEF Restart, TypeOK
  <2>2. /\ promised' \in [Worker -> SUBSET rows] /\ cache' \in [Worker -> SUBSET rows]
        /\ loaded' \in [Worker -> BOOLEAN] /\ failed' \in [Worker -> BOOLEAN]
    BY <1>8 DEF Restart, TypeOK
  <2> QED BY <1>8, <2>1, <2>2 DEF Restart, TypeOK
<1>9. CASE UNCHANGED vars
  BY <1>9 DEF vars, reqVars, cacheVars, TypeOK
<1> QED BY <1>1, <1>2, <1>3, <1>4, <1>5, <1>6, <1>7, <1>8, <1>9 DEF Next, Load

\* The worker of a load that begins is filling, and one that ends well has all the rows; who
\* is not touched keeps what it has.
LEMMA CacheStep == TypeOK /\ CacheComplete /\ [Next]_vars => CacheComplete'
<1> SUFFICES ASSUME TypeOK, CacheComplete, [Next]_vars, NEW w \in Worker
             PROVE  Filling(w)' \/ failed'[w] \/ promised'[w] \subseteq cache'[w]
  BY DEF CacheComplete
<1> DEFINE Goal == Filling(w)' \/ failed'[w] \/ promised'[w] \subseteq cache'[w]
<1>a. Filling(w) \/ failed[w] \/ promised[w] \subseteq cache[w]
  BY DEF CacheComplete
<1> USE EnrolmentAssumption
<1>1. ASSUME NEW s \in Slot, NEW e \in Enrol, FindUser(s, e) PROVE Goal
  BY <1>1, <1>a DEF FindUser, Filling, cacheVars, TypeOK
<1>2. ASSUME NEW s \in Slot, InsertFace(s) PROVE Goal
  BY <1>2, <1>a DEF InsertFace, Filling, cacheVars, TypeOK
<1>3. ASSUME NEW s \in Slot, InsertRaises(s) PROVE Goal
  BY <1>3, <1>a DEF InsertRaises, Answer, Filling, cacheVars, TypeOK
<1>4. ASSUME NEW s \in Slot, Lookup(s) PROVE Goal
  BY <1>4, <1>a DEF Lookup, Filling, cacheVars, TypeOK
<1>5. ASSUME NEW s \in Slot, Clear(s) PROVE Goal
  <2>1. CASE WorkerOf[s] = w
    BY <1>5, <2>1 DEF Clear, Filling, TypeOK
  <2>2. CASE WorkerOf[s] # w
    BY <1>5, <2>2, <1>a DEF Clear, Filling, TypeOK
  <2> QED BY <2>1, <2>2
<1>6. ASSUME NEW s \in Slot, Fill(s) PROVE Goal
  <2>1. CASE WorkerOf[s] = w
    BY <1>6, <2>1 DEF Fill, TypeOK
  <2>2. CASE WorkerOf[s] # w
    BY <1>6, <2>2, <1>a DEF Fill, Answer, Filling, TypeOK
  <2> QED BY <2>1, <2>2
<1>7. ASSUME NEW s \in Slot, FillFails(s) PROVE Goal
  <2>1. CASE WorkerOf[s] = w
    BY <1>7, <2>1 DEF FillFails, TypeOK
  <2>2. CASE WorkerOf[s] # w
    BY <1>7, <2>2, <1>a DEF FillFails, Answer, Filling, cacheVars, TypeOK
  <2> QED BY <2>1, <2>2
<1>8. ASSUME NEW v \in Worker, Restart(v) PROVE Goal
  <2>1. CASE v = w
    BY <1>8, <2>1 DEF Restart, TypeOK
  <2>2. CASE v # w
    BY <1>8, <2>2, <1>a DEF Restart, Filling, TypeOK
  <2> QED BY <2>1, <2>2
<1>9. CASE UNCHANGED vars
  BY <1>9, <1>a DEF vars, reqVars, cacheVars, Filling
<1> QED BY <1>1, <1>2, <1>3, <1>4, <1>5, <1>6, <1>7, <1>8, <1>9 DEF Next, Load

\* However loads overlap, fail or are cut off by a restart, a worker with no load under way
\* whose last one did not fail knows every face enrolled before its last load began.
THEOREM LoadsLoseNoFace == Spec => []EnrolmentInv
<1>1. EnrolmentInv /\ [Next]_vars => EnrolmentInv'
  BY TypesStep, CacheStep DEF EnrolmentInv
<1> QED BY <1>1, EnrolmentStarts, PTL DEF Spec
================================================================================
