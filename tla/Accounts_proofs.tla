----------------------------- MODULE Accounts_proofs -----------------------------
(***************************************************************************)
(* Proofs about modules Lockout and Accounts, for any number of requests   *)
(* at one time, any accounts and any limits: what the lock promises while  *)
(* requests race and until they do, also inside Accounts, and that the     *)
(* users table stays in order.                                             *)
(***************************************************************************)
EXTENDS Accounts, TLAPS

USE LockoutAssumption

-------------------------------------------------------------------------------
(* Types, and the reach of a lock *)

LEMMA TypeInductive == TypeOK /\ [Next]_vars => TypeOK'
<1>. SUFFICES ASSUME TypeOK, [Next]_vars PROVE TypeOK'
  OBVIOUS
<1>. USE DEF TypeOK, Row, Lock, NeverLocked
<1>1. ASSUME NEW h \in Handler, NEW password \in {"wrong", "right"}, Load(h, password)
      PROVE  TypeOK'
  BY <1>1 DEF Load, row
<1>2. ASSUME NEW h \in Handler, Done(h)
      PROVE  pc' \in [Handler -> {"idle", "wrong", "right"}] /\ seen' \in [Handler -> Row]
  BY <1>2 DEF Done
<1>3. ASSUME NEW h \in Handler, Fail(h) PROVE TypeOK'
  <2>1. seen[h].attempts \in Nat
    OBVIOUS
  <2>. QED  BY <1>2, <1>3, <2>1 DEF Fail, Write
<1>4. ASSUME NEW h \in Handler, Refuse(h) \/ TurnAway(h) PROVE TypeOK'
  BY <1>2, <1>4 DEF Refuse, TurnAway, row, history
<1>5. ASSUME NEW h \in Handler, Succeed(h) PROVE TypeOK'
  BY <1>2, <1>5 DEF Succeed, Write
<1>6. CASE Tick
  BY <1>6 DEF Tick, row, history
<1>7. CASE UNCHANGED vars
  BY <1>7 DEF vars, row, history
<1>. QED  BY <1>1, <1>3, <1>4, <1>5, <1>6, <1>7 DEF Next

LEMMA AheadInductive == TypeOK /\ LockAhead /\ [Next]_vars => LockAhead'
<1>. SUFFICES ASSUME TypeOK, LockAhead, [Next]_vars PROVE LockAhead'
  OBVIOUS
<1>. USE DEF TypeOK, LockAhead, Lock, NeverLocked
<1>1. ASSUME NEW h \in Handler, Fail(h) PROVE LockAhead'
  BY <1>1 DEF Fail, Write
<1>2. ASSUME NEW h \in Handler, Succeed(h) PROVE LockAhead'
  BY <1>2 DEF Succeed, Write
<1>3. CASE Tick
  BY <1>3 DEF Tick, row
<1>4. ASSUME UNCHANGED <<clock, row>> PROVE LockAhead'
  BY <1>4 DEF row
<1>. QED  BY <1>1, <1>2, <1>3, <1>4 DEF Next, Load, Refuse, TurnAway, vars

-------------------------------------------------------------------------------
(* Until a race *)

Calm == ~raced => CopiesCurrent /\ failures <= attempts /\ failures < MaxAttempts

\* A write that is no race: no other request holds a copy, and the writer's own was current.
LEMMA WriteAlone ==
  ASSUME TypeOK, Calm, NEW h \in Handler, pc[h] # "idle", Write(h), ~raced'
  PROVE  /\ ~raced /\ failures <= attempts /\ failures < MaxAttempts
         /\ seen[h].attempts = attempts /\ seen[h].lockedUntil = lockedUntil
         /\ CopiesCurrent'
<1>1. ~raced /\ \A g \in Handler : g # h => pc[g] = "idle"
  BY Zenon DEF Write
<1>2. CopiesCurrent /\ failures <= attempts /\ failures < MaxAttempts
  BY <1>1 DEF Calm
<1>3. \A g \in Handler : pc'[g] = "idle"
  BY <1>1 DEF Write, Done, TypeOK
<1>. QED  BY <1>1, <1>2, <1>3 DEF CopiesCurrent

LEMMA CalmInductive == TypeOK /\ Calm /\ [Next]_vars => Calm'
<1>. SUFFICES ASSUME TypeOK, Calm, [Next]_vars, ~raced'
              PROVE  CopiesCurrent' /\ failures' <= attempts' /\ failures' < MaxAttempts
  BY DEF Calm
<1>. USE DEF TypeOK
<1>1. ASSUME NEW h \in Handler, NEW password \in {"wrong", "right"}, Load(h, password)
      PROVE  CopiesCurrent' /\ failures' <= attempts' /\ failures' < MaxAttempts
  BY <1>1 DEF Load, row, Calm, CopiesCurrent
<1>2. ASSUME NEW h \in Handler, Fail(h)
      PROVE  CopiesCurrent' /\ failures' <= attempts' /\ failures' < MaxAttempts
  <2>1. /\ failures <= attempts /\ failures < MaxAttempts
        /\ seen[h].attempts = attempts
        /\ CopiesCurrent'
    BY <1>2, WriteAlone DEF Fail
  <2>2. attempts' = attempts + 1
    BY <1>2, <2>1 DEF Fail
  <2>3. CASE attempts' >= MaxAttempts
    BY <1>2, <2>1, <2>2, <2>3 DEF Fail
  <2>4. CASE ~(attempts' >= MaxAttempts)
    BY <1>2, <2>1, <2>2, <2>4 DEF Fail
  <2>. QED  BY <2>3, <2>4
<1>3. ASSUME NEW h \in Handler, Refuse(h) \/ TurnAway(h)
      PROVE  CopiesCurrent' /\ failures' <= attempts' /\ failures' < MaxAttempts
  BY <1>3 DEF Refuse, TurnAway, Done, row, history, Calm, CopiesCurrent
<1>4. ASSUME NEW h \in Handler, Succeed(h)
      PROVE  CopiesCurrent' /\ failures' <= attempts' /\ failures' < MaxAttempts
  <2>1. CopiesCurrent'
    BY <1>4, WriteAlone DEF Succeed
  <2>2. failures' = 0 /\ attempts' \in Nat
    BY <1>4 DEF Succeed
  <2>. QED  BY <2>1, <2>2
<1>5. CASE Tick \/ UNCHANGED vars
  BY <1>5 DEF Tick, vars, row, history, Calm, CopiesCurrent
<1>. QED  BY <1>1, <1>2, <1>3, <1>4, <1>5 DEF Next

-------------------------------------------------------------------------------
(* Theorems *)

LEMMA InvIsCalm == LockInv <=> TypeOK /\ LockAhead /\ Calm
BY DEF LockInv, LockedAfterMax, Calm

LEMMA LockStarts == Init => LockInv
<1>. SUFFICES ASSUME Init PROVE LockInv
  OBVIOUS
<1>1. TypeOK
  BY DEF Init, TypeOK, Row, Lock
<1>2. LockAhead /\ LockedAfterMax /\ CopiesCurrent /\ failures <= attempts
  BY DEF Init, NeverLocked, LockAhead, LockedAfterMax, CopiesCurrent
<1>. QED  BY <1>1, <1>2 DEF LockInv

LEMMA LockSteps == LockInv /\ [Next]_vars => LockInv'
<1>1. LockInv' <=> TypeOK' /\ LockAhead' /\ Calm'
  BY DEF LockInv, LockedAfterMax, Calm
<1>. QED  BY <1>1, InvIsCalm, TypeInductive, AheadInductive, CalmInductive

\* The invariant holds in every reachable state: typed, no lock reaching further than
\* Duration, and until a race all copies current and all failures counted.
THEOREM LockInvariant == Spec => []LockInv
BY LockStarts, LockSteps, PTL DEF Spec

\* The last of MaxAttempts failures in a row locks the account, unless requests raced.
THEOREM LastFailureLocks == Spec => []LockedAfterMax
<1>1. LockInv => LockedAfterMax
  BY DEF LockInv
<1>. QED  BY <1>1, LockInvariant, PTL

\* A failure sets a lock at least as long, since none reaches further than Duration.
LEMMA EarlyEnd ==
  ASSUME LockInv, [Next]_vars, Locked(lockedUntil), lockedUntil' < lockedUntil
  PROVE  \E h \in Handler : pc[h] = "right" /\ Expired(seen[h].lockedUntil)
<1>. USE DEF LockInv, TypeOK, LockAhead, Lock, NeverLocked
<1>1. ASSUME NEW h \in Handler, Fail(h) PROVE FALSE
  BY <1>1 DEF Fail, Write
<1>2. ASSUME NEW h \in Handler, Succeed(h)
      PROVE  pc[h] = "right" /\ Expired(seen[h].lockedUntil)
  <2>1. seen[h].lockedUntil \in Lock
    BY DEF Row
  <2>. QED  BY <1>2, <2>1 DEF Succeed, Expired, Locked
<1>3. lockedUntil' # lockedUntil
  OBVIOUS
<1>. QED  BY <1>1, <1>2, <1>3 DEF Next, Load, Refuse, TurnAway, Tick, vars, row

\* A lock in force ends early only by a login that had loaded an older lock, expired.
THEOREM OnlyExpiryEndsLock == Spec => LockEndsByExpiry
<1>1. LockInv /\ [Next]_vars =>
        [Locked(lockedUntil) /\ lockedUntil' < lockedUntil =>
           \E h \in Handler : pc[h] = "right" /\ Expired(seen[h].lockedUntil)]_vars
  BY EarlyEnd
<1>. QED  BY <1>1, LockInvariant, PTL DEF Spec, LockEndsByExpiry

\* Until a race no step ends or shortens a lock in force: the copy of the login that
\* clears a lock is the row itself, and shows it expired.
THEOREM NoLoginEndsLock == Spec => LockHolds
<1>1. LockInv /\ [Next]_vars =>
        (Locked(lockedUntil) /\ ~raced' => lockedUntil' >= lockedUntil)
  <2>. SUFFICES ASSUME LockInv, [Next]_vars, Locked(lockedUntil), ~raced'
                PROVE  lockedUntil' >= lockedUntil
    OBVIOUS
  <2>1. TypeOK /\ LockAhead /\ Calm
    BY InvIsCalm
  <2>. USE DEF TypeOK, LockAhead, Lock, NeverLocked
  <2>2. ASSUME NEW h \in Handler, Fail(h) PROVE lockedUntil' >= lockedUntil
    BY <2>1, <2>2 DEF Fail
  <2>3. ASSUME NEW h \in Handler, Succeed(h) PROVE FALSE
    BY <2>1, <2>3, WriteAlone DEF Succeed
  <2>4. ASSUME UNCHANGED lockedUntil PROVE lockedUntil' >= lockedUntil
    BY <2>1, <2>4
  <2>. QED  BY <2>2, <2>3, <2>4 DEF Next, Load, Refuse, TurnAway, Tick, vars, row
<1>. QED  BY <1>1, LockInvariant, PTL DEF Spec, LockHolds

-------------------------------------------------------------------------------
(* The lock inside Accounts *)

\* A login whose account was deleted meanwhile ends without a write.
Abandon(h) == Done(h) /\ UNCHANGED <<clock, row, history>>

\* To the lock, every step of Accounts is one of Lockout, none, or such an end.
LEMMA LoginsAreLockouts ==
  [AccountsNext]_allVars => [Next]_vars \/ \E h \in Handler : Abandon(h)
<1> SUFFICES ASSUME [AccountsNext]_allVars PROVE [Next]_vars \/ \E h \in Handler : Abandon(h)
  OBVIOUS
<1>1. ASSUME NEW h \in Handler, Login(h) PROVE Next \/ Abandon(h)
  BY <1>1, Zenon DEF Login, LoginLoad, LoginFail, LoginTurnAway, LoginGone, LoginSucceed, Next, Abandon
<1>2. ASSUME AccountsNext PROVE [Next]_vars \/ \E h \in Handler : Abandon(h)
  BY <1>1, <1>2, Zenon DEF AccountsNext, Next
<1>3. CASE UNCHANGED allVars
  BY <1>3 DEF allVars
<1>4. QED
  BY <1>2, <1>3

LEMMA AbandonKeeps ==
  ASSUME LockInv, NEW h \in Handler, Abandon(h)
  PROVE  LockInv'
<1>1. TypeOK'
  BY DEF LockInv, TypeOK, Abandon, Done, row, history, Row, Lock, NeverLocked
<1>2. raced' \/ (CopiesCurrent /\ failures <= attempts)'
  BY DEF LockInv, TypeOK, CopiesCurrent, Abandon, Done, row, history
<1>3. LockAhead' /\ LockedAfterMax'
  BY DEF LockInv, LockAhead, LockedAfterMax, Abandon, row, history
<1>4. QED
  BY <1>1, <1>2, <1>3 DEF LockInv

\* Also among all other requests, and when the account is deleted under a login, the lock
\* is in order.
THEOREM AccountsLockInvariant == AccountsSpec => []LockInv
<1>1. AccountsInit => LockInv
  BY LockStarts DEF AccountsInit
<1>2. LockInv /\ [AccountsNext]_allVars => LockInv'
  BY LoginsAreLockouts, LockSteps, AbandonKeeps
<1>3. QED
  BY <1>1, <1>2, PTL DEF AccountsSpec

\* And only a login that had loaded an older, expired lock ends one in force early.
THEOREM OnlyExpiryEndsLockAmongAccounts == AccountsSpec => LockEndsByExpiry
<1>1. LockInv /\ [AccountsNext]_allVars =>
        [Locked(lockedUntil) /\ lockedUntil' < lockedUntil =>
           \E h \in Handler : pc[h] = "right" /\ Expired(seen[h].lockedUntil)]_vars
  <2> SUFFICES ASSUME LockInv, [AccountsNext]_allVars,
                      Locked(lockedUntil), lockedUntil' < lockedUntil
               PROVE  \E h \in Handler : pc[h] = "right" /\ Expired(seen[h].lockedUntil)
    OBVIOUS
  <2>1. CASE [Next]_vars
    BY <2>1, EarlyEnd
  <2>2. ASSUME NEW h \in Handler, Abandon(h) PROVE FALSE
    BY <2>2 DEF Abandon, row, LockInv, TypeOK, Lock, NeverLocked
  <2>3. QED
    BY <2>1, <2>2, LoginsAreLockouts
<1>2. QED
  BY <1>1, AccountsLockInvariant, PTL DEF AccountsSpec, LockEndsByExpiry

-------------------------------------------------------------------------------
(* What a request does to the handlers and to the table *)

Ops == {Idle} \cup [kind : Kinds, by : Account, uid : Account, name : Name, copy : User]

\* What a request has checked when it begins.
Admits(kind, by, uid) ==
  /\ Present(uid)
  /\ kind = "refresh" => users[uid].active
  /\ kind = "verify" => users[uid].secret # NoSecret
  /\ kind = "delete" => uid # by /\ IsAdmin(by)
  /\ kind \in Kinds \ {"session"}

Started(h) ==
  \E kind \in Kinds, by \in Account, uid \in Account, name \in Name :
    Admits(kind, by, uid) /\ Begin(h, kind, by, uid, name)

\* The commits that write a row.
Commits(h) == Setup(h) \/ Verify(h) \/ Disable(h) \/ Register(h) \/ Update(h) \/ Delete(h)

\* A handler that is busy has been asked something.
LEMMA BusyOp ==
  ASSUME op \in [Handler -> Ops], NEW h \in Handler, op[h] # Idle
  PROVE  /\ op[h] \in [kind : Kinds, by : Account, uid : Account, name : Name, copy : User]
         /\ op[h].kind \in Kinds /\ op[h].by \in Account /\ op[h].uid \in Account
         /\ op[h].name \in Name /\ op[h].copy \in User
  BY DEF Ops

LEMMA PresentUser ==
  ASSUME users \in [Account -> User \cup {NoRow, Gone}], NEW a \in Account
  PROVE  Present(a) <=> users[a] \in User
  BY SeedAssumption DEF Present

\* Every step begins a request, commits one, ends one, turns a login into a session, or
\* leaves accounts and requests alone.
LEMMA AccountsSteps ==
  ASSUME AccountsTypeOK, [AccountsNext]_allVars
  PROVE  \/ \E h \in Handler : Started(h)
         \/ \E h \in Handler : Commits(h)
         \/ \E h \in Handler : LoginOver(h)
         \/ \E h \in Handler : LoginSucceed(h)
         \/ UNCHANGED accountVars
<1> USE DEF AccountsTypeOK
<1>1. ASSUME NEW a \in Account, Present(a) PROVE users[a].name \in Name
  BY <1>1, PresentUser DEF User
<1>2. ASSUME NEW h \in Handler, Login(h)
      PROVE  Started(h) \/ LoginOver(h) \/ LoginSucceed(h)
  <2>1. ASSUME NEW password, LoginLoad(h, password) PROVE Started(h)
    <3>1. Admits("login", Self, Self)
      BY <2>1 DEF LoginLoad, Admits, Kinds
    <3>2. Self \in Account /\ users[Self].name \in Name /\ "login" \in Kinds
      BY <1>1, <2>1, AccountAssumption DEF LoginLoad, Kinds
    <3>3. QED
      BY <2>1, <3>1, <3>2 DEF LoginLoad, Started
  <2>2. QED
    BY <1>2, <2>1 DEF Login, LoginFail, LoginTurnAway, LoginGone
<1>3. ASSUME NEW h \in Handler, Request(h) PROVE Started(h)
  <2>1. ASSUME NEW a \in Account, OwnRequest(h, a) PROVE Started(h)
    <3>1. PICK kind \in {"refresh", "setup", "verify", "disable"} :
            /\ kind = "refresh" => users[a].active
            /\ kind = "verify" => users[a].secret # NoSecret
            /\ Begin(h, kind, a, a, users[a].name)
      BY <2>1 DEF OwnRequest
    <3>2. Admits(kind, a, a) /\ kind \in Kinds /\ users[a].name \in Name
      BY <1>1, <2>1, <3>1 DEF Admits, OwnRequest, Kinds
    <3>3. QED
      BY <3>1, <3>2 DEF Started
  <2>2. ASSUME NEW a \in Account, RegisterRequest(h, a) PROVE Started(h)
    <3>1. PICK n \in Name : Begin(h, "register", a, a, n)
      BY <2>2 DEF RegisterRequest
    <3>2. Admits("register", a, a) /\ "register" \in Kinds
      BY <2>2 DEF Admits, RegisterRequest, IsAdmin, Kinds
    <3>3. QED
      BY <3>1, <3>2 DEF Started
  <2>3. ASSUME NEW a \in Account, AdminRequest(h, a) PROVE Started(h)
    <3>1. PICK uid \in Account, kind \in {"update", "delete"} :
            /\ Present(uid) /\ (kind = "delete" => uid # a)
            /\ Begin(h, kind, a, uid, users[a].name)
      BY <2>3 DEF AdminRequest
    <3>2. Admits(kind, a, uid) /\ kind \in Kinds /\ users[a].name \in Name
      BY <1>1, <2>3, <3>1 DEF Admits, AdminRequest, IsAdmin, Kinds
    <3>3. QED
      BY <3>1, <3>2 DEF Started
  <2>4. QED
    BY <1>3, <2>1, <2>2, <2>3 DEF Request
<1>4. ASSUME NEW h \in Handler, Commit(h) PROVE Commits(h) \/ LoginOver(h)
  BY <1>4, Zenon DEF Commit, Commits, Issue, Raise, LoginOver
<1>5. QED
  BY <1>2, <1>3, <1>4, Zenon DEF AccountsNext, allVars

\* After its commit a handler is idle, and whoever holds a copy of the row is overtaken.
LEMMA WritesEffect ==
  ASSUME AccountsTypeOK, NEW h \in Handler, NEW a \in Account, Writes(h, a)
  PROVE  /\ op'[h] = Idle /\ \A t \in Handler : t # h => op'[t] = op[t]
         /\ op' \in [Handler -> Ops]
         /\ \A t \in Handler : op'[t] # Idle /\ t \notin overtaken' =>
              /\ t # h /\ op[t] # Idle /\ t \notin overtaken
              /\ a # op[t].by /\ a # op[t].uid
         /\ overtaken' \subseteq {t \in Handler : op'[t] # Idle}
  BY DEF AccountsTypeOK, Writes, Over, Ops

\* The same of a handler that ends without a commit.
LEMMA OverEffect ==
  ASSUME AccountsTypeOK, NEW h \in Handler, LoginOver(h)
  PROVE  /\ op'[h] = Idle /\ \A t \in Handler : t # h => op'[t] = op[t]
         /\ op' \in [Handler -> Ops]
         /\ \A t \in Handler : op'[t] # Idle /\ t \notin overtaken' =>
              t # h /\ op[t] # Idle /\ t \notin overtaken
         /\ overtaken' \subseteq {t \in Handler : op'[t] # Idle}
         /\ UNCHANGED <<users, lastSecret, proven, spoiled>>
  BY DEF AccountsTypeOK, LoginOver, Over, Ops

\* A request begins with a copy of the row, overtaken by nobody.
LEMMA StartedEffect ==
  ASSUME AccountsTypeOK, NEW h \in Handler, Started(h)
  PROVE  /\ op[h] = Idle /\ \A t \in Handler : t # h => op'[t] = op[t]
         /\ op' \in [Handler -> Ops]
         /\ op'[h] # Idle /\ op'[h].copy = users[op'[h].uid] /\ op'[h].uid \in Account
         /\ Admits(op'[h].kind, op'[h].by, op'[h].uid)
         /\ h \notin overtaken /\ overtaken' \subseteq {t \in Handler : op'[t] # Idle}
         /\ UNCHANGED <<users, lastSecret, proven, spoiled, overtaken>>
<1>1. PICK kind \in Kinds, by \in Account, uid \in Account, name \in Name :
        Admits(kind, by, uid) /\ Begin(h, kind, by, uid, name)
  BY DEF Started
<1> DEFINE r == [kind |-> kind, by |-> by, uid |-> uid, name |-> name, copy |-> users[uid]]
<1>2. users[uid] \in User
  BY <1>1, PresentUser DEF Admits, AccountsTypeOK
<1>3. r \in [kind : Kinds, by : Account, uid : Account, name : Name, copy : User] /\ r # Idle
  BY <1>1, <1>2 DEF Idle
<1>4. op[h] = Idle /\ op' = [op EXCEPT ![h] = r]
      /\ UNCHANGED <<users, lastSecret, proven, spoiled, overtaken>>
  BY <1>1 DEF Begin
<1>5. op'[h] = r /\ (\A t \in Handler : t # h => op'[t] = op[t]) /\ op' \in [Handler -> Ops]
  BY <1>3, <1>4 DEF AccountsTypeOK, Ops
<1>6. r.copy = users[r.uid] /\ r.uid \in Account /\ Admits(r.kind, r.by, r.uid)
  BY <1>1
<1> HIDE DEF r
<1>7. h \notin overtaken /\ overtaken' \subseteq {t \in Handler : op'[t] # Idle}
  BY <1>3, <1>4, <1>5 DEF AccountsTypeOK
<1>8. QED
  BY <1>3, <1>4, <1>5, <1>6, <1>7

\* A login that succeeds stays, as a session to be given out.
LEMMA SucceedEffect ==
  ASSUME AccountsTypeOK, NEW h \in Handler, LoginSucceed(h)
  PROVE  /\ op[h] # Idle /\ op[h].copy.active
         /\ op'[h] # Idle /\ op'[h].kind = "session" /\ op'[h].copy = op[h].copy
         /\ op'[h].by = op[h].by /\ op'[h].uid = op[h].uid
         /\ \A t \in Handler : t # h => op'[t] = op[t]
         /\ op' \in [Handler -> Ops]
         /\ overtaken' \subseteq {t \in Handler : op'[t] # Idle}
         /\ UNCHANGED <<users, lastSecret, proven, spoiled, overtaken>>
<1>1. op[h] # Idle /\ op[h].copy.active /\ op' = [op EXCEPT ![h].kind = "session"]
      /\ UNCHANGED <<users, lastSecret, proven, spoiled, overtaken>>
  BY DEF LoginSucceed, Asked
<1>2. op[h] \in [kind : Kinds, by : Account, uid : Account, name : Name, copy : User]
  BY <1>1, BusyOp DEF AccountsTypeOK, Ops
<1> DEFINE r == [op[h] EXCEPT !.kind = "session"]
<1>3. /\ r \in [kind : Kinds, by : Account, uid : Account, name : Name, copy : User]
      /\ r # Idle /\ r.kind = "session" /\ r.copy = op[h].copy /\ r.by = op[h].by /\ r.uid = op[h].uid
  BY <1>2 DEF Kinds, Idle
<1>4. op'[h] = r /\ (\A t \in Handler : t # h => op'[t] = op[t]) /\ op' \in [Handler -> Ops]
  BY <1>1, <1>3 DEF AccountsTypeOK, Ops
<1> HIDE DEF r
<1>5. QED
  BY <1>1, <1>3, <1>4 DEF AccountsTypeOK

-------------------------------------------------------------------------------
(* The commits *)

\* What a commit makes of the table: one row changes, and stays typed.
LEMMA CommitEffect ==
  ASSUME AccountsTypeOK, NEW h \in Handler, Commits(h)
  PROVE  \E a \in Account :
           /\ Writes(h, a)
           /\ users' \in [Account -> User \cup {NoRow, Gone}]
           /\ \A b \in Account : b # a => users'[b] = users[b]
           /\ lastSecret' \in 0..MaxSecret /\ lastSecret' >= lastSecret
           /\ Present(a)' => users'[a].secret <= lastSecret'
           /\ proven' \in [Account -> 0..lastSecret']
           /\ spoiled' \subseteq Account
<1> USE DEF AccountsTypeOK
<1> DEFINE u == Uid(h)
<1>1. op[h] # Idle
  BY DEF Commits, Setup, Verify, Disable, Register, Update, Delete, Asked
<1>2. /\ u \in Account /\ op[h].copy \in User /\ op[h].name \in Name
      /\ op[h].copy.secret \in 0..MaxSecret /\ op[h].copy.secret <= lastSecret
  BY <1>1, BusyOp DEF Ops, Uid, User
<1>3. \A a \in Account : Present(a) <=> users[a] \in User
  BY PresentUser
<1>4. lastSecret \in Nat /\ MaxSecret \in Nat /\ NoSecret \in 0..lastSecret
  BY AccountAssumption DEF NoSecret
<1>5. CASE Setup(h)
  <2>1. /\ users[u] \in User /\ lastSecret' = lastSecret + 1 /\ lastSecret' \in 0..MaxSecret
        /\ users' = [users EXCEPT ![u].secret = lastSecret'] /\ Writes(h, u)
        /\ proven' = proven /\ spoiled' \subseteq Account
    BY <1>2, <1>3, <1>4, <1>5 DEF Setup
  <2>2. /\ users'[u] = [users[u] EXCEPT !.secret = lastSecret']
        /\ \A b \in Account : b # u => users'[b] = users[b]
        /\ users' \in [Account -> User \cup {NoRow, Gone}]
        /\ users'[u].secret = lastSecret'
    BY <1>2, <2>1 DEF User
  <2>3. proven' \in [Account -> 0..lastSecret']
    BY <1>4, <2>1
  <2>4. QED
    BY <1>2, <1>4, <2>1, <2>2, <2>3
<1>6. CASE Verify(h)
  <2>1. /\ users[u] \in User /\ lastSecret' = lastSecret /\ Writes(h, u)
        /\ users' = [users EXCEPT ![u].enabled = Column(@, op[h].copy.enabled, TRUE)]
        /\ proven' = [proven EXCEPT ![u] = op[h].copy.secret] /\ spoiled' \subseteq Account
    BY <1>2, <1>3, <1>6 DEF Verify, Settles
  <2>2. /\ users' \in [Account -> User \cup {NoRow, Gone}]
        /\ \A b \in Account : b # u => users'[b] = users[b]
        /\ users'[u].secret = users[u].secret
    BY <1>2, <2>1 DEF User, Column
  <2>3. proven' \in [Account -> 0..lastSecret']
    BY <1>2, <1>4, <2>1
  <2>4. users'[u].secret <= lastSecret' /\ lastSecret' \in 0..MaxSecret /\ lastSecret' >= lastSecret
    BY <1>2, <1>3, <1>4, <2>1, <2>2
  <2>5. QED
    BY <1>2, <2>1, <2>2, <2>3, <2>4
<1>7. CASE Disable(h)
  <2>1. /\ users[u] \in User /\ lastSecret' = lastSecret /\ Writes(h, u)
        /\ users' = [users EXCEPT
             ![u].enabled = Column(@, op[h].copy.enabled, FALSE),
             ![u].secret = Column(@, op[h].copy.secret, NoSecret)]
        /\ proven' = proven /\ spoiled' \subseteq Account
    BY <1>2, <1>3, <1>7 DEF Disable, Settles
  <2> DEFINE e == Column(users[u].enabled, op[h].copy.enabled, FALSE)
             s == Column(users[u].secret, op[h].copy.secret, NoSecret)
  <2> HIDE DEF e, s
  <2>2. e \in BOOLEAN /\ s \in 0..MaxSecret /\ s \in {users[u].secret, NoSecret}
    <3>1. users[u].enabled \in BOOLEAN /\ users[u].secret \in 0..MaxSecret
      BY <2>1 DEF User
    <3>2. e \in BOOLEAN
      BY <3>1, Zenon DEF Column, e
    <3>3. s \in {users[u].secret, NoSecret}
      BY Zenon DEF Column, s
    <3>4. QED
      BY <1>4, <3>1, <3>2, <3>3
  <2>3. users' = [users EXCEPT ![u] = [users[u] EXCEPT !.enabled = e, !.secret = s]]
    BY <1>2, <2>1 DEF e, s
  <2> DEFINE r == [users[u] EXCEPT !.enabled = e, !.secret = s]
  <2>4. r \in User /\ r.secret = s
    <3>1. e = TRUE \/ e = FALSE
      BY <2>2
    <3>2. CASE e = TRUE
      BY <2>1, <2>2, <3>2 DEF User
    <3>3. CASE e = FALSE
      BY <2>1, <2>2, <3>3 DEF User
    <3>4. QED
      BY <3>1, <3>2, <3>3
  <2> HIDE DEF r
  <2>5. /\ users' \in [Account -> User \cup {NoRow, Gone}]
        /\ \A b \in Account : b # u => users'[b] = users[b]
        /\ users'[u].secret = s
    <3>1. users' = [users EXCEPT ![u] = r]
      BY <2>3 DEF r
    <3>2. QED
      BY <1>2, <2>4, <3>1
  <2>6. s <= lastSecret' /\ lastSecret' \in 0..MaxSecret /\ lastSecret' >= lastSecret
    BY <1>2, <1>3, <1>4, <2>1, <2>2 DEF NoSecret
  <2>7. QED
    BY <1>2, <1>4, <2>1, <2>5, <2>6
<1>8. CASE Register(h)
  <2>1. PICK a \in Account, role \in Role :
          /\ users[a] = NoRow /\ Writes(h, a)
          /\ users' = [users EXCEPT ![a] = [name |-> op[h].name, role |-> role, active |-> TRUE,
                                            enabled |-> FALSE, secret |-> NoSecret]]
    BY <1>8 DEF Register
  <2>2. lastSecret' = lastSecret /\ proven' = proven /\ spoiled' = spoiled
    BY <1>8 DEF Register
  <2>3. /\ users' \in [Account -> User \cup {NoRow, Gone}]
        /\ \A b \in Account : b # a => users'[b] = users[b]
        /\ users'[a].secret = NoSecret
    BY <1>2, <1>4, <2>1 DEF User
  <2>4. QED
    BY <1>4, <2>1, <2>2, <2>3
<1>9. CASE Update(h)
  <2>1. PICK role \in Role, active \in BOOLEAN :
          users' = [users EXCEPT
            ![u].role = Column(@, op[h].copy.role, role),
            ![u].active = Column(@, op[h].copy.active, active)]
    BY <1>9 DEF Update
  <2>2. users[u] \in User /\ Writes(h, u) /\ UNCHANGED <<lastSecret, proven, spoiled>>
    BY <1>2, <1>3, <1>9 DEF Update
  <2> DEFINE r == [users[u] EXCEPT !.role = Column(@, op[h].copy.role, role),
                                   !.active = Column(@, op[h].copy.active, active)]
  <2>3. r \in User /\ r.secret = users[u].secret
    BY <1>2, <2>2 DEF User, Column
  <2>4. users' = [users EXCEPT ![u] = r]
    BY <1>2, <2>1, <2>2
  <2> HIDE DEF r
  <2>5. /\ users' \in [Account -> User \cup {NoRow, Gone}]
        /\ \A b \in Account : b # u => users'[b] = users[b]
        /\ users'[u] = r
    BY <1>2, <2>2, <2>3, <2>4
  <2>6. users'[u].secret <= lastSecret' /\ lastSecret' \in 0..MaxSecret /\ lastSecret' >= lastSecret
    BY <1>2, <1>3, <1>4, <2>2, <2>3, <2>5
  <2>7. QED
    BY <1>2, <2>2, <2>5, <2>6
<1>10. CASE Delete(h)
  <2>1. users' = [users EXCEPT ![u] = Gone] /\ Writes(h, u) /\ UNCHANGED <<lastSecret, proven, spoiled>>
    BY <1>10 DEF Delete
  <2>2. /\ users' \in [Account -> User \cup {NoRow, Gone}]
        /\ \A b \in Account : b # u => users'[b] = users[b]
        /\ users'[u] = Gone
    BY <1>2, <2>1
  <2>3. QED
    BY <1>2, <1>4, <2>1, <2>2 DEF Present
<1>11. QED
  BY <1>5, <1>6, <1>7, <1>8, <1>9, <1>10 DEF Commits

-------------------------------------------------------------------------------
(* The conjuncts of the invariant *)

\* Lockout and Accounts agree on who is at login.
LEMMA LoginsMatch ==
  ASSUME TypeOK, AccountsTypeOK, [AccountsNext]_allVars
  PROVE  (\A h \in Handler : pc[h] # "idle" <=> Asked(h, "login"))'
<1> SUFFICES ASSUME NEW t \in Handler
             PROVE  pc'[t] # "idle" <=> Asked(t, "login")'
  OBVIOUS
<1>1. /\ pc \in [Handler -> {"idle", "wrong", "right"}]
      /\ op \in [Handler -> Ops]
      /\ \A h \in Handler : pc[h] # "idle" <=> Asked(h, "login")
  BY DEF TypeOK, AccountsTypeOK, Ops
<1>2. ASSUME NEW h \in Handler, Done(h), LoginOver(h) PROVE pc'[t] # "idle" <=> Asked(t, "login")'
  BY <1>1, <1>2 DEF Done, LoginOver, Over, Asked
<1>3. ASSUME NEW h \in Handler, NEW password \in {"wrong", "right"}, LoginLoad(h, password)
      PROVE  pc'[t] # "idle" <=> Asked(t, "login")'
  <2>1. /\ op'[h].kind = "login" /\ op'[h] # Idle /\ \A g \in Handler : g # h => op'[g] = op[g]
        /\ pc' = [pc EXCEPT ![h] = password]
    BY <1>1, <1>3 DEF LoginLoad, Begin, Load, Idle
  <2>2. QED
    BY <1>1, <2>1 DEF Asked
<1>4. ASSUME NEW h \in Handler, LoginSucceed(h) PROVE pc'[t] # "idle" <=> Asked(t, "login")'
  <2>1. Done(h) /\ op'[h].kind = "session" /\ \A g \in Handler : g # h => op'[g] = op[g]
    BY <1>4, SucceedEffect DEF LoginSucceed, Succeed, Write
  <2>2. QED
    BY <1>1, <2>1 DEF Done, Asked
<1>5. ASSUME NEW h \in Handler, Request(h), UNCHANGED vars
      PROVE  pc'[t] # "idle" <=> Asked(t, "login")'
  <2>0. \E kind \in {"refresh", "setup", "verify", "disable", "register", "update", "delete"} :
          \E by, uid, name : Begin(h, kind, by, uid, name)
    BY <1>5, Zenon DEF Request, OwnRequest, RegisterRequest, AdminRequest
  <2>1. PICK kind \in {"refresh", "setup", "verify", "disable", "register", "update", "delete"} :
          \E by, uid, name : Begin(h, kind, by, uid, name)
    BY <2>0, Zenon
  <2>2. PICK by, uid, name : Begin(h, kind, by, uid, name)
    BY <2>1, Zenon
  <2>3. /\ op[h] = Idle /\ op'[h].kind = kind /\ pc' = pc
        /\ \A g \in Handler : g # h => op'[g] = op[g]
    BY <1>1, <1>5, <2>2 DEF Begin, vars
  <2>4. QED
    BY <1>1, <2>1, <2>3 DEF Asked
<1>6. ASSUME NEW h \in Handler, Commit(h), UNCHANGED vars
      PROVE  pc'[t] # "idle" <=> Asked(t, "login")'
  <2>1. Over(h) /\ ~Asked(h, "login")
    BY <1>6 DEF Commit, Setup, Verify, Disable, Register, Update, Delete, Issue, Raise, Writes, Asked
  <2>2. op'[h] = Idle /\ pc' = pc /\ \A g \in Handler : g # h => op'[g] = op[g]
    BY <1>1, <1>6, <2>1 DEF Over, vars
  <2>3. QED
    BY <1>1, <2>1, <2>2 DEF Asked
<1>7. ASSUME NEW h \in Handler, Login(h) PROVE pc'[t] # "idle" <=> Asked(t, "login")'
  BY <1>2, <1>3, <1>4, <1>7
  DEF Login, LoginFail, LoginTurnAway, LoginGone, Refuse, Fail, TurnAway, Write
<1>8. CASE UNCHANGED <<pc, op>>
  BY <1>1, <1>8 DEF Asked
<1>9. QED
  BY <1>5, <1>6, <1>7, <1>8 DEF AccountsNext, Tick, allVars, accountVars, vars

\* Accounts and requests stay typed, and no secret comes from nowhere.
LEMMA AccountsTypes ==
  ASSUME TypeOK, AccountsTypeOK, [AccountsNext]_allVars
  PROVE  AccountsTypeOK'
<1>1. (\A h \in Handler : pc[h] # "idle" <=> Asked(h, "login"))'
  BY LoginsMatch
<1> DEFINE Typed ==
             /\ users' \in [Account -> User \cup {NoRow, Gone}]
             /\ op' \in [Handler -> Ops]
             /\ lastSecret' \in 0..MaxSecret
             /\ \A a \in Account : Present(a)' => users'[a].secret <= lastSecret'
             /\ \A h \in Handler : op'[h] # Idle => op'[h].copy.secret <= lastSecret'
             /\ proven' \in [Account -> 0..lastSecret']
             /\ spoiled' \subseteq Account
             /\ overtaken' \subseteq {h \in Handler : op'[h] # Idle}
<1>2. SUFFICES Typed
  BY <1>1 DEF AccountsTypeOK, Ops
<1> USE DEF AccountsTypeOK
<1>3. \A h \in Handler : op[h] # Idle => op[h].copy.secret \in 0..MaxSecret
  BY BusyOp DEF Ops, User
<1>4. \A a \in Account : Present(a) => users[a].secret \in 0..MaxSecret
  BY PresentUser DEF User
<1>5. ASSUME NEW h \in Handler, Started(h) PROVE Typed
  BY <1>3, <1>4, <1>5, StartedEffect DEF Present, Admits
<1>6. ASSUME NEW h \in Handler, Commits(h) PROVE Typed
  <2>1. PICK a \in Account :
          /\ Writes(h, a)
          /\ users' \in [Account -> User \cup {NoRow, Gone}]
          /\ \A b \in Account : b # a => users'[b] = users[b]
          /\ lastSecret' \in 0..MaxSecret /\ lastSecret' >= lastSecret
          /\ Present(a)' => users'[a].secret <= lastSecret'
          /\ proven' \in [Account -> 0..lastSecret']
          /\ spoiled' \subseteq Account
    BY <1>6, CommitEffect
  <2>2. /\ op' \in [Handler -> Ops] /\ overtaken' \subseteq {t \in Handler : op'[t] # Idle}
        /\ \A t \in Handler : op'[t] # Idle => op[t] # Idle /\ op'[t] = op[t]
    BY <2>1, WritesEffect
  <2>3. \A b \in Account : Present(b)' => users'[b].secret <= lastSecret'
    BY <1>4, <2>1, AccountAssumption DEF Present
  <2>4. \A t \in Handler : op'[t] # Idle => op'[t].copy.secret <= lastSecret'
    BY <1>3, <2>1, <2>2, AccountAssumption
  <2>5. QED
    BY <2>1, <2>2, <2>3, <2>4
<1>7. ASSUME NEW h \in Handler, LoginOver(h) PROVE Typed
  BY <1>7, OverEffect DEF Present
<1>8. ASSUME NEW h \in Handler, LoginSucceed(h) PROVE Typed
  BY <1>8, SucceedEffect DEF Present
<1>9. CASE UNCHANGED accountVars
  BY <1>9 DEF accountVars, Present, Ops
<1>10. QED
  BY <1>5, <1>6, <1>7, <1>8, <1>9, AccountsSteps

\* A copy is of the row as it is, or its handler has been overtaken.
LEMMA CopiesStayFresh ==
  ASSUME AccountsTypeOK, CopiesFresh, [AccountsNext]_allVars
  PROVE  CopiesFresh'
<1> SUFFICES ASSUME NEW t \in Handler, op'[t] # Idle, t \notin overtaken'
             PROVE  op'[t].copy = users'[op'[t].uid]
  BY DEF CopiesFresh, Uid
<1>1. ASSUME NEW h \in Handler, Started(h) PROVE op'[t].copy = users'[op'[t].uid]
  BY <1>1, StartedEffect DEF CopiesFresh, Uid
<1>2. ASSUME NEW h \in Handler, Commits(h) PROVE op'[t].copy = users'[op'[t].uid]
  <2>1. PICK a \in Account : Writes(h, a) /\ \A b \in Account : b # a => users'[b] = users[b]
    BY <1>2, CommitEffect
  <2>2. t # h /\ op[t] # Idle /\ t \notin overtaken /\ a # op[t].uid /\ op'[t] = op[t]
    BY <2>1, WritesEffect
  <2>3. op[t].uid \in Account
    BY <2>2, BusyOp DEF AccountsTypeOK, Ops
  <2>4. QED
    BY <2>1, <2>2, <2>3 DEF CopiesFresh, Uid
<1>3. ASSUME NEW h \in Handler, LoginOver(h) PROVE op'[t].copy = users'[op'[t].uid]
  BY <1>3, OverEffect DEF CopiesFresh, Uid
<1>4. ASSUME NEW h \in Handler, LoginSucceed(h) PROVE op'[t].copy = users'[op'[t].uid]
  BY <1>4, SucceedEffect DEF CopiesFresh, Uid
<1>5. CASE UNCHANGED accountVars
  BY <1>5 DEF accountVars, CopiesFresh, Uid
<1>6. QED
  BY <1>1, <1>2, <1>3, <1>4, <1>5, AccountsSteps

\* What a handler has checked still holds, or it has been overtaken.
LEMMA ChecksStay ==
  ASSUME AccountsTypeOK, ChecksHold, [AccountsNext]_allVars
  PROVE  ChecksHold'
<1>1. \A t \in Handler : op[t] # Idle =>
        /\ op[t].kind = "verify" => op[t].copy.secret # NoSecret
        /\ op[t].kind \in {"refresh", "session"} => op[t].copy.active
        /\ op[t].kind = "delete" =>
             op[t].by # op[t].uid /\ (t \in overtaken \/ IsAdmin(op[t].by))
  BY DEF ChecksHold, Asked, Uid
<1> SUFFICES ASSUME NEW t \in Handler, op'[t] # Idle
             PROVE  /\ op'[t].kind = "verify" => op'[t].copy.secret # NoSecret
                    /\ op'[t].kind \in {"refresh", "session"} => op'[t].copy.active
                    /\ op'[t].kind = "delete" =>
                         /\ op'[t].by # op'[t].uid
                         /\ t \in overtaken' \/ (/\ users'[op'[t].by] \notin {NoRow, Gone}
                                                 /\ users'[op'[t].by].role = "admin")
  BY DEF ChecksHold, Asked, Uid, IsAdmin, Present
<1> DEFINE Holds == /\ op'[t].kind = "verify" => op'[t].copy.secret # NoSecret
                    /\ op'[t].kind \in {"refresh", "session"} => op'[t].copy.active
                    /\ op'[t].kind = "delete" =>
                         /\ op'[t].by # op'[t].uid
                         /\ t \in overtaken' \/ (/\ users'[op'[t].by] \notin {NoRow, Gone}
                                                 /\ users'[op'[t].by].role = "admin")
<1>2. ASSUME op'[t] = op[t], UNCHANGED users, overtaken' = overtaken PROVE Holds
  BY <1>1, <1>2 DEF IsAdmin, Present
<1>3. ASSUME NEW h \in Handler, Started(h) PROVE Holds
  <2>1. CASE t = h
    BY <1>3, <2>1, StartedEffect DEF Admits, IsAdmin, Present, Kinds
  <2>2. CASE t # h
    BY <1>2, <1>3, <2>2, StartedEffect
  <2>3. QED
    BY <2>1, <2>2
<1>4. ASSUME NEW h \in Handler, Commits(h) PROVE Holds
  <2>1. PICK a \in Account : Writes(h, a) /\ \A b \in Account : b # a => users'[b] = users[b]
    BY <1>4, CommitEffect
  <2>2. /\ op[t] # Idle /\ op'[t] = op[t]
        /\ t \in overtaken' \/ (t \notin overtaken /\ a # op[t].by)
    BY <2>1, WritesEffect
  <2>3. op[t].by \in Account
    BY <2>2, BusyOp DEF AccountsTypeOK, Ops
  <2>4. QED
    BY <1>1, <2>1, <2>2, <2>3 DEF IsAdmin, Present
<1>5. ASSUME NEW h \in Handler, LoginOver(h) PROVE Holds
  <2>1. /\ op[t] # Idle /\ op'[t] = op[t] /\ UNCHANGED users
        /\ t \in overtaken' \/ t \notin overtaken
    BY <1>5, OverEffect
  <2>2. QED
    BY <1>1, <2>1 DEF IsAdmin, Present
<1>6. ASSUME NEW h \in Handler, LoginSucceed(h) PROVE Holds
  <2>1. CASE t = h
    BY <1>6, <2>1, SucceedEffect
  <2>2. CASE t # h
    BY <1>2, <1>6, <2>2, SucceedEffect
  <2>3. QED
    BY <2>1, <2>2
<1>7. CASE UNCHANGED accountVars
  BY <1>2, <1>7 DEF accountVars
<1>8. QED
  BY <1>3, <1>4, <1>5, <1>6, <1>7, AccountsSteps

\* Only a registration gives a name, and only a free one.
LEMMA NamesStayUnique ==
  ASSUME AccountsTypeOK, NamesUnique, [AccountsNext]_allVars
  PROVE  NamesUnique'
<1> USE DEF AccountsTypeOK
<1>1. ASSUME NEW h \in Handler, Register(h) PROVE NamesUnique'
  <2>1. PICK a \in Account, role \in Role :
          users' = [users EXCEPT ![a] = [name |-> op[h].name, role |-> role, active |-> TRUE,
                                         enabled |-> FALSE, secret |-> NoSecret]]
    BY <1>1 DEF Register
  <2>2. \A b \in Account : Present(b) => users[b].name # op[h].name
    BY <1>1 DEF Register
  <2>3. /\ users'[a].name = op[h].name
        /\ \A b \in Account : b # a => users'[b] = users[b]
    BY <2>1
  <2>4. QED
    BY <2>2, <2>3 DEF NamesUnique, Present
<1>2. ASSUME \A b \in Account : users'[b] \in {NoRow, Gone}
                                \/ (Present(b) /\ users'[b].name = users[b].name)
      PROVE  NamesUnique'
  BY <1>2 DEF NamesUnique, Present
<1>3. ASSUME NEW h \in Handler, Commits(h), ~Register(h) PROVE NamesUnique'
  <2>1. ASSUME Present(Uid(h)), Setup(h) \/ Verify(h) \/ Disable(h) \/ Update(h)
        PROVE  /\ users'[Uid(h)].name = users[Uid(h)].name
               /\ \A b \in Account : b # Uid(h) => users'[b] = users[b]
    <3>1. Uid(h) \in Account /\ users[Uid(h)] \in User
      BY <2>1, BusyOp, PresentUser DEF Ops, Uid, Setup, Verify, Disable, Update, Asked
    <3>2. CASE Setup(h)
      BY <3>1, <3>2 DEF Setup, User
    <3>3. CASE Verify(h)
      BY <3>1, <3>3 DEF Verify, User
    <3>4. CASE Disable(h)
      BY <3>1, <3>4 DEF Disable, User
    <3>5. CASE Update(h)
      <4>1. PICK role \in Role, active \in BOOLEAN :
              users' = [users EXCEPT
                ![Uid(h)].role = Column(@, op[h].copy.role, role),
                ![Uid(h)].active = Column(@, op[h].copy.active, active)]
        BY <3>5 DEF Update
      <4>2. QED
        BY <3>1, <4>1 DEF User
    <3>6. QED
      BY <2>1, <3>2, <3>3, <3>4, <3>5
  <2>2. CASE Setup(h) \/ Verify(h) \/ Disable(h) \/ Update(h)
    <3>1. Present(Uid(h))
      BY <2>2 DEF Setup, Verify, Disable, Update
    <3>2. QED
      BY <1>2, <2>1, <2>2, <3>1 DEF Present
  <2>3. CASE Delete(h)
    BY <1>2, <2>3 DEF Delete, Present
  <2>4. QED
    BY <1>3, <2>2, <2>3 DEF Commits
<1>4. ASSUME UNCHANGED users PROVE NamesUnique'
  BY <1>4 DEF NamesUnique, Present
<1>5. QED
  BY <1>1, <1>3, <1>4, AccountsSteps, StartedEffect, OverEffect, SucceedEffect DEF accountVars

\* Enabled MFA has a proven secret, unless the account is spoiled: a handler that nobody has
\* overtaken verifies or disables what is there.
LEMMA MfaStaysUsable ==
  ASSUME AccountsTypeOK, CopiesFresh, ChecksHold, MfaUsable, [AccountsNext]_allVars
  PROVE  MfaUsable'
<1> SUFFICES ASSUME NEW a \in Account, users'[a] \notin {NoRow, Gone}, users'[a].enabled,
                    a \notin spoiled'
             PROVE  users'[a].secret # NoSecret /\ users'[a].secret = proven'[a]
  BY DEF MfaUsable, Present
<1> USE DEF AccountsTypeOK
<1>1. ASSUME users'[a] = users[a], proven'[a] = proven[a], a \notin spoiled
      PROVE  users'[a].secret # NoSecret /\ users'[a].secret = proven'[a]
  BY <1>1 DEF MfaUsable, Present
<1>2. ASSUME NEW h \in Handler, Commits(h)
      PROVE  users'[a].secret # NoSecret /\ users'[a].secret = proven'[a]
  <2> DEFINE u == Uid(h)
  <2>1. op[h] # Idle
    BY <1>2 DEF Commits, Setup, Verify, Disable, Register, Update, Delete, Asked
  <2>2. u \in Account /\ op[h].copy \in User
    BY <2>1, BusyOp DEF Ops, Uid
  <2>3. h \notin overtaken => op[h].copy = users[u]
    BY <2>1 DEF CopiesFresh
  <2>4. Present(u) => users[u] \in User
    BY <2>2, PresentUser
  <2>5. CASE Setup(h)
    <3>1. a # u
      BY <2>2, <2>4, <2>5 DEF Setup, User
    <3>2. QED
      BY <1>1, <2>5, <3>1 DEF Setup
  <2>6. CASE Verify(h)
    <3>1. CASE a = u
      <4>1. h \notin overtaken
        BY <2>6, <3>1 DEF Verify, Settles
      <4>2. users'[a].secret = users[a].secret /\ proven'[a] = op[h].copy.secret
        BY <2>2, <2>4, <2>6, <3>1 DEF Verify, User
      <4>3. op[h].copy.secret # NoSecret
        BY <2>6 DEF Verify, ChecksHold
      <4>4. QED
        BY <2>3, <3>1, <4>1, <4>2, <4>3
    <3>2. CASE a # u
      BY <1>1, <2>2, <2>6, <3>2 DEF Verify, Settles
    <3>3. QED
      BY <3>1, <3>2
  <2>7. CASE Disable(h)
    <3>1. CASE a = u
      <4>1. h \notin overtaken
        BY <2>7, <3>1 DEF Disable, Settles
      <4>2. users'[a].enabled = Column(users[a].enabled, users[a].enabled, FALSE)
        BY <2>2, <2>3, <2>4, <2>7, <3>1, <4>1 DEF Disable, User
      <4>3. users[a].enabled \in BOOLEAN
        BY <2>4, <2>7, <3>1 DEF Disable, User
      <4>4. QED
        BY <4>2, <4>3 DEF Column
    <3>2. CASE a # u
      BY <1>1, <2>2, <2>7, <3>2 DEF Disable, Settles
    <3>3. QED
      BY <3>1, <3>2
  <2>8. CASE Register(h)
    <3>1. PICK b \in Account, role \in Role :
            users' = [users EXCEPT ![b] = [name |-> op[h].name, role |-> role, active |-> TRUE,
                                           enabled |-> FALSE, secret |-> NoSecret]]
      BY <2>8 DEF Register
    <3>2. a # b
      BY <3>1
    <3>3. QED
      BY <1>1, <2>8, <3>1, <3>2 DEF Register
  <2>9. CASE Update(h)
    <3>1. CASE a = u
      <4>1. PICK role \in Role, active \in BOOLEAN :
              users' = [users EXCEPT
                ![u].role = Column(@, op[h].copy.role, role),
                ![u].active = Column(@, op[h].copy.active, active)]
        BY <2>9 DEF Update
      <4>2. users[u] \in User /\ proven' = proven /\ spoiled' = spoiled /\ Present(u)
        BY <2>4, <2>9 DEF Update
      <4>3. users'[a].secret = users[a].secret /\ users'[a].enabled = users[a].enabled
        BY <2>2, <3>1, <4>1, <4>2 DEF User
      <4>4. QED
        BY <3>1, <4>2, <4>3 DEF MfaUsable
    <3>2. CASE a # u
      BY <1>1, <2>2, <2>9, <3>2 DEF Update
    <3>3. QED
      BY <3>1, <3>2
  <2>10. CASE Delete(h)
    BY <1>1, <2>2, <2>10 DEF Delete
  <2>11. QED
    BY <1>2, <2>5, <2>6, <2>7, <2>8, <2>9, <2>10 DEF Commits
<1>3. ASSUME UNCHANGED <<users, proven, spoiled>>
      PROVE  users'[a].secret # NoSecret /\ users'[a].secret = proven'[a]
  BY <1>1, <1>3
<1>4. QED
  BY <1>2, <1>3, AccountsSteps, StartedEffect, OverEffect, SucceedEffect DEF accountVars

-------------------------------------------------------------------------------
(* The theorems of Accounts *)

LEMMA AccountsStart == AccountsInit => AccountsInv
<1> SUFFICES ASSUME AccountsInit PROVE AccountsInv
  OBVIOUS
<1> USE AccountAssumption, SeedAssumption
<1>1. /\ users = Seed /\ lastSecret = 0 /\ NoSecret = 0
      /\ \A h \in Handler : op[h] = Idle
      /\ op \in [Handler -> {Idle} \cup
           [kind : Kinds, by : Account, uid : Account, name : Name, copy : User]]
      /\ \A h \in Handler : pc[h] = "idle"
      /\ proven \in [Account -> 0..lastSecret] /\ spoiled = {} /\ overtaken = {}
  BY DEF AccountsInit, Init, NoSecret
<1>2. \A h \in Handler : ~Asked(h, "login")
  BY <1>1 DEF Asked
<1>3. \A a \in Account : Present(a) => Seed[a] # NoRow
  BY <1>1 DEF Present
<1>4. AccountsTypeOK
  BY <1>1, <1>2, <1>3 DEF AccountsTypeOK
<1>5. NamesUnique /\ MfaUsable
  BY <1>1, <1>3 DEF NamesUnique, MfaUsable
<1>6. CopiesFresh /\ ChecksHold
  BY <1>1 DEF CopiesFresh, ChecksHold, Asked
<1>7. QED
  BY <1>4, <1>5, <1>6 DEF AccountsInv

LEMMA AccountsStep == LockInv /\ AccountsInv /\ [AccountsNext]_allVars => AccountsInv'
<1> SUFFICES ASSUME LockInv, AccountsInv, [AccountsNext]_allVars PROVE AccountsInv'
  OBVIOUS
<1>1. /\ TypeOK /\ AccountsTypeOK /\ NamesUnique /\ MfaUsable /\ CopiesFresh /\ ChecksHold
  BY DEF LockInv, AccountsInv
<1>2. AccountsTypeOK' /\ CopiesFresh' /\ ChecksHold'
  BY <1>1, AccountsTypes, CopiesStayFresh, ChecksStay
<1>3. NamesUnique' /\ MfaUsable'
  BY <1>1, NamesStayUnique, MfaStaysUsable
<1>4. QED
  BY <1>2, <1>3 DEF AccountsInv

\* The users table stays in order however requests overlap: no name is given twice, and no
\* account that has MFA enabled lacks a proven secret, unless it was set up anew while
\* enabled or a verification or disabling was overtaken (register, mfa_setup, mfa_verify,
\* mfa_disable).
THEOREM AccountsInvariant == AccountsSpec => []AccountsInv
<1>1. AccountsInit => AccountsInv
  BY AccountsStart
<1>2. LockInv /\ LockInv' /\ AccountsInv /\ [AccountsNext]_allVars => AccountsInv'
  BY AccountsStep
<1>3. QED
  BY <1>1, <1>2, AccountsLockInvariant, PTL DEF AccountsSpec

\* An admin's deletion leaves an admin: the one who asked, unless overtaken.
THEOREM DeletionsKeepAdmin == AccountsSpec => DeleteKeepsAdmin
<1>1. AccountsInv /\ [AccountsNext]_allVars =>
        [\A h \in Handler : Delete(h) => Admins' # {} \/ h \in overtaken]_allVars
  <2> SUFFICES ASSUME AccountsInv, NEW h \in Handler, Delete(h), h \notin overtaken
               PROVE  Admins' # {}
    OBVIOUS
  <2>1. Asked(h, "delete") /\ users' = [users EXCEPT ![Uid(h)] = Gone]
    BY DEF Delete
  <2>2. op[h].by # Uid(h) /\ IsAdmin(op[h].by)
    BY <2>1 DEF AccountsInv, ChecksHold
  <2>3. PICK b \in Account : b = op[h].by
    BY <2>1, BusyOp DEF AccountsInv, AccountsTypeOK, Ops, Asked
  <2>4. users'[b] = users[b]
    BY <2>1, <2>2, <2>3 DEF AccountsInv, AccountsTypeOK
  <2>5. IsAdmin(b)'
    BY <2>2, <2>3, <2>4 DEF IsAdmin, Present
  <2>6. QED
    BY <2>5 DEF Admins
<1>2. QED
  BY <1>1, AccountsInvariant, PTL DEF AccountsSpec, DeleteKeepsAdmin

\* A token goes to an account that is there and active, unless its request was overtaken.
THEOREM TokensGoToActive == AccountsSpec => TokensForActive
<1>1. AccountsInv /\ [AccountsNext]_allVars =>
        [\A h \in Handler : Issue(h) =>
           h \in overtaken \/ (Present(Uid(h)) /\ users[Uid(h)].active)]_allVars
  <2> SUFFICES ASSUME AccountsInv, NEW h \in Handler, Issue(h), h \notin overtaken
               PROVE  Present(Uid(h)) /\ users[Uid(h)].active
    OBVIOUS
  <2>1. op[h] # Idle /\ op[h].copy.active /\ op[h].copy = users[Uid(h)]
    BY DEF AccountsInv, Issue, Asked, ChecksHold, CopiesFresh
  <2>2. op[h].copy \in User
    BY <2>1, BusyOp DEF AccountsInv, AccountsTypeOK, Ops
  <2>3. QED
    BY <2>1, <2>2, SeedAssumption DEF Present
<1>2. QED
  BY <1>1, AccountsInvariant, PTL DEF AccountsSpec, TokensForActive
===============================================================================
