-------------------------------- MODULE Lockout --------------------------------
(***************************************************************************)
(* Account lockout of one user: login (app/auth/routes.py) over the        *)
(* counter and the lock of app/models/user.py.  Requests are handled at    *)
(* one time by greenlets and processes: each loads the user's row, decides *)
(* on what it loaded, and commits the columns it changed.  The Redis copy  *)
(* of the counter is left out (see module FaceCache).                      *)
(***************************************************************************)
EXTENDS Integers, FiniteSets

CONSTANTS
  Handler,       \* login requests handled at one time
  MaxAttempts,   \* max_attempts of record_failed_login (5)
  Duration,      \* lockout_seconds (300), in ticks
  MaxClock,      \* bound: ticks explored
  MaxFailures    \* bound: wrong passwords tried

ASSUME LockoutAssumption ==
  /\ MaxAttempts \in Nat \ {0} /\ Duration \in Nat \ {0}
  /\ MaxClock \in Nat /\ MaxFailures \in Nat

NeverLocked == -1   \* locked_until is NULL

VARIABLES
  clock,
  attempts,      \* failed_login_attempts
  lockedUntil,   \* locked_until
  pc,            \* pc[h]: "idle", or the password was "wrong" or "right"
  seen,          \* seen[h]: the row as h loaded it
  failures,      \* history: wrong passwords recorded since the last login or lock
  tried,         \* history: wrong passwords tried
  raced          \* history: a row was written while another request held a copy of it

row == <<attempts, lockedUntil>>
history == <<failures, tried, raced>>
vars == <<clock, row, pc, seen, history>>

Lock == {NeverLocked} \cup Nat
Row == [attempts : Nat, lockedUntil : Lock]

\* is_locked, on a row as it was loaded.
Locked(until) == until > clock
Expired(until) == until # NeverLocked /\ until <= clock

Init ==
  /\ clock = 0
  /\ attempts = 0 /\ lockedUntil = NeverLocked
  /\ pc = [h \in Handler |-> "idle"]
  /\ seen = [h \in Handler |-> [attempts |-> 0, lockedUntil |-> NeverLocked]]
  /\ failures = 0 /\ tried = 0 /\ raced = FALSE

-------------------------------------------------------------------------------
(* Actions *)

\* login loads the user and checks the password.
Load(h, password) ==
  /\ pc[h] = "idle"
  /\ password = "wrong" => tried < MaxFailures
  /\ pc' = [pc EXCEPT ![h] = password]
  /\ seen' = [seen EXCEPT ![h] = [attempts |-> attempts, lockedUntil |-> lockedUntil]]
  /\ tried' = tried + (IF password = "wrong" THEN 1 ELSE 0)
  /\ UNCHANGED <<clock, row, failures, raced>>

\* The request is over and its copy of the row is gone.
Done(h) ==
  /\ pc' = [pc EXCEPT ![h] = "idle"]
  /\ seen' = [seen EXCEPT ![h] = [attempts |-> 0, lockedUntil |-> NeverLocked]]

\* h commits what it computed from its copy.
Write(h) ==
  /\ Done(h)
  /\ raced' = (raced \/ \E g \in Handler : g # h /\ pc[g] # "idle")
  /\ UNCHANGED <<clock, tried>>

\* Mutant: the account is locked one failure later.
FailLater(h) ==
  /\ pc[h] = "wrong"
  /\ attempts' = seen[h].attempts + 1
  /\ IF attempts' > MaxAttempts
     THEN lockedUntil' = clock + Duration /\ failures' = 0
     ELSE failures' = failures + 1 /\ UNCHANGED lockedUntil
  /\ Write(h)

\* record_failed_login: locked or not, one more than was loaded; it never asks is_locked.
Fail(h) ==
  /\ pc[h] = "wrong"
  /\ attempts' = seen[h].attempts + 1
  /\ IF attempts' >= MaxAttempts
     THEN lockedUntil' = clock + Duration /\ failures' = 0
     ELSE failures' = failures + 1 /\ UNCHANGED lockedUntil
  /\ Write(h)

\* The right password on a row that was locked: refused, nothing written.
Refuse(h) ==
  /\ pc[h] = "right" /\ Locked(seen[h].lockedUntil)
  /\ Done(h)
  /\ UNCHANGED <<clock, row, history>>

\* The account is disabled, or the MFA code is missing or wrong: is_locked's reset of an
\* expired lock stays in memory.
TurnAway(h) ==
  /\ pc[h] = "right" /\ ~Locked(seen[h].lockedUntil)
  /\ Done(h)
  /\ UNCHANGED <<clock, row, history>>

\* Mutant: the lock is cleared whatever it was when the row was loaded.
SucceedBlind(h) ==
  /\ pc[h] = "right" /\ ~Locked(seen[h].lockedUntil)
  /\ attempts' = 0 /\ lockedUntil' = NeverLocked
  /\ failures' = 0
  /\ Write(h)

\* record_successful_login writes what differs from what was loaded.
Succeed(h) ==
  /\ pc[h] = "right" /\ ~Locked(seen[h].lockedUntil)
  /\ attempts' = IF seen[h].attempts = 0 THEN attempts ELSE 0
  /\ lockedUntil' = IF seen[h].lockedUntil = NeverLocked THEN lockedUntil ELSE NeverLocked
  /\ failures' = 0
  /\ Write(h)

Tick ==
  /\ clock < MaxClock
  /\ clock' = clock + 1
  /\ UNCHANGED <<row, pc, seen, history>>

Next ==
  \/ \E h \in Handler :
       \/ \E password \in {"wrong", "right"} : Load(h, password)
       \/ Fail(h) \/ Refuse(h) \/ TurnAway(h) \/ Succeed(h)
  \/ Tick

Spec == Init /\ [][Next]_vars

-------------------------------------------------------------------------------
(* Properties *)

\* Every variable has its type.
TypeOK ==
  /\ clock \in Nat /\ attempts \in Nat
  /\ lockedUntil \in Lock
  /\ pc \in [Handler -> {"idle", "wrong", "right"}]
  /\ seen \in [Handler -> Row]
  /\ failures \in Nat /\ tried \in Nat /\ raced \in BOOLEAN

\* However requests interleave, a lock in force ends early only at the hands of a login
\* that had loaded an older lock, expired.
LockEndsByExpiry ==
  [][Locked(lockedUntil) /\ lockedUntil' < lockedUntil =>
       \E h \in Handler : pc[h] = "right" /\ Expired(seen[h].lockedUntil)]_vars

\* The account is locked by the last of MaxAttempts failures in a row, unless a request
\* wrote over a row that another had loaded and the two failures counted once.
LockedAfterMax == failures < MaxAttempts \/ raced

\* Without such a race no login ends or shortens a lock that is in force.
LockHolds == [][Locked(lockedUntil) /\ ~raced' => lockedUntil' >= lockedUntil]_vars

\* Behind the three: no lock reaches further than Duration from now; until a race, every
\* request holds the row as it is, and the counter misses none of the failures.
LockAhead == lockedUntil <= clock + Duration
CopiesCurrent ==
  \A h \in Handler : pc[h] # "idle" =>
    seen[h] = [attempts |-> attempts, lockedUntil |-> lockedUntil]
LockInv ==
  /\ TypeOK /\ LockAhead /\ LockedAfterMax
  /\ raced \/ (CopiesCurrent /\ failures <= attempts)
===============================================================================
