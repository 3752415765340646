-------------------------------- MODULE Accounts --------------------------------
(***************************************************************************)
(* Accounts of the web application: login with MFA, token refresh and MFA  *)
(* set-up (app/auth/routes.py), registration and administration            *)
(* (app/api/admin.py) over the users table, around the lockout of one      *)
(* account (module Lockout). A handler checks what it has loaded, then     *)
(* commits the columns that it changed: what another commits in between it *)
(* neither sees nor, in other columns, overwrites.                         *)
(* Who holds a token is left open: it outlives whatever becomes of its     *)
(* account. Passwords are right or wrong.                                  *)
(***************************************************************************)
EXTENDS Lockout

CONSTANTS
  Account,      \* ids of the users table; none is given twice
  Self,         \* the account whose lockout Lockout models
  Name,         \* user names
  Seed,         \* Seed[a]: rows the application starts from, NoRow where there is none
  NoRow, Gone,  \* an id not yet inserted, and one deleted
  MaxSecret,    \* bound: MFA secrets generated
  MaxRequests   \* bound: requests explored

ASSUME AccountAssumption == Self \in Account /\ MaxSecret \in Nat /\ MaxRequests \in Nat

VARIABLES
  users,      \* users[a]: the other columns of a's row
  op,         \* op[h]: what h has been asked and what it has loaded
  lastSecret  \* pyotp.random_base32 never repeats itself

\* What has happened, for the properties: no action reads these but the bound.
VARIABLES
  proven,     \* proven[a]: the last secret a right code was given for
  spoiled,    \* accounts whose secret was replaced while enabled, or written by the overtaken
  overtaken,  \* handlers that hold a copy of a row another has written since
  begun       \* requests begun

accountVars == <<users, op, lastSecret, proven, spoiled, overtaken, begun>>
allVars == <<vars, accountVars>>

NoSecret == 0
Role == {"admin", "teacher"}
User == [name : Name, role : Role, active : BOOLEAN, enabled : BOOLEAN, secret : 0..MaxSecret]
Idle == [kind |-> "idle"]
Kinds == {"refresh", "setup", "verify", "disable", "register", "update", "delete", "login", "session"}

\* What seed_defaults inserts: names of their own, MFA not set up.
ASSUME SeedAssumption ==
  /\ NoRow \notin User /\ Gone \notin User /\ NoRow # Gone
  /\ Seed \in [Account -> User \cup {NoRow}]
  /\ \A a, b \in Account :
       Seed[a] # NoRow => /\ ~Seed[a].enabled /\ Seed[a].secret = NoSecret
                          /\ Seed[b] # NoRow /\ Seed[a].name = Seed[b].name => a = b

Present(a) == users[a] \notin {NoRow, Gone}
\* role_required asks the table, not the token.
IsAdmin(a) == Present(a) /\ users[a].role = "admin"
Admins == {a \in Account : IsAdmin(a)}

AccountsInit ==
  /\ Init
  /\ users = Seed
  /\ op = [h \in Handler |-> Idle]
  /\ lastSecret = NoSecret
  /\ proven = [a \in Account |-> NoSecret]
  /\ spoiled = {} /\ overtaken = {} /\ begun = 0

-------------------------------------------------------------------------------
(* Requests are received: the handler loads the row and checks it. *)

Begin(h, kind, by, uid, name) ==
  /\ op[h] = Idle /\ begun < MaxRequests
  /\ op' = [op EXCEPT ![h] =
       [kind |-> kind, by |-> by, uid |-> uid, name |-> name, copy |-> users[uid]]]
  /\ begun' = begun + 1
  /\ UNCHANGED <<users, lastSecret, proven, spoiled, overtaken>>

\* Mutant: refresh does not look at is_active.
OwnRequestUnasked(h, a) ==
  /\ Present(a)
  /\ \E kind \in {"refresh", "setup", "verify", "disable"} :
       /\ kind = "verify" => users[a].secret # NoSecret
       /\ Begin(h, kind, a, a, users[a].name)

\* refresh, mfa_setup, mfa_verify with the code of the loaded secret, mfa_disable with the
\* password.
OwnRequest(h, a) ==
  /\ Present(a)
  /\ \E kind \in {"refresh", "setup", "verify", "disable"} :
       /\ kind = "refresh" => users[a].active
       /\ kind = "verify" => users[a].secret # NoSecret
       /\ Begin(h, kind, a, a, users[a].name)

\* register: the name must be free.
RegisterRequest(h, by) ==
  /\ IsAdmin(by)
  /\ \E n \in Name :
       /\ \A a \in Account : Present(a) => users[a].name # n
       /\ Begin(h, "register", by, by, n)

\* Mutant: an admin may delete the own account.
AdminRequestSelf(h, by) ==
  /\ IsAdmin(by)
  /\ \E uid \in Account, kind \in {"update", "delete"} :
       Present(uid) /\ Begin(h, kind, by, uid, users[by].name)

\* update_user and delete_user, which spares the one who asks.
AdminRequest(h, by) ==
  /\ IsAdmin(by)
  /\ \E uid \in Account, kind \in {"update", "delete"} :
       /\ Present(uid)
       /\ kind = "delete" => uid # by
       /\ Begin(h, kind, by, uid, users[by].name)

-------------------------------------------------------------------------------
(* Handlers commit. *)

Asked(h, kind) == op[h] # Idle /\ op[h].kind = kind
Uid(h) == op[h].uid
Over(h) == op' = [op EXCEPT ![h] = Idle] /\ UNCHANGED begun

\* h writes row a: whoever else has read it is overtaken.
Writes(h, a) ==
  /\ Over(h)
  /\ overtaken' = (overtaken \cup {t \in Handler : op[t] # Idle /\ a \in {op[t].by, op[t].uid}}) \ {h}

\* The session writes a column only when it differs from what it has loaded.
Column(now, loaded, set) == IF set = loaded THEN now ELSE set

Setup(h) ==
  /\ Asked(h, "setup") /\ Present(Uid(h))
  /\ lastSecret < MaxSecret
  /\ lastSecret' = lastSecret + 1
  /\ users' = [users EXCEPT ![Uid(h)].secret = lastSecret']
  /\ spoiled' = IF users[Uid(h)].enabled THEN spoiled \cup {Uid(h)} ELSE spoiled
  /\ Writes(h, Uid(h))
  /\ UNCHANGED proven

Settles(h) == spoiled' = IF h \in overtaken THEN spoiled \cup {Uid(h)} ELSE spoiled \ {Uid(h)}

Verify(h) ==
  /\ Asked(h, "verify") /\ Present(Uid(h))
  /\ users' = [users EXCEPT ![Uid(h)].enabled = Column(@, op[h].copy.enabled, TRUE)]
  /\ proven' = [proven EXCEPT ![Uid(h)] = op[h].copy.secret]
  /\ Settles(h)
  /\ Writes(h, Uid(h))
  /\ UNCHANGED lastSecret

\* Mutant: the secret is cleared and MFA left enabled.
DisableSecret(h) ==
  /\ Asked(h, "disable") /\ Present(Uid(h))
  /\ users' = [users EXCEPT ![Uid(h)].secret = Column(@, op[h].copy.secret, NoSecret)]
  /\ Settles(h)
  /\ Writes(h, Uid(h))
  /\ UNCHANGED <<lastSecret, proven>>

Disable(h) ==
  /\ Asked(h, "disable") /\ Present(Uid(h))
  /\ users' = [users EXCEPT
       ![Uid(h)].enabled = Column(@, op[h].copy.enabled, FALSE),
       ![Uid(h)].secret = Column(@, op[h].copy.secret, NoSecret)]
  /\ Settles(h)
  /\ Writes(h, Uid(h))
  /\ UNCHANGED <<lastSecret, proven>>

\* The name is unique: a second insert raises.
Register(h) ==
  /\ Asked(h, "register")
  /\ \A a \in Account : Present(a) => users[a].name # op[h].name
  /\ \E a \in Account, role \in Role :
       /\ users[a] = NoRow
       /\ users' = [users EXCEPT ![a] = [name |-> op[h].name, role |-> role, active |-> TRUE,
                                         enabled |-> FALSE, secret |-> NoSecret]]
       /\ Writes(h, a)
  /\ UNCHANGED <<lastSecret, proven, spoiled>>

\* Any admin may demote or deactivate anyone, the own account included.
Update(h) ==
  /\ Asked(h, "update") /\ Present(Uid(h))
  /\ \E role \in Role, active \in BOOLEAN :
       users' = [users EXCEPT
         ![Uid(h)].role = Column(@, op[h].copy.role, role),
         ![Uid(h)].active = Column(@, op[h].copy.active, active)]
  /\ Writes(h, Uid(h))
  /\ UNCHANGED <<lastSecret, proven, spoiled>>

\* Deleting a row that is already gone is no error.
Delete(h) ==
  /\ Asked(h, "delete")
  /\ users' = [users EXCEPT ![Uid(h)] = Gone]
  /\ Writes(h, Uid(h))
  /\ UNCHANGED <<lastSecret, proven, spoiled>>

\* The last step of refresh, and of login after its commit, which reads the row anew.
Issue(h) ==
  /\ Asked(h, "refresh") \/ (Asked(h, "session") /\ Present(Uid(h)))
  /\ Over(h)
  /\ overtaken' = overtaken \ {h}
  /\ UNCHANGED <<users, lastSecret, proven, spoiled>>

\* The commit raises: the row is gone, a name or an email is taken, sessions refer to the
\* account, or the database is away.
Raise(h) ==
  /\ op[h] # Idle /\ op[h].kind \notin {"login", "refresh"}
  /\ Over(h)
  /\ overtaken' = overtaken \ {h}
  /\ UNCHANGED <<users, lastSecret, proven, spoiled>>

-------------------------------------------------------------------------------
(* login, whose counter and lock are those of Lockout. *)

LoginLoad(h, password) ==
  /\ Present(Self)
  /\ Load(h, password)
  /\ Begin(h, "login", Self, Self, users[Self].name)

LoginOver(h) ==
  /\ Over(h)
  /\ overtaken' = overtaken \ {h}
  /\ UNCHANGED <<users, lastSecret, proven, spoiled>>

LoginFail(h) == Present(Self) /\ Fail(h) /\ LoginOver(h)

\* The account is disabled, a code is missing or wrong, or there is no secret to check it by.
LoginTurnAway(h) ==
  /\ Asked(h, "login") /\ (op[h].copy.active => op[h].copy.enabled)
  /\ TurnAway(h) /\ LoginOver(h)

\* Writing or reading a row that is gone raises.
LoginGone(h) ==
  /\ Asked(h, "login") /\ ~Present(Self)
  /\ Done(h) /\ LoginOver(h)
  /\ UNCHANGED <<clock, row, history>>

LoginSucceed(h) ==
  /\ Asked(h, "login") /\ Present(Self)
  /\ op[h].copy.active
  /\ op[h].copy.enabled => op[h].copy.secret # NoSecret
  /\ Succeed(h)
  /\ op' = [op EXCEPT ![h].kind = "session"]
  /\ UNCHANGED <<users, lastSecret, proven, spoiled, overtaken, begun>>

Login(h) ==
  \/ \E password \in {"wrong", "right"} : LoginLoad(h, password)
  \/ LoginFail(h) \/ LoginTurnAway(h) \/ LoginGone(h) \/ LoginSucceed(h)
  \/ Refuse(h) /\ LoginOver(h)

Request(h) ==
  \E a \in Account : OwnRequest(h, a) \/ RegisterRequest(h, a) \/ AdminRequest(h, a)

Commit(h) ==
  \/ Setup(h) \/ Verify(h) \/ Disable(h)
  \/ Register(h) \/ Update(h) \/ Delete(h)
  \/ Issue(h) \/ Raise(h)

AccountsNext ==
  \/ \E h \in Handler : Login(h) \/ ((Request(h) \/ Commit(h)) /\ UNCHANGED vars)
  \/ Tick /\ UNCHANGED accountVars

AccountsSpec == AccountsInit /\ [][AccountsNext]_allVars

-------------------------------------------------------------------------------
(* Properties *)

\* Every variable has its type; a handler at login is one for Lockout too. No secret is in
\* use that was not generated.
AccountsTypeOK ==
  /\ users \in [Account -> User \cup {NoRow, Gone}]
  /\ op \in [Handler -> {Idle} \cup
       [kind : Kinds, by : Account, uid : Account, name : Name, copy : User]]
  /\ \A h \in Handler : pc[h] # "idle" <=> Asked(h, "login")
  /\ lastSecret \in 0..MaxSecret
  /\ \A a \in Account : Present(a) => users[a].secret <= lastSecret
  /\ \A h \in Handler : op[h] # Idle => op[h].copy.secret <= lastSecret
  /\ proven \in [Account -> 0..lastSecret]
  /\ spoiled \subseteq Account
  /\ overtaken \subseteq {h \in Handler : op[h] # Idle}

\* Two registrations of one name that both find it free do not both insert it.
NamesUnique ==
  \A a, b \in Account : Present(a) /\ Present(b) /\ users[a].name = users[b].name => a = b

\* An account that has MFA enabled has a secret, and a right code has been given for it:
\* its owner can log in. It is otherwise only after a set-up while MFA was enabled, or when
\* a verification or a disabling was overtaken by another write to the row.
MfaUsable ==
  \A a \in Account : Present(a) /\ users[a].enabled =>
    a \in spoiled \/ (users[a].secret # NoSecret /\ users[a].secret = proven[a])

\* Behind the two: a handler that nobody has overtaken holds the row as it is, and what it
\* checked when it began still holds.
CopiesFresh ==
  \A h \in Handler : op[h] # Idle /\ h \notin overtaken => op[h].copy = users[Uid(h)]
ChecksHold ==
  \A h \in Handler :
    /\ Asked(h, "verify") => op[h].copy.secret # NoSecret
    /\ Asked(h, "refresh") \/ Asked(h, "session") => op[h].copy.active
    /\ Asked(h, "delete") => op[h].by # Uid(h) /\ (h \in overtaken \/ IsAdmin(op[h].by))

\* The users table stays in order however requests overlap: typed, with unique names, and
\* with no account that MFA locks out (register, mfa_setup, mfa_verify, mfa_disable). With
\* what lies behind it this is inductive.
AccountsInv == AccountsTypeOK /\ NamesUnique /\ MfaUsable /\ CopiesFresh /\ ChecksHold

\* Deleting accounts never leaves the application without an admin, unless two admins
\* write to each other's accounts at one time.
DeleteKeepsAdmin == [][\A h \in Handler : Delete(h) => Admins' # {} \/ h \in overtaken]_allVars

\* A token is issued to an account that is there and active, unless it was disabled or
\* deleted while the handler that issues it was under way.
TokensForActive ==
  [][\A h \in Handler : Issue(h) =>
       h \in overtaken \/ (Present(Uid(h)) /\ users[Uid(h)].active)]_allVars
===============================================================================
