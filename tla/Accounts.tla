------------------------------ MODULE Accounts ------------------------------
(***************************************************************************)
(* Sign-in, the guards in front of every handler, and the handlers that    *)
(* change accounts: internal/usecase/auth, AuthMiddleware and RequireRoles *)
(* of internal/adapters/http, and its UserHandler.  A request is a         *)
(* goroutine; it touches shared state in single SQL statements on the      *)
(* users table and in reading the clock, and other requests run between    *)
(* these.                                                                  *)
(*                                                                         *)
(* A user name is unique and never changes, so it stands for the id too.   *)
(* Accounts are never deleted.  A password and its bcrypt hash are one     *)
(* value.  Requests that fail validation change nothing and are left out.  *)
(***************************************************************************)
EXTENDS Integers, FiniteSets

CONSTANTS
  Names,         \* user names
  Passwords,     \* passwords long enough to be accepted
  Clients,       \* requests that may be under way at once
  FirstAccounts, \* the users table at the start
  NewAccounts,   \* rows that an administrator may insert
  TTL,           \* JWT_TOKEN_TTL
  MaxEvents      \* bound on the changes of the users table and on the ticks

Roles == {"operator", "technologist", "admin"}

Account == [password : Passwords, role : Roles, active : BOOLEAN]

ASSUME AccountsAssumption ==
  /\ \E given \in SUBSET Names : FirstAccounts \in [given -> Account]
  /\ NewAccounts \subseteq Account
  /\ IsFiniteSet(Clients)
  /\ TTL \in Nat \ {0}
  /\ MaxEvents \in Nat

VARIABLES
  users,     \* the users table: name -> row
  now,       \* the clock
  tokens,    \* the tokens handed out
  request,   \* the request each client has under way
  changes,   \* changes of the users table so far
  held       \* history: the rows that the account of a request had during it

vars == <<users, now, tokens, request, changes, held>>

(* What a request asks for, past sign-in.                                  *)
Operations ==
       [do : {"me", "list"}]
  \cup [do : {"role"}, target : Names, role : Roles]
  \cup [do : {"activate", "deactivate"}, target : Names]
  \cup [do : {"reset"}, target : Names, password : Passwords]
  \cup [do : {"create"}, target : Names, account : NewAccounts]
  \cup {op \in [do : {"change"}, old : Passwords, new : Passwords] : op.old # op.new}

(* The roles given to `roles' in the router; `protected' admits all.       *)
Admits(op) == IF op.do \in {"me", "change"} THEN Roles ELSE {"admin"}

Changing(op) == op.do \notin {"me", "list", "login"}

NoRequest == [stage |-> "idle"]

Token == [user : Names, role : Roles, expires : Nat]

Init ==
  /\ users = FirstAccounts
  /\ now = 0
  /\ tokens = {}
  /\ request = [c \in Clients |-> NoRequest]
  /\ changes = 0
  /\ held = [c \in Clients |-> {}]

-----------------------------------------------------------------------------
Row(name) == {users[n] : n \in {name} \cap DOMAIN users}

Begin(c, stage, name, role, op) ==
  /\ request[c] = NoRequest
  /\ request' = [request EXCEPT ![c] =
                   [stage |-> stage, name |-> name, role |-> role, op |-> op]]
  /\ held' = [held EXCEPT ![c] = Row(name)]

GoTo(c, stage) == request' = [request EXCEPT ![c].stage = stage]

(* An answer, whatever it is: the request is over. *)
Answer(c) ==
  /\ request' = [request EXCEPT ![c] = NoRequest]
  /\ held' = [held EXCEPT ![c] = {}]

(* An answer after a change of the table; the requests of the same account *)
(* have now met one more row of it.                                        *)
AnswerChanged(c) ==
  /\ changes' = changes + 1
  /\ request' = [request EXCEPT ![c] = NoRequest]
  /\ held' = [d \in Clients |->
       IF d = c \/ request[d] = NoRequest THEN {}
       ELSE held[d] \cup
            {users'[n] : n \in {request[d].name} \cap DOMAIN users'}]
  /\ UNCHANGED <<now, tokens>>

(***************************************************************************)
(* Service.Login.                                                          *)
(***************************************************************************)
Login(c, name, password) ==
  /\ Begin(c, "sign in", name, "none", [do |-> "login", password |-> password])
  /\ UNCHANGED <<users, now, tokens, changes>>

(* A faulty variant for the checks: any password will do. *)
AnyPassword(password, row) == TRUE

(* PasswordHasher.Check. *)
Check(password, row) == password = row.password

(* A faulty variant: that no row is found is not taken for an error.       *)
AnybodySignsIn(c) ==
  /\ request[c].stage = "sign in"
  /\ IF \A row \in Row(request[c].name) :
          row.active /\ Check(request[c].op.password, row)
     THEN GoTo(c, "token") /\ UNCHANGED held
     ELSE Answer(c)
  /\ UNCHANGED <<users, now, tokens, changes>>

(* FindByUsername, and the checks of the row it returns. *)
FindByUsername(c) ==
  /\ request[c].stage = "sign in"
  /\ IF \E row \in Row(request[c].name) :
          row.active /\ Check(request[c].op.password, row)
     THEN /\ \E row \in Row(request[c].name) :
               request' = [request EXCEPT ![c] =
                             [@ EXCEPT !.stage = "token", !.role = row.role]]
          /\ UNCHANGED held
     ELSE Answer(c)
  /\ UNCHANGED <<users, now, tokens, changes>>

(* TokenManager.Generate: for the row read before, with the time of now.   *)
Generate(c) ==
  /\ request[c].stage = "token"
  /\ tokens' = tokens \cup {[user    |-> request[c].name,
                             role    |-> request[c].role,
                             expires |-> now + TTL]}
  /\ Answer(c)
  /\ UNCHANGED <<users, now, changes>>

(***************************************************************************)
(* AuthMiddleware and RequireRoles.                                        *)
(***************************************************************************)
Pending == {c \in Clients : request[c] # NoRequest /\ Changing(request[c].op)}

(* TokenManager.Parse. *)
Authorize(c, token, op) ==
  /\ Changing(op) => now + changes + Cardinality(Pending) < MaxEvents
  /\ now < token.expires
  /\ Begin(c, "authorize", token.user, token.role, op)
  /\ UNCHANGED <<users, now, tokens, changes>>

(* Faulty variants: the token's role is trusted; an inactive account is    *)
(* not turned away.                                                        *)
AdmittedByToken(c, row) == row.active /\ request[c].role \in Admits(request[c].op)

AdmittedInactive(c, row) == row.role \in Admits(request[c].op)

Admitted(c, row) == row.active /\ row.role \in Admits(request[c].op)

(* FindByID, and the decision on the row it returns.  The handler gets to  *)
(* see this row, not a later one.                                          *)
FindCurrentUser(c) ==
  /\ request[c].stage = "authorize"
  /\ IF \E row \in Row(request[c].name) : Admitted(c, row)
     THEN GoTo(c, "handle") /\ UNCHANGED held
     ELSE Answer(c)
  /\ UNCHANGED <<users, now, tokens, changes>>

(***************************************************************************)
(* The handlers.                                                           *)
(***************************************************************************)
Handles(c, do) == request[c].stage = "handle" /\ request[c].op.do = do

Target(c) == request[c].op.target

Read(c) ==
  /\ Handles(c, "me") \/ Handles(c, "list")
  /\ Answer(c)
  /\ UNCHANGED <<users, now, tokens, changes>>

UpdateRole(c) ==
  /\ Handles(c, "role")
  /\ Target(c) \in DOMAIN users
  /\ users' = [users EXCEPT ![Target(c)].role = request[c].op.role]
  /\ AnswerChanged(c)

SetActive(c) ==
  /\ Handles(c, "activate") \/ Handles(c, "deactivate")
  /\ Target(c) \in DOMAIN users
  /\ users' = [users EXCEPT ![Target(c)].active = (request[c].op.do = "activate")]
  /\ AnswerChanged(c)

ResetPassword(c) ==
  /\ Handles(c, "reset")
  /\ Target(c) \in DOMAIN users
  /\ users' = [users EXCEPT ![Target(c)].password = request[c].op.password]
  /\ AnswerChanged(c)

(* The three of them answer 404 for an account that is not there.          *)
TargetNotFound(c) ==
  /\ \E do \in {"role", "activate", "deactivate", "reset"} : Handles(c, do)
  /\ Target(c) \notin DOMAIN users
  /\ Answer(c)
  /\ UNCHANGED <<users, now, tokens, changes>>

CreateUser(c) ==
  /\ Handles(c, "create")
  /\ Target(c) \notin DOMAIN users
  /\ users' = [n \in DOMAIN users \cup {Target(c)} |->
                 IF n \in DOMAIN users THEN users[n] ELSE request[c].op.account]
  /\ AnswerChanged(c)

(* users.username is UNIQUE: 409. *)
UserExists(c) ==
  /\ Handles(c, "create")
  /\ Target(c) \in DOMAIN users
  /\ Answer(c)
  /\ UNCHANGED <<users, now, tokens, changes>>

(* Service.ChangePassword: FindByID once more, and its checks; the new     *)
(* password differs from the old one already by validation.                *)
FindOwnAccount(c) ==
  /\ Handles(c, "change")
  /\ IF \E row \in Row(request[c].name) :
          row.active /\ Check(request[c].op.old, row)
     THEN GoTo(c, "store") /\ UNCHANGED held
     ELSE Answer(c)
  /\ UNCHANGED <<users, now, tokens, changes>>

(* UpdatePassword: WHERE id = $1, whatever the row holds by now.           *)
StorePassword(c) ==
  /\ request[c].stage = "store"
  /\ users' = [users EXCEPT ![request[c].name].password = request[c].op.new]
  /\ AnswerChanged(c)

(* A statement fails and has not been executed.  (One whose answer is lost *)
(* leaves the same state as one that is answered.)                         *)
StatementFails(c) ==
  /\ request[c].stage \in {"sign in", "authorize", "handle", "store"}
  /\ Answer(c)
  /\ UNCHANGED <<users, now, tokens, changes>>

RequestStep(c) ==
  \/ FindByUsername(c)
  \/ Generate(c)
  \/ FindCurrentUser(c)
  \/ Read(c)
  \/ UpdateRole(c)
  \/ SetActive(c)
  \/ ResetPassword(c)
  \/ TargetNotFound(c)
  \/ CreateUser(c)
  \/ UserExists(c)
  \/ FindOwnAccount(c)
  \/ StorePassword(c)
  \/ StatementFails(c)

Tick ==
  /\ now + changes + Cardinality(Pending) < MaxEvents
  /\ now' = now + 1
  /\ UNCHANGED <<users, tokens, request, changes, held>>

Next ==
  \/ \E c \in Clients :
       \/ \E name \in Names, password \in Passwords : Login(c, name, password)
       \/ \E token \in tokens, op \in Operations : Authorize(c, token, op)
       \/ RequestStep(c)
  \/ Tick

Spec == Init /\ [][Next]_vars

(* A request under way is a running goroutine; its statements time out.    *)
FairSpec == Spec /\ \A c \in Clients : WF_vars(RequestStep(c))
-----------------------------------------------------------------------------
(* Types; a request past its guard is one of an account that exists.       *)
TypeOK ==
  /\ DOMAIN users \subseteq Names
  /\ \A n \in DOMAIN users : users[n] \in Account
  /\ now \in 0..MaxEvents
  /\ tokens \subseteq Token
  /\ changes \in 0..MaxEvents
  /\ \A c \in Clients :
       /\ request[c].stage \in
            {"idle", "sign in", "token", "authorize", "handle", "store"}
       /\ request[c].stage \in {"token", "authorize", "handle", "store"} =>
            request[c].name \in DOMAIN users
       /\ held[c] \subseteq Account

(* The rights with which a request acts are the account's own, of a moment *)
(* during the request: a token that was handed out before the account was  *)
(* demoted or deactivated carries no rights of that time, although it says *)
(* so in its claims and has not expired.                                   *)
RightsWereHeld ==
  \A c \in Clients : request[c].stage \in {"handle", "store"} =>
    \E row \in held[c] : row.active /\ row.role \in Admits(request[c].op)

(* A token is handed out, and a password replaced, only to somebody who    *)
(* gave a password that was the account's during the request: a password   *)
(* reset before the request began is of no use any more.                   *)
CredentialsWereCurrent ==
  \A c \in Clients :
    /\ request[c].stage = "token" =>
         \E row \in held[c] : row.active /\ row.password = request[c].op.password
    /\ request[c].stage = "store" =>
         \E row \in held[c] : row.active /\ row.password = request[c].op.old

(* An account that is not activated again sooner or later acts no more:    *)
(* requests that had passed the guard before end, new ones do not pass.    *)
DeactivationTakesEffect ==
  \A n \in Names :
    <>[](n \in DOMAIN users /\ ~ users[n].active) =>
      <>[](\A c \in Clients :
             request[c].stage \in {"handle", "store"} => request[c].name # n)
=============================================================================
