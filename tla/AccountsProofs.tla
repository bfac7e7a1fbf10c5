--------------------------- MODULE AccountsProofs ---------------------------
(***************************************************************************)
(* Proofs about Accounts: what a request was allowed to do when its guard  *)
(* let it in, it was allowed to do at a moment of the request itself.      *)
(* That needs no assumption on the constants, neither on the number of     *)
(* requests nor on the bound of their changes; the types of the state, at  *)
(* the end, need the one that Accounts states.                             *)
(***************************************************************************)
EXTENDS Accounts, TLAPS, FiniteSetTheorems

(* What is known of a request, of the rows h of its account that it has    *)
(* met, and of the row it would find now: that one is among those met, and *)
(* the request has passed its guards with rows it met.                     *)
Sound(r, h, found) ==
  \/ r = NoRequest
  \/ /\ \E stage, name, role, op :
          r = [stage |-> stage, name |-> name, role |-> role, op |-> op]
     /\ found \subseteq h
     /\ r.stage \in {"handle", "store"} =>
          \E row \in h : row.active /\ row.role \in Admits(r.op)
     /\ r.stage = "token" =>
          \E row \in h : row.active /\ row.password = r.op.password
     /\ r.stage = "store" =>
          \E row \in h : row.active /\ row.password = r.op.old

IInv ==
  /\ request = [c \in Clients |-> request[c]]
  /\ held = [c \in Clients |-> held[c]]
  /\ \A c \in Clients : Sound(request[c], held[c], Row(request[c].name))

(* The form in which the steps use and establish the soundness of a        *)
(* request under way.                                                      *)
LEMMA UseSound ==
  ASSUME NEW r, NEW h, NEW found, Sound(r, h, found), r.stage # "idle"
  PROVE  /\ r # NoRequest
         /\ r = [stage |-> r.stage, name |-> r.name, role |-> r.role, op |-> r.op]
         /\ found \subseteq h
<1>1. r # NoRequest
  BY DEF NoRequest
<1>2. PICK stage, name, role, op :
        r = [stage |-> stage, name |-> name, role |-> role, op |-> op]
  BY <1>1 DEF Sound
<1>3. r = [stage |-> r.stage, name |-> r.name, role |-> r.role, op |-> r.op]
  BY <1>2
<1> QED
  BY <1>1, <1>3 DEF Sound

LEMMA MakeSound ==
  ASSUME NEW stage, NEW name, NEW role, NEW op, NEW h, NEW found, found \subseteq h,
         stage \in {"handle", "store"} =>
           \E row \in h : row.active /\ row.role \in Admits(op),
         stage = "token" => \E row \in h : row.active /\ row.password = op.password,
         stage = "store" => \E row \in h : row.active /\ row.password = op.old
  PROVE  Sound([stage |-> stage, name |-> name, role |-> role, op |-> op], h, found)
<1> DEFINE r == [stage |-> stage, name |-> name, role |-> role, op |-> op]
<1>1. r.stage = stage /\ r.op = op
  OBVIOUS
<1>2. \E s, n, o, p : r = [stage |-> s, name |-> n, role |-> o, op |-> p]
  OBVIOUS
<1> HIDE DEF r
<1>3. Sound(r, h, found)
  BY <1>1, <1>2 DEF Sound
<1> QED
  BY <1>3 DEF r

LEMMA SoundIsEnough == IInv => RightsWereHeld /\ CredentialsWereCurrent
<1> SUFFICES ASSUME IInv, NEW c \in Clients
    PROVE  /\ request[c].stage \in {"handle", "store"} =>
                \E row \in held[c] : row.active /\ row.role \in Admits(request[c].op)
           /\ request[c].stage = "token" =>
                \E row \in held[c] : row.active /\ row.password = request[c].op.password
           /\ request[c].stage = "store" =>
                \E row \in held[c] : row.active /\ row.password = request[c].op.old
  BY DEF RightsWereHeld, CredentialsWereCurrent
<1>1. Sound(request[c], held[c], Row(request[c].name))
  BY DEF IInv
<1>2. request[c] = NoRequest => request[c].stage = "idle"
  BY DEF NoRequest
<1> QED
  BY <1>1, <1>2 DEF Sound

LEMMA InitIsSound == Init => IInv
  BY DEF Init, IInv, Sound

(* A step that changes one request, and no row, leaves the others sound.   *)
LEMMA OneRequest ==
  ASSUME IInv, UNCHANGED users, NEW c \in Clients, NEW r, NEW h,
         request' = [request EXCEPT ![c] = r],
         held' = [held EXCEPT ![c] = h],
         Sound(r, h, Row(r.name))
  PROVE  IInv'
<1>1. /\ request' = [d \in Clients |-> IF d = c THEN r ELSE request[d]]
      /\ held' = [d \in Clients |-> IF d = c THEN h ELSE held[d]]
  BY DEF IInv
<1>2. \A name : Row(name)' = Row(name)
  BY DEF Row
<1>3. ASSUME NEW d \in Clients
      PROVE  Sound(request'[d], held'[d], Row(request'[d].name))
  BY <1>1 DEF IInv
<1>4. ASSUME NEW d \in Clients
      PROVE  Sound(request[d], held[d], Row(request[d].name))'
  <2>1. Row(request[d].name)' = Row(request'[d].name)
    BY <1>2 DEF Row
  <2> QED
    BY <1>3, <2>1
<1> QED
  BY <1>1, <1>4 DEF IInv

LEMMA AnswerIsSound ==
  ASSUME IInv, UNCHANGED users, NEW c \in Clients, Answer(c)
  PROVE  IInv'
<1>1. Sound(NoRequest, {}, Row(NoRequest.name))
  BY DEF Sound
<1> QED
  BY <1>1, OneRequest DEF Answer

(* A change of the table is met by all requests of the account.            *)
LEMMA AnswerChangedIsSound ==
  ASSUME IInv, NEW c \in Clients, AnswerChanged(c)
  PROVE  IInv'
<1>1. /\ request' = [d \in Clients |-> IF d = c THEN NoRequest ELSE request[d]]
      /\ held' = [d \in Clients |->
           IF d = c \/ request[d] = NoRequest THEN {}
           ELSE held[d] \cup {users'[n] : n \in {request[d].name} \cap DOMAIN users'}]
  BY DEF IInv, AnswerChanged
<1>2. ASSUME NEW d \in Clients
      PROVE  Sound(request[d], held[d], Row(request[d].name))'
  <2>1. CASE d = c \/ request[d] = NoRequest
    BY <1>1, <2>1 DEF Sound
  <2>2. CASE ~ (d = c \/ request[d] = NoRequest)
    <3>1. request'[d] = request[d] /\ request[d] # NoRequest
      BY <1>1, <2>2
    <3>2. held'[d] = held[d] \cup Row(request[d].name)'
      BY <1>1, <2>2, <3>1 DEF Row
    <3>3. Sound(request[d], held[d], Row(request[d].name))
      BY DEF IInv
    <3> QED
      BY <3>1, <3>2, <3>3 DEF Sound
  <2> QED
    BY <2>1, <2>2
<1> QED
  BY <1>1, <1>2 DEF IInv
-----------------------------------------------------------------------------
LEMMA BeginIsSound ==
  ASSUME IInv, UNCHANGED users, NEW c \in Clients,
         NEW stage \in {"sign in", "authorize"}, NEW name, NEW role, NEW op,
         Begin(c, stage, name, role, op)
  PROVE  IInv'
<1> DEFINE r == [stage |-> stage, name |-> name, role |-> role, op |-> op]
<1>1. Sound(r, Row(name), Row(name)) /\ r.name = name
  BY MakeSound
<1>2. request' = [request EXCEPT ![c] = r] /\ held' = [held EXCEPT ![c] = Row(name)]
  BY DEF Begin
<1> HIDE DEF r
<1> QED
  BY <1>1, <1>2, OneRequest

(* The request of c on another stage, with the account it is for and what  *)
(* it asks for.                                                            *)
At(c, stage, role) ==
  [stage |-> stage, name |-> request[c].name, role |-> role, op |-> request[c].op]

LEMMA UnderWayAt ==
  ASSUME IInv, NEW c \in Clients, request[c].stage # "idle"
  PROVE  /\ request[c] = At(c, request[c].stage, request[c].role)
         /\ Row(request[c].name) \subseteq held[c]
  BY UseSound DEF IInv, At

LEMMA GoOn ==
  ASSUME IInv, UNCHANGED users, UNCHANGED held, NEW c \in Clients, NEW to, NEW role,
         request' = [request EXCEPT ![c] = At(c, to, role)],
         Sound(At(c, to, role), held[c], Row(request[c].name))
  PROVE  IInv'
<1>1. held' = [held EXCEPT ![c] = held[c]]
  BY DEF IInv
<1>2. At(c, to, role).name = request[c].name
  BY DEF At
<1> QED
  BY <1>1, <1>2, OneRequest

(* GoTo leaves the role alone. *)
LEMMA GoToKeepsRole ==
  ASSUME IInv, NEW c \in Clients, NEW to, request[c].stage # "idle", GoTo(c, to)
  PROVE  request' = [request EXCEPT ![c] = At(c, to, request[c].role)]
<1>1. request[c] = At(c, request[c].stage, request[c].role)
  BY UnderWayAt
<1>2. [request[c] EXCEPT !.stage = to] = At(c, to, request[c].role)
  BY <1>1 DEF At
<1> QED
  BY <1>2 DEF IInv, GoTo

(* The row that a query returns is one that the request has met.           *)
LEMMA RowIsMet ==
  ASSUME IInv, NEW c \in Clients, request[c].stage # "idle"
  PROVE  Row(request[c].name) \subseteq held[c]
  BY UnderWayAt

LEMMA FindByUsernameIsSound ==
  ASSUME IInv, NEW c \in Clients, FindByUsername(c)
  PROVE  IInv'
<1>1. CASE Answer(c)
  BY <1>1, AnswerIsSound DEF FindByUsername
<1>2. ASSUME NEW row \in Row(request[c].name),
             request' = [request EXCEPT ![c] =
                           [@ EXCEPT !.stage = "token", !.role = row.role]],
             \E other \in Row(request[c].name) :
               other.active /\ Check(request[c].op.password, other),
             UNCHANGED held
      PROVE  IInv'
  <2>1. request[c].stage # "idle" /\ UNCHANGED users /\ UNCHANGED held
    BY <1>2 DEF FindByUsername
  <2>2. \E other \in held[c] : other.active /\ other.password = request[c].op.password
    BY <1>2, <2>1, RowIsMet DEF Check
  <2>3. request[c] = At(c, request[c].stage, request[c].role)
    BY <2>1, UnderWayAt
  <2>4. [request[c] EXCEPT !.stage = "token", !.role = row.role] = At(c, "token", row.role)
    <3> DEFINE next == [request[c] EXCEPT !.stage = "token"]
    <3>1. next = At(c, "token", request[c].role)
      BY <2>3 DEF At
    <3>2. [At(c, "token", request[c].role) EXCEPT !.role = row.role] = At(c, "token", row.role)
      BY DEF At
    <3> QED
      BY <3>1, <3>2
  <2>5. request' = [request EXCEPT ![c] = At(c, "token", row.role)]
    BY <1>2, <2>4
  <2>6. Sound(At(c, "token", row.role), held[c], Row(request[c].name))
    BY <2>1, <2>2, RowIsMet, MakeSound DEF At
  <2> QED
    BY <2>1, <2>5, <2>6, GoOn
<1> QED
  BY <1>1, <1>2 DEF FindByUsername

(* The guard lets in whom it finds admitted.                               *)
LEMMA FindCurrentUserIsSound ==
  ASSUME IInv, NEW c \in Clients, FindCurrentUser(c)
  PROVE  IInv'
<1>1. CASE Answer(c)
  BY <1>1, AnswerIsSound DEF FindCurrentUser
<1>2. CASE /\ \E row \in Row(request[c].name) : Admitted(c, row)
           /\ GoTo(c, "handle") /\ UNCHANGED held
  <2>1. request[c].stage # "idle" /\ UNCHANGED users /\ UNCHANGED held
    BY <1>2 DEF FindCurrentUser
  <2>2. \E row \in held[c] : row.active /\ row.role \in Admits(request[c].op)
    BY <1>2, <2>1, RowIsMet DEF Admitted
  <2>3. request' = [request EXCEPT ![c] = At(c, "handle", request[c].role)]
    BY <1>2, <2>1, GoToKeepsRole
  <2>4. Sound(At(c, "handle", request[c].role), held[c], Row(request[c].name))
    BY <2>1, <2>2, RowIsMet, MakeSound DEF At
  <2> QED
    BY <2>1, <2>3, <2>4, GoOn
<1> QED
  BY <1>1, <1>2 DEF FindCurrentUser

(* A password is replaced by someone who knew it.                          *)
LEMMA FindOwnAccountIsSound ==
  ASSUME IInv, NEW c \in Clients, FindOwnAccount(c)
  PROVE  IInv'
<1>1. CASE Answer(c)
  BY <1>1, AnswerIsSound DEF FindOwnAccount
<1>2. CASE /\ \E row \in Row(request[c].name) :
                row.active /\ Check(request[c].op.old, row)
           /\ GoTo(c, "store") /\ UNCHANGED held
  <2>1. request[c].stage # "idle" /\ UNCHANGED users /\ UNCHANGED held
    BY <1>2 DEF FindOwnAccount, Handles
  <2>2. \E row \in held[c] : row.active /\ row.role \in Admits(request[c].op)
    BY SoundIsEnough DEF RightsWereHeld, FindOwnAccount, Handles
  <2>3. \E row \in held[c] : row.active /\ row.password = request[c].op.old
    BY <1>2, <2>1, RowIsMet DEF Check
  <2>4. request' = [request EXCEPT ![c] = At(c, "store", request[c].role)]
    BY <1>2, <2>1, GoToKeepsRole
  <2>5. Sound(At(c, "store", request[c].role), held[c], Row(request[c].name))
    BY <2>1, <2>2, <2>3, RowIsMet, MakeSound DEF At
  <2> QED
    BY <2>1, <2>4, <2>5, GoOn
<1> QED
  BY <1>1, <1>2 DEF FindOwnAccount
-----------------------------------------------------------------------------
LEMMA StepIsSound ==
  ASSUME IInv, [Next]_vars
  PROVE  IInv'
<1>1. ASSUME NEW c \in Clients, NEW name \in Names, NEW password \in Passwords,
             Login(c, name, password)
      PROVE  IInv'
  BY <1>1, BeginIsSound DEF Login
<1>2. ASSUME NEW c \in Clients, NEW token \in tokens, NEW op \in Operations,
             Authorize(c, token, op)
      PROVE  IInv'
  BY <1>2, BeginIsSound DEF Authorize
<1>3. ASSUME NEW c \in Clients, RequestStep(c)
      PROVE  IInv'
  <2>1. CASE FindByUsername(c)
    BY <2>1, FindByUsernameIsSound
  <2>2. CASE FindCurrentUser(c)
    BY <2>2, FindCurrentUserIsSound
  <2>3. CASE FindOwnAccount(c)
    BY <2>3, FindOwnAccountIsSound
  <2>4. CASE Generate(c) \/ Read(c) \/ TargetNotFound(c) \/ UserExists(c) \/ StatementFails(c)
    BY <2>4, AnswerIsSound
       DEF Generate, Read, TargetNotFound, UserExists, StatementFails
  <2>5. CASE UpdateRole(c) \/ SetActive(c) \/ ResetPassword(c) \/ CreateUser(c) \/ StorePassword(c)
    BY <2>5, AnswerChangedIsSound
       DEF UpdateRole, SetActive, ResetPassword, CreateUser, StorePassword
  <2> QED
    BY <1>3, <2>1, <2>2, <2>3, <2>4, <2>5 DEF RequestStep
<1>4. CASE Tick \/ UNCHANGED vars
  BY <1>4 DEF Tick, vars, IInv, Row
<1> QED
  BY <1>1, <1>2, <1>3, <1>4 DEF Next

LEMMA SoundAlways == Spec => []IInv
<1>1. IInv /\ [Next]_vars => IInv'
  BY StepIsSound
<1> QED
  BY <1>1, InitIsSound, PTL DEF Spec

(* For any number of requests and accounts: AuthMiddleware and             *)
(* RequireRoles decide on rows of the users table, never on what a token   *)
(* says; a request acts with rights that its account had during it.        *)
THEOREM GuardsDecideOnCurrentRows == Spec => []RightsWereHeld
  BY SoundAlways, SoundIsEnough, PTL

(* Login and ChangePassword accept only a password that was the account's  *)
(* during the request.                                                     *)
THEOREM CredentialsAreCurrent == Spec => []CredentialsWereCurrent
  BY SoundAlways, SoundIsEnough, PTL

-----------------------------------------------------------------------------
(***************************************************************************)
(* The types of the state.  A row is never deleted, so a request past its  *)
(* guard always finds its account; the bound on changes and ticks counts   *)
(* the changes under way, which are finitely many.                         *)
(***************************************************************************)

(* The users table with the names in `present'. *)
Table(present) == [present -> Account]

(* A request past its guard is one of an account that is present, and asks *)
(* for an operation of the router.                                         *)
RequestFits(r, present) ==
  \/ r = NoRequest
  \/ /\ r.stage \in {"sign in", "token", "authorize", "handle", "store"}
     /\ r.stage \in {"sign in", "token"} => r.op.do = "login"
     /\ r.stage \in {"token", "authorize", "handle", "store"} => r.name \in present
     /\ r.stage = "token" => r.role \in Roles
     /\ r.stage \in {"authorize", "handle", "store"} => r.op \in Operations
     /\ r.stage = "store" => r.op.do = "change"

TypesFit ==
  /\ DOMAIN users \subseteq Names /\ users \in Table(DOMAIN users)
  /\ tokens \subseteq [user : DOMAIN users, role : Roles, expires : Nat]
  /\ now \in Nat /\ changes \in Nat
  /\ \A c \in Clients : RequestFits(request[c], DOMAIN users)
  /\ \A c \in Clients : held[c] \subseteq Account

(* Each change of the table that is under way has its place in the bound.  *)
Bounded == now + changes + Cardinality(Pending) <= MaxEvents

TypeInv == IInv /\ TypesFit /\ Bounded

LEMMA PendingIsFinite == IsFiniteSet(Pending) /\ Cardinality(Pending) \in Nat
<1>1. Pending \subseteq Clients
  BY DEF Pending
<1> QED
  BY <1>1, AccountsAssumption, FS_Subset, FS_CardinalityType

LEMMA PendingIsFiniteNext == IsFiniteSet(Pending') /\ Cardinality(Pending') \in Nat
<1>1. Pending' \subseteq Clients
  BY DEF Pending
<1> QED
  BY <1>1, AccountsAssumption, FS_Subset, FS_CardinalityType

LEMMA NoMorePending ==
  ASSUME Pending' \subseteq Pending
  PROVE  Cardinality(Pending') <= Cardinality(Pending)
  BY PendingIsFinite, FS_Subset

LEMMA OneMorePending ==
  ASSUME NEW c, Pending' \subseteq Pending \cup {c}
  PROVE  Cardinality(Pending') <= Cardinality(Pending) + 1
<1>1. /\ IsFiniteSet(Pending \cup {c})
      /\ Cardinality(Pending \cup {c}) <= Cardinality(Pending) + 1
  BY PendingIsFinite, FS_AddElement
<1>2. Cardinality(Pending') <= Cardinality(Pending \cup {c})
  BY <1>1, FS_Subset
<1>3. Cardinality(Pending \cup {c}) \in Nat
  BY <1>1, FS_CardinalityType
<1> QED
  BY <1>1, <1>2, <1>3, PendingIsFinite, PendingIsFiniteNext

LEMMA OneLessPending ==
  ASSUME NEW c \in Pending, Pending' \subseteq Pending \ {c}
  PROVE  Cardinality(Pending') + 1 <= Cardinality(Pending)
<1>1. /\ IsFiniteSet(Pending \ {c})
      /\ Cardinality(Pending \ {c}) = Cardinality(Pending) - 1
  BY PendingIsFinite, FS_RemoveElement
<1>2. Cardinality(Pending') <= Cardinality(Pending \ {c})
  BY <1>1, FS_Subset
<1> QED
  BY <1>1, <1>2, PendingIsFinite, PendingIsFiniteNext

LEMMA RowsFit ==
  ASSUME TypesFit, NEW name
  PROVE  Row(name) \subseteq Account
  BY DEF TypesFit, Table, Row

LEMMA FitsInLargerTable ==
  ASSUME NEW r, NEW small, NEW large, small \subseteq large, RequestFits(r, small)
  PROVE  RequestFits(r, large)
  BY DEF RequestFits

(* A step that changes one request and no row. *)
LEMMA OneRequestFits ==
  ASSUME IInv, TypesFit, UNCHANGED users, NEW c \in Clients, NEW r, NEW h,
         request' = [request EXCEPT ![c] = r],
         held' = [held EXCEPT ![c] = h],
         RequestFits(r, DOMAIN users), h \subseteq Account,
         tokens' \subseteq [user : DOMAIN users, role : Roles, expires : Nat],
         now' \in Nat, changes' \in Nat
  PROVE  TypesFit'
<1>1. /\ request' = [d \in Clients |-> IF d = c THEN r ELSE request[d]]
      /\ held' = [d \in Clients |-> IF d = c THEN h ELSE held[d]]
  BY DEF IInv
<1>2. ASSUME NEW d \in Clients
      PROVE  RequestFits(request'[d], DOMAIN users) /\ held'[d] \subseteq Account
  BY <1>1 DEF TypesFit
<1>3. ASSUME NEW d \in Clients
      PROVE  RequestFits(request[d], DOMAIN users)' /\ (held[d] \subseteq Account)'
  BY <1>2 DEF RequestFits, NoRequest
<1>4. DOMAIN users' \subseteq Names /\ users' \in Table(DOMAIN users')
  BY DEF TypesFit
<1> QED
  BY <1>3, <1>4 DEF TypesFit

(* A request that will change the table. *)
Counts(r) == r # NoRequest /\ Changing(r.op)

LEMMA PendingWithout ==
  ASSUME IInv, NEW c \in Clients, NEW r, request' = [request EXCEPT ![c] = r],
         Counts(r) => Counts(request[c])
  PROVE  Pending' \subseteq Pending
<1>1. \A d \in Clients : request'[d] = IF d = c THEN r ELSE request[d]
  BY DEF IInv
<1>2. ASSUME NEW d \in Pending' PROVE d \in Pending
  <2>1. d \in Clients /\ Counts(request'[d])
    BY DEF Pending, Counts, Changing, NoRequest
  <2> QED
    BY <1>1, <2>1 DEF Pending, Counts
<1> QED
  BY <1>2

(* The request goes on, or is answered. *)
LEMMA GoOnFits ==
  ASSUME TypeInv, UNCHANGED <<users, now, changes>>,
         NEW c \in Clients, NEW r, NEW h,
         request' = [request EXCEPT ![c] = r],
         held' = [held EXCEPT ![c] = h],
         RequestFits(r, DOMAIN users), h \subseteq Account,
         Counts(r) => Counts(request[c]),
         tokens' \subseteq [user : DOMAIN users, role : Roles, expires : Nat]
  PROVE  TypesFit' /\ Bounded'
<1>1. now' \in Nat /\ changes' \in Nat
  BY DEF TypeInv, TypesFit
<1>2. TypesFit'
  BY <1>1, OneRequestFits DEF TypeInv
<1>3. Cardinality(Pending') <= Cardinality(Pending)
  BY NoMorePending, PendingWithout DEF TypeInv
<1>4. now \in Nat /\ changes \in Nat /\ MaxEvents \in Nat
  BY AccountsAssumption DEF TypeInv, TypesFit
<1>5. Bounded'
  BY <1>3, <1>4, PendingIsFinite, PendingIsFiniteNext DEF TypeInv, Bounded
<1> QED
  BY <1>2, <1>5

LEMMA AnswerFits ==
  ASSUME TypeInv, UNCHANGED <<users, now, changes>>, NEW c \in Clients, Answer(c),
         tokens' \subseteq [user : DOMAIN users, role : Roles, expires : Nat]
  PROVE  TypesFit' /\ Bounded'
<1>1. RequestFits(NoRequest, DOMAIN users) /\ ~ Counts(NoRequest)
  BY DEF RequestFits, Counts
<1> QED
  BY <1>1, GoOnFits DEF Answer
-----------------------------------------------------------------------------
LEMMA LoginFits ==
  ASSUME TypeInv, NEW c \in Clients, NEW name \in Names, NEW password \in Passwords,
         Login(c, name, password)
  PROVE  TypesFit' /\ Bounded'
<1> DEFINE op == [do |-> "login", password |-> password]
           r == [stage |-> "sign in", name |-> name, role |-> "none", op |-> op]
<1>1. /\ request' = [request EXCEPT ![c] = r] /\ held' = [held EXCEPT ![c] = Row(name)]
      /\ UNCHANGED <<users, now, tokens, changes>>
  BY DEF Login, Begin
<1>2. r.stage = "sign in" /\ r.op.do = "login"
  OBVIOUS
<1> HIDE DEF r
<1>3. RequestFits(r, DOMAIN users) /\ ~ Counts(r)
  BY <1>2 DEF RequestFits, Counts, Changing
<1>4. Row(name) \subseteq Account /\ tokens' = tokens
      /\ tokens \subseteq [user : DOMAIN users, role : Roles, expires : Nat]
  BY <1>1, RowsFit DEF TypeInv, TypesFit
<1> QED
  BY <1>1, <1>3, <1>4, GoOnFits

LEMMA AuthorizeFits ==
  ASSUME TypeInv, NEW c \in Clients, NEW token \in tokens, NEW op \in Operations,
         Authorize(c, token, op)
  PROVE  TypesFit' /\ Bounded'
<1> DEFINE r == [stage |-> "authorize", name |-> token.user, role |-> token.role,
                 op |-> op]
<1>1. /\ request' = [request EXCEPT ![c] = r]
      /\ held' = [held EXCEPT ![c] = Row(token.user)]
      /\ UNCHANGED <<users, now, tokens, changes>>
      /\ Changing(op) => now + changes + Cardinality(Pending) < MaxEvents
  BY DEF Authorize, Begin
<1>2. r.stage = "authorize" /\ r.name = token.user /\ r.op = op
  OBVIOUS
<1> HIDE DEF r
<1>3. /\ now \in Nat /\ changes \in Nat /\ MaxEvents \in Nat
      /\ tokens \subseteq [user : DOMAIN users, role : Roles, expires : Nat]
  BY AccountsAssumption DEF TypeInv, TypesFit
<1>4. RequestFits(r, DOMAIN users)
  <2>1. token.user \in DOMAIN users
    BY <1>3
  <2> QED
    BY <1>2, <2>1 DEF RequestFits
<1>5. Row(token.user) \subseteq Account /\ tokens' = tokens
  BY <1>1, RowsFit DEF TypeInv
<1>6. TypesFit'
  BY <1>1, <1>3, <1>4, <1>5, OneRequestFits DEF TypeInv
<1>7. CASE Changing(op)
  <2>1. \A d \in Clients : d # c => request'[d] = request[d]
    BY <1>1 DEF TypeInv, IInv
  <2>2. Pending' \subseteq Pending \cup {c}
    BY <2>1 DEF Pending, Changing, NoRequest
  <2>3. Cardinality(Pending') <= Cardinality(Pending) + 1
    BY <2>2, OneMorePending
  <2> QED
    BY <1>1, <1>3, <1>6, <1>7, <2>3, PendingIsFinite, PendingIsFiniteNext
       DEF Bounded
<1>8. CASE ~ Changing(op)
  <2>1. ~ Counts(r)
    BY <1>2, <1>8 DEF Counts
  <2> QED
    BY <1>1, <1>3, <1>4, <1>5, <2>1, GoOnFits
<1> QED
  BY <1>7, <1>8

(* The request of a client, once it is under way. *)
LEMMA UnderWayFits ==
  ASSUME TypeInv, NEW c \in Clients, request[c].stage # "idle"
  PROVE  /\ request[c] # NoRequest
         /\ RequestFits(request[c], DOMAIN users)
         /\ Row(request[c].name) \subseteq held[c]
         /\ held[c] \subseteq Account
<1>1. request[c] # NoRequest
  BY DEF NoRequest
<1> QED
  BY <1>1, RowIsMet DEF TypeInv, TypesFit

(* A request that goes on to another stage with the same operation. *)
LEMMA NextStageFits ==
  ASSUME TypeInv, UNCHANGED <<users, now, changes, tokens, held>>,
         NEW c \in Clients, request[c].stage # "idle", NEW to, NEW role,
         request' = [request EXCEPT ![c] = At(c, to, role)],
         RequestFits(At(c, to, role), DOMAIN users)
  PROVE  TypesFit' /\ Bounded'
<1>1. request[c] # NoRequest /\ held[c] \subseteq Account
  BY UnderWayFits
<1>2. held' = [held EXCEPT ![c] = held[c]]
  BY DEF TypeInv, IInv
<1>3. Counts(At(c, to, role)) => Counts(request[c])
  BY <1>1 DEF Counts, At
<1>4. tokens' \subseteq [user : DOMAIN users, role : Roles, expires : Nat]
  BY DEF TypeInv, TypesFit
<1> QED
  BY <1>1, <1>2, <1>3, <1>4, GoOnFits

LEMMA QueriesFit ==
  ASSUME TypeInv, NEW c \in Clients,
         FindByUsername(c) \/ FindCurrentUser(c) \/ FindOwnAccount(c)
  PROVE  TypesFit' /\ Bounded'
<1>1. /\ UNCHANGED <<users, now, changes, tokens>> /\ request[c].stage # "idle"
      /\ tokens' \subseteq [user : DOMAIN users, role : Roles, expires : Nat]
  BY DEF FindByUsername, FindCurrentUser, FindOwnAccount, Handles, TypeInv, TypesFit
<1>2. /\ RequestFits(request[c], DOMAIN users) /\ request[c] # NoRequest
      /\ Row(request[c].name) \subseteq Account
  BY <1>1, UnderWayFits
<1>3. CASE Answer(c)
  BY <1>1, <1>3, AnswerFits
<1>4. ASSUME NEW to, GoTo(c, to), UNCHANGED held,
             \/ to = "handle" /\ request[c].stage = "authorize"
             \/ to = "store" /\ request[c].stage = "handle"
                /\ request[c].op.do = "change"
      PROVE  TypesFit' /\ Bounded'
  <2>1. request' = [request EXCEPT ![c] = At(c, to, request[c].role)]
    BY <1>1, <1>4, GoToKeepsRole DEF TypeInv
  <2>2. RequestFits(At(c, to, request[c].role), DOMAIN users)
    BY <1>2, <1>4 DEF RequestFits, At
  <2> QED
    BY <1>1, <1>4, <2>1, <2>2, NextStageFits
<1>5. ASSUME NEW row \in Row(request[c].name), request[c].stage = "sign in",
             request' = [request EXCEPT ![c] =
                           [@ EXCEPT !.stage = "token", !.role = row.role]],
             UNCHANGED held
      PROVE  TypesFit' /\ Bounded'
  <2>1. request[c] = At(c, request[c].stage, request[c].role)
    BY <1>1, UnderWayAt DEF TypeInv
  <2>2. [request[c] EXCEPT !.stage = "token", !.role = row.role] = At(c, "token", row.role)
    <3> DEFINE next == [request[c] EXCEPT !.stage = "token"]
    <3>1. next = At(c, "token", request[c].role)
      BY <2>1 DEF At
    <3>2. [At(c, "token", request[c].role) EXCEPT !.role = row.role] = At(c, "token", row.role)
      BY DEF At
    <3> QED
      BY <3>1, <3>2
  <2>3. request' = [request EXCEPT ![c] = At(c, "token", row.role)]
    BY <1>5, <2>2
  <2>4. row.role \in Roles
    BY <1>2 DEF Account
  <2>5. request[c].name \in DOMAIN users
    BY <1>5 DEF Row
  <2>6. RequestFits(At(c, "token", row.role), DOMAIN users)
    BY <1>2, <1>5, <2>4, <2>5 DEF RequestFits, At
  <2> QED
    BY <1>1, <1>5, <2>3, <2>6, NextStageFits
<1>6. CASE FindByUsername(c)
  BY <1>3, <1>5, <1>6 DEF FindByUsername
<1>7. CASE FindCurrentUser(c)
  BY <1>3, <1>4, <1>7 DEF FindCurrentUser
<1>8. CASE FindOwnAccount(c)
  BY <1>3, <1>4, <1>8 DEF FindOwnAccount, Handles
<1> QED
  BY <1>6, <1>7, <1>8

LEMMA AnswersFit ==
  ASSUME TypeInv, NEW c \in Clients,
         Generate(c) \/ Read(c) \/ TargetNotFound(c) \/ UserExists(c) \/ StatementFails(c)
  PROVE  TypesFit' /\ Bounded'
<1>1. /\ now \in Nat /\ TTL \in Nat
      /\ tokens \subseteq [user : DOMAIN users, role : Roles, expires : Nat]
  BY AccountsAssumption DEF TypeInv, TypesFit
<1>2. CASE Generate(c)
  <2>1. request[c].stage = "token"
    BY <1>2 DEF Generate
  <2>2. request[c].name \in DOMAIN users /\ request[c].role \in Roles
    BY <2>1, UnderWayFits DEF RequestFits
  <2>3. tokens' \subseteq [user : DOMAIN users, role : Roles, expires : Nat]
    BY <1>1, <1>2, <2>2 DEF Generate
  <2> QED
    BY <1>2, <2>3, AnswerFits DEF Generate
<1>3. CASE Read(c) \/ TargetNotFound(c) \/ UserExists(c) \/ StatementFails(c)
  <2>1. Answer(c) /\ UNCHANGED <<users, now, changes, tokens>>
    BY <1>3 DEF Read, TargetNotFound, UserExists, StatementFails
  <2>2. tokens' = tokens
    BY <2>1
  <2>3. tokens' \subseteq [user : DOMAIN users, role : Roles, expires : Nat]
    BY <1>1, <2>2
  <2> QED
    BY <2>1, <2>3, AnswerFits
<1> QED
  BY <1>2, <1>3
-----------------------------------------------------------------------------
(* A change of the table: rows are replaced or added, none is lost.        *)
LEMMA AnswerChangedFits ==
  ASSUME TypeInv, NEW c \in Clients, AnswerChanged(c),
         request[c] # NoRequest, Changing(request[c].op),
         DOMAIN users \subseteq DOMAIN users', DOMAIN users' \subseteq Names,
         users' \in Table(DOMAIN users')
  PROVE  TypesFit' /\ Bounded'
<1>1. /\ request' = [d \in Clients |-> IF d = c THEN NoRequest ELSE request[d]]
      /\ held' = [d \in Clients |->
           IF d = c \/ request[d] = NoRequest THEN {}
           ELSE held[d] \cup {users'[n] : n \in {request[d].name} \cap DOMAIN users'}]
      /\ changes' = changes + 1 /\ now' = now /\ tokens' = tokens
  BY DEF TypeInv, IInv, AnswerChanged
<1>2. /\ now \in Nat /\ changes \in Nat /\ MaxEvents \in Nat
      /\ tokens \subseteq [user : DOMAIN users, role : Roles, expires : Nat]
  BY AccountsAssumption DEF TypeInv, TypesFit
<1>3. tokens \subseteq [user : DOMAIN users', role : Roles, expires : Nat]
  BY <1>2
<1>4. ASSUME NEW d \in Clients
      PROVE  RequestFits(request'[d], DOMAIN users')
  <2>1. RequestFits(request[d], DOMAIN users) /\ RequestFits(NoRequest, DOMAIN users)
    BY DEF TypeInv, TypesFit, RequestFits
  <2> QED
    BY <1>1, <2>1, FitsInLargerTable
<1>5. ASSUME NEW d \in Clients
      PROVE  held'[d] \subseteq Account
  <2>1. held[d] \subseteq Account /\ \A n \in DOMAIN users' : users'[n] \in Account
    BY DEF TypeInv, TypesFit, Table
  <2> QED
    BY <1>1, <2>1
<1>6. TypesFit'
  <2>1. ASSUME NEW d \in Clients
        PROVE  RequestFits(request[d], DOMAIN users)' /\ (held[d] \subseteq Account)'
    BY <1>4, <1>5 DEF RequestFits, NoRequest
  <2> QED
    BY <1>1, <1>2, <1>3, <2>1 DEF TypesFit
<1>7. c \in Pending /\ Pending' \subseteq Pending \ {c}
  BY <1>1 DEF Pending, Changing, NoRequest
<1>8. Cardinality(Pending') + 1 <= Cardinality(Pending)
  BY <1>7, OneLessPending
<1>9. Bounded'
  BY <1>1, <1>2, <1>8, PendingIsFinite, PendingIsFiniteNext DEF TypeInv, Bounded
<1> QED
  BY <1>6, <1>9

LEMMA RowReplaced ==
  ASSUME TypesFit, NEW n \in DOMAIN users, NEW a \in Account,
         users' = [users EXCEPT ![n] = a]
  PROVE  /\ DOMAIN users' = DOMAIN users /\ DOMAIN users' \subseteq Names
         /\ users' \in Table(DOMAIN users')
  BY DEF TypesFit, Table

LEMMA UpdatesFit ==
  ASSUME TypeInv, NEW c \in Clients,
         UpdateRole(c) \/ SetActive(c) \/ ResetPassword(c) \/ StorePassword(c)
  PROVE  TypesFit' /\ Bounded'
<1>1. request[c].stage \in {"handle", "store"} /\ AnswerChanged(c)
  BY DEF UpdateRole, SetActive, ResetPassword, StorePassword, Handles
<1>2. /\ request[c] # NoRequest /\ request[c].op \in Operations
      /\ request[c].name \in DOMAIN users
      /\ request[c].stage = "store" => request[c].op.do = "change"
  BY <1>1, UnderWayFits DEF RequestFits
<1>3. PICK op \in Operations : op = request[c].op
  BY <1>2
<1>4. ASSUME NEW n \in DOMAIN users, NEW a \in Account, Changing(op),
             users' = [users EXCEPT ![n] = a]
      PROVE  TypesFit' /\ Bounded'
  BY <1>1, <1>2, <1>3, <1>4, RowReplaced, AnswerChangedFits DEF TypeInv
<1>5. \A n \in DOMAIN users : users[n] \in Account
  BY DEF TypeInv, TypesFit, Table
<1>6. users = [n \in DOMAIN users |-> users[n]]
  BY DEF TypeInv, TypesFit, Table
<1>7. CASE UpdateRole(c)
  <2>1. op.do = "role" /\ op.role \in Roles /\ Changing(op)
    BY <1>3, <1>7 DEF UpdateRole, Handles, Operations, Changing
  <2>2. PICK n \in DOMAIN users :
          users' = [users EXCEPT ![n].role = op.role]
    BY <1>3, <1>7 DEF UpdateRole
  <2> DEFINE a == [users[n] EXCEPT !.role = op.role]
  <2>3. a \in Account
    BY <1>5, <2>1 DEF Account
  <2>4. users' = [users EXCEPT ![n] = a]
    BY <2>2
  <2> QED
    BY <1>4, <2>1, <2>3, <2>4
<1>8. CASE SetActive(c)
  <2>1. Changing(op)
    BY <1>3, <1>8 DEF SetActive, Handles, Changing
  <2>2. PICK n \in DOMAIN users, b \in BOOLEAN :
          users' = [users EXCEPT ![n].active = b]
    BY <1>8 DEF SetActive
  <2> DEFINE a == [users[n] EXCEPT !.active = b]
  <2>3. a \in Account
    BY <1>5 DEF Account
  <2>4. users' = [users EXCEPT ![n] = a]
    BY <2>2
  <2> QED
    BY <1>4, <2>1, <2>3, <2>4
<1>9. ASSUME NEW n \in DOMAIN users, NEW password \in Passwords, Changing(op),
             users' = [users EXCEPT ![n].password = password]
      PROVE  TypesFit' /\ Bounded'
  <2> DEFINE a == [users[n] EXCEPT !.password = password]
  <2>1. a \in Account
    BY <1>5 DEF Account
  <2>2. users' = [users EXCEPT ![n] = a]
    BY <1>9
  <2> QED
    BY <1>4, <1>9, <2>1, <2>2
<1>10. CASE ResetPassword(c)
  <2>1. op.do = "reset" /\ op.password \in Passwords /\ Changing(op)
    BY <1>3, <1>10 DEF ResetPassword, Handles, Operations, Changing
  <2> QED
    BY <1>3, <1>9, <1>10, <2>1 DEF ResetPassword
<1>11. CASE StorePassword(c)
  <2>1. op.do = "change" /\ op.new \in Passwords /\ Changing(op)
    BY <1>2, <1>3, <1>11 DEF StorePassword, Operations, Changing
  <2> QED
    BY <1>2, <1>3, <1>9, <1>11, <2>1 DEF StorePassword
<1> QED
  BY <1>7, <1>8, <1>10, <1>11

LEMMA CreateUserFits ==
  ASSUME TypeInv, NEW c \in Clients, CreateUser(c)
  PROVE  TypesFit' /\ Bounded'
<1>1. request[c].stage = "handle" /\ request[c].op.do = "create" /\ AnswerChanged(c)
  BY DEF CreateUser, Handles
<1>2. request[c] # NoRequest /\ request[c].op \in Operations
  BY <1>1, UnderWayFits DEF RequestFits
<1>3. /\ Changing(request[c].op)
      /\ Target(c) \in Names /\ request[c].op.account \in Account
  BY <1>1, <1>2, AccountsAssumption DEF Operations, Changing, Target
<1>4. /\ users' = [n \in DOMAIN users \cup {Target(c)} |->
                     IF n \in DOMAIN users THEN users[n] ELSE request[c].op.account]
      /\ \A n \in DOMAIN users : users[n] \in Account
      /\ DOMAIN users \subseteq Names
  BY DEF CreateUser, TypeInv, TypesFit, Table
<1>5. /\ DOMAIN users \subseteq DOMAIN users' /\ DOMAIN users' \subseteq Names
      /\ users' \in Table(DOMAIN users')
  BY <1>3, <1>4 DEF Table
<1> QED
  BY <1>1, <1>2, <1>3, <1>5, AnswerChangedFits

LEMMA StepFits ==
  ASSUME TypeInv, [Next]_vars
  PROVE  TypeInv'
<1>1. IInv'
  BY StepIsSound DEF TypeInv
<1>2. ASSUME NEW c \in Clients, RequestStep(c)
      PROVE  TypesFit' /\ Bounded'
  BY <1>2, QueriesFit, AnswersFit, UpdatesFit, CreateUserFits DEF RequestStep
<1>3. now \in Nat /\ changes \in Nat /\ MaxEvents \in Nat
  BY AccountsAssumption DEF TypeInv, TypesFit
<1>4. ASSUME Tick \/ UNCHANGED vars
      PROVE  TypesFit' /\ Bounded'
  <2>1. /\ UNCHANGED <<users, tokens, request, changes, held>>
        /\ \/ now' = now
           \/ now + changes + Cardinality(Pending) < MaxEvents /\ now' = now + 1
    BY <1>4 DEF Tick, vars
  <2>2. Pending' = Pending
    BY <2>1 DEF Pending, Changing, NoRequest
  <2>3. Bounded'
    BY <1>3, <2>1, <2>2, PendingIsFinite DEF TypeInv, Bounded
  <2>4. now' \in Nat /\ changes' \in Nat
    BY <1>3, <2>1
  <2>5. ASSUME NEW d \in Clients
        PROVE  RequestFits(request[d], DOMAIN users)' /\ (held[d] \subseteq Account)'
    <3>1. RequestFits(request[d], DOMAIN users) /\ held[d] \subseteq Account
      BY DEF TypeInv, TypesFit
    <3> QED
      BY <2>1, <3>1
  <2>6. /\ (DOMAIN users \subseteq Names)' /\ users' \in Table(DOMAIN users')
        /\ tokens' \subseteq [user : DOMAIN users', role : Roles, expires : Nat]
    BY <2>1 DEF TypeInv, TypesFit
  <2> QED
    BY <2>3, <2>4, <2>5, <2>6 DEF TypesFit
<1>5. TypesFit' /\ Bounded'
  BY <1>2, <1>4, LoginFits, AuthorizeFits DEF Next
<1> QED
  BY <1>1, <1>5 DEF TypeInv

LEMMA InitFits == Init => TypeInv
<1> SUFFICES ASSUME Init PROVE TypeInv
  OBVIOUS
<1>1. DOMAIN users \subseteq Names /\ users \in Table(DOMAIN users)
  BY AccountsAssumption DEF Init, Table
<1>2. TypesFit
  BY <1>1 DEF Init, TypesFit, RequestFits
<1>3. Pending = {}
  BY DEF Init, Pending
<1>4. Bounded
  BY <1>3, AccountsAssumption, FS_EmptySet DEF Init, Bounded
<1> QED
  BY <1>2, <1>4, InitIsSound DEF TypeInv

(* Every reachable state is well typed, and a request past its guard is    *)
(* one of an account that is there: no handler meets a user id that is not *)
(* in the table, for accounts are never deleted.                           *)
THEOREM AccountsTypeCorrectness == Spec => []TypeOK
<1>1. TypeInv /\ [Next]_vars => TypeInv'
  BY StepFits
<1>2. TypeInv => TypeOK
  <2> SUFFICES ASSUME TypeInv PROVE TypeOK
    OBVIOUS
  <2>1. /\ DOMAIN users \subseteq Names
        /\ \A n \in DOMAIN users : users[n] \in Account
        /\ tokens \subseteq Token
    BY DEF TypeInv, TypesFit, Table, Token
  <2>2. /\ now \in Nat /\ changes \in Nat /\ MaxEvents \in Nat
        /\ now <= MaxEvents /\ changes <= MaxEvents
    <3>1. now \in Nat /\ changes \in Nat /\ MaxEvents \in Nat
      BY AccountsAssumption DEF TypeInv, TypesFit
    <3> QED
      BY <3>1, PendingIsFinite DEF TypeInv, Bounded
  <2>3. now \in 0..MaxEvents /\ changes \in 0..MaxEvents
    BY <2>2
  <2>4. ASSUME NEW c \in Clients
        PROVE  /\ request[c].stage \in
                    {"idle", "sign in", "token", "authorize", "handle", "store"}
               /\ request[c].stage \in {"token", "authorize", "handle", "store"} =>
                    request[c].name \in DOMAIN users
               /\ held[c] \subseteq Account
    <3>1. RequestFits(request[c], DOMAIN users) /\ held[c] \subseteq Account
      BY DEF TypeInv, TypesFit
    <3>2. CASE request[c] = NoRequest
      <4>1. request[c].stage = "idle"
        BY <3>2 DEF NoRequest
      <4> QED
        BY <3>1, <4>1
    <3>3. CASE request[c] # NoRequest
      BY <3>1, <3>3 DEF RequestFits
    <3> QED
      BY <3>2, <3>3
  <2> QED
    BY <2>1, <2>3, <2>4 DEF TypeOK
<1> QED
  BY <1>1, <1>2, InitFits, PTL DEF Spec

=============================================================================
