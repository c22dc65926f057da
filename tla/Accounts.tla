------------------------------ MODULE Accounts ------------------------------
(***************************************************************************)
(* Registration, login and the token check of every protected route: the   *)
(* handlers of the http server (internal/transport), its client of the     *)
(* auth service (internal/authclient), the service (internal/authgrpc,     *)
(* internal/auth) and the table "users" (internal/user), whose column      *)
(* email is of type citext and unique.                                     *)
(*                                                                         *)
(* A call between two of these can fail at any moment.  The caller is then *)
(* told of an error, or of nothing, while what it asked for may have been  *)
(* done, may be done later (the service, or Postgres, still works on it),  *)
(* or may never be.  On Cloud Run a call may also end before it reaches    *)
(* the auth service, with the code of a bad password.                      *)
(***************************************************************************)
EXTENDS Naturals

CONSTANTS
    Registrations, Logins, Calls,   \* HTTP requests, by what they ask for;
                                    \* id.New() in one yields its own name
    Spellings,   \* emails as they are typed
    Folded,      \* citext: what two spellings of one email have in common
    Passwords,
    Long,        \* those of more than 72 bytes, which bcrypt does not hash
    Key,         \* the bytes of a password that bcrypt looks at
    TokenTTL,
    MaxTime      \* bound of the clock

ASSUME RequestsAssumption ==
    Registrations \cap Logins = {} /\ Registrations \cap Calls = {} /\ Logins \cap Calls = {}
ASSUME AccountsAssumption ==
    /\ Folded \in [Spellings -> Spellings]
    /\ Long \subseteq Passwords
    /\ Key \in [Passwords -> Passwords]
    /\ TokenTTL \in Nat \ {0} /\ MaxTime \in Nat

VARIABLES
    now,      \* a clock
    users,    \* rows of the table users
    late,     \* rows whose INSERT nobody waits for any more
    at,       \* where each request is
    form,     \* the email and password of a registration or login
    code,     \* the HTTP status answered, 0 before
    token,    \* the token a login was answered, or a protected call bears
    found,    \* the row that a login read
    when,     \* when a token was issued or verified
    knew,     \* history: the registrations answered 201 when a request came
    idTokens  \* calls of the auth service carry ID tokens, as they do on Cloud
              \* Run; this never changes

dbVars == <<users, late>>
vars == <<now, users, late, at, form, code, token, found, when, knew, idTokens>>

Requests == Registrations \cup Logins \cup Calls
Forms == [email : Spellings, password : Passwords]
NoForm == [email |-> "none"]
Rows == [id : Registrations, email : Spellings, hash : Passwords]
NoRow == [id |-> "none"]
Tokens == [sub : Registrations, exp : Nat]
NoToken == [exp |-> 0]

\* The row that Service.Register stores for r.
Row(r) == [id |-> r, email |-> form[r].email, hash |-> Key[form[r].password]]

Taken(e) == \E u \in users : Folded[u.email] = Folded[e]

Init ==
    /\ now = 0
    /\ users = {} /\ late = {}
    /\ at = [r \in Requests |-> "idle"]
    /\ form = [r \in Requests |-> NoForm]
    /\ code = [r \in Requests |-> 0]
    /\ token = [r \in Requests |-> NoToken]
    /\ found = [r \in Requests |-> NoRow]
    /\ when = [r \in Requests |-> 0]
    /\ knew = [r \in Requests |-> {}]
    /\ idTokens \in BOOLEAN

\* A request comes in and its handler goes to the step a.
Arrive(r, f, a) ==
    /\ at[r] = "idle"
    /\ form' = [form EXCEPT ![r] = f]
    /\ at' = [at EXCEPT ![r] = a]
    /\ knew' = [knew EXCEPT ![r] = {q \in Registrations : code[q] = 201}]
    /\ UNCHANGED <<now, users, late, found, when, idTokens>>

Goto(r, a) == at' = [at EXCEPT ![r] = a] /\ UNCHANGED <<now, form, code, token, knew, idTokens>>

\* The handler of r answers c, and returns.
Answer(r, c) ==
    /\ code' = [code EXCEPT ![r] = c]
    /\ at' = [at EXCEPT ![r] = "done"]
    /\ UNCHANGED <<now, form, knew, idTokens>>

(***************************************************************************)
(* POST /register                                                          *)
(***************************************************************************)
Register(r, e, p) ==
    /\ Arrive(r, [email |-> e, password |-> p], "hash")
    /\ UNCHANGED <<code, token>>

\* The body does not parse, lacks a field, or (for a registration) the
\* password is too short.
BadBody(r) ==
    /\ at[r] = "idle"
    /\ Answer(r, 400)
    /\ UNCHANGED <<users, late, token, found, when>>

\* HashPassword and id.New.
HashPassword(r) ==
    /\ at[r] = "hash"
    /\ \/ form[r].password \notin Long /\ Goto(r, "insert")
       \/ form[r].password \in Long /\ Answer(r, 500) /\ UNCHANGED token
    /\ UNCHANGED <<users, late, found, when>>

\* Mutant: ON CONFLICT (email) DO UPDATE.
BugUpsert(r) ==
    /\ at[r] = "insert"
    /\ users' = {u \in users : Folded[u.email] # Folded[form[r].email]} \cup {Row(r)}
    /\ Goto(r, "created")
    /\ UNCHANGED <<late, found, when>>

\* Mutant: no return after http.Error.
BugNoReturn(r) ==
    /\ at[r] = "insert"
    /\ at' = [at EXCEPT ![r] = "created"]
    /\ IF Taken(form[r].email)
       THEN code' = [code EXCEPT ![r] = 500] /\ UNCHANGED users
       ELSE users' = users \cup {Row(r)} /\ UNCHANGED code
    /\ UNCHANGED <<now, late, form, token, found, when, knew, idTokens>>

\* The unique index alone refuses a second account.
Create(r) ==
    /\ at[r] = "insert"
    /\ \/ /\ ~Taken(form[r].email)
          /\ users' = users \cup {Row(r)}
          /\ Goto(r, "created")
       \/ /\ Taken(form[r].email)
          /\ Answer(r, 500)
          /\ UNCHANGED <<users, token>>
    /\ UNCHANGED <<late, found, when>>

Registered(r) ==
    /\ at[r] = "created"
    /\ Answer(r, 201)
    /\ UNCHANGED <<users, late, token, found, when>>

\* Mutant: Register drops the error of users.Create.
BugCreatedAnyway(r) ==
    /\ at[r] = "insert"
    /\ Answer(r, 201)
    /\ UNCHANGED <<users, late, token, found, when>>

\* A call on the way to the INSERT and back fails or is given up on.  Whoever
\* has the request by then may go on with it.
RegisterFails(r) ==
    /\ at[r] \in {"hash", "insert", "created"}
    /\ Answer(r, 500)
    /\ \/ UNCHANGED late
       \/ /\ at[r] # "created" /\ form[r].password \notin Long
          /\ late' = late \cup {Row(r)}
    /\ UNCHANGED <<users, token, found, when>>

\* An INSERT that nobody waits for is executed.
LateCreate(u) ==
    /\ u \in late
    /\ late' = late \ {u}
    /\ users' = IF Taken(u.email) THEN users ELSE users \cup {u}
    /\ UNCHANGED <<now, at, form, code, token, found, when, knew, idTokens>>

(***************************************************************************)
(* POST /login                                                             *)
(***************************************************************************)
Login(r, e, p) ==
    /\ Arrive(r, [email |-> e, password |-> p], "select")
    /\ UNCHANGED <<code, token>>

\* Mutant: a column of type text.
BugExactEmail(r) ==
    /\ at[r] = "select"
    /\ \/ \E u \in users :
              /\ u.email = form[r].email
              /\ found' = [found EXCEPT ![r] = u]
              /\ Goto(r, "check")
       \/ /\ \A u \in users : u.email # form[r].email
          /\ Answer(r, 401) /\ UNCHANGED <<token, found>>
    /\ UNCHANGED <<users, late, when>>

\* ErrNotFound and ErrInvalidCredentials travel as Unauthenticated.
GetUserByEmail(r) ==
    /\ at[r] = "select"
    /\ \/ \E u \in users :
              /\ Folded[u.email] = Folded[form[r].email]
              /\ found' = [found EXCEPT ![r] = u]
              /\ Goto(r, "check")
       \/ ~Taken(form[r].email) /\ Answer(r, 401) /\ UNCHANGED <<token, found>>
    /\ UNCHANGED <<users, late, when>>

\* CheckPassword and IssueToken.
CheckPassword(r) ==
    /\ at[r] = "check"
    /\ \/ /\ Key[form[r].password] = found[r].hash
          /\ token' = [token EXCEPT ![r] = [sub |-> found[r].id, exp |-> now + TokenTTL]]
          /\ when' = [when EXCEPT ![r] = now]
          /\ Answer(r, 200)
       \/ /\ Key[form[r].password] # found[r].hash
          /\ Answer(r, 401)
          /\ UNCHANGED <<token, when>>
    /\ UNCHANGED <<users, late, found>>

\* No token can be fetched, or the front end does not accept it.  gRPC's code for
\* both is Unauthenticated, which authclient takes for ErrInvalidCredentials.
TokenRefused(r) ==
    /\ at[r] = "select" /\ idTokens
    /\ Answer(r, 401)
    /\ UNCHANGED <<users, late, token, found, when>>

\* All other failures of a call on the way to the answer.
LoginFails(r) ==
    /\ at[r] \in {"select", "check"}
    /\ Answer(r, 500)
    /\ UNCHANGED <<users, late, token, found, when>>

(***************************************************************************)
(* requireAuth, in front of every protected route                          *)
(***************************************************************************)
\* The bearer of a token calls; all the others get a 401 without further ado.
Call(r) ==
    \E q \in Logins :
        /\ token[q] # NoToken
        /\ Arrive(r, NoForm, "verify")
        /\ token' = [token EXCEPT ![r] = token[q]]
        /\ UNCHANGED code

\* Mutant: a token is good until its expiry is past.
BugLastTick(r) ==
    /\ at[r] = "verify"
    /\ \/ /\ now <= token[r].exp
          /\ when' = [when EXCEPT ![r] = now]
          /\ Goto(r, "serve")
       \/ now > token[r].exp /\ Answer(r, 401) /\ UNCHANGED <<token, when>>
    /\ UNCHANGED <<users, late, found>>

\* From here on the request is that of token[r].sub.
Verify(r) ==
    /\ at[r] = "verify"
    /\ \/ /\ now < token[r].exp
          /\ when' = [when EXCEPT ![r] = now]
          /\ Goto(r, "serve")
       \/ now >= token[r].exp /\ Answer(r, 401) /\ UNCHANGED <<token, when>>
    /\ UNCHANGED <<users, late, found>>

\* An auth service that cannot be reached, or does not let the http server in,
\* looks like a bad token.
VerifyFails(r) ==
    /\ at[r] = "verify"
    /\ Answer(r, 401)
    /\ UNCHANGED <<users, late, token, found, when>>

\* The wrapped handler answers, when it has done its work.
Serve(r) ==
    /\ at[r] = "serve"
    /\ Answer(r, 200)
    /\ UNCHANGED <<users, late, token, found, when>>

Tick ==
    /\ now < MaxTime
    /\ now' = now + 1
    /\ UNCHANGED <<users, late, at, form, code, token, found, when, knew, idTokens>>

RegisterHandler(r) ==
    \/ \E e \in Spellings, p \in Passwords : Register(r, e, p)
    \/ BadBody(r) \/ HashPassword(r) \/ Create(r) \/ Registered(r) \/ RegisterFails(r)

LoginHandler(r) ==
    \/ \E e \in Spellings, p \in Passwords : Login(r, e, p)
    \/ BadBody(r) \/ GetUserByEmail(r) \/ CheckPassword(r) \/ TokenRefused(r) \/ LoginFails(r)

CallHandler(r) == Call(r) \/ Verify(r) \/ VerifyFails(r) \/ Serve(r)

Next ==
    \/ \E r \in Registrations : RegisterHandler(r)
    \/ \E r \in Logins : LoginHandler(r)
    \/ \E r \in Calls : CallHandler(r)
    \/ \E u \in late : LateCreate(u)
    \/ Tick

Spec == Init /\ [][Next]_vars
-----------------------------------------------------------------------------
SameEmail(r, q) == Folded[form[r].email] = Folded[form[q].email]
SameKey(r, q) == Key[form[r].password] = Key[form[q].password]

\* Types, and that a handler answers exactly when it returns.
TypeOK ==
    /\ now \in 0 .. MaxTime
    /\ users \subseteq Rows
    /\ late \subseteq Rows
    /\ at \in [Requests -> {"idle", "hash", "insert", "created", "select", "check",
                           "verify", "serve", "done"}]
    /\ form \in [Requests -> Forms \cup {NoForm}]
    /\ code \in [Requests -> {0, 200, 201, 400, 401, 500}]
    /\ token \in [Requests -> Tokens \cup {NoToken}]
    /\ found \in [Requests -> Rows \cup {NoRow}]
    /\ when \in [Requests -> 0 .. MaxTime]
    /\ knew \in [Requests -> SUBSET Registrations]
    /\ idTokens \in BOOLEAN
    /\ \A r \in Requests : at[r] = "done" <=> code[r] # 0

\* A registration answered 201 stands for good, however many others of the same
\* email, in whatever case, are under way, repeated or executed late: its row is
\* there, and every token handed out for that email is its own, to its password.
RegistrationStands ==
    \A r \in Registrations : code[r] = 201 =>
        /\ Row(r) \in users
        /\ \A q \in Logins : code[q] = 200 /\ SameEmail(r, q) =>
               token[q].sub = r /\ SameKey(r, q)

\* Both are right, of an account that was known when the login came.
RightCredentials(q) == \E r \in knew[q] : SameEmail(r, q) /\ SameKey(r, q)

\* Who was told that the registration succeeded is not told afterwards that its
\* email and password, in whatever case the email is typed, are invalid, over
\* every race, lost reply and late INSERT; provided that calls of the auth service
\* carry no ID tokens (TokenRefused), as under go run and Compose.
KnownLogsIn ==
    \A q \in Logins : code[q] = 401 /\ ~idTokens => ~RightCredentials(q)

\* internal/auth/auth.go:11 of "invalid email or password", wherever the programs
\* run: it is the answer "for a bad email OR a bad password".  TokenRefused gives it
\* for neither.
InvalidMeansBad ==
    \A q \in Logins : code[q] = 401 => ~RightCredentials(q)

\* A protected handler runs only for an account that exists and that logged in,
\* with its own email and password, less than tokenTTL before the token was
\* looked at; how long the handler then takes does not matter.
AdmittedWhileValid ==
    \A c \in Calls : at[c] = "serve" \/ code[c] = 200 =>
        \E q \in Logins :
            /\ code[q] = 200 /\ token[q] = token[c]
            /\ when[q] <= when[c] /\ when[c] < when[q] + TokenTTL
            /\ \E u \in users :
                  /\ u.id = token[c].sub
                  /\ Folded[u.email] = Folded[form[q].email]
                  /\ u.hash = Key[form[q].password]

(***************************************************************************)
(* The refinement mapping to Directory.                                    *)
(***************************************************************************)
AskedFor(r) ==
    IF form[r] = NoForm THEN NoForm
    ELSE [email |-> Folded[form[r].email], key |-> Key[form[r].password]]

Told(r) ==
    CASE form[r] = NoForm \/ code[r] = 0 -> <<"none">>
      [] form[r] # NoForm /\ code[r] = 201 -> <<"created">>
      [] form[r] # NoForm /\ code[r] = 200 -> <<"granted", token[r].sub>>
      [] form[r] # NoForm /\ code[r] = 401 -> <<"refused">>
      [] OTHER -> <<"failed">>

D == INSTANCE Directory WITH
    Emails <- Spellings,
    Keys <- Passwords,
    accounts <- {[id |-> u.id, email |-> Folded[u.email], key |-> u.hash] : u \in users},
    form <- [r \in Registrations \cup Logins |-> AskedFor(r)],
    answer <- [r \in Registrations \cup Logins |-> Told(r)],
    guarded <- idTokens

\* The handlers, the auth service and the table together are the Directory.
ImplementsDirectory == D!Spec
=============================================================================
