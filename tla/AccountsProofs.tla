--------------------------- MODULE AccountsProofs ---------------------------
(***************************************************************************)
(* What Accounts guarantees for any number of requests, emails, passwords, *)
(* any lifetime of tokens and any bound of the clock.                      *)
(***************************************************************************)
EXTENDS Accounts, TLAPS

\* Where the requests of each route can be, and what they can be answered.
Roles ==
    /\ \A r \in Registrations :
          /\ at[r] \in {"idle", "hash", "insert", "created", "done"}
          /\ code[r] \in {0, 201, 400, 500}
    /\ \A q \in Logins :
          /\ at[q] \in {"idle", "select", "check", "done"}
          /\ code[q] \in {0, 200, 400, 401, 500}
    /\ \A c \in Calls :
          /\ at[c] \in {"idle", "verify", "serve", "done"}
          /\ code[c] \in {0, 200, 401}
    /\ \A r \in Registrations \cup Logins :
          /\ at[r] = "idle" \/ code[r] = 400 => form[r] = NoForm
          /\ at[r] # "idle" /\ code[r] # 400 => form[r] \in Forms

\* Rows are those of registrations that asked for them, one per email.
RowsStand ==
    /\ \A u \in users \cup late : form[u.id] \in Forms /\ u = Row(u.id)
    /\ \A u, v \in users : Folded[u.email] = Folded[v.email] => u = v
    /\ \A r \in Registrations : at[r] = "created" \/ code[r] = 201 => Row(r) \in users

\* A login works on the row of its email, and a token is that row's.
LoginsMatch ==
    \A q \in Logins :
        /\ at[q] = "check" \/ code[q] = 200 =>
              found[q] \in users /\ Folded[found[q].email] = Folded[form[q].email]
        /\ code[q] = 200 =>
              /\ Key[form[q].password] = found[q].hash
              /\ token[q] = [sub |-> found[q].id, exp |-> when[q] + TokenTTL]
              /\ when[q] <= now
        /\ code[q] # 200 => token[q] = NoToken

\* A protected call bears a token that a login was answered.
CallsBear ==
    \A c \in Calls :
        at[c] \in {"verify", "serve"} \/ code[c] = 200 =>
            \E q \in Logins :
                /\ code[q] = 200 /\ token[q] = token[c]
                /\ at[c] = "serve" \/ code[c] = 200 =>
                      when[q] <= when[c] /\ when[c] < token[c].exp

Known == \A q \in Requests : \A r \in knew[q] : code[r] = 201

IInv == TypeOK /\ Roles /\ RowsStand /\ LoginsMatch /\ CallsBear /\ Known /\ KnownLogsIn

LEMMA InitInvariant == Init => IInv
  BY RequestsAssumption, AccountsAssumption
  DEF Init, IInv, TypeOK, Roles, RowsStand, LoginsMatch, CallsBear, Known, KnownLogsIn, RightCredentials, Requests

\* A registration that was known when q came is in the table.
LEMMA KnownRow ==
  ASSUME IInv, NEW q \in Requests, NEW r \in knew[q]
  PROVE  r \in Registrations /\ form[r] \in Forms /\ Row(r) \in users
  BY DEF IInv, TypeOK, Roles, RowsStand, Known, Requests

LEMMA RegisterKeeps ==
  ASSUME IInv, NEW r \in Registrations, RegisterHandler(r) PROVE IInv'
  <1> USE RequestsAssumption, AccountsAssumption
      DEF Requests, IInv, TypeOK, Roles, RowsStand, LoginsMatch, CallsBear, Known, KnownLogsIn, RightCredentials,
          Row, SameEmail, SameKey
  <1>1. ASSUME NEW e \in Spellings, NEW p \in Passwords, Register(r, e, p) PROVE IInv'
    <2>1. TypeOK'
      BY <1>1 DEF Register, Arrive, Forms, NoForm
    <2>2. Roles'
      BY <1>1 DEF Register, Arrive, Forms, NoForm
    <2>3. RowsStand'
      BY <1>1 DEF Register, Arrive, Forms, NoForm
    <2>4. LoginsMatch'
      BY <1>1 DEF Register, Arrive, Forms, NoForm
    <2>5. CallsBear'
      BY <1>1 DEF Register, Arrive, Forms, NoForm
    <2>6. Known'
      BY <1>1 DEF Register, Arrive, Forms, NoForm
    <2>7. KnownLogsIn'
      BY <1>1 DEF Register, Arrive, Forms, NoForm
    <2> QED
      BY <2>1, <2>2, <2>3, <2>4, <2>5, <2>6, <2>7 DEF IInv
  <1>2. CASE BadBody(r)
    BY <1>2 DEF BadBody, Answer
  <1>3. CASE HashPassword(r)
    <2>1. TypeOK'
      BY <1>3 DEF HashPassword, Answer, Goto
    <2>2. Roles'
      BY <1>3 DEF HashPassword, Answer, Goto
    <2>3. RowsStand'
      BY <1>3 DEF HashPassword, Answer, Goto
    <2>4. LoginsMatch'
      BY <1>3 DEF HashPassword, Answer, Goto
    <2>5. CallsBear'
      BY <1>3 DEF HashPassword, Answer, Goto
    <2>6. Known'
      BY <1>3 DEF HashPassword, Answer, Goto
    <2>7. KnownLogsIn'
      BY SMTT(40), <1>3 DEF HashPassword, Answer, Goto
    <2> QED
      BY <2>1, <2>2, <2>3, <2>4, <2>5, <2>6, <2>7 DEF IInv
  <1>4. CASE Create(r)
    <2>1. TypeOK'
      BY SMTT(40), <1>4 DEF Create, Answer, Goto, Taken, Rows, Forms
    <2>2. Roles'
      BY <1>4 DEF Create, Answer, Goto, Taken, Rows, Forms
    <2>3. RowsStand'
      BY <1>4 DEF Create, Answer, Goto, Taken, Rows, Forms
    <2>4. LoginsMatch'
      BY <1>4 DEF Create, Answer, Goto, Taken, Rows, Forms
    <2>5. CallsBear'
      BY <1>4 DEF Create, Answer, Goto, Taken, Rows, Forms
    <2>6. Known'
      BY <1>4 DEF Create, Answer, Goto, Taken, Rows, Forms
    <2>7. KnownLogsIn'
      BY <1>4 DEF Create, Answer, Goto, Taken, Rows, Forms
    <2> QED
      BY <2>1, <2>2, <2>3, <2>4, <2>5, <2>6, <2>7 DEF IInv
  <1>5. CASE Registered(r)
    BY <1>5 DEF Registered, Answer, Goto
  <1>6. CASE RegisterFails(r)
    BY <1>6 DEF RegisterFails, Answer, Goto, Rows, Forms
  <1> HIDE DEF Requests, IInv, TypeOK, Roles, RowsStand, LoginsMatch, CallsBear, Known, KnownLogsIn, RightCredentials
  <1> QED
    BY <1>1, <1>2, <1>3, <1>4, <1>5, <1>6 DEF RegisterHandler

LEMMA LoginKeeps ==
  ASSUME IInv, NEW r \in Logins, LoginHandler(r) PROVE IInv'
  <1> USE RequestsAssumption, AccountsAssumption
      DEF Requests, IInv, TypeOK, Roles, RowsStand, LoginsMatch, CallsBear, Known, KnownLogsIn, RightCredentials,
          Row, SameEmail, SameKey
  <1>1. ASSUME NEW e \in Spellings, NEW p \in Passwords, Login(r, e, p) PROVE IInv'
    <2>1. TypeOK'
      BY <1>1 DEF Login, Arrive, Forms, NoForm
    <2>2. Roles'
      BY <1>1 DEF Login, Arrive, Forms, NoForm
    <2>3. RowsStand'
      BY <1>1 DEF Login, Arrive, Forms, NoForm
    <2>4. LoginsMatch'
      BY <1>1 DEF Login, Arrive, Forms, NoForm
    <2>5. CallsBear'
      BY <1>1 DEF Login, Arrive, Forms, NoForm
    <2>6. Known'
      BY <1>1 DEF Login, Arrive, Forms, NoForm
    <2>7. KnownLogsIn'
      BY <1>1 DEF Login, Arrive, Forms, NoForm
    <2> QED
      BY <2>1, <2>2, <2>3, <2>4, <2>5, <2>6, <2>7 DEF IInv
  <1>2. CASE BadBody(r)
    BY <1>2 DEF BadBody, Answer
  <1>3. CASE GetUserByEmail(r)
    <2>1. TypeOK'
      BY SMTT(40), <1>3 DEF GetUserByEmail, Answer, Goto, Rows, Taken
    <2>2. Roles'
      BY <1>3 DEF GetUserByEmail, Answer, Goto, Rows, Taken
    <2>3. RowsStand'
      BY <1>3 DEF GetUserByEmail, Answer, Goto, Rows, Taken
    <2>4. LoginsMatch'
      BY <1>3 DEF GetUserByEmail, Answer, Goto, Rows, Taken
    <2>5. CallsBear'
      BY SMTT(40), <1>3 DEF GetUserByEmail, Answer, Goto, Rows, Taken
    <2>6. Known'
      BY <1>3 DEF GetUserByEmail, Answer, Goto, Rows, Taken
    <2>7. SUFFICES ASSUME NEW q \in Logins, code'[q] = 401, ~idTokens, NEW k \in knew[q],
                          SameEmail(k, q), SameKey(k, q)
                   PROVE  FALSE
      BY SMTT(40), <1>3, <2>1, <2>2, <2>3, <2>4, <2>5, <2>6 DEF GetUserByEmail, Answer, Goto
    <2>8. Row(k) \in users /\ Folded[Row(k).email] = Folded[form[q].email]
      BY <2>7, KnownRow
    <2> QED
      BY <1>3, <2>7, <2>8 DEF GetUserByEmail, Answer, Goto, Taken
  <1>4. CASE CheckPassword(r)
    <2>0. /\ at[r] = "check" /\ form[r] \in Forms /\ found[r] \in Rows
          /\ at' = [at EXCEPT ![r] = "done"]
          /\ \E c \in {200, 401} : code' = [code EXCEPT ![r] = c]
          /\ UNCHANGED <<now, users, late, form, found, knew>>
      BY <1>4 DEF CheckPassword, Answer
    <2>1. TypeOK'
      <3>1. [sub |-> found[r].id, exp |-> now + TokenTTL] \in Tokens
        BY <2>0 DEF Rows, Tokens
      <3>2. token' \in [Requests -> Tokens \cup {NoToken}] /\ when' \in [Requests -> 0 .. MaxTime]
        BY <1>4, <3>1 DEF CheckPassword
      <3>3. \A q \in Requests : at'[q] = "done" <=> code'[q] # 0
        BY <2>0
      <3>4. code' \in [Requests -> {0, 200, 201, 400, 401, 500}]
        BY <2>0
      <3>5. at' \in [Requests -> {"idle", "hash", "insert", "created", "select", "check",
                                 "verify", "serve", "done"}]
        BY <2>0
      <3>6. /\ now' \in 0 .. MaxTime /\ users' \subseteq Rows /\ late' \subseteq Rows
            /\ form' \in [Requests -> Forms \cup {NoForm}]
            /\ found' \in [Requests -> Rows \cup {NoRow}]
            /\ knew' \in [Requests -> SUBSET Registrations] /\ idTokens' \in BOOLEAN
        BY <1>4, <2>0 DEF CheckPassword, Answer
      <3> QED
        BY <3>2, <3>3, <3>4, <3>5, <3>6
    <2>2. Roles'
      <3>1. \A q \in Requests \ {r} : at'[q] = at[q] /\ code'[q] = code[q]
        BY <2>0
      <3>2. at'[r] = "done" /\ code'[r] \in {200, 401}
        BY <2>0
      <3> QED
        BY <2>0, <3>1, <3>2
    <2>3. RowsStand'
      BY <1>4 DEF CheckPassword, Answer, Goto, Rows, Forms, Tokens, NoToken
    <2>4. LoginsMatch'
      BY <1>4 DEF CheckPassword, Answer, Goto, Rows, Forms, Tokens, NoToken
    <2>5. CallsBear'
      BY SMTT(40), <1>4 DEF CheckPassword, Answer, Goto, Rows, Forms, Tokens, NoToken
    <2>6. Known'
      BY <1>4 DEF CheckPassword, Answer, Goto, Rows, Forms, Tokens, NoToken
    <2>7. SUFFICES ASSUME NEW q \in Logins, code'[q] = 401, ~idTokens, NEW k \in knew[q],
                          SameEmail(k, q), SameKey(k, q)
                   PROVE  FALSE
      BY SMTT(40), <1>4, <2>1, <2>2, <2>3, <2>4, <2>5, <2>6 DEF CheckPassword, Answer
    <2>8. Row(k) \in users /\ Folded[Row(k).email] = Folded[form[q].email]
      BY <2>7, KnownRow
    <2>9. at[r] = "check" /\ found[r] \in users
      BY <1>4 DEF CheckPassword
    <2> QED
      BY <1>4, <2>7, <2>8, <2>9 DEF CheckPassword, Answer
  <1>5. CASE LoginFails(r)
    BY <1>5 DEF LoginFails, Answer, Goto
  <1>6. CASE TokenRefused(r)
    BY <1>6 DEF TokenRefused, Answer, Goto
  <1> HIDE DEF Requests, IInv, TypeOK, Roles, RowsStand, LoginsMatch, CallsBear, Known, KnownLogsIn, RightCredentials
  <1> QED
    BY <1>1, <1>2, <1>3, <1>4, <1>5, <1>6 DEF LoginHandler

LEMMA CallKeeps ==
  ASSUME IInv, NEW r \in Calls, CallHandler(r) PROVE IInv'
  <1> USE RequestsAssumption, AccountsAssumption
      DEF Requests, IInv, TypeOK, Roles, RowsStand, LoginsMatch, CallsBear, Known, KnownLogsIn, RightCredentials,
          Row, SameEmail, SameKey
  <1>1. CASE Call(r)
    <2>1. TypeOK'
      BY <1>1 DEF Call, Arrive, NoForm, Rows
    <2>2. Roles'
      BY <1>1 DEF Call, Arrive, NoForm, Rows
    <2>3. RowsStand'
      BY <1>1 DEF Call, Arrive, NoForm, Rows
    <2>4. LoginsMatch'
      BY <1>1 DEF Call, Arrive, NoForm, Rows
    <2>5. CallsBear'
      BY <1>1 DEF Call, Arrive, NoForm, Rows
    <2>6. Known'
      BY <1>1 DEF Call, Arrive, NoForm, Rows
    <2>7. KnownLogsIn'
      BY <1>1 DEF Call, Arrive, NoForm, Rows
    <2> QED
      BY <2>1, <2>2, <2>3, <2>4, <2>5, <2>6, <2>7 DEF IInv
  <1>2. CASE Verify(r)
    <2>1. TypeOK'
      BY SMTT(40), <1>2 DEF Verify, Answer, Goto, Tokens, NoToken
    <2>2. Roles'
      BY <1>2 DEF Verify, Answer, Goto, Tokens, NoToken
    <2>3. RowsStand'
      BY <1>2 DEF Verify, Answer, Goto, Tokens, NoToken
    <2>4. LoginsMatch'
      BY <1>2 DEF Verify, Answer, Goto, Tokens, NoToken
    <2>5. CallsBear'
      BY <1>2 DEF Verify, Answer, Goto, Tokens, NoToken
    <2>6. Known'
      BY <1>2 DEF Verify, Answer, Goto, Tokens, NoToken
    <2>7. KnownLogsIn'
      BY SMTT(40), <1>2 DEF Verify, Answer, Goto, Tokens, NoToken
    <2> QED
      BY <2>1, <2>2, <2>3, <2>4, <2>5, <2>6, <2>7 DEF IInv
  <1>3. CASE VerifyFails(r)
    BY <1>3 DEF VerifyFails, Answer, Goto
  <1>4. CASE Serve(r)
    BY <1>4 DEF Serve, Answer, Goto
  <1> QED
    BY <1>1, <1>2, <1>3, <1>4 DEF CallHandler

LEMMA LateKeeps ==
  ASSUME IInv, NEW u \in late, LateCreate(u) PROVE IInv'
  BY RequestsAssumption, AccountsAssumption
  DEF IInv, TypeOK, Roles, RowsStand, LoginsMatch, CallsBear, Known, KnownLogsIn, RightCredentials,
      LateCreate, Row, SameEmail, SameKey, Taken, Requests

LEMMA TickKeeps == ASSUME IInv, Tick PROVE IInv'
  BY RequestsAssumption, AccountsAssumption
  DEF IInv, TypeOK, Roles, RowsStand, LoginsMatch, CallsBear, Known, KnownLogsIn, RightCredentials,
      Tick, Row, SameEmail, SameKey, Requests

THEOREM Invariance == Spec => []IInv
  <1>1. IInv /\ UNCHANGED vars => IInv'
    BY DEF IInv, TypeOK, Roles, RowsStand, LoginsMatch, CallsBear, Known, KnownLogsIn, RightCredentials,
           vars, Row, SameEmail, SameKey
  <1>2. IInv /\ Next => IInv'
    BY RegisterKeeps, LoginKeeps, CallKeeps, LateKeeps, TickKeeps DEF Next
  <1> QED
    BY <1>1, <1>2, InitInvariant, PTL DEF Spec

\* Every variable keeps its type, and a handler answers exactly once.
THEOREM TypeCorrect == Spec => []TypeOK
  BY Invariance, PTL DEF IInv

\* A registration answered 201 stands, and no token of its email is another's.
THEOREM RegistrationsStand == Spec => []RegistrationStands
  <1>1. IInv => RegistrationStands
    BY DEF IInv, Roles, RowsStand, LoginsMatch, RegistrationStands, Row, SameEmail, SameKey, Forms,
           Requests, TypeOK
  <1> QED
    BY <1>1, Invariance, PTL

\* Who knows of an account is not told that its credentials are invalid, unless the
\* calls of the auth service carry ID tokens.
THEOREM KnownAccountsLogIn == Spec => []KnownLogsIn
  BY Invariance, PTL DEF IInv

\* Protected handlers run for accounts that logged in less than tokenTTL ago.
THEOREM AdmissionsAreValid == Spec => []AdmittedWhileValid
  <1>1. ASSUME IInv PROVE AdmittedWhileValid
    <2> SUFFICES ASSUME NEW c \in Calls, at[c] = "serve" \/ code[c] = 200
                 PROVE  \E q \in Logins :
                            /\ code[q] = 200 /\ token[q] = token[c]
                            /\ when[q] <= when[c] /\ when[c] < when[q] + TokenTTL
                            /\ \E u \in users :
                                  /\ u.id = token[c].sub
                                  /\ Folded[u.email] = Folded[form[q].email]
                                  /\ u.hash = Key[form[q].password]
      BY DEF AdmittedWhileValid
    <2>1. PICK q \in Logins : /\ code[q] = 200 /\ token[q] = token[c]
                              /\ when[q] <= when[c] /\ when[c] < token[c].exp
      BY <1>1 DEF IInv, CallsBear
    <2>2. /\ found[q] \in users
          /\ Folded[found[q].email] = Folded[form[q].email]
          /\ Key[form[q].password] = found[q].hash
          /\ token[c] = [sub |-> found[q].id, exp |-> when[q] + TokenTTL]
      BY <1>1, <2>1 DEF IInv, LoginsMatch
    <2> QED
      BY <2>1, <2>2
  <1> QED
    BY <1>1, Invariance, PTL

(***************************************************************************)
(* Accounts implements Directory.                                          *)
(***************************************************************************)
Askers == Registrations \cup Logins
AccountsOf == {[id |-> u.id, email |-> Folded[u.email], key |-> u.hash] : u \in users}
FormsOf == [r \in Askers |-> AskedFor(r)]
AnswersOf == [r \in Askers |-> Told(r)]
MappedVars == <<AccountsOf, FormsOf, AnswersOf, idTokens>>

\* Steps that concern nobody who registers or logs in.
LEMMA Stutter ==
  ASSUME UNCHANGED <<users, idTokens>>,
         \A r \in Askers : form'[r] = form[r] /\ code'[r] = code[r] /\ token'[r] = token[r]
  PROVE  UNCHANGED MappedVars
  BY DEF MappedVars, AccountsOf, FormsOf, AnswersOf, AskedFor, Told

\* An answer changes what one request was told, and nothing else.
LEMMA AnswerMaps ==
  ASSUME IInv, NEW r \in Askers, form[r] \in Forms, at[r] # "done", UNCHANGED <<users, form, idTokens>>,
         \A q \in Askers \ {r} : code'[q] = code[q] /\ token'[q] = token[q],
         NEW a, Told(r)' = a
  PROVE  /\ D!Open(r)
         /\ D!Tell(r, a)
         /\ FormsOf[r] = [email |-> Folded[form[r].email], key |-> Key[form[r].password]]
  <1>1. code[r] = 0 /\ r \in Requests
    BY DEF IInv, TypeOK, Askers, Requests
  <1>2. form[r] # NoForm
    BY DEF Forms, NoForm
  <1>3. FormsOf[r] = [email |-> Folded[form[r].email], key |-> Key[form[r].password]]
    BY <1>2 DEF FormsOf, AskedFor
  <1>4. FormsOf[r] # NoForm
    BY <1>3 DEF NoForm
  <1>5. UNCHANGED <<AccountsOf, FormsOf>>
    BY DEF AccountsOf, FormsOf, AskedFor
  <1>6. \A q \in Askers \ {r} : Told(q)' = Told(q)
    BY DEF Told
  <1>8. AnswersOf' = [AnswersOf EXCEPT ![r] = Told(r)']
    BY <1>6 DEF AnswersOf
  <1>9. AnswersOf[r] = <<"none">>
    BY <1>1 DEF AnswersOf, Told
  <1>11. D!Open(r)
    BY <1>4, <1>9 DEF D!Open, FormsOf, AnswersOf, Askers
  <1>12. D!Tell(r, a)
    BY <1>5, <1>8 DEF D!Tell, AccountsOf, FormsOf, AnswersOf, Askers
  <1> QED
    BY <1>3, <1>11, <1>12

LEMMA FailMaps ==
  ASSUME IInv, NEW r \in Askers, Answer(r, 500), form[r] \in Forms, UNCHANGED <<users, token>>,
         at[r] # "done"
  PROVE  D!Failed(r)
  <1>0. /\ r \in Askers /\ UNCHANGED <<users, form, idTokens>> /\ code'[r] = 500
        /\ \A q \in Askers \ {r} : code'[q] = code[q] /\ token'[q] = token[q]
    BY DEF Answer, IInv, TypeOK, Askers, Requests
  <1>1. form'[r] # NoForm
    BY <1>0 DEF Forms, NoForm
  <1>2. Told(r)' = <<"failed">>
    BY <1>0, <1>1 DEF Told
  <1> QED
    <2>1. PICK a : Told(r)' = a /\ a = <<"failed">>
      BY <1>2
    <2>2. D!Open(r) /\ D!Tell(r, a)
      BY ZenonT(60), <1>0, <2>1, AnswerMaps
    <2> QED
      BY <2>1, <2>2 DEF D!Failed

\* What the accounts say is not asked where there are ID tokens.
LEMMA TurnMaps ==
  ASSUME IInv, NEW r \in Logins, Answer(r, 401), form[r] \in Forms, UNCHANGED <<users, token>>,
         at[r] # "done", idTokens
  PROVE  D!TurnedAway(r)
  <1>1. /\ r \in Askers /\ UNCHANGED <<users, form, idTokens>> /\ code'[r] = 401
        /\ \A q \in Askers \ {r} : code'[q] = code[q] /\ token'[q] = token[q]
    BY DEF Answer, IInv, TypeOK, Askers, Requests
  <1>2. form'[r] # NoForm
    BY <1>1 DEF Forms, NoForm
  <1>3. Told(r)' = <<"refused">>
    BY <1>1, <1>2 DEF Told
  <1>4. PICK a : Told(r)' = a /\ a = <<"refused">>
    BY <1>3
  <1>5. D!Open(r) /\ D!Tell(r, a)
    BY ZenonT(60), <1>1, <1>4, AnswerMaps
  <1> QED
    BY <1>4, <1>5 DEF D!TurnedAway

LEMMA RefuseMaps ==
  ASSUME IInv, NEW r \in Logins, Answer(r, 401), form[r] \in Forms, UNCHANGED <<users, token>>,
         at[r] # "done",
         \A u \in users : ~(Folded[u.email] = Folded[form[r].email]
                            /\ u.hash = Key[form[r].password])
  PROVE  D!Refused(r)
  <1>1. /\ r \in Askers /\ UNCHANGED <<users, form, idTokens>> /\ code'[r] = 401
        /\ \A q \in Askers \ {r} : code'[q] = code[q] /\ token'[q] = token[q]
    BY DEF Answer, IInv, TypeOK, Askers, Requests
  <1>2. form'[r] # NoForm
    BY <1>1 DEF Forms, NoForm
  <1>3. Told(r)' = <<"refused">>
    BY <1>1, <1>2 DEF Told
  <1>4. FormsOf[r] = [email |-> Folded[form[r].email], key |-> Key[form[r].password]]
    BY <1>1, <1>3, AnswerMaps
  <1>5. {a \in AccountsOf : a.email = FormsOf[r].email /\ a.key = FormsOf[r].key} = {}
    BY <1>4 DEF AccountsOf
  <1> QED
    <2>1. D!Matching(r) = {}
      BY <1>5 DEF D!Matching, AccountsOf, FormsOf, Askers
    <2> QED
      BY ZenonT(60), <1>1, <1>3, <2>1, AnswerMaps DEF D!Refused

LEMMA EnrollMaps ==
  ASSUME IInv, NEW r \in Registrations, form[r] \in Forms, ~Taken(form[r].email),
         users' = users \cup {Row(r)}, UNCHANGED <<form, code, token, idTokens>>
  PROVE  D!Enroll(r)
  <1>0. /\ Row(r).id = r /\ Row(r).email = form[r].email
        /\ Row(r).hash = Key[form[r].password]
    BY DEF Row
  <1>1. form[r] # NoForm
    BY DEF Forms, NoForm
  <1>2. FormsOf[r] = [email |-> Folded[form[r].email], key |-> Key[form[r].password]]
    BY <1>1 DEF FormsOf, AskedFor, Askers
  <1>3. FormsOf[r] # NoForm
    BY <1>2 DEF NoForm
  <1>4. AccountsOf' = AccountsOf \cup {[id |-> r, email |-> FormsOf[r].email, key |-> FormsOf[r].key]}
    BY <1>0, <1>2 DEF AccountsOf
  <1>5. \A a \in AccountsOf : a.email # FormsOf[r].email
    BY <1>2 DEF AccountsOf, Taken
  <1>6. UNCHANGED <<FormsOf, AnswersOf>>
    BY DEF FormsOf, AnswersOf, AskedFor, Told
  <1> QED
    BY <1>3, <1>4, <1>5, <1>6 DEF D!Enroll, D!Account, AccountsOf, FormsOf, AnswersOf, Askers

LEMMA AskMaps ==
  ASSUME IInv, NEW r \in Askers, NEW e \in Spellings, NEW p \in Passwords, NEW a,
         Arrive(r, [email |-> e, password |-> p], a), UNCHANGED <<code, token>>
  PROVE  \E f \in D!Forms : D!Ask(r, f)
  <1> DEFINE f == [email |-> Folded[e], key |-> Key[p]]
  <1>1. form[r] = NoForm /\ code[r] = 0 /\ r \in Requests
    BY DEF Arrive, IInv, TypeOK, Roles, Askers, Requests
  <1>2. form'[r] = [email |-> e, password |-> p] /\ form'[r] # NoForm
    BY SMTT(40), <1>1 DEF Arrive, IInv, TypeOK, NoForm
  <1>3. FormsOf[r] = NoForm /\ FormsOf' = [FormsOf EXCEPT ![r] = f]
    <2>1. \A q \in Askers \ {r} : AskedFor(q)' = AskedFor(q)
      BY <1>1 DEF Arrive, AskedFor, IInv, TypeOK
    <2>2. AskedFor(r)' = f /\ AskedFor(r) = NoForm
      BY <1>1, <1>2 DEF AskedFor
    <2> QED
      BY <2>1, <2>2 DEF FormsOf
  <1>4. UNCHANGED <<AccountsOf, AnswersOf, idTokens>>
    <2>1. \A q \in Askers : Told(q)' = Told(q)
      BY <1>1 DEF Arrive, Told, IInv, TypeOK
    <2> QED
      BY <2>1 DEF Arrive, AccountsOf, AnswersOf
  <1>5. f \in D!Forms
    BY AccountsAssumption DEF D!Forms
  <1>6. D!Ask(r, f)
    BY <1>3, <1>4 DEF D!Ask, AccountsOf, FormsOf, AnswersOf, Askers
  <1> QED
    BY <1>5, <1>6

LEMMA RegisterMaps ==
  ASSUME IInv, NEW r \in Registrations, RegisterHandler(r)
  PROVE  D!Next \/ UNCHANGED MappedVars
  <1>1. r \in Askers /\ r \in Requests /\ (at[r] \notin {"idle", "done"} => form[r] \in Forms)
    BY DEF Askers, Requests, IInv, TypeOK, Roles
  <1>2. ASSUME NEW e \in Spellings, NEW p \in Passwords, Register(r, e, p) PROVE D!Next
    BY <1>1, <1>2, AskMaps DEF Register, D!Next, D!Requests, Askers
  <1>3. CASE BadBody(r)
    <2>1. form[r] = NoForm /\ form' = form
      BY <1>1, <1>3 DEF BadBody, Answer, IInv, Roles
    <2>2. \A q \in Askers : Told(q)' = Told(q)
      BY <1>1, <1>3, <2>1 DEF BadBody, Answer, Told, IInv, TypeOK
    <2> QED
      BY <1>3, <2>1, <2>2 DEF BadBody, Answer, MappedVars, AccountsOf, FormsOf, AnswersOf, AskedFor
  <1>4. CASE HashPassword(r)
    <2>1. CASE Goto(r, "insert")
      BY <1>4, <2>1, Stutter DEF HashPassword, Goto
    <2>2. CASE Answer(r, 500) /\ UNCHANGED token
      BY <1>1, <1>4, <2>2, FailMaps DEF HashPassword, D!Next, D!Requests, Askers
    <2> QED
      BY <1>4, <2>1, <2>2 DEF HashPassword
  <1>5. CASE Create(r)
    <2>1. ASSUME ~Taken(form[r].email) PROVE D!Enroll(r)
      BY <1>1, <1>5, <2>1, EnrollMaps DEF Create, Goto
    <2>2. ASSUME Taken(form[r].email) PROVE D!Failed(r)
      BY <1>1, <1>5, <2>2, FailMaps DEF Create
    <2> QED
      BY <2>1, <2>2 DEF D!Next, D!Requests
  <1>6. CASE Registered(r)
    <2>1. /\ UNCHANGED <<users, form, idTokens>> /\ code'[r] = 201
          /\ \A q \in Askers \ {r} : code'[q] = code[q] /\ token'[q] = token[q]
      BY <1>1, <1>6 DEF Registered, Answer, IInv, TypeOK
    <2>2. form[r] \in Forms /\ at[r] # "done" /\ Row(r) \in users
      BY <1>1, <1>6 DEF Registered, IInv, RowsStand
    <2>3. form'[r] # NoForm
      BY <2>1, <2>2 DEF Forms, NoForm
    <2>4. Told(r)' = <<"created">>
      BY <2>1, <2>3 DEF Told
    <2>5. [id |-> r, email |-> FormsOf[r].email, key |-> FormsOf[r].key] \in AccountsOf
      <3>1. FormsOf[r] = [email |-> Folded[form[r].email], key |-> Key[form[r].password]]
        BY <1>1, <2>1, <2>2, <2>4, AnswerMaps
      <3> QED
        BY <2>2, <3>1 DEF Row, AccountsOf
    <2>6. D!Created(r)
      <3>1. D!Open(r) /\ D!Tell(r, <<"created">>)
        BY ZenonT(60), <1>1, <2>1, <2>2, <2>4, AnswerMaps
      <3>2. D!Account(r) \in AccountsOf
        BY <2>5 DEF D!Account, FormsOf, Askers
      <3> QED
        BY <3>1, <3>2 DEF D!Created, AccountsOf
    <2> QED
      BY <2>6 DEF D!Next
  <1>7. CASE RegisterFails(r)
    BY <1>1, <1>7, FailMaps DEF RegisterFails, D!Next, D!Requests, Askers
  <1> QED
    BY <1>2, <1>3, <1>4, <1>5, <1>6, <1>7 DEF RegisterHandler

LEMMA LoginMaps ==
  ASSUME IInv, NEW r \in Logins, LoginHandler(r)
  PROVE  D!Next \/ UNCHANGED MappedVars
  <1>1. r \in Askers /\ r \in Requests /\ (at[r] \notin {"idle", "done"} => form[r] \in Forms)
    BY DEF Askers, Requests, IInv, TypeOK, Roles
  <1>2. ASSUME NEW e \in Spellings, NEW p \in Passwords, Login(r, e, p) PROVE D!Next
    BY <1>1, <1>2, AskMaps DEF Login, D!Next, D!Requests, Askers
  <1>3. CASE BadBody(r)
    <2>1. form[r] = NoForm /\ form' = form
      BY <1>1, <1>3 DEF BadBody, Answer, IInv, Roles, Askers
    <2>2. \A q \in Askers : Told(q)' = Told(q)
      BY <1>1, <1>3, <2>1 DEF BadBody, Answer, Told, IInv, TypeOK
    <2> QED
      BY <1>3, <2>1, <2>2 DEF BadBody, Answer, MappedVars, AccountsOf, FormsOf, AnswersOf, AskedFor
  <1>4. CASE GetUserByEmail(r)
    <2>1. CASE Goto(r, "check")
      BY <1>4, <2>1, Stutter DEF GetUserByEmail, Goto
    <2>2. CASE ~Taken(form[r].email) /\ Answer(r, 401) /\ UNCHANGED token
      BY <1>1, <1>4, <2>2, RefuseMaps DEF GetUserByEmail, Taken, D!Next
    <2> QED
      BY <1>4, <2>1, <2>2 DEF GetUserByEmail
  <1>5. CASE CheckPassword(r)
    <2>1. /\ at[r] = "check" /\ found[r] \in users
          /\ Folded[found[r].email] = Folded[form[r].email]
          /\ \A u \in users : Folded[u.email] = Folded[form[r].email] => u = found[r]
      <3>1. at[r] = "check"
        BY <1>5 DEF CheckPassword
      <3>2. found[r] \in users /\ Folded[found[r].email] = Folded[form[r].email]
        BY <3>1 DEF IInv, LoginsMatch
      <3> QED
        BY <3>1, <3>2 DEF IInv, RowsStand
    <2>2. CASE Key[form[r].password] # found[r].hash
      <3>1. Answer(r, 401) /\ UNCHANGED <<users, token>>
        BY <1>5, <2>2 DEF CheckPassword
      <3>2. D!Refused(r)
        BY <1>1, <2>1, <2>2, <3>1, RefuseMaps
      <3> QED
        BY <3>2 DEF D!Next
    <2>3. CASE Key[form[r].password] = found[r].hash
      <3>1. /\ UNCHANGED <<users, form, idTokens>> /\ code'[r] = 200 /\ token'[r].sub = found[r].id
            /\ \A q \in Askers \ {r} : code'[q] = code[q] /\ token'[q] = token[q]
        <4>1. token'[r] = [sub |-> found[r].id, exp |-> now + TokenTTL]
          BY <1>1, <1>5, <2>3 DEF CheckPassword, IInv, TypeOK
        <4> QED
          BY <1>1, <1>5, <2>3, <4>1 DEF CheckPassword, Answer, IInv, TypeOK, Askers, Requests
      <3>2. form[r] \in Forms /\ at[r] # "done"
        BY <1>1, <2>1
      <3>3. form'[r] # NoForm
        BY <3>1, <3>2 DEF Forms, NoForm
      <3>4. Told(r)' = <<"granted", found[r].id>>
        BY <3>1, <3>3 DEF Told
      <3> DEFINE a == [id |-> found[r].id, email |-> Folded[found[r].email], key |-> found[r].hash]
      <3>5. a \in AccountsOf /\ a.email = FormsOf[r].email /\ a.key = FormsOf[r].key
        <4>1. FormsOf[r] = [email |-> Folded[form[r].email], key |-> Key[form[r].password]]
          BY <1>1, <3>1, <3>2, <3>4, AnswerMaps
        <4> QED
          BY <2>1, <2>3, <4>1 DEF AccountsOf
      <3>6. D!Granted(r)
        <4>1. D!Open(r) /\ D!Tell(r, <<"granted", a.id>>)
          BY <1>1, <3>1, <3>2, <3>4, AnswerMaps
        <4>2. a \in D!Matching(r)
          BY <3>5 DEF D!Matching, AccountsOf, FormsOf, Askers
        <4> QED
          BY <4>1, <4>2 DEF D!Granted
      <3> QED
        BY <3>6 DEF D!Next
    <2> QED
      BY <2>2, <2>3
  <1>6. CASE LoginFails(r)
    BY <1>1, <1>6, FailMaps DEF LoginFails, D!Next, D!Requests, Askers
  <1>7. CASE TokenRefused(r)
    BY <1>1, <1>7, TurnMaps DEF TokenRefused, D!Next
  <1> QED
    BY <1>2, <1>3, <1>4, <1>5, <1>6, <1>7 DEF LoginHandler

LEMMA CallMaps ==
  ASSUME IInv, NEW r \in Calls, CallHandler(r) PROVE UNCHANGED MappedVars
  <1>1. \A q \in Askers : q # r /\ q \in Requests
    BY RequestsAssumption DEF Askers, Requests
  <1>2. /\ UNCHANGED <<users, idTokens>>
        /\ \A q \in Askers : form'[q] = form[q] /\ code'[q] = code[q] /\ token'[q] = token[q]
    BY <1>1 DEF CallHandler, Call, Verify, VerifyFails, Serve, Arrive, Goto, Answer, IInv, TypeOK
  <1> QED
    BY <1>2, Stutter

LEMMA LateMaps ==
  ASSUME IInv, NEW u \in late, LateCreate(u)
  PROVE  D!Next \/ UNCHANGED MappedVars
  <1>1. u.id \in Registrations /\ form[u.id] \in Forms /\ u = Row(u.id)
    BY DEF IInv, TypeOK, RowsStand, Rows
  <1>2. u.email = form[u.id].email
    BY <1>1 DEF Row
  <1>3. CASE Taken(u.email)
    BY <1>3, Stutter DEF LateCreate
  <1>4. CASE ~Taken(u.email)
    BY <1>1, <1>2, <1>4, EnrollMaps DEF LateCreate, D!Next
  <1> QED
    BY <1>3, <1>4

\* Registration and login, with all their failures, are those of the Directory,
\* whose guard is the ID tokens of Cloud Run.
THEOREM AccountsImplementDirectory == Spec => ImplementsDirectory
  <1>1. ASSUME Init PROVE D!Init
    <2>1. \A r \in Askers : AskedFor(r) = NoForm /\ Told(r) = <<"none">>
      BY <1>1 DEF Init, AskedFor, Told, Askers, Requests
    <2>2. AccountsOf = {}
      BY <1>1 DEF Init, AccountsOf
    <2> QED
      BY <1>1, <2>1, <2>2 DEF Init, D!Init, D!Requests, AccountsOf, Askers
  <1>2. ASSUME IInv, Next PROVE D!Next \/ UNCHANGED MappedVars
    <2>1. CASE Tick
      BY <2>1, Stutter DEF Tick
    <2> QED
      BY <1>2, <2>1, RegisterMaps, LoginMaps, CallMaps, LateMaps DEF Next
  <1>3. UNCHANGED vars => UNCHANGED MappedVars
    BY Stutter DEF vars
  <1>4. UNCHANGED MappedVars <=> UNCHANGED D!vars
    BY DEF MappedVars, D!vars, AccountsOf, FormsOf, AnswersOf, Askers
  <1>5. IInv /\ [Next]_vars => [D!Next]_(D!vars)
    BY <1>2, <1>3, <1>4
  <1> QED
    BY <1>1, <1>5, Invariance, PTL DEF Spec, ImplementsDirectory, D!Spec
=============================================================================
