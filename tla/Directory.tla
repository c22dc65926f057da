------------------------------ MODULE Directory ------------------------------
(***************************************************************************)
(* What the account system promises (docs/architecture.md: register, then  *)
(* log in): an email has one account for good, a registration that is      *)
(* answered "created" made it, and a login is granted or refused according *)
(* to the accounts there are.  A registration whose caller is told that it *)
(* failed may have made the account, or may make it yet.  Where a guard    *)
(* stands before the accounts, a login may be refused at the gate, whoever *)
(* asks.  Accounts implements this.                                        *)
(***************************************************************************)
CONSTANTS Registrations, Logins, Emails, Keys, NoForm

VARIABLES
    accounts,   \* [id, email, key], the id being the request that made it
    form,       \* what each request asks for
    answer,     \* what it was told, <<"none">> before
    guarded     \* there is a guard; this never changes

vars == <<accounts, form, answer, guarded>>

Requests == Registrations \cup Logins
Forms == [email : Emails, key : Keys]
Account(r) == [id |-> r, email |-> form[r].email, key |-> form[r].key]
Open(r) == form[r] # NoForm /\ answer[r] = <<"none">>
Tell(r, a) == answer' = [answer EXCEPT ![r] = a] /\ UNCHANGED <<accounts, form, guarded>>

\* The accounts a login of r may be granted.
Matching(r) == {a \in accounts : a.email = form[r].email /\ a.key = form[r].key}

Init ==
    /\ accounts = {}
    /\ form = [r \in Requests |-> NoForm]
    /\ answer = [r \in Requests |-> <<"none">>]
    /\ guarded \in BOOLEAN

Ask(r, f) ==
    /\ form[r] = NoForm
    /\ form' = [form EXCEPT ![r] = f]
    /\ UNCHANGED <<accounts, answer, guarded>>

Enroll(r) ==
    /\ form[r] # NoForm
    /\ \A a \in accounts : a.email # form[r].email
    /\ accounts' = accounts \cup {Account(r)}
    /\ UNCHANGED <<form, answer, guarded>>

Created(r) == Open(r) /\ Account(r) \in accounts /\ Tell(r, <<"created">>)
Granted(r) == Open(r) /\ \E a \in Matching(r) : Tell(r, <<"granted", a.id>>)
Refused(r) == Open(r) /\ Matching(r) = {} /\ Tell(r, <<"refused">>)
TurnedAway(r) == guarded /\ Open(r) /\ Tell(r, <<"refused">>)
Failed(r) == Open(r) /\ Tell(r, <<"failed">>)

Next ==
    \/ \E r \in Requests, f \in Forms : Ask(r, f)
    \/ \E r \in Requests : Failed(r)
    \/ \E r \in Registrations : Enroll(r) \/ Created(r)
    \/ \E r \in Logins : Granted(r) \/ Refused(r) \/ TurnedAway(r)

Spec == Init /\ [][Next]_vars
=============================================================================
