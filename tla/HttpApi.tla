------------------------------- MODULE HttpApi -------------------------------
(***************************************************************************)
(* The http server (internal/transport) in front of one upload: CORS,      *)
(* requireAuth, and the handlers with the calls they make to Postgres      *)
(* (internal/metadata), Temporal (internal/pipeline/orchestrator.go) and   *)
(* MinIO (internal/storage).  What becomes of the upload between these     *)
(* calls is what UploadLifecycle says, which UploadPipeline implements.    *)
(*                                                                         *)
(* The server keeps nothing from one request to the next, so that its      *)
(* death is the loss of all requests that are under way.  Register and     *)
(* login are the business of Accounts.                                     *)
(***************************************************************************)
EXTENDS Naturals

CONSTANTS
    Calls,      \* slots for requests that are under way at once
    Clients,    \* [user, origin]: a session in a page, or in none (NoOrigin)
    Allowed,    \* CORS_ALLOWED_ORIGINS
    Variants    \* the sizes that are made of an upload

NoOrigin == "no origin"
Nobody == "nobody"
Users == {c.user : c \in Clients}
Origins == {c.origin : c \in Clients}

ASSUME ClientsAssumption ==
    /\ Clients \subseteq [user : Users, origin : Origins]
    /\ Nobody \notin Users
    /\ "original" \notin Variants

VARIABLES
    status, verdict, published, started, signalled,   \* the upload, as in UploadLifecycle
    owner,      \* user_id of its row
    late,       \* the INSERT or the start, when nobody waits for it any more
    req,        \* what occupies each slot
    answer,     \* what a client was answered in the step just taken
    maker,      \* history: who called POST /uploads
    asked,      \* history: the maker has called complete
    told        \* history: what the maker was told by a 201, a status or a list

L == INSTANCE UploadLifecycle

uploadVars == <<status, verdict, published, owner, started, signalled, late>>
history == <<maker, asked, told>>
vars == <<uploadVars, req, answer, history>>

ByIdRoutes == {"complete", "status", "image"}
Protected == {"create", "list"} \cup ByIdRoutes
Public == {"health", "page"}
Routes == Protected \cup Public
Sizes == Variants \cup {"original"}

Idle == [at |-> "idle"]
NoAnswer == [code |-> 0]
Silent == answer' = NoAnswer

User(c) == req[c].client.user
Goto(c, a) == req' = [req EXCEPT ![c].at = a] /\ Silent

OriginAllowed(o) == o \in Allowed \/ "*" \in Allowed

\* The Access-Control-Allow-Origin of every answer to a page of origin o.
AllowOrigin(o) == IF o # NoOrigin /\ OriginAllowed(o) THEN o ELSE NoOrigin

\* The request is over; its client reads the answer, what it says included.
AnswerSaying(c, k, s) ==
    /\ answer' = [to |-> req[c], code |-> k, says |-> s,
                  allows |-> AllowOrigin(req[c].client.origin)]
    /\ req' = [req EXCEPT ![c] = Idle]
    /\ told' = told \cup (IF k = 201 THEN {"created"} ELSE {})
                    \cup (IF s = "complete" THEN {"complete"} ELSE {})
    /\ UNCHANGED <<maker, asked>>

Answer(c, k) == AnswerSaying(c, k, "nothing")

Init ==
    /\ L!Init
    /\ owner = Nobody /\ late = {}
    /\ req = [c \in Calls |-> Idle]
    /\ answer = NoAnswer
    /\ maker = Nobody /\ asked = FALSE /\ told = {}

(***************************************************************************)
(* In front of the handlers                                                *)
(***************************************************************************)
\* A client calls, a page through its browser.  One upload is modelled, so there is
\* one create, and the path ids are the upload's (any other id is that of an upload
\* with no row yet).
Call(c, client, route) ==
    /\ req[c] = Idle
    /\ route = "create" => maker = Nobody
    /\ route \in ByIdRoutes => maker # Nobody
    /\ req' = [req EXCEPT ![c] =
                 [at |-> CASE route \in Public -> "public"
                           [] route \in Protected /\ client.origin # NoOrigin -> "browser"
                           [] OTHER -> "auth",
                  client |-> client, route |-> route, size |-> "none",
                  knew |-> IF client.user = maker THEN told ELSE {}]]
    /\ maker' = IF route = "create" THEN client.user ELSE maker
    /\ asked' = (asked \/ (route = "complete" /\ client.user = maker))
    /\ Silent
    /\ UNCHANGED <<uploadVars, told>>

\* GET /health and the files of GET /.
ServePublic(c) ==
    /\ req[c].at = "public"
    /\ Answer(c, 200)
    /\ UNCHANGED uploadVars

\* Mutant: CORS inside requireAuth, where OPTIONS bears no token.
BugPreflight(c) ==
    /\ req[c].at = "browser"
    /\ Answer(c, 401)
    /\ UNCHANGED uploadVars

\* A page may call without a token: its browser sends that without asking first.
NoToken(c) ==
    /\ req[c].at = "browser"
    /\ AnswerSaying(c, 401, "tokenless")
    /\ UNCHANGED uploadVars

\* For a call with an Authorization header the browser asks first: CORS answers
\* OPTIONS, and the browser goes on if its origin is in the answer.
Preflight(c) ==
    /\ req[c].at = "browser"
    /\ \/ /\ AllowOrigin(req[c].client.origin) = req[c].client.origin
          /\ Goto(c, "auth")
          /\ UNCHANGED history
       \/ /\ AllowOrigin(req[c].client.origin) # req[c].client.origin
          /\ Answer(c, 204)
    /\ UNCHANGED uploadVars

\* The first call that the handler of a route makes.
Handler(r) == IF r = "create" THEN "insert" ELSE IF r = "list" THEN "rows" ELSE "row"

\* requireAuth, and what the handler checks before any call.
Authenticate(c) ==
    /\ req[c].at = "auth"
    /\ \/ Goto(c, Handler(req[c].route)) /\ UNCHANGED history
       \/ req[c].route # "list" /\ Answer(c, 400)   \* an id or a body that is none
       \/ Answer(c, 401)   \* no token, an expired one, or no auth service
    /\ UNCHANGED uploadVars

(***************************************************************************)
(* POST /uploads: Negotiate                                                *)
(***************************************************************************)
\* The INSERT, with the caller's id, status "pending".
Record(u) == L!Record /\ owner' = u

CreateRow(c) ==
    /\ req[c].at = "insert"
    /\ Record(User(c))
    /\ Goto(c, "start")
    /\ UNCHANGED <<late, history>>

Start(c) ==
    /\ req[c].at = "start"
    /\ started' = TRUE
    /\ Goto(c, "presign")
    /\ UNCHANGED <<status, verdict, published, owner, signalled, late, history>>

Presign(c) ==
    /\ req[c].at = "presign"
    /\ Answer(c, 201) \/ Answer(c, 500)
    /\ UNCHANGED uploadVars

\* The client is told of an error, or of nothing: the connection is lost.
Drop(c) == req' = [req EXCEPT ![c] = Idle] /\ Silent /\ UNCHANGED history
Refuse(c) == Answer(c, 500) \/ Drop(c)

\* Mutant: the error of the INSERT is logged only.
BugCreateRowFails(c) ==
    /\ req[c].at = "insert"
    /\ Goto(c, "start")
    /\ UNCHANGED <<uploadVars, history>>

\* A call that fails was executed, or will be, or never will be.
CreateRowFails(c) ==
    /\ req[c].at = "insert"
    /\ Refuse(c)
    /\ \/ UNCHANGED uploadVars
       \/ Record(User(c)) /\ UNCHANGED late
       \/ /\ late' = late \cup {"row"}
          /\ UNCHANGED <<status, verdict, published, owner, started, signalled>>

\* Mutant: the error of ExecuteWorkflow is logged only.
BugStartFails(c) ==
    /\ req[c].at = "start"
    /\ Goto(c, "presign")
    /\ UNCHANGED <<uploadVars, history>>

StartFails(c) ==
    /\ req[c].at = "start"
    /\ Refuse(c)
    /\ started' = TRUE \/ UNCHANGED started
    /\ late' = late \cup {"start"} \/ UNCHANGED late
    /\ UNCHANGED <<status, verdict, published, owner, signalled>>

LateRow ==
    /\ "row" \in late
    /\ Record(maker)
    /\ late' = late \ {"row"}
    /\ Silent /\ UNCHANGED <<req, history>>

LateStart ==
    /\ "start" \in late
    /\ started' = TRUE /\ late' = late \ {"start"}
    /\ Silent /\ UNCHANGED <<status, verdict, published, owner, signalled, req, history>>

(***************************************************************************)
(* The routes of one upload, and GET /images                               *)
(***************************************************************************)
\* What a handler does when requireOwner has let it pass.
Passed(c) ==
    \/ req[c].route = "status" /\ AnswerSaying(c, 200, status)
    \/ req[c].route = "complete" /\ Goto(c, "signal") /\ UNCHANGED history
    \/ req[c].route = "image" /\ Answer(c, 400)   \* no such size
    \/ /\ req[c].route = "image"
       /\ \E s \in Sizes : req' = [req EXCEPT ![c].at = "fetch", ![c].size = s]
       /\ Silent
       /\ UNCHANGED history

\* Mutant: completeUpload does not look at whose upload it is.
BugAnyCompletes(c) ==
    /\ req[c].at = "row"
    /\ LET fine == status # "none" /\ (req[c].route = "complete" \/ owner = User(c))
       IN  (fine /\ Passed(c)) \/ (~fine /\ Answer(c, 404))
    /\ UNCHANGED uploadVars

\* Mutant: images go out only while the row reads "complete".
BugCompleteOnly(c) ==
    /\ req[c].at = "row"
    /\ LET fine == /\ status # "none" /\ owner = User(c)
                   /\ req[c].route = "image" => status = "complete"
       IN  (fine /\ Passed(c)) \/ (~fine /\ Answer(c, 404))
    /\ UNCHANGED uploadVars

\* Metadata's Get, and the comparison with the caller.
RequireOwner(c) ==
    /\ req[c].at = "row"
    /\ LET fine == status # "none" /\ owner = User(c)
       IN  (fine /\ Passed(c)) \/ (~fine /\ Answer(c, 404))
    /\ UNCHANGED uploadVars

\* Mutant: SignalWithStartWorkflow.
BugSignal(c) ==
    /\ req[c].at = "signal"
    /\ signalled' = TRUE
    /\ Answer(c, 200)
    /\ UNCHANGED <<status, verdict, published, owner, started, late>>

\* Temporal delivers the signal, or knows no such open workflow: 200 as well.
Signal(c) ==
    /\ req[c].at = "signal"
    /\ signalled' = (signalled \/ (started /\ verdict = "none"))
    /\ Answer(c, 200)
    /\ UNCHANGED <<status, verdict, published, owner, started, late>>

SignalFails(c) ==
    /\ req[c].at = "signal"
    /\ Refuse(c)
    /\ signalled' = (signalled \/ (started /\ verdict = "none")) \/ UNCHANGED signalled
    /\ UNCHANGED <<status, verdict, published, owner, started, late>>

\* MinIO's answer goes out as it is, and any error as a 404.
Fetch(c) ==
    /\ req[c].at = "fetch"
    /\ \/ req[c].size \in published \cup {"original"} /\ AnswerSaying(c, 200, "image")
       \/ req[c].size \notin published /\ Answer(c, 404)
    /\ UNCHANGED uploadVars

FetchFails(c) ==
    /\ req[c].at = "fetch"
    /\ AnswerSaying(c, 404, "failure")
    /\ UNCHANGED uploadVars

\* Mutant: SELECT without WHERE user_id = $1.
BugListImages(c) ==
    /\ req[c].at = "rows"
    /\ AnswerSaying(c, 200, status)
    /\ UNCHANGED uploadVars

\* The caller's own uploads: this one, with its status, or none.
Own(u) == IF owner = u THEN status ELSE "none"

ListImages(c) ==
    /\ req[c].at = "rows"
    /\ AnswerSaying(c, 200, Own(User(c)))
    /\ UNCHANGED uploadVars

ReadFails(c) ==
    /\ req[c].at \in {"row", "rows"}
    /\ Answer(c, 500)
    /\ UNCHANGED uploadVars

\* A connection breaks, or the server dies, while no write is under way.
Lost(c) ==
    /\ req[c].at \in {"public", "browser", "auth", "presign", "row", "rows", "fetch"}
    /\ Drop(c)
    /\ UNCHANGED uploadVars

Serve(c) ==
    \/ ServePublic(c) \/ NoToken(c) \/ Preflight(c) \/ Authenticate(c)
    \/ CreateRow(c) \/ CreateRowFails(c) \/ Start(c) \/ StartFails(c) \/ Presign(c)
    \/ RequireOwner(c) \/ Signal(c) \/ SignalFails(c) \/ Fetch(c) \/ FetchFails(c)
    \/ ListImages(c) \/ ReadFails(c) \/ Lost(c)

\* What the workflow and its worker do meanwhile: UploadPipeline implements it.
Pipeline == L!Run /\ Silent /\ UNCHANGED <<owner, late, req, history>>

Next ==
    \/ \E c \in Calls, client \in Clients, r \in Routes : Call(c, client, r)
    \/ \E c \in Calls : Serve(c)
    \/ LateRow \/ LateStart \/ Pipeline

Spec == Init /\ [][Next]_vars
-----------------------------------------------------------------------------
Steps == {"public", "browser", "auth", "insert", "start", "presign", "row", "rows",
          "signal", "fetch"}
Statuses == {"none", "pending", "validating", "processing"} \cup L!Verdicts
Requests == [at : Steps, client : Clients, route : Routes,
             size : Sizes \cup {"none"}, knew : SUBSET {"created", "complete"}]

\* Types, and that only a workflow that was started is signalled.
TypeOK ==
    /\ status \in Statuses
    /\ verdict \in {"none"} \cup L!Verdicts
    /\ published \subseteq Variants
    /\ owner \in Users \cup {Nobody} /\ maker \in Users \cup {Nobody}
    /\ started \in BOOLEAN /\ signalled \in BOOLEAN
    /\ late \subseteq {"row", "start"}
    /\ asked \in BOOLEAN /\ told \subseteq {"created", "complete"}
    /\ req \in [Calls -> {Idle} \cup Requests]
    /\ answer # NoAnswer =>
          /\ answer.to \in Requests
          /\ answer.code \in {200, 201, 204, 400, 401, 404, 500}
          /\ answer.allows \in Origins \cup {NoOrigin}
    /\ signalled => started

ByMaker(a) == a.to.client.user = maker

\* An upload whose creation was answered with a 201 is there for its maker in every
\* later request: no 404 for its status or its completion, and the list has it.
CreatedIsVisible ==
    answer # NoAnswer /\ "created" \in answer.to.knew =>
        /\ answer.to.route \in {"status", "complete"} =>
              answer.code # 404
        /\ answer.to.route = "list" /\ answer.code = 200 => answer.says # "none"

\* Whoever read "complete", in a status or a list, can then fetch every variant, no
\* matter what the status has come to read since: only the store's failure is in
\* the way.
CompleteIsServed ==
    /\ answer # NoAnswer /\ "complete" \in answer.to.knew
    /\ answer.to.route = "image" /\ answer.to.size # "original" /\ answer.code = 404
    => answer.says = "failure"

\* Nobody but its maker reads anything of an upload: an id is not "the only access
\* guard", as README.md still has it.
OnlyToMaker ==
    answer # NoAnswer /\ ~ByMaker(answer) =>
        /\ answer.to.route \in {"status", "image"} => answer.code # 200
        /\ answer.to.route = "list" /\ answer.code = 200 => answer.says = "none"

\* No verdict but "abandoned" is reached unless the maker has called complete: a
\* call of anyone else leaves the workflow waiting.
VerdictIsAskedFor ==
    verdict \notin {"none", "abandoned"} \/ published # {} => asked

\* A page of an allowed origin reads the answer to each of its calls, refusals by
\* requireAuth included, and its browser never keeps back a call that bears a token;
\* of a page of another origin it keeps back all of these, so that no handler of a
\* protected route is reached: requireAuth refuses the calls that bear none.
OriginsServed ==
    answer # NoAnswer /\ answer.to.client.origin # NoOrigin =>
        IF OriginAllowed(answer.to.client.origin)
        THEN /\ answer.allows = answer.to.client.origin
             /\ answer.to.at = "browser" => answer.says = "tokenless"
        ELSE answer.allows = NoOrigin
             /\ (answer.to.route \in Protected => answer.to.at = "browser")

\* An upload whose creation was answered with a 201 has the workflow that will reap
\* it (and that closes, UploadPipeline's WorkflowCloses): the upload whose Start
\* failed is nobody's.  So its maker's complete call, when answered with a 200, has
\* been heard, or the upload was abandoned before and will stay so: that 200 may
\* stand for a NotFound.
CreatedIsReaped ==
    /\ "created" \in told => started
    /\ answer # NoAnswer /\ "created" \in answer.to.knew =>
          (answer.to.route = "complete" /\ answer.code = 200 =>
              (signalled <=> verdict # "abandoned"))

\* The server keeps its side of the lifecycle that UploadPipeline implements on the
\* other: whatever calls fail, overtake each other or take effect late, the row is
\* inserted once, a workflow is started for a recorded upload only, and a signal is
\* taken to be heard only if it comes before the verdict.
KeepsLifecycle == L!Spec
=============================================================================
