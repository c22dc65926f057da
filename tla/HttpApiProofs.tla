---------------------------- MODULE HttpApiProofs ----------------------------
(***************************************************************************)
(* What the http server guarantees for any number of requests under way,   *)
(* any clients, allowed origins and variants.                              *)
(***************************************************************************)
EXTENDS HttpApi, TLAPS

\* The upload: whose it is, and why its verdict is what it is.
UploadOK ==
    /\ status \in Statuses
    /\ verdict \in {"none"} \cup L!Verdicts
    /\ published \subseteq Variants
    /\ started \in BOOLEAN /\ signalled \in BOOLEAN /\ late \subseteq {"row", "start"}
    /\ maker \in Users \cup {Nobody}
    /\ owner = IF status = "none" THEN Nobody ELSE maker
    /\ status # "none" \/ "row" \in late => maker # Nobody
    /\ started \/ "start" \in late => status # "none"
    /\ signalled => started /\ asked
    /\ verdict # "none" => started /\ (signalled <=> verdict # "abandoned")
    /\ published # {} => signalled
    /\ verdict = "complete" => published = Variants
    /\ status = "complete" => verdict = "complete"

\* What the maker was told is so.
HistoryOK ==
    /\ asked \in BOOLEAN
    /\ told \subseteq {"created", "complete"}
    /\ told # {} => status # "none"
    /\ "created" \in told => started
    /\ "complete" \in told => verdict = "complete"

\* The steps that a request of each route takes.
Path(r) ==
    CASE r \in Public -> {"public"}
      [] r = "create" -> {"browser", "auth", "insert", "start", "presign"}
      [] r = "list" -> {"browser", "auth", "rows"}
      [] r = "complete" -> {"browser", "auth", "row", "signal"}
      [] r = "status" -> {"browser", "auth", "row"}
      [] r = "image" -> {"browser", "auth", "row", "fetch"}

\* What a request has established by being where it is.
Sound(r) ==
    /\ r \in Requests
    /\ r.at \in Path(r.route)
    /\ r.route \in ByIdRoutes \cup {"create"} => maker # Nobody
    /\ r.route = "create" \/ r.at \in {"signal", "fetch"} \/ r.knew # {} =>
          r.client.user = maker
    /\ r.at \in {"start", "presign"} => status # "none"
    /\ r.at = "presign" => started
    /\ r.at = "fetch" => r.size \in Sizes
    /\ r.route = "complete" /\ r.client.user = maker => asked
    /\ r.knew \subseteq told
    /\ r.at = "browser" => r.client.origin # NoOrigin
    /\ r.route \in Protected /\ r.client.origin # NoOrigin /\ r.at # "browser" =>
          OriginAllowed(r.client.origin)

RequestsOK ==
    /\ req \in [Calls -> {Idle} \cup Requests]
    /\ \A c \in Calls, r \in Requests : r = req[c] => Sound(r)

AnswerOK ==
    /\ answer # NoAnswer => 
          /\ answer.to \in Requests
          /\ answer.code \in {200, 201, 204, 400, 401, 404, 500}
          /\ answer.allows \in Origins \cup {NoOrigin}
    /\ CreatedIsVisible /\ CompleteIsServed /\ OnlyToMaker /\ OriginsServed /\ CreatedIsReaped

IInv == UploadOK /\ HistoryOK /\ RequestsOK /\ AnswerOK

\* Nothing that a request has established is ever undone.
Grows ==
    /\ maker' = maker \/ maker = Nobody
    /\ told \subseteq told'
    /\ asked => asked'
    /\ started => started'
    /\ status # "none" => status' # "none"

\* A client of a request is one of the Clients.
LEMMA RequestFields ==
  ASSUME NEW r \in Requests
  PROVE  /\ r # Idle
         /\ r.client.user \in Users /\ r.client.user # Nobody
         /\ r.client.origin \in Origins
         /\ r.at \in Steps /\ r.route \in Routes /\ r.client \in Clients
         /\ r.size \in Sizes \cup {"none"} /\ r.knew \in SUBSET {"created", "complete"}
  <1>1. r.at \in Steps /\ r.route \in Routes /\ r.client \in Clients
        /\ r.size \in Sizes \cup {"none"} /\ r.knew \in SUBSET {"created", "complete"}
    BY DEF Requests
  <1>2. r # Idle
    BY <1>1 DEF Idle, Steps
  <1> QED
    BY <1>1, <1>2, ClientsAssumption DEF Users, Origins

LEMMA InitIInv == Init => IInv
  BY RequestFields DEF Init, IInv, UploadOK, HistoryOK, RequestsOK, AnswerOK, CreatedIsVisible,
         CompleteIsServed, OnlyToMaker, OriginsServed, CreatedIsReaped, L!Init, Statuses,
         L!Verdicts, NoAnswer

LEMMA SoundStays ==
  ASSUME Grows, NEW r, Sound(r)
  PROVE  Sound(r)'
  <1>1. r.client.user # Nobody
    BY RequestFields DEF Sound
  <1> QED
    BY <1>1 DEF Grows, Sound, ByIdRoutes

\* The steps of a handler.
LEMMA StepGrows == IInv /\ Next => Grows
  <1> SUFFICES ASSUME IInv, Next PROVE Grows
    OBVIOUS
  <1> USE DEF IInv, UploadOK, Grows
  <1>1. ASSUME NEW c \in Calls, NEW client \in Clients, NEW r \in Routes, Call(c, client, r)
        PROVE  Grows
    BY <1>1 DEF Call, uploadVars, ByIdRoutes
  <1>2. ASSUME NEW c \in Calls, Serve(c) PROVE Grows
    <2> USE DEF Answer, AnswerSaying, Goto, Drop, Refuse, history, uploadVars
    <2>1. CASE ServePublic(c) \/ NoToken(c) \/ Preflight(c) \/ Authenticate(c) \/ Presign(c) \/ Lost(c)
      BY <2>1 DEF ServePublic, NoToken, Preflight, Authenticate, Presign, Lost
    <2>2. CASE CreateRow(c) \/ CreateRowFails(c)
      BY <2>2 DEF CreateRow, CreateRowFails, Record, L!Record
    <2>3. CASE Start(c)
      BY <2>3 DEF Start
    <2>7. CASE StartFails(c)
      BY <2>7 DEF StartFails
    <2>4. CASE RequireOwner(c) \/ ListImages(c) \/ ReadFails(c)
      BY <2>4 DEF RequireOwner, Passed, ListImages, ReadFails
    <2>5. CASE Signal(c) \/ SignalFails(c)
      BY <2>5 DEF Signal, SignalFails
    <2>6. CASE Fetch(c)
      BY <2>6 DEF Fetch
    <2>8. CASE FetchFails(c)
      BY <2>8 DEF FetchFails
    <2> QED
      BY <1>2, <2>1, <2>2, <2>3, <2>4, <2>5, <2>6, <2>7, <2>8 DEF Serve
  <1>3. CASE LateRow
    BY <1>3 DEF LateRow, Record, L!Record, history
  <1>4. CASE LateStart
    BY <1>4 DEF LateStart, history
  <1>5. CASE Pipeline
    BY <1>5 DEF Pipeline, L!Run, L!Publish, L!Decide, L!Show, L!Verdicts, history
  <1> QED
    BY <1>1, <1>2, <1>3, <1>4, <1>5 DEF Next

\* What a step tells the maker, if anything.
Quiet == UNCHANGED <<maker, asked>> /\ told' = told
Tells(s) == UNCHANGED <<maker, asked>> /\ told' = told \cup {s}

LEMMA Answered ==
  ASSUME NEW c, NEW k, NEW s, AnswerSaying(c, k, s), k # 201 \/ s # "complete"
  PROVE  \/ k # 201 /\ s # "complete" /\ Quiet
         \/ k = 201 /\ Tells("created")
         \/ s = "complete" /\ Tells("complete")
  BY DEF AnswerSaying, Quiet, Tells

LEMMA Refused ==
  ASSUME NEW c, Refuse(c)
  PROVE  Quiet
  BY Answered DEF Refuse, Drop, Answer, Quiet, history

LEMMA HistoryKept ==
  ASSUME IInv, Grows, UploadOK',
         \/ Quiet
         \/ Tells("created") /\ started /\ status # "none"
         \/ Tells("complete") /\ verdict = "complete" /\ status # "none",
         UNCHANGED verdict
  PROVE  HistoryOK'
  BY DEF IInv, HistoryOK, UploadOK, Grows, Quiet, Tells

\* What becomes of the upload, and of what its maker knows.
LEMMA StepUpload == IInv /\ Next => UploadOK' /\ HistoryOK'
  <1> SUFFICES ASSUME IInv, Next PROVE UploadOK' /\ HistoryOK'
    OBVIOUS
  <1> USE DEF IInv, UploadOK, HistoryOK, Statuses, L!Verdicts
  <1>1. ASSUME NEW c \in Calls, NEW client \in Clients, NEW r \in Routes, Call(c, client, r)
        PROVE  UploadOK' /\ HistoryOK'
    <2>1. client.user \in Users /\ client.user # Nobody
      BY ClientsAssumption DEF Users
    <2>2. asked' \in BOOLEAN
      BY <1>1 DEF Call
    <2> QED
      BY <1>1, <2>1, <2>2 DEF Call, uploadVars
  <1>2. ASSUME NEW c \in Calls, Serve(c) PROVE UploadOK' /\ HistoryOK'
    <2>1. req[c] # Idle => Sound(req[c]) /\ req[c] \in Requests
      BY DEF RequestsOK
    <2>2. req[c] # Idle => req[c].client.user \in Users /\ req[c].client.user # Nobody
      BY <2>1, RequestFields DEF Sound
    <2>3. CASE UNCHANGED uploadVars /\ Quiet
      BY <2>3 DEF uploadVars, Quiet
    <2>4. ServePublic(c) \/ NoToken(c) \/ Preflight(c) \/ Authenticate(c) \/ Lost(c) \/ ReadFails(c)
            \/ FetchFails(c) \/ Fetch(c)
          => UNCHANGED uploadVars /\ Quiet
      <3> USE Answered DEF Answer, Goto, Drop, history, Quiet
      <3>1. ServePublic(c) \/ NoToken(c) => UNCHANGED uploadVars /\ Quiet
        BY DEF ServePublic, NoToken
      <3>2. Preflight(c) => UNCHANGED uploadVars /\ Quiet
        BY DEF Preflight
      <3>3. Authenticate(c) => UNCHANGED uploadVars /\ Quiet
        BY DEF Authenticate
      <3>4. Lost(c) \/ ReadFails(c) => UNCHANGED uploadVars /\ Quiet
        BY DEF Lost, ReadFails
      <3>5. FetchFails(c) => UNCHANGED uploadVars /\ Quiet
        BY DEF FetchFails
      <3>6. Fetch(c) => UNCHANGED uploadVars /\ Quiet
        <4>1. Fetch(c) => UNCHANGED uploadVars
                          /\ (AnswerSaying(c, 200, "image") \/ AnswerSaying(c, 404, "nothing"))
          BY DEF Fetch
        <4> QED
          BY <4>1
      <3> QED
        BY <3>1, <3>2, <3>3, <3>4, <3>5, <3>6
    <2>5. CASE Presign(c)
      <3>1. started /\ status # "none"
        BY <2>1, <2>5 DEF Presign, Sound, Idle
      <3>2. Quiet \/ Tells("created")
        BY <2>5, Answered DEF Presign, Answer
      <3>3. UNCHANGED <<status, verdict, published, owner, started, signalled, late, maker, asked>>
        BY <2>5, <3>2 DEF Presign, uploadVars, Quiet, Tells
      <3>4. UploadOK'
        BY <3>3
      <3> QED
        BY <3>1, <3>2, <3>3, <3>4, HistoryKept, StepGrows
    <2>6. CASE CreateRow(c) \/ CreateRowFails(c)
      <3>1. User(c) = maker /\ maker # Nobody
        BY <2>1, <2>6 DEF CreateRow, CreateRowFails, User, Sound, Path, Public, Idle, Routes,
           Protected, ByIdRoutes, Requests
      <3>2. Quiet
        BY <2>6, Refused DEF CreateRow, CreateRowFails, history, Quiet
      <3>3. /\ UNCHANGED <<verdict, published, started, signalled>>
            /\ late' \subseteq late \cup {"row"}
            /\ \/ UNCHANGED <<status, owner>>
               \/ status' = "pending" /\ owner' = maker
        BY <2>6, <3>1 DEF CreateRow, CreateRowFails, Record, L!Record, uploadVars
      <3>4. UploadOK'
        BY <3>1, <3>2, <3>3 DEF Quiet
      <3> QED
        BY <3>2, <3>3, <3>4, HistoryKept, StepGrows
    <2>7. CASE Start(c) \/ StartFails(c)
      <3>1. Quiet
        BY <2>7, Refused DEF Start, StartFails, history, Quiet
      <3>2. /\ UNCHANGED <<status, verdict, published, owner, signalled>>
            /\ started' = TRUE \/ started' = started
            /\ late' \subseteq late \cup {"start"}
        BY <2>7 DEF Start, StartFails
      <3>3. UploadOK'
        <4>1. started' \in BOOLEAN /\ late' \subseteq {"row", "start"} /\ ("row" \in late' => "row" \in late)
          BY <3>2
        <4>2. signalled' => started' /\ asked'
          <5>1. asked' = asked /\ signalled' = signalled /\ (started => started')
            BY <3>1, <3>2 DEF Quiet
          <5>2. signalled => started /\ asked
            OBVIOUS
          <5> QED
            BY <5>1, <5>2
        <4>3. UNCHANGED <<status, verdict, published, owner, maker>>
          BY <3>1, <3>2 DEF Quiet
        <4>4. /\ signalled' \in BOOLEAN
              /\ verdict' # "none" => started' /\ (signalled' <=> verdict' # "abandoned")
              /\ published' # {} => signalled'
          BY <3>2, <4>3
        <4>5. status' # "none"
          BY <2>1, <2>7, <4>3 DEF Start, StartFails, Sound, Idle
        <4> QED
          BY <4>1, <4>2, <4>3, <4>4, <4>5
      <3> QED
        BY <3>1, <3>2, <3>3, HistoryKept, StepGrows
    <2>8. CASE RequireOwner(c)
      <3>1. \/ Quiet
            \/ Tells("complete") /\ status = "complete"
        BY <2>8, Answered DEF RequireOwner, Passed, Answer, Goto, history, Quiet
      <3>2. UNCHANGED <<status, verdict, published, owner, started, signalled, late, maker, asked>>
        BY <2>8, <3>1 DEF RequireOwner, uploadVars, Quiet, Tells
      <3>3. UploadOK'
        BY <3>2
      <3> QED
        BY <3>1, <3>2, <3>3, HistoryKept, StepGrows
    <2>9. CASE Signal(c) \/ SignalFails(c)
      <3>1. asked
        <4>1. req[c] # Idle /\ req[c].at = "signal"
          BY <2>9 DEF Signal, SignalFails, Idle
        <4>2. req[c].route = "complete"
          BY <2>1, <4>1 DEF Sound, Path, Public, Requests, Routes, Protected, ByIdRoutes
        <4> QED
          BY <2>1, <4>1, <4>2 DEF Sound
      <3>2. Quiet
        BY <2>9, Answered, Refused DEF Signal, SignalFails, Answer
      <3>3. /\ UNCHANGED <<status, verdict, published, owner, started, late>>
            /\ \/ signalled' = (signalled \/ (started /\ verdict = "none"))
               \/ signalled' = signalled
        BY <2>9 DEF Signal, SignalFails
      <3>4. UploadOK'
        BY <3>1, <3>2, <3>3 DEF Quiet
      <3> QED
        BY <3>2, <3>3, <3>4, HistoryKept, StepGrows
    <2>10. CASE ListImages(c)
      <3>1. \/ Quiet
            \/ Tells("complete") /\ status = "complete"
        BY <2>10, Answered DEF ListImages, Own
      <3>2. UNCHANGED <<status, verdict, published, owner, started, signalled, late, maker, asked>>
        BY <2>10, <3>1 DEF ListImages, uploadVars, Quiet, Tells
      <3>3. UploadOK'
        BY <3>2
      <3> QED
        BY <3>1, <3>2, <3>3, HistoryKept, StepGrows
    <2> QED
      BY <1>2, <2>3, <2>4, <2>5, <2>6, <2>7, <2>8, <2>9, <2>10 DEF Serve
  <1>3. CASE LateRow
    BY <1>3 DEF LateRow, Record, L!Record, history
  <1>4. CASE LateStart
    BY <1>4 DEF LateStart, history
  <1>5. CASE Pipeline
    BY <1>5 DEF Pipeline, L!Run, L!Publish, L!Decide, L!Show, L!Dead, history
  <1> QED
    BY <1>1, <1>2, <1>3, <1>4, <1>5 DEF Next


\* What a request has established by its next step.
LEMMA StepRequests == IInv /\ Next => RequestsOK'
  <1> SUFFICES ASSUME IInv, Next PROVE RequestsOK'
    OBVIOUS
  <1>1. \A c \in Calls, r \in Requests : r = req[c] => Sound(r)'
    <2> SUFFICES ASSUME NEW c \in Calls, NEW r \in Requests, r = req[c] PROVE Sound(r)'
      OBVIOUS
    <2>1. Sound(r)
      BY RequestFields DEF IInv, RequestsOK
    <2> QED
      BY <2>1, StepGrows, SoundStays
  <1>2. ASSUME req' = req PROVE RequestsOK'
    BY <1>1, <1>2 DEF IInv, RequestsOK
  <1>3. ASSUME NEW c \in Calls, NEW r, req' = [req EXCEPT ![c] = r],
               r \in {Idle} \cup Requests, \A x \in Requests : x = r => Sound(x)'
        PROVE  RequestsOK'
    <2>1. req' \in [Calls -> {Idle} \cup Requests]
      BY <1>3 DEF IInv, RequestsOK
    <2>2. ASSUME NEW d \in Calls, NEW x \in Requests, x = req'[d] PROVE Sound(x)'
      <3>1. x = r \/ x = req[d]
        BY <1>3, <2>2 DEF IInv, RequestsOK
      <3> QED
        BY <1>1, <1>3, <3>1, RequestFields
    <2> QED
      BY <2>1, <2>2 DEF RequestsOK
  <1>4. ASSUME NEW c \in Calls, req' = [req EXCEPT ![c] = Idle] PROVE RequestsOK'
    BY <1>3, <1>4, RequestFields
  <1>5. ASSUME NEW c \in Calls, NEW client \in Clients, NEW r \in Routes, Call(c, client, r)
        PROVE  RequestsOK'
    <2> DEFINE x == [at |-> CASE r \in Public -> "public"
                               [] r \in Protected /\ client.origin # NoOrigin -> "browser"
                               [] OTHER -> "auth",
                     client |-> client, route |-> r, size |-> "none",
                     knew |-> IF client.user = maker THEN told ELSE {}]
    <2>1. client.user \in Users /\ client.user # Nobody
      BY ClientsAssumption DEF Users
    <2>2. /\ req' = [req EXCEPT ![c] = x]
          /\ told' = told
          /\ r = "create" => maker' = client.user
          /\ r \in ByIdRoutes => maker # Nobody
          /\ maker # Nobody => maker' = maker
          /\ r = "complete" /\ client.user = maker => asked'
      BY <1>5, <2>1 DEF Call, uploadVars, ByIdRoutes
    <2>3. /\ x.at \in {"public", "browser", "auth"}
          /\ x.client = client /\ x.route = r /\ x.size = "none"
          /\ x.knew = IF client.user = maker THEN told ELSE {}
          /\ x.at = "public" <=> r \in Public
          /\ x.at = "browser" => client.origin # NoOrigin
          /\ x.at # "browser" => r \notin Protected \/ client.origin = NoOrigin
      BY DEF Public, Protected, ByIdRoutes
    <2>4. x \in Requests
      BY <2>3 DEF Requests, Steps, IInv, HistoryOK
    <2>8. PICK y \in Requests : y = x
      BY <2>4
    <2>5. x.at \in Path(r)
      BY <2>3 DEF Path, Public, Routes, Protected, ByIdRoutes
    <2>6. maker' = maker \/ maker = Nobody
      BY <2>2
    <2> HIDE DEF x
    <2>7. Sound(y)'
      BY <2>1, <2>2, <2>3, <2>5, <2>6, <2>8 DEF Sound, ByIdRoutes
    <2> QED
      BY <1>3, <2>2, <2>7, <2>8
  <1>6. ASSUME NEW c \in Calls, NEW a \in Steps, NEW x \in Requests, x = req[c],
               req' = [req EXCEPT ![c].at = a],
               a \in Path(x.route), a # "browser",
               a \in {"signal", "fetch"} => x.client.user = maker',
               a \in {"start", "presign"} => status' # "none",
               a = "presign" => started',
               a = "fetch" => x.size \in Sizes,
               x.at # "browser" \/ (x.client.origin # NoOrigin => OriginAllowed(x.client.origin))
        PROVE  RequestsOK'
    <2> DEFINE q == [x EXCEPT !.at = a]
    <2>1. Sound(x)'
      BY <1>1, <1>6
    <2>2. q \in Requests /\ q.at = a /\ q.route = x.route /\ q.client = x.client
          /\ q.size = x.size /\ q.knew = x.knew
      BY DEF Requests
    <2>4. req' = [req EXCEPT ![c] = q]
      BY <1>6 DEF IInv, RequestsOK
    <2> HIDE DEF q
    <2>3. Sound(q)'
      BY <1>6, <2>1, <2>2 DEF Sound
    <2> QED
      BY <1>3, <2>2, <2>3, <2>4
  <1>7. ASSUME NEW c \in Calls, Serve(c) PROVE RequestsOK'
    <2>1. CASE req' = [req EXCEPT ![c] = Idle]
      BY <1>4, <2>1
    <2>2. req[c] # Idle
      BY <1>7 DEF Serve, ServePublic, NoToken, Preflight, Authenticate, CreateRow, CreateRowFails, Start,
         StartFails, Presign, RequireOwner, Signal, SignalFails, Fetch, FetchFails,
         ListImages, ReadFails, Lost, Idle
    <2>3. PICK x \in Requests : x = req[c]
      BY <2>2 DEF IInv, RequestsOK
    <2>4. Sound(x)
      BY <2>2, <2>3 DEF IInv, RequestsOK
    <2> USE DEF Goto, Answer, AnswerSaying, Drop, Refuse
    <2>5. CASE Preflight(c)
      <3>1. CASE Goto(c, "auth") /\ AllowOrigin(x.client.origin) = x.client.origin
        <4>1. x.client.origin # NoOrigin => OriginAllowed(x.client.origin)
          BY <3>1 DEF AllowOrigin
        <4>2. "auth" \in Path(x.route)
          <5>1. x.at = "browser" /\ x.at \in Path(x.route) /\ x.route \in Routes
            BY <2>3, <2>4, <2>5, RequestFields DEF Preflight, Sound
          <5> QED
            BY <5>1 DEF Path, Public, Routes, Protected, ByIdRoutes
        <4> QED
          BY <1>6, <2>2, <2>3, <3>1, <4>1, <4>2 DEF Steps
      <3> QED
        BY <2>1, <2>3, <2>5, <3>1 DEF Preflight
    <2>6. CASE Authenticate(c)
      <3>1. CASE Goto(c, Handler(x.route))
        <4>1. Handler(x.route) \in {"insert", "rows", "row"} /\ Handler(x.route) \in Path(x.route)
          BY <2>3, <2>4, <2>6 DEF Authenticate, Handler, Sound, Path, Public, Protected,
             ByIdRoutes, Routes, Requests
        <4>2. x.at # "browser"
          BY <2>3, <2>6 DEF Authenticate
        <4> QED
          BY <1>6, <2>2, <2>3, <3>1, <4>1, <4>2 DEF Steps
      <3> QED
        BY <2>1, <2>3, <2>6, <3>1 DEF Authenticate
    <2>7. CASE CreateRow(c) \/ Start(c)
      <3>1. x.route = "create" /\ x.at # "browser"
        BY <2>3, <2>4, <2>7 DEF CreateRow, Start, Sound, Path, Public, Protected, ByIdRoutes,
           Routes, Requests
      <3>2. {"start", "presign"} \subseteq Path(x.route) \cap Steps
        BY <3>1 DEF Path, Public, Steps
      <3>3. CASE CreateRow(c)
        BY <1>6, <2>2, <2>3, <3>1, <3>2, <3>3 DEF CreateRow, Record, L!Record
      <3>4. CASE Start(c)
        <4>1. status' # "none"
          BY <2>3, <2>4, <3>4 DEF Start, Sound
        <4> QED
          BY <1>6, <2>2, <2>3, <3>1, <3>2, <3>4, <4>1 DEF Start
      <3> QED
        BY <2>7, <3>3, <3>4
    <2>8. CASE RequireOwner(c)
      <3>1. x.at = "row"
        BY <2>3, <2>8 DEF RequireOwner
      <3>2. CASE Goto(c, "signal") /\ x.route = "complete" /\ status # "none" /\ owner = x.client.user
        <4>1. "signal" \in Path(x.route) \cap Steps
          BY <3>2 DEF Path, Public, Steps
        <4>2. x.client.user = maker'
          BY <2>8, <3>2 DEF IInv, UploadOK, RequireOwner, Passed, history, uploadVars
        <4> QED
          BY <1>6, <2>2, <2>3, <3>1, <3>2, <4>1, <4>2
      <3>3. ASSUME NEW z \in Sizes, req' = [req EXCEPT ![c].at = "fetch", ![c].size = z],
                   UNCHANGED maker, x.route = "image", status # "none", owner = x.client.user
            PROVE  RequestsOK'
        <4> DEFINE q == [x EXCEPT !.at = "fetch", !.size = z]
        <4>1. q \in Requests /\ q.at = "fetch" /\ q.route = x.route /\ q.client = x.client
              /\ q.size = z /\ q.knew = x.knew
          BY DEF Requests, Steps
        <4>2. req' = [req EXCEPT ![c] = q]
          BY <2>3, <3>3 DEF IInv, RequestsOK
        <4>3. x.client.user = maker' /\ Sound(x)'
          BY <1>1, <2>3, <3>3 DEF IInv, UploadOK
        <4>4. "fetch" \in Path(x.route)
          BY <3>3 DEF Path, Public
        <4> HIDE DEF q
        <4>5. Sound(q)'
          BY <3>1, <3>3, <4>1, <4>3, <4>4 DEF Sound
        <4> QED
          BY <1>3, <4>1, <4>2, <4>5
      <3> QED
        BY <2>1, <2>3, <2>8, <3>2, <3>3 DEF RequireOwner, Passed, User, history
    <2> QED
      BY <1>7, <2>1, <2>5, <2>6, <2>7, <2>8 DEF Serve, ServePublic, NoToken, CreateRowFails,
         StartFails, Presign, Signal, SignalFails, Fetch, FetchFails, ListImages, ReadFails, Lost
  <1> QED
    BY <1>2, <1>5, <1>7 DEF Next, LateRow, LateStart, Pipeline

\* An answer is fit for its request if the handler could know it to be right.
Fit(x, k, s) ==
    /\ k \in {200, 201, 204, 400, 401, 404, 500}
    /\ x.at = "browser" => s = "tokenless" \/ AllowOrigin(x.client.origin) # x.client.origin
    /\ k = 404 =>
          \/ x.at = "row" /\ ~(status # "none" /\ owner = x.client.user)
          \/ x.at = "fetch" /\ (s = "failure" \/ x.size \notin published)
    /\ k = 200 =>
          \/ x.at \in {"public", "fetch"}
          \/ x.at = "row" /\ x.route = "status" /\ owner = x.client.user
          \/ x.at = "rows" /\ s = Own(x.client.user)
          \/ x.at = "signal" /\ (started => (signalled <=> verdict # "abandoned"))

\* The properties of answers follow from that.
LEMMA FitAnswer ==
  ASSUME UploadOK', HistoryOK', NEW x \in Requests, NEW k, NEW s, Sound(x)', Fit(x, k, s)',
         answer' = [to |-> x, code |-> k, says |-> s, allows |-> AllowOrigin(x.client.origin)]
  PROVE  AnswerOK'
  <1>1. /\ answer'.to = x /\ answer'.code = k /\ answer'.says = s
        /\ answer'.allows = AllowOrigin(x.client.origin)
    OBVIOUS
  <1>2. /\ x.client.user \in Users /\ x.client.user # Nobody
        /\ x.client.origin \in Origins /\ x.route \in Routes
    BY RequestFields
  <1> USE DEF Sound
  <1>3. CreatedIsVisible'
    BY <1>1, <1>2 DEF CreatedIsVisible, Fit, Path, Public, UploadOK, HistoryOK, Own
  <1>4. CompleteIsServed'
    BY <1>1, <1>2 DEF CompleteIsServed, Fit, Path, Public, UploadOK, HistoryOK, Sizes
  <1>5. OnlyToMaker'
    BY <1>1, <1>2 DEF OnlyToMaker, ByMaker, Fit, Path, Public, UploadOK, Own
  <1>6. OriginsServed'
    BY <1>1, <1>2 DEF OriginsServed, Fit, AllowOrigin
  <1>7. CreatedIsReaped'
    BY <1>1, <1>2 DEF CreatedIsReaped, Fit, Path, Public, HistoryOK
  <1>8. answer'.code \in {200, 201, 204, 400, 401, 404, 500}
        /\ answer'.allows \in Origins \cup {NoOrigin}
    BY <1>1, <1>2 DEF Fit, AllowOrigin
  <1> QED
    BY <1>1, <1>3, <1>4, <1>5, <1>6, <1>7, <1>8 DEF AnswerOK

LEMMA SilentStep ==
  ASSUME HistoryOK', Silent
  PROVE  AnswerOK'
  BY DEF Silent, AnswerOK, CreatedIsVisible, CompleteIsServed, OnlyToMaker, OriginsServed,
         CreatedIsReaped, HistoryOK

\* Every answer of a handler is fit.
LEMMA StepAnswers == IInv /\ Next => AnswerOK'
  <1> SUFFICES ASSUME IInv, Next PROVE AnswerOK'
    OBVIOUS
  <1>1. UploadOK' /\ HistoryOK'
    BY StepUpload
  <1>2. ASSUME Silent PROVE AnswerOK'
    BY <1>1, <1>2, SilentStep
  <1>3. ASSUME NEW c \in Calls, Serve(c) PROVE AnswerOK'
    <2>1. req[c] # Idle
      BY <1>3 DEF Serve, ServePublic, NoToken, Preflight, Authenticate, CreateRow, CreateRowFails, Start,
         StartFails, Presign, RequireOwner, Signal, SignalFails, Fetch, FetchFails,
         ListImages, ReadFails, Lost, Idle
    <2>2. PICK x \in Requests : x = req[c]
      BY <2>1 DEF IInv, RequestsOK
    <2>3. Sound(x)
      BY <2>2 DEF IInv, RequestsOK
    <2>4. Sound(x)'
      BY <2>3, StepGrows, SoundStays
    <2>5. ASSUME NEW k, NEW s, AnswerSaying(c, k, s), Fit(x, k, s)' PROVE AnswerOK'
      BY <1>1, <2>2, <2>4, <2>5, FitAnswer DEF AnswerSaying
    <2>6. x.at \in Path(x.route) /\ x.route \in Routes
      BY <2>3, RequestFields DEF Sound
    <2> USE DEF Answer, Goto, Drop, Refuse
    <2>7. CASE ServePublic(c)
      <3>1. Fit(x, 200, "nothing")'
        BY <2>2, <2>7 DEF ServePublic, Fit
      <3> QED
        BY <2>5, <2>7, <3>1 DEF ServePublic
    <2>8. CASE Preflight(c)
      <3>1. AllowOrigin(x.client.origin) # x.client.origin => Fit(x, 204, "nothing")'
        BY <2>2, <2>8 DEF Preflight, Fit
      <3> QED
        BY <1>2, <2>2, <2>5, <2>8, <3>1 DEF Preflight
    <2>9. ASSUME NEW k \in {400, 401, 500}, x.at # "browser", Answer(c, k) PROVE AnswerOK'
      <3>1. Fit(x, k, "nothing")'
        BY <2>2, <2>9 DEF Fit
      <3> QED
        BY <2>5, <2>9, <3>1
    <2>10. CASE Authenticate(c) \/ ReadFails(c) \/ Lost(c)
      BY <1>2, <2>2, <2>9, <2>10 DEF Authenticate, ReadFails, Lost
    <2>11. CASE CreateRow(c) \/ CreateRowFails(c) \/ Start(c) \/ StartFails(c)
      BY <1>2, <2>2, <2>9, <2>11 DEF CreateRow, CreateRowFails, Start, StartFails
    <2>12. CASE Presign(c)
      <3>1. Fit(x, 201, "nothing")' /\ x.at # "browser"
        BY <2>2, <2>12 DEF Presign, Fit
      <3> QED
        BY <2>5, <2>9, <2>12, <3>1 DEF Presign
    <2>13. CASE RequireOwner(c)
      <3>1. x.at = "row" /\ UNCHANGED <<status, owner, published>>
        BY <2>2, <2>13 DEF RequireOwner, uploadVars
      <3>2. ~(status # "none" /\ owner = x.client.user) => Fit(x, 404, "nothing")'
        BY <2>6, <3>1 DEF Fit, Path, Public
      <3>3. x.route = "status" /\ owner = x.client.user => Fit(x, 200, status)'
        BY <3>1 DEF Fit
      <3> QED
        BY <1>2, <2>2, <2>5, <2>9, <2>13, <3>1, <3>2, <3>3 DEF RequireOwner, Passed, User
    <2>14. CASE Signal(c) \/ SignalFails(c)
      <3>1. x.at = "signal" /\ x.at # "browser"
        BY <2>2, <2>14 DEF Signal, SignalFails
      <3>2. CASE Signal(c)
        <4>1. started' => (signalled' <=> verdict' # "abandoned")
          BY <3>2 DEF Signal, IInv, UploadOK
        <4>2. Fit(x, 200, "nothing")'
          BY <3>1, <4>1 DEF Fit
        <4> QED
          BY <2>5, <3>2, <4>2 DEF Signal
      <3>3. CASE SignalFails(c)
        BY <1>2, <2>9, <3>1, <3>3 DEF SignalFails
      <3> QED
        BY <2>14, <3>2, <3>3
    <2>15. CASE Fetch(c) \/ FetchFails(c)
      <3>1. x.at = "fetch" /\ x.route = "image" /\ UNCHANGED published
        BY <2>2, <2>6, <2>15 DEF Fetch, FetchFails, Path, Public, Routes, Protected, ByIdRoutes,
           uploadVars
      <3>2. Fit(x, 200, "image")' /\ Fit(x, 404, "failure")'
        BY <3>1 DEF Fit
      <3>3. x.size \notin published => Fit(x, 404, "nothing")'
        BY <3>1 DEF Fit
      <3> QED
        BY <2>2, <2>5, <2>15, <3>1, <3>2, <3>3 DEF Fetch, FetchFails
    <2>16. CASE ListImages(c)
      <3>1. x.at = "rows" /\ UNCHANGED <<status, owner>>
        BY <2>2, <2>16 DEF ListImages, uploadVars
      <3>2. PICK s : s = Own(x.client.user)
        OBVIOUS
      <3>3. Own(x.client.user)' = s
        BY <3>1, <3>2 DEF Own
      <3>4. Fit(x, 200, s)'
        BY <3>1, <3>3 DEF Fit
      <3> QED
        BY <2>2, <2>5, <2>16, <3>2, <3>4 DEF ListImages, User
    <2>17. CASE NoToken(c)
      <3>1. Fit(x, 401, "tokenless")'
        BY <2>2, <2>17 DEF NoToken, Fit
      <3> QED
        BY <2>5, <2>17, <3>1 DEF NoToken
    <2> QED
      BY <1>3, <2>7, <2>8, <2>10, <2>11, <2>12, <2>13, <2>14, <2>15, <2>16, <2>17 DEF Serve
  <1> QED
    BY <1>2, <1>3 DEF Next, Call, LateRow, LateStart, Pipeline

\* Every handler keeps to the lifecycle: it starts a workflow for a recorded upload
\* only, and its signal is heard before the verdict or changes nothing.
LEMMA StepKeeps == IInv /\ Next => [L!Next]_(L!vars)
  <1> SUFFICES ASSUME IInv, Next PROVE L!Next \/ UNCHANGED L!vars
    OBVIOUS
  <1> DEFINE Kept == UNCHANGED <<status, verdict, published, started, signalled>>
  <1>1. Kept => UNCHANGED L!vars
    BY DEF L!vars
  <1>2. ASSUME status # "none", started' = TRUE \/ UNCHANGED started,
               UNCHANGED <<status, verdict, published, signalled>>
        PROVE  L!Next \/ UNCHANGED L!vars
    BY <1>2 DEF L!Next, L!Start, L!vars
  <1>3. ASSUME NEW c \in Calls, Serve(c) PROVE L!Next \/ UNCHANGED L!vars
    <2>1. CASE CreateRow(c) \/ CreateRowFails(c)
      BY <1>1, <2>1 DEF CreateRow, CreateRowFails, Record, L!Next, uploadVars
    <2>2. CASE Start(c) \/ StartFails(c)
      <3>1. status # "none"
        <4>1. req[c] # Idle /\ req[c].at = "start"
          BY <2>2 DEF Start, StartFails, Idle
        <4> QED
          BY <4>1 DEF IInv, RequestsOK, Sound
      <3> QED
        BY <1>2, <2>2, <3>1 DEF Start, StartFails
    <2>3. CASE Signal(c) \/ SignalFails(c)
      <3>1. /\ UNCHANGED <<status, verdict, published, started>>
            /\ \/ UNCHANGED signalled
               \/ signalled' = (signalled \/ (started /\ verdict = "none"))
        BY <2>3 DEF Signal, SignalFails
      <3>2. signalled \in BOOLEAN
        BY DEF IInv, UploadOK
      <3>3. UNCHANGED signalled \/ (started /\ verdict = "none" /\ signalled' = TRUE)
        BY <3>1, <3>2
      <3> QED
        BY <3>1, <3>3 DEF L!Next, L!Hear, L!vars
    <2>4. CASE UNCHANGED uploadVars
      BY <1>1, <2>4 DEF uploadVars
    <2> QED
      BY <1>3, <2>1, <2>2, <2>3, <2>4 DEF Serve, ServePublic, NoToken, Preflight, Authenticate, Presign,
         RequireOwner, Fetch, FetchFails, ListImages, ReadFails, Lost
  <1>4. CASE LateRow
    BY <1>4 DEF LateRow, Record, L!Next
  <1>5. CASE LateStart
    BY <1>2, <1>5 DEF LateStart, IInv, UploadOK
  <1>6. CASE Pipeline
    BY <1>6 DEF Pipeline, L!Next
  <1>7. ASSUME NEW c \in Calls, NEW client \in Clients, NEW r \in Routes, Call(c, client, r)
        PROVE  UNCHANGED L!vars
    BY <1>1, <1>7 DEF Call, uploadVars
  <1> QED
    BY <1>3, <1>4, <1>5, <1>6, <1>7 DEF Next

THEOREM Invariance == Spec => []IInv
  <1>1. IInv /\ UNCHANGED vars => IInv'
    BY DEF IInv, UploadOK, HistoryOK, RequestsOK, AnswerOK, CreatedIsVisible, CompleteIsServed,
       OnlyToMaker, OriginsServed, CreatedIsReaped, ByMaker, Sound, vars, uploadVars, history
  <1>2. IInv /\ [Next]_vars => IInv'
    BY <1>1, StepUpload, StepRequests, StepAnswers DEF IInv
  <1> QED
    BY <1>2, InitIInv, PTL DEF Spec

\* Types; a workflow that was signalled was started.
THEOREM TypeCorrect == Spec => []TypeOK
  <1>1. IInv => TypeOK
    BY DEF IInv, UploadOK, HistoryOK, RequestsOK, AnswerOK, TypeOK
  <1> QED
    BY <1>1, Invariance, PTL

\* The maker of an upload whose creation was answered with a 201 finds it.
THEOREM CreatedUploadsAreVisible == Spec => []CreatedIsVisible
  <1>1. IInv => CreatedIsVisible
    BY DEF IInv, AnswerOK
  <1> QED
    BY <1>1, Invariance, PTL

\* Whoever has read "complete" can fetch every variant.
THEOREM CompleteUploadsAreServed == Spec => []CompleteIsServed
  <1>1. IInv => CompleteIsServed
    BY DEF IInv, AnswerOK
  <1> QED
    BY <1>1, Invariance, PTL

\* Nobody but its maker reads anything of an upload.
THEOREM UploadsArePrivate == Spec => []OnlyToMaker
  <1>1. IInv => OnlyToMaker
    BY DEF IInv, AnswerOK
  <1> QED
    BY <1>1, Invariance, PTL

\* Only its maker's complete call gets an upload past its timer.
THEOREM VerdictsAreAskedFor == Spec => []VerdictIsAskedFor
  <1>1. IInv => VerdictIsAskedFor
    BY DEF IInv, UploadOK, VerdictIsAskedFor
  <1> QED
    BY <1>1, Invariance, PTL

\* Pages of allowed origins are served, and no others.
THEOREM AllowedOriginsAreServed == Spec => []OriginsServed
  <1>1. IInv => OriginsServed
    BY DEF IInv, AnswerOK
  <1> QED
    BY <1>1, Invariance, PTL

\* Behind a 201 there is a workflow, which hears its maker's complete call.
THEOREM CreatedUploadsAreReaped == Spec => []CreatedIsReaped
  <1>1. IInv => CreatedIsReaped
    BY DEF IInv, AnswerOK
  <1> QED
    BY <1>1, Invariance, PTL

\* KeepsLifecycle: the server does its part of the lifecycle that the pipeline
\* implements, and relies on nothing else of the pipeline.
THEOREM ServerKeepsLifecycle == Spec => KeepsLifecycle
  <1>1. Init => L!Init
    BY DEF Init
  <1>2. UNCHANGED vars => [L!Next]_(L!vars)
    BY DEF vars, uploadVars, L!vars
  <1>3. IInv /\ [Next]_vars => [L!Next]_(L!vars)
    BY <1>2, StepKeeps
  <1> QED
    BY <1>1, <1>3, Invariance, PTL DEF Spec, KeepsLifecycle, L!Spec
=============================================================================
