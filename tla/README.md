# A TLA+ model of go-image-service

Paths are relative to the repository; `pipeline/`, `transport/` and so on stand
for `internal/pipeline/`, `internal/transport/`. `PROJECT.json` maps every
definition to the lines it models.

## 1. Inventory

| component | state | operations | talks to |
|---|---|---|---|
| http api (`transport/`) | none of its own | register, login, createUpload, completeUpload, status, list, download | auth service (gRPC), upload service, metadata, object store |
| upload negotiation (`upload/`, `pipeline/orchestrator.go`) | none | Negotiate: INSERT, Start, Presign; Complete: Signal | metadata, Temporal, object store |
| upload workflow (`pipeline/workflow.go`) | a Temporal history: one signal channel, one timer, the results of activities | UploadWorkflow | Temporal, worker activities |
| worker activities (`pipeline/activities.go`, `resizer/`, `cmd/worker`) | none between attempts | Validate, Processing, Resize, Complete, Fail, Abandon | metadata, object store, image service |
| upload metadata (`metadata/`, `schema.sql`) | a row per upload: owner, status | Create, UpdateStatus, Get, List | Postgres |
| object store (`storage/objectstore.go`) | `id/original`, `id/12x12`, `id/25x25` | Put, Get, GetFirstNBytes, Head, Delete, presigned PUT | MinIO |
| image service (`imaging/`, `cmd/imageservice`) | the slots of a buffered channel | Resize | worker |
| auth service (`auth/`, `user/`, `authgrpc/`, `authclient/`) | a row per user | Register, Login, Verify | Postgres, http api |
| web client (`web/static/app.js`) | localStorage, module variables, the page | login, logout, upload, refresh, show variants | http api, presigned URL |
| startup (`cmd/`), with configuration (`config/`, `grpcauth/`, `temporalclient/`) and deployment (`docker-compose.yml`, `deploy.yml`) | how far each program has come | dial Temporal, ping Postgres, credentials, create the bucket, serve | all of the above |
| the rest | – | ids, generated code, an unused disk store | – |

What is hard in it:

* **One row, many writers, no order.** The status of an upload is written by the
  http server and by up to seven activities, each of them retried after a timeout
  that leaves open whether the last write took effect. `UpdateStatus`
  (`metadata/metadata.go:45`) names no expected status. Which final status is
  read, and whether it stays, rests on the workflow's branches excluding each
  other and on nothing else.
* **Signal against timer.** The 15-minute timer and `upload-complete` can both
  be ready; complete calls are repeated, come early, come late.
* **Check and use apart.** Validate sniffs, then measures; each Resize downloads
  the original again; a presigned URL allows PUTs all the while.
* **Partial failure that is ignored on purpose.** `reject`, Abandon and Fail drop
  errors; Negotiate undoes nothing.
* **Work nobody waits for.** A decode goes on, holding its slot, after its caller
  has timed out and called again.
* **A row, a workflow and a token that are made one after the other.** Register
  and Negotiate are told of an error by a call that may have taken effect, or may
  take effect later; nothing is undone, the client calls again, and what it is
  answered then rests on a unique index or a fresh id.
* **Status, list and download read at different moments.** Each route checks the
  owner, then reads a store that the pipeline is changing.
* **Nobody starts first.** Four programs and their services come up in many orders;
  three of the programs race for one bucket, an error is fatal on the way up, and
  who is started again, or never at all, is up to the deployment.
* **Errors that lose their origin.** gRPC codes stand for domain errors between
  http server and auth service, and for failures of the connection as well.
* **Awaits in the browser.** A handler of the page that resumes finds another
  session, another list, or another preview than the one it left.

What makes each part correct: pollers see one verdict and it tells the truth
about the objects (pipeline); the row follows the documented diagram where the
stores allow it; every workflow ends and no signal it hears is lost (workflow);
slots are taken by decodes and nothing else, and nobody waits for ever (image
service); one identity, one upload, no leaked or dead preview (web client); one
account per email, and tokens for its owner only (auth service); what a 201 or a
`complete` promised holds in every later request, and for nobody but the owner
(http api); nothing serves without its bucket, and everything serves in the end
that the deployment has not given up (startup).

## 2. Modules

```
Stores            the row and the objects of one upload; calls that fail in doubt
  Activities      the worker's activities, call by call, with their retries
    UploadWorkflow    the workflow's decisions
      UploadPipeline      + http server and client: the composed system
        MCUploadPipeline      instances for TLC
        UploadPipelineProofs      the inductive invariant and safety theorems
          UploadRefinementProofs      UploadPipeline implements UploadLifecycle
            UploadOutcomeProofs      what the row means; one PUT, one body
UploadLifecycle   what http server and pipeline promise each other and pollers (abstract)
  HttpApi           the http server's routes over it
    MCHttpApi, HttpApiProofs
Directory         what the account system promises (abstract)
Accounts          registration, login, token checks      MCAccounts, AccountsProofs
Config            what the programs make of their environment
  Startup           how the programs come up      MCStartup, StartupProofs
ImagingServer     the decode slots      MCImagingServer, ImagingServerProofs
WebClient         the browser page      MCWebClient, WebClientProofs
```

**Stores.** `row` is the status column, `original` and `variant` the objects, and
each call is one step. A call that succeeds applies its write. A call that does
not report success (error, timeout, death of the caller) may have been applied,
may not, or, for a store in `Lagging`, is kept in `lateRow`, `lateDelete` or
`latePut` and is applied at any later time. Late writes are told apart by the
attempt that made them. An image is a record of which PUT wrote it and a kind:
`image`, `corrupt` (sniffs well, does not decode), `badtype`, `toolarge`; a
too-large one may decode or not.

**Activities.** `act[t]` is the store or image-service call that the current
attempt makes next, or the result in the history; so between any two calls of an
activity anything else can happen. `AttemptFails` is every way in which an attempt
does not report success; the retry policy (one attempt for Validate,
`MaxAttempts` for the others) decides what follows. Backoff and queueing are
merged with the next attempt's first step. Activities whose attempt has been given
up on make no further call: their context is done. Validate's last two calls
ignore their errors, as `reject` does, and so does the Delete of Abandon.

**UploadWorkflow.** `wf` is where the function blocks. A step is a decision
recorded in the history, so a worker's crash between steps is replayed and is no
step. `ReceiveSignal` and `TimerFires` are the branches of the `Select`: the timer
wins only if no signal is in the history before it, which is what Temporal's
ordering of events gives.

**UploadPipeline.** `neg` is where Negotiate is, and each of its calls can fail,
with or without effect. `url`, `puts`, `uploading` are the presigned URL and the
client's PUTs, which are checked when they begin and take effect when they end.
`CompleteUpload` is the complete call, `excused` records a 200 given for a
NotFound. `shown` is a history variable: final statuses that a poller could have
read. Ids are random, so uploads share nothing and one upload is modelled.
A complete call for an upload whose workflow was never started is answered 200
too (the row exists, Temporal says NotFound); and a row whose Start failed stays
`pending`, with no workflow to reap it. Both are in the model.

**UploadLifecycle** is the interface between the http server and the pipeline, and
what both promise to pollers. `Record`, `Start` and `Hear` are the server's steps,
`Run` is the workflow's side: one verdict is decided, `abandoned` only without a
signal and any other only with one, `complete` only when all variants are there,
`rejected` and `abandoned` only when none is, and then none appears; the status
shown never leaves the branch of the verdict. It is implemented twice.
`UploadPipeline` has the workflow in full and negotiation call by call: the mapping
takes the verdict to be decided when the activity that writes it is scheduled, or
when Validate turns to `reject`, and a signal to be heard if the timer has not won.
`HttpApi` has the routes in full and leaves the other side at `Run`.

**HttpApi** puts the http server in front of that abstract upload, which
`UploadPipeline` is shown to implement, so that every route can be interleaved
with every other and with the pipeline. `req[c].at` is the call that a handler
makes next: the browser's (which asks first, or sends at once what bears no token),
`requireAuth`, INSERT, Start, Presign, the owner's row, signal, MinIO. `answer` holds the answer of the last step only.
`Pipeline` is `Run`: the upload going its own way, once a workflow was started,
and beyond the timer's branch once it was signalled. A create call that is told of
an error may have left, or may yet leave, a row or a workflow. One upload is
modelled, and calls by id begin once somebody has asked for it; any id before that
is that of no row. What the PUT to the presigned URL does is in `UploadPipeline`.

**Accounts.** A request is at one of its handler's calls; between two of them
every other request moves. `late` holds INSERTs nobody waits for any more.
`Folded` is the comparison of the citext column, `Key` what bcrypt looks at of a
password, and `Long` passwords are those it refuses to hash (`auth/password.go`).
A token is its claims: signature and serialisation are a library's. `Call` takes
any token that was handed out; a request without one is answered 401 and changes
nothing. `knew` is a history variable: the registrations that had been answered
201 when a request came. `idTokens` says whether the address of the auth service is
a Cloud Run URL, so that each call to it carries an ID token (`grpcauth.go`); both
are in the run. Then `TokenRefused`, an ID token that cannot be fetched or is not
accepted, is `Unauthenticated` like a bad password, and `authclient/client.go:45`
makes the same 401 of both. `LoginFails` is every failure with another code.

**Directory** has accounts, questions and answers: an email gets at most one
account, `created` is told only of an account that is there, a login is granted or
refused as the accounts of the moment have it; where it is `guarded`, a login may
also be refused at the gate (`TurnedAway`), whoever asks. The mapping folds emails,
takes HTTP codes to answers and `idTokens` to `guarded`.

**Config and Startup.** `Config` is what `config.go`, `grpcauth` and
`temporalclient` compute from the environment, as functions of the variables that
are set. `Startup` runs each `main` over it, for the three deployments of the
repository, each program with the environment that `docker-compose.yml` or
`deploy.yml` gives it, and each value of `OBJECT_STORE_ENSURE_BUCKET` that code and
documents foresee (`garbage` is what `ParseBool` refuses). The tables of `Main` give
the order of the calls; each succeeds only if the service is up *and* the computed
address, TLS setting and credentials are those that the deployment listens on. The
worker calls Temporal twice, in `Dial` and at the start of `Run` (`poll`).
`Awaits` is who waits for whom: `depends_on` of Compose, and the steps of the deploy
job, each of which waits for what it has deployed. `Restarts` is who is started
again: Compose's `on-failure`, absent for authservice; on Cloud Run, instances of
what was `ready` once, and new revisions as long as the job has not been told that
they failed (Cloud Run's own policy: no file of the repository states it). `GiveUp`
ends the roll-out: Postgres has failed its ten health checks while somebody waits for
it, or a program that the job deployed does not come up. It may come at any moment at
which that is the case. What was not started by then never is. The roll-out is the
first one: there is no older revision that would go on serving. A program that
cannot bind its port is left out.

**ImagingServer.** `sem` is the length of the channel's buffer, `queue` the
blocked senders in the order Go serves them. A receive passes the slot to the
first. The select takes a free slot even for a context that is done, since both
cases are ready. `Crash` replaces the server.

**WebClient.** An action is the code of `app.js` from one `await` to the next,
and reads `token` where the code reads `store.token`. Requests are answered in any
order, for the account whose token they carried, or fail; a failing answer may hide
an effect. `Boot` reloads the page: localStorage stays, the rest goes. One tab;
the register and probe forms, the API address and headings are left out.

## 3. Runs

| run | instance | shows |
|---|---|---|
| `pipeline_safety` | both sizes, 2 attempts, 2 PUTs, both stores lagging, size symmetry | `TypeOK`, `OneVerdict`, `CompleteMeansServed`, `DeadUploadHasNoVariants`, `FailedMeansExhausted`, `SinglePutServed`, `WaitsForAll`, and that the pipeline implements `UploadLifecycle` |
| `pipeline_progress` | both sizes, the code's 3 attempts, 1 PUT, stores that do not lag | `StatusDiagram`, `ReportMeansStatus`; `WorkflowCloses`, `HeardSignalIsValidated` |
| `imaging_server` | 5 RPCs, 2 slots | `TypeOK`, `DecodesBounded`, `NoIdleSlot`; `WaitersLeave` |
| `accounts` | 2 registrations, 1 login, 1 protected call, one email in 2 spellings, 3 passwords of which 2 agree in 72 bytes, tokens of 2 ticks, with ID tokens and without | `TypeOK`, `RegistrationStands`, `KnownLogsIn`, `AdmittedWhileValid`, and that `Directory` is implemented |
| `http_api` | 2 requests at once, any number in a row; the owner in a page of an allowed and of another origin, with and without a token, a second user without a page; 2 variants | `TypeOK`, `CreatedIsVisible`, `CompleteIsServed`, `OnlyToMaker`, `VerdictIsAskedFor`, `OriginsServed`, `CreatedIsReaped`, and that the server implements its side of `UploadLifecycle` (`KeepsLifecycle`) |
| `startup` | the 4 programs with 2 workers, all deployments, 1 crash, any outages, a roll-out that may fail | `TypeOK`, `BucketBeforeWork`, `RaceLostOnce`, `Reachable`, `OnlyOutagesKill`; `EveryoneServes` |
| `web_client` | 2 accounts, 2 logins, 2 uploads, one of 2 polls and one of 1, 1 image per preview, 1 refresh and 1 click at once besides the uploads' own | `TypeOK`, `OneIdentity`, `OneUpload`, `PreviewsLive`; `UploadReturns` |

The bounds. Two attempts are the least with which an attempt's late write can
meet its successor's, and 2 PUTs the least with which an original is replaced
after a check; the theorems of section 5 lift both. Lagging stores with 3 attempts
are out of TLC's reach, stores that do not lag are within it with the real number.
Five RPCs on two slots give a queue of three, so that one can leave from its
middle. Two registrations are the least that race, with two spellings they differ, and the
clock runs past the expiry of a token that is in use. Two requests at once give
every overlap of two handlers, and since slots are reused every order of requests;
a third adds no pair. Two workers and the http server are three racers for the
bucket, so that one can come second and one third; outages are not bounded at all.
In the page, a session and an upload of each account, one refresh and one
click are enough for every pair of handlers to overlap. The first upload is polled
again when its status is not final, the second runs into its deadline; a third poll
or a second image repeats a step that was taken before.

`CHECK_DEADLOCK FALSE` everywhere: an upload that is over, a server without
callers and a page nobody touches legitimately stop.

**Fairness.** Temporal dispatches workflow tasks and activity attempts and fires
timers (`WF` of `WorkflowTask`, `TimerFires`, `Worker(t)`); nothing is assumed of
the http server or of clients. In the image service a decode ends and a goroutine
whose context is done runs; nothing obliges a caller to give up. `EveryoneServes`
supposes that Docker and Cloud Run start what `Start` and `Restart` allow and that a
program which runs goes on (`WF` of `Run(p)`), and nothing of the services beyond its
own hypothesis, that they stay up from some day on. It promises nothing for whom the
deployment has given up (`GivenUp`): what is run by hand, authservice of Compose once
it has exited, and what a failed roll-out has not started or seen come up. There is no
fairness on `GiveUp`: a roll-out need not fail, and if the services come before it
does then everybody is to be served. In the page every request settles and every
timeout fires, for uploads and the refreshes they await.

**Where documents and code disagree.** Each of these runs checks one sentence of
the repository and TLC shows how the code breaks it.

| run | the sentence | what happens |
|---|---|---|
| `validate_fails` | `workflow.go:69`: a failed Validate has set `rejected` and deleted the object | a store error, a timeout or a worker's death fails Validate too, and `reject` ignores its errors |
| `excused_complete` | `orchestrator.go:32`: after NotFound "the work is done" | the workflow may have abandoned the upload without taking a signal |
| `late_update` | `docs/architecture.md:114-119`: final statuses have no outgoing arrow | an UPDATE executed after its caller gave up moves the row back |
| `token_refused` | `auth/auth.go:11`: `ErrInvalidCredentials` is for a bad email or a bad password | where calls carry ID tokens, one that cannot be fetched or is not accepted gives a known account with the right password the same answer |
| `web_list_late` | `index.html:86`: the list of a second account is empty | an answer meant for the first account is rendered for the second |

Two sentences of `README.md` are contradicted by properties of `http_api` that hold,
for one instance by TLC and for all by `HttpApiProofs`:

* `README.md:28-30`: a webhook lets an upload progress if its client disappears after
  the PUT. There is no route for one (`transport/server.go:50-69`;
  `docs/architecture.md:80-83` calls it future work), and by `VerdictIsAskedFor` no
  upload gets past `abandoned` without its maker's complete call.
* `README.md:171-172`: ids are "the only access guard, since there is no
  authentication"; the examples at 42-59 bear no token. By `OnlyToMaker` whoever
  holds the id of another's upload reads nothing of it: `requireAuth`
  (`middleware.go:20-40`) and `requireOwner` (`handlers.go:219-240`) stand before.

Every property of a passing run has a mutant: an operator named `Bug...` beside
the definition it replaces, with which TLC finds the property violated.

## 4. What only TLC checks

Liveness, which is under fairness and out of the prover's reach:
`WorkflowCloses`, `HeardSignalIsValidated`, `WaitersLeave`, `UploadReturns`,
`EveryoneServes`. Two theorems of section 5, `WorkIsBounded` and `ServedInTurn`,
are the safety part of what the first and the third of these rest on. Every invariant and
every other action property or refinement of a passing run is a theorem.

## 5. What is proved

From the assumptions on constants (`Variants` and `Requests` finite, variants
not named like an activity, at least one attempt, any set of lagging stores, any
integer for `NewServer`; any clients and origins; requests, emails and passwords
of any number; any workers), for every value of them:

* `UploadPipelineProofs`: `TypeCorrect`, `OneVerdictHolds`, `CompleteIsServed`,
  `DeadHasNoVariants`, `FailedIsExhausted`, `WaitingIsComplete`, `WorkIsBounded`. None of the properties is inductive.
  `IInv` adds why they hold: where the workflow is tells which activities it has
  not scheduled (`Flow`); an activity that was scheduled tells the results of those
  before it (`Order`); a status that was read, or may yet be written late, comes
  from its activity (`StatusOrigin`); an original that passed its checks is not
  deleted, now or late (`OriginalKept`); an object comes from its Resize
  (`VariantOrigin`); an error of a Resize came after its last attempt
  (`Exhausted`). The lemmas go action by action: a worker's step, a workflow
  task, a late write, negotiation, the client.
  `WaitingIsComplete` reads from `Flow` and `Order` which activities the workflow
  still waits for. `WorkIsBounded` is a variant function: `Effort(t)` counts the
  attempts of a task and how far the last has come, `Stage` the workflow's branches;
  every step of either spends some, nobody's step gives any back, and what is granted
  is finite for every retry policy. With workers that go on (the fairness of section
  3), all that could keep a workflow from closing is then a state without an
  enabled step, which `WorkflowCloses` rules out for the run's instance.
* `UploadRefinementProofs`: `Refinement`, that `SafeSpec` implements
  `UploadLifecycle`, and `SidesAreKept`, that workflow and worker take the steps of
  `Run` only and negotiation and client those of the other side only, as `HttpApi`
  supposes. They need `Recorded` besides: once a workflow exists so does the row, and
  no INSERT is late any more, so that `pending` is never shown twice; and `Asked`:
  Validate is not scheduled before a signal was heard.
* `UploadOutcomeProofs`: `SinglePutIsServed`, from `OneBody`: with one PUT begun, its
  body is under way or is the original, so what is stored late, checked or
  downloaded is that body. It assumes a variant at least, else `complete` needs no
  original. `ReportsMeanStatus` and `DiagramIsKept` assume a row that does not lag
  (`"row" \notin Lagging`; `late_update` shows what a lagging one does): then the row
  is a function of where the activities are (`RowFollows`).
* `HttpApiProofs`: all properties of the run. The invariant follows a request along
  the calls of its route (`Path`) and says what it has established by being where it
  is (`Sound`): whoever is past the owner's check is the maker, a create past its
  INSERT has a row, one that can answer 201 has a workflow. That a 201 or a
  `complete` is never taken back is `HistoryOK`; that a stranger's call leaves the
  workflow waiting is `signalled => asked`. All rests on nothing being undone
  (`Grows`), which is why interleaved requests cannot spoil each other. `ServerKeepsLifecycle`
  is the refinement from the server's side.
* `AccountsProofs`: `TypeCorrect`, `RegistrationsStand`, `KnownAccountsLogIn`,
  `AdmissionsAreValid`, and `AccountsImplementDirectory`. The invariant says that
  every row, inserted or late, is its registration's and alone with its email
  (`RowsStand`), that a login works on the row it found even if others register
  meanwhile (`LoginsMatch`), that a protected call bears a login's token
  (`CallsBear`). `KnownAccountsLogIn` is for calls without ID tokens; with them,
  `token_refused` shows a login that it would not hold for, and the refinement takes
  that answer to the Directory's `TurnedAway`. An executed INSERT is the Directory's `Enroll`, whoever waits for
  it; a late one that finds its email taken is a stutter.
* `WebClientProofs`: `TypeCorrect`, `IdentityIsOne`, `UploadIsOne`, `PreviewsAreLive`.
  The button alone is not inductive: `Uploads` adds that one upload at most is under
  way and that a refresh is awaited only by it; `Polls` and `Images` bound what is
  asked for. Every render revokes before it shows, which is all that previews need.
* `StartupProofs`: `TypeCorrect`, `ServedWithBucket`, `RacesAreLostOnce`, from where
  each program can be and what a program past the bucket has seen; the lemma
  `Ensures` computes `OBJECT_STORE_ENSURE_BUCKET` through `config.go` for every
  deployment. `AddressesAgree` and `OutagesKill` compute the rest: what each
  deployment sets for each program, what `Load` makes of it, and, in `CallsReach`, that
  every service is dialled where it listens, by every program that calls it.
* `ImagingServerProofs`: `TypeCorrect` (a slot is freed only by who holds it),
  `DecodesAreBounded`, `NoSlotIsIdle`, `QueueHoldsWaiters`, `ServedInTurn`
  (first come, first served). The invariant says that the queue is exactly the waiting RPCs, each once; without it a slot could be
  passed to an RPC that has left.

## 6. Not modelled

* Inside library calls, or arithmetic without state: the pixels of `imaging.go`,
  bcrypt and JWT below what `Accounts` says of them, generated gRPC code.
* `storage/storage.go`, a disk store that no program uses, and presigning for other
  methods than PUT (`objectstore.go:68`), which none asks for. `infra/`, and
  `cmd/` beyond what `Startup` has of it.
* Of the page: register and probe forms, headings, a second tab.
* More than one upload at once (ids are random, uploads share nothing but the
  image service, whose slots are in `ImagingServer`), and a program that cannot
  bind its port.

What a next step would take up: the page's forms.
