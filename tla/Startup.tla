------------------------------- MODULE Startup -------------------------------
(***************************************************************************)
(* How the four programs (cmd/) come up, with the services they need       *)
(* appearing and disappearing: each makes its calls in the order of its    *)
(* main and exits at the first that fails, whereupon Docker Compose or     *)
(* Cloud Run may start it again, or the roll-out that was to start them    *)
(* all fails.  Two of them create the bucket on the way.  Once a program   *)
(* serves, an outage is an error of single requests.  The roll-out is the  *)
(* first: nothing of an earlier one is there to fall back on.              *)
(***************************************************************************)
EXTENDS Config

CONSTANTS
    Workers,      \* replicas of the worker
    MaxCrashes    \* bound: programs that die for reasons of their own

ASSUME WorkersAssumption ==
    /\ Workers \cap {"httpserver", "authservice", "imageservice"} = {}
    /\ MaxCrashes \in Nat

VARIABLES
    deployment,   \* "local" (go run), "compose" or "cloudrun" (Cloud Run)
    ensure,       \* OBJECT_STORE_ENSURE_BUCKET, "unset" included
    up,           \* the services that can be reached
    bucket,       \* there is one
    at,           \* what each program does next
    races,        \* history: MakeBucket calls of each that came too late
    crashes,
    ready,        \* what Cloud Run has seen come up
    rollout       \* "running" or "failed": docker compose up, the job of deploy.yml

vars == <<deployment, ensure, up, bucket, at, races, crashes, ready, rollout>>

Programs == {"httpserver", "authservice", "imageservice"} \cup Workers
Deployments == {"local", "compose", "cloudrun"}
Settings == {"unset", "true", "false", "garbage"}

\* ID tokens come from Google's metadata server, on Cloud Run only.
Services(d) ==
    {"temporal", "postgres", "minio"} \cup (IF d = "cloudrun" THEN {"credentials"} ELSE {})

(***************************************************************************)
(* The deployments: docker-compose.yml, .github/workflows/deploy.yml       *)
(***************************************************************************)
\* Cloud Run tells a server, though not a worker, which port to listen on.
CloudRunPort == [k \in {"PORT"} |-> 8080]
Nothing == [k \in {} |-> "none"]

ComposeEnv(p) ==
    CASE p = "imageservice" -> Nothing
      [] p = "authservice" -> [DATABASE_URL |-> "postgres:5432"]
      [] p = "httpserver" ->
            [DATABASE_URL |-> "postgres:5432", TEMPORAL_ADDRESS |-> "temporal:7233",
             AUTH_SERVICE_ADDR |-> HostPort("authservice", 50052),
             MINIO_ENDPOINT |-> "minio:9000", MINIO_PUBLIC_ENDPOINT |-> "localhost:9000",
             CORS_ALLOWED_ORIGINS |-> {"*"}]
      [] OTHER ->
            [DATABASE_URL |-> "postgres:5432", TEMPORAL_ADDRESS |-> "temporal:7233",
             IMAGE_SERVICE_ADDR |-> HostPort("imageservice", 50051),
             MINIO_ENDPOINT |-> "minio:9000", MINIO_PUBLIC_ENDPOINT |-> "minio:9000"]

CloudRunEnv(p) ==
    CASE p = "imageservice" -> Nothing
      [] p = "authservice" -> [DATABASE_URL |-> "cloudSQL"]
      [] p = "httpserver" ->
            [DATABASE_URL |-> "cloudSQL", TEMPORAL_ADDRESS |-> "temporalCloud",
             TEMPORAL_API_KEY |-> "key", AUTH_SERVICE_ADDR |-> Url("authservice", "slash"),
             MINIO_ENDPOINT |-> "gcs", MINIO_PUBLIC_ENDPOINT |-> "gcs",
             OBJECT_STORE_USE_SSL |-> "true"]
      [] OTHER ->
            [DATABASE_URL |-> "cloudSQL", TEMPORAL_ADDRESS |-> "temporalCloud",
             TEMPORAL_API_KEY |-> "key", IMAGE_SERVICE_ADDR |-> Url("imageservice", "none"),
             MINIO_ENDPOINT |-> "gcs", MINIO_PUBLIC_ENDPOINT |-> "gcs",
             OBJECT_STORE_USE_SSL |-> "true"]

\* What each program finds set, the bucket's variable and the port aside.
Given(d, p) ==
    CASE d = "local" -> Nothing [] d = "compose" -> ComposeEnv(p) [] OTHER -> CloudRunEnv(p)

Over(f, g) == [k \in DOMAIN f \cup DOMAIN g |-> IF k \in DOMAIN f THEN f[k] ELSE g[k]]

Env(d, e, p) ==
    Over(IF e = "unset" THEN Nothing ELSE [k \in {"OBJECT_STORE_ENSURE_BUCKET"} |-> e],
         IF d = "cloudrun" /\ p \notin Workers THEN Over(CloudRunPort, Given(d, p)) ELSE Given(d, p))

\* The configuration of every program in every deployment.
Loaded == [d \in Deployments |-> [e \in Settings |-> [p \in Programs |-> Load(Env(d, e, p))]]]
Cfg(p) == Loaded[deployment][ensure][p]

\* Where, and how, the services are to be reached.
TemporalAt ==
    CASE deployment = "local" -> [HostPort |-> "localhost:7233", key |-> "none", tls |-> FALSE]
      [] deployment = "compose" -> [HostPort |-> "temporal:7233", key |-> "none", tls |-> FALSE]
      [] OTHER -> [HostPort |-> "temporalCloud", key |-> "key", tls |-> TRUE]
PostgresAt ==
    CASE deployment = "local" -> "localhost:5432"
      [] deployment = "compose" -> "postgres:5432"
      [] OTHER -> "cloudSQL"
StoreAt ==
    CASE deployment = "local" -> <<"localhost:9000", FALSE>>
      [] deployment = "compose" -> <<"minio:9000", FALSE>>
      [] OTHER -> <<"gcs", TRUE>>

\* Where a browser outside finds the store: Compose publishes MinIO's port.
StoreFromOutside == IF deployment = "cloudrun" THEN <<"gcs", TRUE>> ELSE <<"localhost:9000", FALSE>>

\* Mutant: no restart policy for the http server either.
BugRestarts(p) ==
    \/ deployment = "compose" /\ p \in {"imageservice"} \cup Workers
    \/ deployment = "cloudrun" /\ (p \in ready \/ rollout = "running")

\* Who is started again.  The restart policy of Compose is on-failure, and
\* authservice has none.  Cloud Run replaces instances of what was ready once, and
\* tries new revisions until it has told the job that they failed.
Restarts(p) ==
    \/ deployment = "compose" /\ p # "authservice"
    \/ deployment = "cloudrun" /\ (p \in ready \/ rollout = "running")

\* Who comes first: depends_on of Compose, which concerns the first start only, and
\* the order of the job's steps, each of which waits for what it deploys.
Awaits(p) ==
    /\ deployment = "compose" /\ p # "imageservice" =>
          /\ "postgres" \in up
          /\ p = "httpserver" => at["authservice"] # "created"
          /\ p \in Workers => at["imageservice"] # "created"
    /\ deployment = "cloudrun" =>
          /\ p = "authservice" => "imageservice" \in ready
          /\ p = "httpserver" => "authservice" \in ready
          /\ p \in Workers => "httpserver" \in ready

(***************************************************************************)
(* The programs                                                            *)
(***************************************************************************)
\* The call that each main makes first, and what follows the success of each.  A
\* connection pool is made without a call, and the worker does not try its own; it
\* calls Temporal twice, to dial and to begin polling ("poll").
HttpserverMain ==
    [first |-> "temporal", temporal |-> "credentials", credentials |-> "postgres",
     postgres |-> "bucket", bucket |-> "serve"]
WorkerMain ==
    [first |-> "credentials", credentials |-> "bucket", bucket |-> "temporal",
     temporal |-> "poll", poll |-> "serve"]
AuthserviceMain == [first |-> "postgres", postgres |-> "serve"]
ImageserviceMain == [first |-> "serve"]

Main(p) ==
    CASE p = "httpserver" -> HttpserverMain
      [] p = "authservice" -> AuthserviceMain
      [] p = "imageservice" -> ImageserviceMain
      [] OTHER -> WorkerMain

\* The peer that p dials.  That is lazy, except for the ID tokens of Cloud Run.
Peer(p) == IF p = "httpserver" THEN Cfg(p).AuthServiceAddr ELSE Cfg(p).ImageServiceAddr

StoreReached(p) ==
    "minio" \in up /\ StoreAt = <<Cfg(p).MinioEndpoint, Cfg(p).ObjectStoreUseSSL>>

\* The call at[p] succeeds, if it is one of these.
Reached(p) ==
    CASE at[p] \in {"temporal", "poll"} -> "temporal" \in up /\ TemporalOptions(Cfg(p)) = TemporalAt
      [] at[p] = "postgres" -> "postgres" \in up /\ Cfg(p).DatabaseURL = PostgresAt
      [] at[p] = "credentials" -> IsCloudRun(Peer(p)) => "credentials" \in up
      [] OTHER -> FALSE

Goto(p, s) ==
    /\ at' = [at EXCEPT ![p] = s]
    /\ ready' = IF s = "serve" /\ deployment = "cloudrun" THEN ready \cup {p} ELSE ready

\* log.Fatal.
Exit(p) == Goto(p, "exited")
Same == UNCHANGED <<deployment, ensure, up, crashes, rollout>>

Init ==
    /\ deployment \in Deployments
    /\ ensure \in IF deployment = "cloudrun" THEN {"false"}
                  ELSE IF deployment = "compose" THEN {"unset"}
                  ELSE {"unset", "false", "garbage"}
    /\ up \in SUBSET Services(deployment)
    /\ bucket \in IF deployment = "cloudrun" THEN {TRUE} ELSE BOOLEAN
    /\ at = [p \in Programs |-> "created"]
    /\ races = [p \in Programs |-> 0]
    /\ crashes = 0
    /\ ready = {} /\ rollout = "running"

Start(p) ==
    /\ at[p] = "created" /\ rollout = "running" /\ Awaits(p)
    /\ Goto(p, Main(p).first)
    /\ Same /\ UNCHANGED <<bucket, races>>

Restart(p) ==
    /\ at[p] = "exited" /\ Restarts(p)
    /\ Goto(p, Main(p).first)
    /\ Same /\ UNCHANGED <<bucket, races>>

\* Postgres has failed its ten health checks in a row while somebody waits for it, or
\* the job learns that a program which it deployed does not come up: what has not
\* been started by then is not started any more.
GiveUp ==
    /\ rollout = "running" /\ rollout' = "failed"
    /\ \/ /\ deployment = "compose" /\ "postgres" \notin up
          /\ \E p \in Programs \ {"imageservice"} : at[p] = "created"
       \/ /\ deployment = "cloudrun"
          /\ \E p \in Programs \ ready : at[p] = "exited"
    /\ UNCHANGED <<deployment, ensure, up, bucket, at, races, crashes, ready>>

\* Dial, Ping, or the first call of Run.
Connect(p) ==
    /\ at[p] \in {"temporal", "postgres", "credentials", "poll"}
    /\ IF Reached(p) THEN Goto(p, Main(p)[at[p]]) ELSE Exit(p)
    /\ Same /\ UNCHANGED <<bucket, races>>

\* Mutant: main does not look at cfg.ObjectStoreEnsureBucket.
BugAlwaysEnsure(p) ==
    /\ at[p] = "bucket"
    /\ \/ StoreReached(p) /\ bucket /\ Goto(p, Main(p)["bucket"])
       \/ StoreReached(p) /\ ~bucket /\ Goto(p, "make")
       \/ ~StoreReached(p) /\ Exit(p)
    /\ Same /\ UNCHANGED <<bucket, races>>

\* Mutant: an error of BucketExists is taken for "it does".
BugExistsErr(p) ==
    /\ at[p] = "bucket"
    /\ \/ Cfg(p).ObjectStoreEnsureBucket /\ StoreReached(p) /\ ~bucket /\ Goto(p, "make")
       \/ /\ ~(Cfg(p).ObjectStoreEnsureBucket /\ StoreReached(p) /\ ~bucket)
          /\ Goto(p, Main(p)["bucket"])
    /\ Same /\ UNCHANGED <<bucket, races>>

\* Mutant: MakeBucket without a look.
BugMakeAnyway(p) ==
    /\ at[p] = "bucket"
    /\ Goto(p, IF Cfg(p).ObjectStoreEnsureBucket THEN "make" ELSE Main(p)["bucket"])
    /\ Same /\ UNCHANGED <<bucket, races>>

\* BucketExists, if the configuration asks for it.
BucketExists(p) ==
    /\ at[p] = "bucket"
    /\ LET asks == Cfg(p).ObjectStoreEnsureBucket IN
       \/ (asks => StoreReached(p) /\ bucket) /\ Goto(p, Main(p)["bucket"])
       \/ asks /\ StoreReached(p) /\ ~bucket /\ Goto(p, "make")
       \/ asks /\ ~StoreReached(p) /\ Exit(p)
    /\ Same /\ UNCHANGED <<bucket, races>>

\* Whoever comes second is told that the bucket is there, which is an error, and
\* so is the loss of MinIO's answer.
MakeBucket(p) ==
    /\ at[p] = "make"
    /\ \/ /\ StoreReached(p) /\ ~bucket
          /\ bucket' = TRUE /\ Goto(p, Main(p)["bucket"]) /\ UNCHANGED races
       \/ /\ StoreReached(p) /\ bucket
          /\ Exit(p) /\ races' = [races EXCEPT ![p] = @ + 1] /\ UNCHANGED bucket
       \/ /\ ~StoreReached(p)
          /\ (bucket' = TRUE \/ UNCHANGED bucket) /\ Exit(p) /\ UNCHANGED races
    /\ Same

\* A panic, a lack of memory, or the failure of what serves.
Crash(p) ==
    /\ at[p] \notin {"created", "exited"}
    /\ crashes < MaxCrashes /\ crashes' = crashes + 1
    /\ Exit(p)
    /\ UNCHANGED <<deployment, ensure, up, bucket, races, rollout>>

\* A service appears or disappears; what MinIO keeps is on a volume.
Outage(s) == up' = up \ {s} /\ s \in up
Recovery(s) == up' = up \cup {s} /\ s \notin up
World ==
    /\ \E s \in Services(deployment) : Outage(s) \/ Recovery(s)
    /\ UNCHANGED <<deployment, ensure, bucket, at, races, crashes, ready, rollout>>

Run(p) == Start(p) \/ Restart(p) \/ Connect(p) \/ BucketExists(p) \/ MakeBucket(p)

Next == World \/ GiveUp \/ \E p \in Programs : Run(p) \/ Crash(p)

\* Docker and Cloud Run start what they are to start, and a program that runs
\* goes on.  A roll-out need never fail; nothing is assumed of the services.
Spec == Init /\ [][Next]_vars
LiveSpec == Spec /\ \A p \in Programs : WF_vars(Run(p))
-----------------------------------------------------------------------------
\* Types, and that only those who are configured to do so create the bucket.
TypeOK ==
    /\ deployment \in Deployments
    /\ ensure \in Settings
    /\ up \subseteq Services(deployment)
    /\ bucket \in BOOLEAN
    /\ at \in [Programs -> {"created", "exited", "temporal", "credentials", "postgres",
                            "bucket", "make", "poll", "serve"}]
    /\ races \in [Programs -> Nat]
    /\ crashes \in 0 .. MaxCrashes
    /\ ready \subseteq Programs
    /\ rollout \in {"running", "failed"}
    /\ \A p \in Programs : at[p] = "make" => ensure # "false"

\* Who serves uploads has a bucket to put them in: whatever failed on the way up,
\* in whatever order the programs came and MinIO with them.  Only the operator who
\* sets OBJECT_STORE_ENSURE_BUCKET to false (any of ParseBool's spellings of it, for
\* which "false" stands) gives that up.
BucketBeforeWork ==
    \A p \in {"httpserver"} \cup Workers : at[p] = "serve" => bucket \/ ensure = "false"

\* Programs that look for the bucket at the same moment all try to create it, and
\* all but one exit; nobody pays that price twice.
RaceLostOnce == \A p \in Programs : races[p] <= 1

\* In every deployment the addresses that are dialled are those that are listened
\* on: config.go's defaults, main.go's ports, PORT and DialTarget agree.  And the URLs
\* that the http server presigns are those of the store as a browser finds it.
Listening(p) ==
    LET conventional == IF p = "authservice" THEN 50052 ELSE 50051
        port == IF p = "httpserver" THEN Cfg(p).HTTPAddr ELSE ListenAddr(Env(deployment, ensure, p), conventional)
    IN  CASE deployment = "local" -> [host |-> "localhost", port |-> port]
          [] deployment = "compose" -> [host |-> p, port |-> port]
          [] OTHER -> [host |-> p, port |-> IF port = CloudRunPort["PORT"] THEN 443 ELSE 0]

Expects(callee, addr) == deployment = "cloudrun" => Audience(addr) = Url(callee, "none")

Reachable ==
    /\ \A p \in {"httpserver"} \cup Workers : at[p] = "serve" =>
          LET callee == IF p = "httpserver" THEN "authservice" ELSE "imageservice" IN
          at[callee] = "serve" =>
              DialTarget(Peer(p)) = Listening(callee) /\ Expects(callee, Peer(p))
    /\ deployment = "cloudrun" => Listening("httpserver").port = 443
    /\ StoreFromOutside = <<Cfg("httpserver").MinioPublicEndpoint,
                            Cfg("httpserver").ObjectStoreUseSSL>>

\* A program never exits on its own while the service it calls can be reached: the
\* configuration that the code makes of each deployment's environment is right.
OnlyOutagesKill ==
    [][\A p \in Programs : at[p] # "exited" /\ at'[p] = "exited" =>
          \/ crashes' > crashes
          \/ at[p] \in Services(deployment) \ up
          \/ at[p] = "poll" /\ "temporal" \notin up
          \/ at[p] \in {"bucket", "make"} /\ "minio" \notin up
          \/ at[p] = "make" /\ bucket]_vars

\* Whom the deployment has given up: what is run by hand, authservice of Compose
\* once it has exited, and what a failed roll-out never started or saw come up.
GivenUp(p) ==
    \/ deployment = "local"
    \/ deployment = "compose" /\ p = "authservice" /\ at[p] = "exited"
    \/ rollout = "failed" /\ (at[p] = "created" \/ (deployment = "cloudrun" /\ p \notin ready))

\* If the services are there for good one day then all programs serve for good,
\* whatever happened before and however the bucket was raced for, but for those
\* whom the deployment has given up.
EveryoneServes ==
    <>[](up = Services(deployment)) => \A p \in Programs : <>[](at[p] = "serve" \/ GivenUp(p))
=============================================================================
