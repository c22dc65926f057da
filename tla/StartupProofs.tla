---------------------------- MODULE StartupProofs ----------------------------
(***************************************************************************)
(* What holds of the start of the programs for any number of workers and   *)
(* crashes, in every deployment.                                           *)
(***************************************************************************)
EXTENDS Startup, TLAPS

\* Where each program can be.
Stations(p) == {"created", "exited", "serve"} \cup
    CASE p = "httpserver" -> {"temporal", "credentials", "postgres", "bucket", "make"}
      [] p = "authservice" -> {"postgres"}
      [] p = "imageservice" -> {}
      [] OTHER -> {"credentials", "bucket", "make", "temporal", "poll"}

\* Those who have got past the bucket.
Past(p) ==
    \/ p = "httpserver" /\ at[p] = "serve"
    \/ p \in Workers /\ at[p] \in {"temporal", "poll", "serve"}

IInv ==
    /\ deployment \in Deployments /\ ensure \in Settings /\ up \subseteq Services(deployment)
    /\ bucket \in BOOLEAN /\ crashes \in 0 .. MaxCrashes
    /\ at \in [Programs -> {"created", "exited", "temporal", "credentials", "postgres",
                            "bucket", "make", "poll", "serve"}]
    /\ races \in [Programs -> Nat]
    /\ ready \subseteq Programs /\ rollout \in {"running", "failed"}
    /\ \A p \in Programs :
          /\ at[p] \in Stations(p)
          /\ at[p] = "make" => ensure # "false"
          /\ Past(p) => bucket \/ ensure = "false"
          /\ races[p] <= 1
          /\ races[p] = 1 => bucket /\ at[p] # "make"

\* Neither the bucket's variable nor the port is among what a deployment sets.
LEMMA Sets ==
  ASSUME NEW d \in Deployments, NEW p \in Programs
  PROVE  "OBJECT_STORE_ENSURE_BUCKET" \notin DOMAIN Given(d, p) /\ "PORT" \notin DOMAIN Given(d, p)
  <1>1. CASE d = "local"
    BY <1>1 DEF Given, Nothing
  <1>2. CASE d = "compose"
    BY <1>2 DEF Given, ComposeEnv, Nothing
  <1>3. CASE d = "cloudrun"
    BY <1>3 DEF Given, CloudRunEnv, Nothing
  <1> QED
    BY <1>1, <1>2, <1>3 DEF Deployments

\* The bucket is ensured unless the variable is exactly "false".
LEMMA Ensures ==
  ASSUME NEW d \in Deployments, NEW e \in Settings, NEW p \in Programs
  PROVE  Loaded[d][e][p].ObjectStoreEnsureBucket <=> e # "false"
  <1> DEFINE K == "OBJECT_STORE_ENSURE_BUCKET"
             set == IF e = "unset" THEN Nothing ELSE [k \in {K} |-> e]
             rest == IF d = "cloudrun" /\ p \notin Workers THEN Over(CloudRunPort, Given(d, p))
                     ELSE Given(d, p)
  <1>1. K \notin DOMAIN Given(d, p)
    BY Sets
  <1>2. K \notin DOMAIN rest
    BY <1>1 DEF Over, CloudRunPort
  <1>3. /\ e = "unset" => DOMAIN set = {}
        /\ e # "unset" => DOMAIN set = {K} /\ set[K] = e
    BY DEF Nothing
  <1>4. Env(d, e, p) = Over(set, rest)
    BY DEF Env
  <1> HIDE DEF set, rest
  <1>5. /\ K \in DOMAIN Over(set, rest) <=> e # "unset"
        /\ e # "unset" => Over(set, rest)[K] = e
    BY <1>2, <1>3 DEF Over
  <1>6. GetenvBool(Env(d, e, p), K, TRUE) <=> e # "false"
    <2>1. PICK env : env = Env(d, e, p)
      OBVIOUS
    <2>2. (K \in DOMAIN env <=> e # "unset") /\ (e # "unset" => env[K] = e)
      BY <1>4, <1>5, <2>1
    <2>3. CASE e \in {"unset", "garbage"}
      BY <2>1, <2>2, <2>3 DEF GetenvBool
    <2>4. CASE e \in {"true", "false"}
      <3>1. K \in DOMAIN env /\ env[K] \in {"true", "false"}
        BY <2>2, <2>4
      <3>2. GetenvBool(env, K, TRUE) = (env[K] = "true")
        BY <3>1 DEF GetenvBool
      <3> QED
        BY <2>1, <2>2, <2>4, <3>2
    <2> QED
      BY <2>3, <2>4 DEF Settings
  <1>7. Load(Env(d, e, p)).ObjectStoreEnsureBucket <=> e # "false"
    <2>1. PICK env : env = Env(d, e, p)
      OBVIOUS
    <2>2. Load(env).ObjectStoreEnsureBucket = GetenvBool(env, K, TRUE)
      BY DEF Load
    <2> QED
      BY <1>6, <2>1, <2>2
  <1>8. Loaded[d][e][p] = Load(Env(d, e, p))
    BY DEF Loaded
  <1> QED
    BY <1>7, <1>8

LEMMA ProgramKinds ==
  /\ {"httpserver", "authservice", "imageservice"} \subseteq Programs /\ Workers \subseteq Programs
  /\ \A p \in Programs : \/ p \in {"httpserver", "authservice", "imageservice"} /\ p \notin Workers
                         \/ p \in Workers /\ p \notin {"httpserver", "authservice", "imageservice"}
  BY WorkersAssumption DEF Programs

LEMMA InitIInv == Init => IInv
  <1> SUFFICES ASSUME Init PROVE IInv
    OBVIOUS
  <1>1. at = [p \in Programs |-> "created"] /\ races = [p \in Programs |-> 0]
    BY DEF Init
  <1>2. deployment \in Deployments /\ up \subseteq Services(deployment)
    BY DEF Init
  <1>3. ensure \in Settings /\ bucket \in BOOLEAN
    BY DEF Init, Settings
  <1>4. crashes \in 0 .. MaxCrashes
    BY WorkersAssumption DEF Init
  <1>5. \A p \in Programs : at[p] \in Stations(p) /\ ~Past(p) /\ at[p] # "make" /\ races[p] = 0
    BY <1>1 DEF Stations, Past
  <1>6. ready = {} /\ rollout = "running"
    BY DEF Init
  <1> QED
    BY <1>1, <1>2, <1>3, <1>4, <1>5, <1>6 DEF IInv

\* A program that takes a step to s, and what it must have seen to do so.
LEMMA Moves ==
  ASSUME IInv, NEW p \in Programs, NEW s \in Stations(p), Goto(p, s),
         UNCHANGED <<deployment, ensure, up, rollout>>, crashes' \in 0 .. MaxCrashes,
         bucket' = bucket \/ bucket' = TRUE,
         s = "make" => ensure # "false" /\ races'[p] # 1,
         p = "httpserver" /\ s = "serve" => bucket' \/ ensure = "false",
         p \in Workers /\ s \in {"temporal", "poll", "serve"} => bucket' \/ ensure = "false",
         races' = races \/ (races' = [races EXCEPT ![p] = 1] /\ s # "make" /\ bucket')
  PROVE  IInv'
  <1>1. s \in {"created", "exited", "temporal", "credentials", "postgres", "bucket", "make",
               "poll", "serve"}
    BY DEF Stations
  <1>2. at' = [at EXCEPT ![p] = s] /\ at' \in [Programs -> {"created", "exited", "temporal",
           "credentials", "postgres", "bucket", "make", "poll", "serve"}]
    BY <1>1 DEF Goto, IInv
  <1>3. races' \in [Programs -> Nat] /\ ready' \subseteq Programs
    BY DEF Goto, IInv
  <1>4. bucket' \in BOOLEAN /\ (bucket => bucket')
    BY DEF IInv
  <1>5. ASSUME NEW q \in Programs
        PROVE  /\ at'[q] \in Stations(q)
               /\ at'[q] = "make" => ensure' # "false"
               /\ Past(q)' => bucket' \/ ensure' = "false"
               /\ races'[q] <= 1
               /\ races'[q] = 1 => bucket' /\ at'[q] # "make"
    <2>1. CASE q = p
      BY <1>2, <1>4, <2>1 DEF IInv, Past
    <2>2. CASE q # p
      BY <1>2, <1>4, <2>2 DEF IInv, Past
    <2> QED
      BY <2>1, <2>2
  <1> QED
    BY <1>2, <1>3, <1>4, <1>5 DEF IInv

LEMMA StepIInv == IInv /\ [Next]_vars => IInv'
  <1> SUFFICES ASSUME IInv, [Next]_vars PROVE IInv'
    OBVIOUS
  <1>1. CASE UNCHANGED vars
    BY <1>1 DEF IInv, Past, vars
  <1>2. CASE World
    BY <1>2 DEF World, Outage, Recovery, IInv, Past
  <1>3. ASSUME NEW p \in Programs, Crash(p) PROVE IInv'
    <2>1. "exited" \in Stations(p)
      BY DEF Stations
    <2>2. crashes' \in 0 .. MaxCrashes
      BY <1>3, WorkersAssumption DEF Crash, IInv
    <2> QED
      BY <1>3, <2>1, <2>2, Moves DEF Crash, Exit
  <1>4. ASSUME NEW p \in Programs, Run(p) PROVE IInv'
    <2>1. Cfg(p).ObjectStoreEnsureBucket <=> ensure # "false"
      BY Ensures DEF Cfg, IInv
    <2>2. at[p] \in Stations(p) /\ races[p] \in Nat
      BY DEF IInv
    <2>3. "exited" \in Stations(p)
      BY DEF Stations
    <2>4. CASE Start(p) \/ Restart(p)
      <3>1. /\ Main(p).first \in Stations(p) \ {"make"}
            /\ p = "httpserver" => Main(p).first # "serve"
            /\ p \in Workers => Main(p).first \notin {"temporal", "poll", "serve"}
        BY ProgramKinds DEF Main, HttpserverMain, WorkerMain, AuthserviceMain,
           ImageserviceMain, Stations
      <3> QED
        BY <2>4, <3>1, Moves DEF Start, Restart, Same, IInv
    <2>5. CASE Connect(p)
      <3>1. at[p] \in {"temporal", "postgres", "credentials", "poll"}
        BY <2>5 DEF Connect
      <3>2. CASE Exit(p)
        BY <2>3, <2>5, <3>2, Moves DEF Connect, Exit, Same, IInv
      <3>3. CASE Goto(p, Main(p)[at[p]])
        <4>1. /\ Main(p)[at[p]] \in Stations(p) \ {"make"}
              /\ p = "httpserver" => Main(p)[at[p]] # "serve"
              /\ p \in Workers /\ Main(p)[at[p]] \in {"temporal", "poll", "serve"} =>
                     at[p] \in {"temporal", "poll"}
          BY <2>2, <3>1, ProgramKinds DEF Main, HttpserverMain, WorkerMain, AuthserviceMain,
             Stations
        <4>2. p \in Workers /\ at[p] \in {"temporal", "poll"} => bucket \/ ensure = "false"
          BY DEF IInv, Past
        <4> QED
          BY <2>5, <3>3, <4>1, <4>2, Moves DEF Connect, Same, IInv
      <3> QED
        BY <2>5, <3>2, <3>3 DEF Connect
    <2>6. CASE BucketExists(p)
      <3>1. at[p] = "bucket" /\ Same /\ UNCHANGED <<bucket, races>>
        BY <2>6 DEF BucketExists
      <3>2. Main(p)["bucket"] \in Stations(p) \ {"make"} /\ "make" \in Stations(p)
        BY <2>2, <3>1, ProgramKinds DEF Main, HttpserverMain, WorkerMain, Stations
      <3>3. CASE (ensure # "false" => bucket) /\ Goto(p, Main(p)["bucket"])
        BY <3>1, <3>2, <3>3, Moves DEF Same, IInv
      <3>4. CASE ensure # "false" /\ ~bucket /\ Goto(p, "make")
        <4>1. races[p] # 1
          BY <3>4 DEF IInv
        <4> QED
          BY <3>1, <3>2, <3>4, <4>1, Moves DEF Same, IInv
      <3>5. CASE Exit(p)
        BY <2>3, <3>1, <3>5, Moves DEF Exit, Same, IInv
      <3> QED
        BY <2>1, <2>6, <3>3, <3>4, <3>5 DEF BucketExists
    <2>7. CASE MakeBucket(p)
      <3>1. at[p] = "make" /\ Same
        BY <2>7 DEF MakeBucket
      <3>2. Main(p)["bucket"] \in Stations(p) \ {"make"}
        BY <2>2, <3>1, ProgramKinds DEF Main, HttpserverMain, WorkerMain, Stations
      <3>3. races[p] = 0
        BY <2>2, <3>1 DEF IInv
      <3>4. CASE bucket' = TRUE /\ Goto(p, Main(p)["bucket"]) /\ UNCHANGED races
        BY <3>1, <3>2, <3>4, Moves DEF Same, IInv
      <3>5. CASE bucket /\ Exit(p) /\ races' = [races EXCEPT ![p] = @ + 1] /\ UNCHANGED bucket
        <4>1. races' = [races EXCEPT ![p] = 1]
          BY <3>3, <3>5 DEF IInv
        <4> QED
          BY <2>3, <3>1, <3>5, <4>1, Moves DEF Exit, Same, IInv
      <3>6. CASE Exit(p) /\ UNCHANGED races /\ (bucket' = bucket \/ bucket' = TRUE)
        BY <2>3, <3>1, <3>6, Moves DEF Exit, Same, IInv
      <3> QED
        BY <2>7, <3>4, <3>5, <3>6 DEF MakeBucket
    <2> QED
      BY <1>4, <2>4, <2>5, <2>6, <2>7 DEF Run
  <1>5. CASE GiveUp
    BY <1>5 DEF GiveUp, IInv, Past
  <1> QED
    BY <1>1, <1>2, <1>3, <1>4, <1>5 DEF Next

\* What is inductive of the start of the programs.
THEOREM Invariance == Spec => []IInv
  BY InitIInv, StepIInv, PTL DEF Spec

\* Types; only who is configured to do so creates the bucket.
THEOREM TypeCorrect == Spec => []TypeOK
  <1>1. IInv => TypeOK
    BY DEF IInv, TypeOK
  <1> QED
    BY <1>1, Invariance, PTL

\* Who serves uploads has a bucket, unless the operator has opted out.
THEOREM ServedWithBucket == Spec => []BucketBeforeWork
  <1>1. IInv => BucketBeforeWork
    BY ProgramKinds DEF IInv, BucketBeforeWork, Past
  <1> QED
    BY <1>1, Invariance, PTL

\* However many programs race for the bucket, each loses at most once.
THEOREM RacesAreLostOnce == Spec => []RaceLostOnce
  <1>1. IInv => RaceLostOnce
    BY DEF IInv, RaceLostOnce
  <1> QED
    BY <1>1, Invariance, PTL
-----------------------------------------------------------------------------
(***************************************************************************)
(* What the programs make of each deployment.                              *)
(***************************************************************************)
\* The variables that a deployment sets reach every program as they are set, and
\* only a server on Cloud Run is told a port.
LEMMA Lookups ==
  ASSUME NEW d \in Deployments, NEW e \in Settings, NEW p \in Programs
  PROVE  /\ \A k \in DOMAIN Given(d, p) : k \in DOMAIN Env(d, e, p) /\ Env(d, e, p)[k] = Given(d, p)[k]
         /\ \A k : k \notin DOMAIN Given(d, p) /\ k \notin {"PORT", "OBJECT_STORE_ENSURE_BUCKET"} =>
                k \notin DOMAIN Env(d, e, p)
         /\ "PORT" \in DOMAIN Env(d, e, p) <=> d = "cloudrun" /\ p \notin Workers
         /\ "PORT" \in DOMAIN Env(d, e, p) => Env(d, e, p)["PORT"] = 8080
  <1> DEFINE K == "OBJECT_STORE_ENSURE_BUCKET"
             set == IF e = "unset" THEN Nothing ELSE [k \in {K} |-> e]
             rest == IF d = "cloudrun" /\ p \notin Workers THEN Over(CloudRunPort, Given(d, p))
                     ELSE Given(d, p)
  <1>1. K \notin DOMAIN Given(d, p) /\ "PORT" \notin DOMAIN Given(d, p)
    BY Sets
  <1>2. DOMAIN CloudRunPort = {"PORT"} /\ CloudRunPort["PORT"] = 8080
    BY DEF CloudRunPort
  <1>3. /\ \A k \in DOMAIN Given(d, p) : k \in DOMAIN rest /\ rest[k] = Given(d, p)[k]
        /\ \A k : k \notin DOMAIN Given(d, p) /\ k # "PORT" => k \notin DOMAIN rest
        /\ "PORT" \in DOMAIN rest <=> d = "cloudrun" /\ p \notin Workers
        /\ "PORT" \in DOMAIN rest => rest["PORT"] = 8080
    <2>1. CASE d = "cloudrun" /\ p \notin Workers
      BY <1>1, <1>2, <2>1 DEF Over
    <2>2. CASE ~(d = "cloudrun" /\ p \notin Workers)
      BY <1>1, <2>2
    <2> QED
      BY <2>1, <2>2
  <1>4. DOMAIN set \subseteq {K}
    BY DEF Nothing
  <1>5. Env(d, e, p) = Over(set, rest)
    BY DEF Env
  <1> HIDE DEF set, rest
  <1> QED
    BY <1>1, <1>3, <1>4, <1>5 DEF Over

\* The programs that call others, and the addresses that they are configured with.
Clients == {"httpserver"} \cup Workers

Database(d, cfg) ==
    cfg.DatabaseURL =
        CASE d = "local" -> "localhost:5432" [] d = "compose" -> "postgres:5432"
          [] OTHER -> "cloudSQL"

Addresses(d, p, cfg) ==
    /\ Database(d, cfg)
    /\ p = "httpserver" => cfg.AuthServiceAddr =
          CASE d = "local" -> HostPort("localhost", 50052)
            [] d = "compose" -> HostPort("authservice", 50052)
            [] OTHER -> Url("authservice", "slash")
    /\ p \in Workers => cfg.ImageServiceAddr =
          CASE d = "local" -> HostPort("localhost", 50051)
            [] d = "compose" -> HostPort("imageservice", 50051)
            [] OTHER -> Url("imageservice", "none")
    /\ cfg.TemporalAddress =
          CASE d = "local" -> "localhost:7233" [] d = "compose" -> "temporal:7233"
            [] OTHER -> "temporalCloud"
    /\ cfg.TemporalAPIKey = IF d = "cloudrun" THEN "key" ELSE "none"
    /\ cfg.MinioEndpoint =
          CASE d = "local" -> "localhost:9000" [] d = "compose" -> "minio:9000" [] OTHER -> "gcs"
    /\ p = "httpserver" => cfg.MinioPublicEndpoint = IF d = "cloudrun" THEN "gcs" ELSE "localhost:9000"

\* What Load makes of an environment, field by field.
LEMMA Fields ==
  ASSUME NEW env
  PROVE  /\ Load(env).HTTPAddr = Getenv(env, "HTTP_ADDR", 8080)
         /\ Load(env).AuthServiceAddr =
               Getenv(env, "AUTH_SERVICE_ADDR", HostPort("localhost", 50052))
         /\ Load(env).ImageServiceAddr =
               Getenv(env, "IMAGE_SERVICE_ADDR", HostPort("localhost", 50051))
         /\ Load(env).DatabaseURL = Getenv(env, "DATABASE_URL", "localhost:5432")
         /\ Load(env).TemporalAddress = Getenv(env, "TEMPORAL_ADDRESS", "localhost:7233")
         /\ Load(env).TemporalAPIKey = Getenv(env, "TEMPORAL_API_KEY", "none")
         /\ Load(env).MinioEndpoint = Getenv(env, "MINIO_ENDPOINT", "localhost:9000")
         /\ Load(env).MinioPublicEndpoint = Getenv(env, "MINIO_PUBLIC_ENDPOINT", "localhost:9000")
  BY DEF Load

\* TLS is off unless it is switched on.
LEMMA Switch ==
  ASSUME NEW env
  PROVE  /\ "OBJECT_STORE_USE_SSL" \notin DOMAIN env => Load(env).ObjectStoreUseSSL = FALSE
         /\ "OBJECT_STORE_USE_SSL" \in DOMAIN env /\ env["OBJECT_STORE_USE_SSL"] = "true" =>
                Load(env).ObjectStoreUseSSL = TRUE
  <1> DEFINE k == "OBJECT_STORE_USE_SSL"
  <1>1. Load(env).ObjectStoreUseSSL = GetenvBool(env, k, FALSE)
    BY DEF Load
  <1>2. k \notin DOMAIN env => GetenvBool(env, k, FALSE) = FALSE
    BY Zenon DEF GetenvBool
  <1>3. ASSUME k \in DOMAIN env, env[k] = "true" PROVE GetenvBool(env, k, FALSE) = TRUE
    <2>1. GetenvBool(env, k, FALSE) = (env[k] = "true")
      BY <1>3 DEF GetenvBool
    <2> QED
      BY <1>3, <2>1
  <1> QED
    BY <1>1, <1>2, <1>3, Zenon

\* What the environment of p sets, its configuration has.
LEMMA Found ==
  ASSUME NEW d \in Deployments, NEW e \in Settings, NEW p \in Programs, NEW fallback,
         NEW k, k \notin {"PORT", "OBJECT_STORE_ENSURE_BUCKET"}
  PROVE  Getenv(Env(d, e, p), k, fallback) =
            IF k \in DOMAIN Given(d, p) THEN Given(d, p)[k] ELSE fallback
  BY Lookups DEF Getenv

\* They are what docker-compose.yml, deploy.yml and the defaults say.
LEMMA Configured ==
  ASSUME NEW d \in Deployments, NEW e \in Settings, NEW p \in Clients
  PROVE  Addresses(d, p, Loaded[d][e][p])
  <1>0. p \in Programs /\ (p = "httpserver" <=> p \notin Workers)
        /\ p \notin {"imageservice", "authservice"}
    BY ProgramKinds DEF Clients
  <1>1. PICK env : env = Env(d, e, p)
    OBVIOUS
  <1>2. Loaded[d][e][p] = Load(env)
    BY <1>0, <1>1 DEF Loaded
  <1>3. PICK g : g = Given(d, p)
    OBVIOUS
  <1>4. \A k, fallback : k \notin {"PORT", "OBJECT_STORE_ENSURE_BUCKET"} =>
           Getenv(env, k, fallback) = IF k \in DOMAIN g THEN g[k] ELSE fallback
    BY <1>0, <1>1, <1>3, Found
  <1>5. CASE d = "local"
    <2>1. DOMAIN g = {}
      BY <1>3, <1>5 DEF Given, Nothing
    <2> QED
      BY <1>2, <1>4, <1>5, <2>1, Fields DEF Addresses, Database
  <1>6. CASE d = "compose" /\ p = "httpserver"
    <2>1. /\ DOMAIN g = {"DATABASE_URL", "TEMPORAL_ADDRESS", "AUTH_SERVICE_ADDR", "MINIO_ENDPOINT",
                         "MINIO_PUBLIC_ENDPOINT", "CORS_ALLOWED_ORIGINS"}
          /\ g["DATABASE_URL"] = "postgres:5432" /\ g["TEMPORAL_ADDRESS"] = "temporal:7233"
          /\ g["AUTH_SERVICE_ADDR"] = HostPort("authservice", 50052)
          /\ g["MINIO_ENDPOINT"] = "minio:9000" /\ g["MINIO_PUBLIC_ENDPOINT"] = "localhost:9000"
      BY <1>3, <1>6 DEF Given, ComposeEnv
    <2> QED
      BY <1>0, <1>2, <1>4, <1>6, <2>1, Fields DEF Addresses, Database
  <1>7. CASE d = "compose" /\ p # "httpserver"
    <2>1. /\ DOMAIN g = {"DATABASE_URL", "TEMPORAL_ADDRESS", "IMAGE_SERVICE_ADDR", "MINIO_ENDPOINT",
                         "MINIO_PUBLIC_ENDPOINT"}
          /\ g["DATABASE_URL"] = "postgres:5432" /\ g["TEMPORAL_ADDRESS"] = "temporal:7233"
          /\ g["IMAGE_SERVICE_ADDR"] = HostPort("imageservice", 50051)
          /\ g["MINIO_ENDPOINT"] = "minio:9000"
      BY <1>0, <1>3, <1>7 DEF Given, ComposeEnv
    <2> QED
      BY <1>0, <1>2, <1>4, <1>7, <2>1, Fields DEF Addresses, Database
  <1>8. CASE d = "cloudrun" /\ p = "httpserver"
    <2>1. /\ DOMAIN g = {"DATABASE_URL", "TEMPORAL_ADDRESS", "TEMPORAL_API_KEY", "AUTH_SERVICE_ADDR",
                         "MINIO_ENDPOINT", "MINIO_PUBLIC_ENDPOINT", "OBJECT_STORE_USE_SSL"}
          /\ g["DATABASE_URL"] = "cloudSQL" /\ g["TEMPORAL_ADDRESS"] = "temporalCloud"
          /\ g["TEMPORAL_API_KEY"] = "key"
          /\ g["AUTH_SERVICE_ADDR"] = Url("authservice", "slash")
          /\ g["MINIO_ENDPOINT"] = "gcs" /\ g["MINIO_PUBLIC_ENDPOINT"] = "gcs"
      BY <1>3, <1>8 DEF Given, CloudRunEnv
    <2> QED
      BY <1>0, <1>2, <1>4, <1>8, <2>1, Fields DEF Addresses, Database
  <1>9. CASE d = "cloudrun" /\ p # "httpserver"
    <2>1. /\ DOMAIN g = {"DATABASE_URL", "TEMPORAL_ADDRESS", "TEMPORAL_API_KEY", "IMAGE_SERVICE_ADDR",
                         "MINIO_ENDPOINT", "MINIO_PUBLIC_ENDPOINT", "OBJECT_STORE_USE_SSL"}
          /\ g["DATABASE_URL"] = "cloudSQL" /\ g["TEMPORAL_ADDRESS"] = "temporalCloud"
          /\ g["TEMPORAL_API_KEY"] = "key"
          /\ g["IMAGE_SERVICE_ADDR"] = Url("imageservice", "none")
          /\ g["MINIO_ENDPOINT"] = "gcs"
      BY <1>0, <1>3, <1>9 DEF Given, CloudRunEnv
    <2> QED
      BY <1>0, <1>2, <1>4, <1>9, <2>1, Fields DEF Addresses, Database
  <1> QED
    BY <1>5, <1>6, <1>7, <1>8, <1>9 DEF Deployments

\* The auth service knows its database, and needs no more.
LEMMA AuthConfigured ==
  ASSUME NEW d \in Deployments, NEW e \in Settings
  PROVE  Database(d, Loaded[d][e]["authservice"])
  <1>1. "authservice" \in Programs
    BY ProgramKinds
  <1>2. PICK env : env = Env(d, e, "authservice")
    OBVIOUS
  <1>3. Loaded[d][e]["authservice"] = Load(env)
    BY <1>1, <1>2 DEF Loaded
  <1>4. PICK g : g = Given(d, "authservice")
    OBVIOUS
  <1>5. Getenv(env, "DATABASE_URL", "localhost:5432") =
           IF "DATABASE_URL" \in DOMAIN g THEN g["DATABASE_URL"] ELSE "localhost:5432"
    BY <1>1, <1>2, <1>4, Found
  <1>6. CASE d = "local"
    <2>1. DOMAIN g = {}
      BY <1>4, <1>6 DEF Given, Nothing
    <2> QED
      BY <1>3, <1>5, <1>6, <2>1, Fields DEF Database
  <1>7. CASE d # "local"
    <2>1. /\ DOMAIN g = {"DATABASE_URL"}
          /\ g["DATABASE_URL"] = IF d = "compose" THEN "postgres:5432" ELSE "cloudSQL"
      BY <1>4, <1>7 DEF Given, ComposeEnv, CloudRunEnv
    <2> QED
      BY <1>3, <1>5, <1>7, <2>1, Fields DEF Database
  <1> QED
    BY <1>6, <1>7

\* TLS is for Cloud Run.
LEMMA Secured ==
  ASSUME NEW d \in Deployments, NEW e \in Settings, NEW p \in Clients
  PROVE  Loaded[d][e][p].ObjectStoreUseSSL = IF d = "cloudrun" THEN TRUE ELSE FALSE
  <1>0. p \in Programs /\ p \notin {"imageservice", "authservice"}
    BY ProgramKinds DEF Clients
  <1>1. PICK env : env = Env(d, e, p)
    OBVIOUS
  <1>2. Loaded[d][e][p] = Load(env)
    BY <1>0, <1>1 DEF Loaded
  <1> DEFINE k == "OBJECT_STORE_USE_SSL"
  <1>3. /\ k \in DOMAIN Given(d, p) => k \in DOMAIN env /\ env[k] = Given(d, p)[k]
        /\ k \notin DOMAIN Given(d, p) => k \notin DOMAIN env
    BY <1>0, <1>1, Lookups
  <1>4. CASE d = "cloudrun"
    <2>1. k \in DOMAIN Given(d, p) /\ Given(d, p)[k] = "true"
      BY <1>0, <1>4 DEF Given, CloudRunEnv
    <2> QED
      BY <1>2, <1>3, <1>4, <2>1, Switch, Zenon
  <1>5. CASE d \in {"local", "compose"}
    <2>1. k \notin DOMAIN Given(d, p)
      BY <1>0, <1>5 DEF Given, ComposeEnv, Nothing
    <2>2. d # "cloudrun"
      BY <1>5
    <2> QED
      BY <1>2, <1>3, <2>1, <2>2, Switch, Zenon
  <1> QED
    BY <1>4, <1>5 DEF Deployments

\* The http server listens where its configuration has it, which no deployment sets.
LEMMA HTTPPort ==
  ASSUME NEW d \in Deployments, NEW e \in Settings
  PROVE  Loaded[d][e]["httpserver"].HTTPAddr = 8080
  <1>1. "httpserver" \in Programs
    BY ProgramKinds
  <1>2. PICK env : env = Env(d, e, "httpserver")
    OBVIOUS
  <1>3. Loaded[d][e]["httpserver"] = Load(env)
    BY <1>1, <1>2 DEF Loaded
  <1>4. "HTTP_ADDR" \notin DOMAIN Given(d, "httpserver")
    <2>1. CASE d = "local"
      BY <2>1 DEF Given, Nothing
    <2>2. CASE d = "compose"
      BY <2>2 DEF Given, ComposeEnv
    <2>3. CASE d = "cloudrun"
      BY <2>3 DEF Given, CloudRunEnv
    <2> QED
      BY <2>1, <2>2, <2>3 DEF Deployments
  <1>5. Getenv(env, "HTTP_ADDR", 8080) = 8080
    BY <1>1, <1>2, <1>4, Found
  <1> QED
    BY <1>3, <1>5, Fields

\* Where the server that a program dials listens.
LEMMA Listens ==
  ASSUME IInv, NEW s \in {"authservice", "imageservice"}
  PROVE  Listening(s) =
            CASE deployment = "local" -> [host |-> "localhost",
                                          port |-> IF s = "authservice" THEN 50052 ELSE 50051]
              [] deployment = "compose" -> [host |-> s,
                                            port |-> IF s = "authservice" THEN 50052 ELSE 50051]
              [] OTHER -> [host |-> s, port |-> 443]
  <1>1. s \in Programs /\ s \notin Workers /\ s # "httpserver"
    BY ProgramKinds
  <1>2. PICK env : env = Env(deployment, ensure, s)
    OBVIOUS
  <1>3. /\ "PORT" \in DOMAIN env <=> deployment = "cloudrun"
        /\ "PORT" \in DOMAIN env => env["PORT"] = 8080
    BY <1>1, <1>2, Lookups DEF IInv
  <1> QED
    BY <1>1, <1>2, <1>3 DEF Listening, ListenAddr, Getenv, CloudRunPort, IInv, Deployments

\* Reachable: in every deployment, programs dial the addresses that their peers
\* listen on, with tokens that these accept.
THEOREM AddressesAgree == Spec => []Reachable
  <1>1. ASSUME IInv PROVE Reachable
    <2>1. ASSUME NEW p \in {"httpserver"} \cup Workers, NEW callee,
                 callee = IF p = "httpserver" THEN "authservice" ELSE "imageservice"
          PROVE  DialTarget(Peer(p)) = Listening(callee) /\ Expects(callee, Peer(p))
      <3>1. p \in Clients /\ (p = "httpserver" <=> p \notin Workers)
        BY ProgramKinds DEF Clients
      <3>2. Addresses(deployment, p, Cfg(p))
        BY <1>1, <3>1, Configured DEF Cfg, IInv
      <3>3. callee \in {"authservice", "imageservice"}
        BY <2>1
      <3>4. \/ p = "httpserver" /\ callee = "authservice" /\ Peer(p) = Cfg(p).AuthServiceAddr
            \/ p \in Workers /\ callee = "imageservice" /\ Peer(p) = Cfg(p).ImageServiceAddr
        BY <2>1, <3>1 DEF Peer
      <3>5. CASE deployment = "local"
        <4>1. Peer(p) = HostPort("localhost", IF callee = "authservice" THEN 50052 ELSE 50051)
          BY <3>2, <3>3, <3>4, <3>5 DEF Addresses
        <4> QED
          BY <1>1, <3>3, <3>5, <4>1, Listens DEF DialTarget, IsCloudRun, Expects, HostPort
      <3>6. CASE deployment = "compose"
        <4>1. Peer(p) = HostPort(callee, IF callee = "authservice" THEN 50052 ELSE 50051)
          BY <3>2, <3>3, <3>4, <3>6 DEF Addresses
        <4> QED
          BY <1>1, <3>3, <3>6, <4>1, Listens DEF DialTarget, IsCloudRun, Expects, HostPort
      <3>7. CASE deployment = "cloudrun"
        <4>1. PICK path : Peer(p) = Url(callee, path)
          BY <3>2, <3>3, <3>4, <3>7 DEF Addresses
        <4>2. Audience(Peer(p)) = Url(callee, "none")
          <5>1. \A t, s : [[https |-> t, host |-> callee, port |-> 0, path |-> s] EXCEPT !.path = "none"]
                           = [https |-> t, host |-> callee, port |-> 0, path |-> "none"]
            OBVIOUS
          <5> QED
            BY <4>1, <5>1, Zenon DEF Audience, Url
        <4> QED
          BY <1>1, <3>3, <3>7, <4>1, <4>2, Listens DEF DialTarget, IsCloudRun, Expects, Url
      <3> QED
        BY <1>1, <3>5, <3>6, <3>7 DEF IInv, Deployments
    <2>2. deployment = "cloudrun" => Listening("httpserver").port = 443
      <3>1. Cfg("httpserver").HTTPAddr = 8080
        BY <1>1, HTTPPort DEF Cfg, IInv
      <3> QED
        BY <3>1 DEF Listening, CloudRunPort
    <2>3. StoreFromOutside = <<Cfg("httpserver").MinioPublicEndpoint,
                               Cfg("httpserver").ObjectStoreUseSSL>>
      <3>1. "httpserver" \in Clients
        BY DEF Clients
      <3>2. Cfg("httpserver").MinioPublicEndpoint = IF deployment = "cloudrun" THEN "gcs" ELSE "localhost:9000"
        BY <1>1, <3>1, Configured DEF Cfg, IInv, Addresses
      <3>3. Cfg("httpserver").ObjectStoreUseSSL = IF deployment = "cloudrun" THEN TRUE ELSE FALSE
        BY <1>1, <3>1, Secured DEF Cfg, IInv
      <3>4. CASE deployment = "cloudrun"
        BY <3>2, <3>3, <3>4, Zenon DEF StoreFromOutside
      <3>5. CASE deployment # "cloudrun"
        BY <3>2, <3>3, <3>5, Zenon DEF StoreFromOutside
      <3> QED
        BY <3>4, <3>5
    <2> QED
      BY <2>1, <2>2, <2>3 DEF Reachable
  <1> QED
    BY <1>1, Invariance, PTL

\* What a program calls is where its configuration says.
LEMMA CallsReach ==
  ASSUME IInv
  PROVE  /\ \A p \in Clients :
               /\ TemporalOptions(Cfg(p)) = TemporalAt
               /\ StoreAt = <<Cfg(p).MinioEndpoint, Cfg(p).ObjectStoreUseSSL>>
               /\ IsCloudRun(Peer(p)) <=> deployment = "cloudrun"
         /\ \A p \in Clients \cup {"authservice"} : Cfg(p).DatabaseURL = PostgresAt
  <1>0. Cfg("authservice").DatabaseURL = PostgresAt
    BY AuthConfigured DEF Cfg, Database, PostgresAt, IInv
  <1> SUFFICES ASSUME NEW p \in Clients
               PROVE  /\ TemporalOptions(Cfg(p)) = TemporalAt
                      /\ StoreAt = <<Cfg(p).MinioEndpoint, Cfg(p).ObjectStoreUseSSL>>
                      /\ IsCloudRun(Peer(p)) <=> deployment = "cloudrun"
                      /\ Cfg(p).DatabaseURL = PostgresAt
    BY <1>0
  <1>1. Addresses(deployment, p, Cfg(p)) /\ deployment \in Deployments
    BY Configured DEF Cfg, IInv
  <1>2. TemporalOptions(Cfg(p)) = TemporalAt
    <2>1. CASE deployment = "cloudrun"
      <3>1. Cfg(p).TemporalAddress = "temporalCloud" /\ Cfg(p).TemporalAPIKey = "key"
        BY <1>1, <2>1 DEF Addresses
      <3>2. (Cfg(p).TemporalAPIKey # "none") = TRUE
        BY <3>1
      <3> QED
        BY <2>1, <3>1, <3>2 DEF TemporalOptions, TemporalAt
    <2>2. CASE deployment \in {"local", "compose"}
      <3>1. Cfg(p).TemporalAddress = IF deployment = "local" THEN "localhost:7233"
                                     ELSE "temporal:7233"
        BY <1>1, <2>2 DEF Addresses
      <3>2. Cfg(p).TemporalAPIKey = "none" /\ (Cfg(p).TemporalAPIKey # "none") = FALSE
        BY <1>1, <2>2 DEF Addresses
      <3> QED
        BY <2>2, <3>1, <3>2 DEF TemporalOptions, TemporalAt
    <2> QED
      BY <1>1, <2>1, <2>2 DEF Deployments
  <1>3. Cfg(p).DatabaseURL = PostgresAt
    BY <1>1 DEF Addresses, Database, PostgresAt, Deployments
  <1>4. StoreAt = <<Cfg(p).MinioEndpoint, Cfg(p).ObjectStoreUseSSL>>
    <2>1. Cfg(p).ObjectStoreUseSSL = IF deployment = "cloudrun" THEN TRUE ELSE FALSE
      BY Secured DEF Cfg, IInv
    <2>2. CASE deployment = "cloudrun"
      <3>1. Cfg(p).MinioEndpoint = "gcs"
        BY <1>1, <2>2 DEF Addresses
      <3>2. StoreAt = <<"gcs", TRUE>>
        BY <2>2 DEF StoreAt
      <3>3. Cfg(p).ObjectStoreUseSSL = TRUE
        BY <2>1, <2>2, Zenon
      <3> QED
        BY <3>1, <3>2, <3>3, Zenon
    <2>3. CASE deployment = "compose"
      <3>1. Cfg(p).MinioEndpoint = "minio:9000"
        BY <1>1, <2>3 DEF Addresses
      <3>2. StoreAt = <<"minio:9000", FALSE>>
        BY <2>3 DEF StoreAt
      <3>3. Cfg(p).ObjectStoreUseSSL = FALSE
        BY <2>1, <2>3, Zenon
      <3> QED
        BY <3>1, <3>2, <3>3, Zenon
    <2>4. CASE deployment = "local"
      <3>1. Cfg(p).MinioEndpoint = "localhost:9000"
        BY <1>1, <2>4 DEF Addresses
      <3>2. StoreAt = <<"localhost:9000", FALSE>>
        BY <2>4 DEF StoreAt
      <3>3. Cfg(p).ObjectStoreUseSSL = FALSE
        BY <2>1, <2>4, Zenon
      <3> QED
        BY <3>1, <3>2, <3>3, Zenon
    <2> QED
      BY <1>1, <2>2, <2>3, <2>4 DEF Deployments
  <1>5. IsCloudRun(Peer(p)) <=> deployment = "cloudrun"
    BY <1>1, ProgramKinds DEF Addresses, Clients, Peer, IsCloudRun, HostPort, Url, Deployments
  <1> QED
    BY <1>2, <1>3, <1>4, <1>5

\* Why a program may exit.
Excused(p) ==
    \/ crashes' > crashes
    \/ at[p] \in Services(deployment) \ up
    \/ at[p] = "poll" /\ "temporal" \notin up
    \/ at[p] \in {"bucket", "make"} /\ "minio" \notin up
    \/ at[p] = "make" /\ bucket

\* No step ends a program without such a reason.
LEMMA StepExcused ==
  ASSUME IInv, [Next]_vars, NEW p \in Programs, at[p] # "exited", at'[p] = "exited"
  PROVE  Excused(p)
  <1>1. PICK q \in Programs : Run(q) \/ Crash(q)
    BY DEF Next, World, GiveUp, vars
  <1>2. q = p
    <2>1. \E s : at' = [at EXCEPT ![q] = s]
      BY <1>1 DEF Run, Start, Restart, Connect, BucketExists, MakeBucket, Crash, Exit, Goto
    <2> QED
      BY <2>1 DEF IInv
  <1>3. CASE Crash(p)
    BY <1>3 DEF Crash, Excused, IInv
  <1>4. CASE Start(p) \/ Restart(p)
    <2>1. Main(p).first # "exited"
      BY DEF Main, HttpserverMain, WorkerMain, AuthserviceMain, ImageserviceMain
    <2> QED
      BY <1>4, <2>1 DEF Start, Restart, Goto, IInv
  <1>5. CASE Connect(p)
    <2>1. at[p] \in {"temporal", "postgres", "credentials", "poll"} /\ at[p] \in Stations(p)
      BY <1>5 DEF Connect, IInv
    <2>2. CASE Reached(p)
      <3>1. Main(p)[at[p]] # "exited"
        BY <2>1, ProgramKinds DEF Main, HttpserverMain, WorkerMain, AuthserviceMain, Stations
      <3> QED
        BY <1>5, <2>2, <3>1 DEF Connect, Goto, IInv
    <2>3. CASE ~Reached(p)
      <3>1. CASE at[p] \in {"temporal", "poll"}
        <4>1. p \in Clients
          BY <2>1, <3>1, ProgramKinds DEF Stations, Clients
        <4> QED
          BY <2>3, <3>1, <4>1, CallsReach DEF Reached, Excused, Services
      <3>2. CASE at[p] = "postgres"
        <4>1. p \in Clients \/ p = "authservice"
          BY <2>1, <3>2, ProgramKinds DEF Stations, Clients
        <4> QED
          BY <2>3, <3>2, <4>1, CallsReach DEF Reached, Excused, Services
      <3>3. CASE at[p] = "credentials"
        <4>1. p \in Clients
          BY <2>1, <3>3, ProgramKinds DEF Stations, Clients
        <4> QED
          BY <2>3, <3>3, <4>1, CallsReach DEF Reached, Excused, Services
      <3> QED
        BY <2>1, <3>1, <3>2, <3>3
    <2> QED
      BY <2>2, <2>3
  <1>6. CASE BucketExists(p) \/ MakeBucket(p)
    <2>1. at[p] \in {"bucket", "make"} /\ at[p] \in Stations(p)
      BY <1>6 DEF BucketExists, MakeBucket, IInv
    <2>2. Main(p)["bucket"] # "exited"
      BY <2>1, ProgramKinds DEF Main, HttpserverMain, WorkerMain, Stations
    <2>3. StoreReached(p) <=> "minio" \in up
      <3>1. p \in Clients
        BY <2>1, ProgramKinds DEF Stations, Clients
      <3> QED
        BY <3>1, CallsReach DEF StoreReached
    <2>4. CASE BucketExists(p)
      BY <2>2, <2>3, <2>4 DEF BucketExists, Goto, Excused, IInv
    <2>5. CASE MakeBucket(p)
      BY <2>2, <2>3, <2>5 DEF MakeBucket, Goto, Excused, IInv
    <2> QED
      BY <1>6, <2>4, <2>5
  <1> QED
    BY <1>1, <1>2, <1>3, <1>4, <1>5, <1>6 DEF Run

\* OnlyOutagesKill: the configuration is never the reason why a program exits.
THEOREM OutagesKill == Spec => OnlyOutagesKill
  <1> DEFINE A == \A p \in Programs : at[p] # "exited" /\ at'[p] = "exited" => Excused(p)
  <1>1. IInv /\ [Next]_vars => A
    BY StepExcused
  <1>2. OnlyOutagesKill <=> [][A]_vars
    BY PTL DEF OnlyOutagesKill, Excused
  <1> QED
    BY <1>1, <1>2, Invariance, PTL DEF Spec
=============================================================================
