------------------------------- MODULE Config -------------------------------
(***************************************************************************)
(* What the programs make of their environment: internal/config, the gRPC  *)
(* addresses of internal/grpcauth and the options of                       *)
(* internal/temporalclient.  An environment is a function from the names   *)
(* of the variables that are set and not empty.  Secrets and names that    *)
(* both sides of a connection merely share are left out.                   *)
(***************************************************************************)
EXTENDS Naturals

\* host:port, or the URL of a Cloud Run service, with or without a final slash.
HostPort(h, p) == [https |-> FALSE, host |-> h, port |-> p, path |-> "none"]
Url(h, s) == [https |-> TRUE, host |-> h, port |-> 0, path |-> s]

Getenv(env, k, fallback) == IF k \in DOMAIN env THEN env[k] ELSE fallback

\* "true" and "false" stand for all the spellings of them that ParseBool takes.
GetenvBool(env, k, fallback) ==
    IF k \in DOMAIN env /\ env[k] \in {"true", "false"} THEN env[k] = "true" ELSE fallback

\* A list is the set of its entries, trimmed; "" is a blank one.
GetenvList(env, k, fallback) ==
    LET entries == Getenv(env, k, fallback) \ {""} IN
    IF entries = {} THEN fallback ELSE entries

\* The port that a gRPC server listens on.
ListenAddr(env, fallback) == Getenv(env, "PORT", fallback)

Load(env) ==
    [HTTPAddr |-> Getenv(env, "HTTP_ADDR", 8080),
     ImageServiceAddr |-> Getenv(env, "IMAGE_SERVICE_ADDR", HostPort("localhost", 50051)),
     AuthServiceAddr |-> Getenv(env, "AUTH_SERVICE_ADDR", HostPort("localhost", 50052)),
     DatabaseURL |-> Getenv(env, "DATABASE_URL", "localhost:5432"),
     TemporalAddress |-> Getenv(env, "TEMPORAL_ADDRESS", "localhost:7233"),
     TemporalAPIKey |-> Getenv(env, "TEMPORAL_API_KEY", "none"),
     CORSAllowedOrigins |-> GetenvList(env, "CORS_ALLOWED_ORIGINS", {"*"}),
     MinioEndpoint |-> Getenv(env, "MINIO_ENDPOINT", "localhost:9000"),
     MinioPublicEndpoint |-> Getenv(env, "MINIO_PUBLIC_ENDPOINT", "localhost:9000"),
     ObjectStoreUseSSL |-> GetenvBool(env, "OBJECT_STORE_USE_SSL", FALSE),
     ObjectStoreEnsureBucket |-> GetenvBool(env, "OBJECT_STORE_ENSURE_BUCKET", TRUE)]

IsCloudRun(addr) == addr.https

\* Mutant: the implicit port is forgotten.
BugDialTarget(addr) == [host |-> addr.host, port |-> addr.port]

DialTarget(addr) == [host |-> addr.host, port |-> IF IsCloudRun(addr) THEN 443 ELSE addr.port]

\* What Dial asks ID tokens for, and what the front end of a service expects.
Audience(addr) == [addr EXCEPT !.path = "none"]

\* Mutant: an API key, and plain text.
BugTemporalOptions(cfg) ==
    [HostPort |-> cfg.TemporalAddress, key |-> cfg.TemporalAPIKey, tls |-> FALSE]

TemporalOptions(cfg) ==
    [HostPort |-> cfg.TemporalAddress, key |-> cfg.TemporalAPIKey,
     tls |-> cfg.TemporalAPIKey # "none"]
=============================================================================
